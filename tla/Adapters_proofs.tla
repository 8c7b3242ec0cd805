--------------------------- MODULE Adapters_proofs ---------------------------
(***************************************************************************)
(* What the clients of a listed table can rely on, for any number of       *)
(* clients, owners, keys, contents and rows and for any page: a cleared    *)
(* page is empty, a popped message is nobody else's, a second row of a key *)
(* is one that its mset() could not have updated, and a row changes only   *)
(* by calls that reach it.                                                 *)
(***************************************************************************)
EXTENDS Adapters, FiniteSetTheorems, WellFoundedInduction, TLAPS

\* A set of numbers that is not empty has a least one ...
LEMMA LeastElement ==
    ASSUME NEW T \in SUBSET Nat, T # {}
    PROVE  \E n \in T : \A m \in T : n <= m
<1> DEFINE R == {ss \in Nat \X Nat : ss[1] < ss[2]}
<1>1. IsWellFoundedOn(R, Nat)
  BY NatLessThanWellFounded DEF OpToRel
<1>2. PICK n \in T : \A m \in T : <<m, n>> \notin R
  <2>. HIDE DEF R
  <2>. QED BY <1>1, WFMin
<1>3. \A m \in T : ~(m < n)
  BY <1>2
<1>. QED BY <1>2, <1>3

\* ... and, if it has a bound, a greatest one.
LEMMA GreatestElement ==
    ASSUME NEW n \in Nat, NEW S \in SUBSET (0..n), S # {}
    PROVE  \E a \in S : \A b \in S : b <= a
<1> DEFINE gaps == {g \in 0..n : n - g \in S}
<1>1. \A b \in S : n - b \in gaps
  OBVIOUS
<1>2. PICK g \in gaps : \A h \in gaps : g <= h
  <2>1. gaps \subseteq Nat
    OBVIOUS
  <2>2. gaps # {}
    BY <1>1
  <2>. HIDE DEF gaps
  <2>. QED BY <2>1, <2>2, LeastElement
<1>3. n - g \in S /\ \A b \in S : b <= n - g
  BY <1>1, <1>2
<1>. QED BY <1>3

LEMMA NewestFacts ==
    ASSUME NEW n \in Nat, NEW S \in SUBSET (0..n), S # {}
    PROVE  Newest(S) \in S /\ \A b \in S : b <= Newest(S)
  BY GreatestElement DEF Newest

-----------------------------------------------------------------------------
Labels == {"idle", "create", "insert", "forget", "remove", "update"}
Kinds == {"none", "add", "clear", "pop", "delete", "mset", "fallback", "identity", "mdelete"}
Call == [kind : Kinds, scope : Scopes, key : Keys \cup {NoKey},
         content : Contents \cup {NoContent}]

Typed == /\ TypeOK
         /\ pc \in [Clients -> Labels] /\ op \in [Clients -> Call]

\* What create() is about to insert is not there yet.
Drafting(c) == pc[c] = "insert" => draft[c] \notin DOMAIN rows

\* What a call is about to forget is, or was, a row it reaches.
Reading(c) ==
    pc[c] = "remove" => held[c] \in DOMAIN rows /\ Reaches(op[c].scope, held[c])

\* A clear has still to forget what it saw, or it is gone.
Clearing(c) ==
    pc[c] = "forget" =>
        /\ \A a \in todo[c] : a \in DOMAIN rows /\ Reaches(op[c].scope, a)
        /\ \A a \in saw[c] : a \in DOMAIN rows /\ (a \in todo[c] \/ rows[a].deleted)

\* A pop_item() has not listed what had been returned before.
Popping(c) == pc[c] = "remove" /\ op[c].kind = "pop" => held[c] \notin takenAt[c]

\* An mset() that creates a row has missed all that there are of its key.
Missing(c) ==
    dedups /\ Setting(c) /\ pc[c] # "update" =>
        RowsOfKey(op[c].scope, op[c].key) \subseteq missed[c]

\* The row of a call whose key has been looked up.
Found(c) == \/ pc[c] = "update" /\ op[c].kind # "identity"
            \/ pc[c] = "remove" /\ op[c].kind = "mdelete"

\* While nobody commits, a new row is the newest, a row that was found would be
\* found again, and a key that was not found would not.
Undisturbed(c) ==
    c \in quiet =>
        /\ pc[c] = "insert" => \A a \in DOMAIN rows : a < draft[c]
        /\ Found(c) => held[c] # 0 /\ held[c] = FindByKey(op[c].scope, op[c].key)
        /\ pc[c] = "create" /\ op[c].kind = "mset" => FindByKey(op[c].scope, op[c].key) = 0

\* A session that writes has a message to write.
Queued(c) == ~dedups /\ pc[c] \in {"create", "insert"} => queue[c] # 0

Own(c) == /\ Drafting(c) /\ Reading(c) /\ Clearing(c) /\ Popping(c)
          /\ Missing(c) /\ Undisturbed(c) /\ Queued(c)

\* Two clients never insert a row of one stamp.
StampsDiffer ==
    \A c \in Clients : \A d \in Clients \ {c} :
        pc[c] = "insert" /\ pc[d] = "insert" => draft[c] # draft[d]

\* What pop_item() has returned is forgotten.
TakenGone == \A a \in taken : a \in DOMAIN rows /\ rows[a].deleted

IInv == /\ Typed /\ StampsDiffer /\ TakenGone /\ OneRowPerKey
        /\ \A c \in Clients : Own(c)

-----------------------------------------------------------------------------
\* Rows are added, changed in their content and forgotten, and no more.
RowsGrow == \A a \in DOMAIN rows :
               /\ a \in DOMAIN rows'
               /\ rows'[a].owner = rows[a].owner /\ rows'[a].key = rows[a].key
               /\ rows[a].deleted => rows'[a].deleted

\* Nothing of client d changes.
Rests(d) == /\ pc'[d] = pc[d] /\ op'[d] = op[d] /\ held'[d] = held[d]
            /\ draft'[d] = draft[d] /\ saw'[d] = saw[d]
            /\ queue'[d] = queue[d] /\ todo'[d] = todo[d] /\ takenAt'[d] = takenAt[d]

\* What the other clients have missed stays as it is.
OthersMissed(c) ==
    /\ basis' = basis /\ missed' \in [Clients -> SUBSET Stamps]
    /\ \A d \in Clients \ {c} : missed'[d] = missed[d]

\* The others miss what they have missed, and the row of their key that comes in.
KeepsHistory(c) ==
    /\ KeyValueTypeOK' /\ OneRowPerKey'
    /\ \A d \in Clients \ {c} : dedups /\ Setting(d) =>
          /\ missed[d] \subseteq missed'[d]
          /\ \A a \in DOMAIN rows' \ DOMAIN rows : rows'[a].key = op[d].key
                                                   => a \in missed'[d]

LEMMA SameHistory ==
    ASSUME Typed, NEW c \in Clients, UNCHANGED keyValueVars
    PROVE  OthersMissed(c)
  BY DEF Typed, TypeOK, KeyValueTypeOK, keyValueVars, OthersMissed

\* Rows that are changed, or forgotten, explain no less than before.
LEMMA HistoryFrame ==
    ASSUME IInv, NEW c \in Clients, OthersMissed(c), RowsGrow,
           DOMAIN rows' = DOMAIN rows \/ ~dedups
    PROVE  KeepsHistory(c)
<1>1. DOMAIN basis \subseteq DOMAIN rows /\ DOMAIN rows \subseteq DOMAIN rows'
  BY DEF IInv, Typed, TypeOK, KeyValueTypeOK, RowsGrow
<1>2. KeyValueTypeOK'
  BY <1>1 DEF OthersMissed, KeyValueTypeOK
<1>3. \A a \in DOMAIN basis : /\ Live(a)' => Live(a)
                              /\ rows'[a].owner = rows[a].owner /\ rows'[a].key = rows[a].key
  BY <1>1 DEF RowsGrow, Live
<1>4. OneRowPerKey'
  BY <1>3 DEF IInv, OneRowPerKey, OthersMissed
<1>. QED BY <1>2, <1>4 DEF OthersMissed, KeepsHistory

\* The rows of one page are found whatever else changes.
LEMMA SameFound ==
    ASSUME rows' = rows, NEW s, NEW k
    PROVE  FindByKey(s, k)' = FindByKey(s, k)
  BY DEF FindByKey, ListAll, Visible, Live, Reaches, Newest

\* A client that does not move keeps what the invariant says of it.
LEMMA RestKeeps ==
    ASSUME Typed, NEW d \in Clients, Own(d), Rests(d), RowsGrow, dedups' = dedups,
           pc[d] = "insert" => draft[d] \notin DOMAIN rows',
           quiet' = {} \/ (rows' = rows /\ (d \in quiet' => d \in quiet)),
           NEW c \in Clients \ {d}, KeepsHistory(c)
    PROVE  Own(d)'
<1>1. Drafting(d)' /\ Popping(d)' /\ Queued(d)'
  BY DEF Own, Rests, Drafting, Popping, Queued
<1>2. Reading(d)'
  BY DEF Own, Rests, Reading, Reaches, RowsGrow
<1>3. Clearing(d)'
  BY DEF Own, Rests, Clearing, Reaches, RowsGrow
<1>4. Undisturbed(d)'
  <2>1. CASE quiet' = {}
    BY <2>1 DEF Undisturbed
  <2>2. CASE rows' = rows /\ (d \in quiet' => d \in quiet)
    <3>1. FindByKey(op[d].scope, op[d].key)' = FindByKey(op[d].scope, op[d].key)
      BY <2>2 DEF Rests, FindByKey, ListAll, Visible, Live, Reaches, Newest
    <3>. QED BY <2>2, <3>1 DEF Own, Rests, Undisturbed, Found
  <2>. QED BY <2>1, <2>2
<1>5. Missing(d)'
  <2>. SUFFICES ASSUME dedups, Setting(d), pc[d] # "update",
                       NEW a \in RowsOfKey(op[d].scope, op[d].key)'
                PROVE  a \in missed'[d]
    BY DEF Missing, Setting, Rests
  <2>1. a \in DOMAIN rows' /\ rows'[a].key = op[d].key
    BY DEF RowsOfKey, Visible, Live, Rests
  <2>2. CASE a \in DOMAIN rows
    <3>1. a \in RowsOfKey(op[d].scope, op[d].key)
      BY <2>2 DEF RowsOfKey, Visible, Live, Reaches, RowsGrow, Rests
    <3>. QED BY <3>1 DEF Own, Missing, KeepsHistory
  <2>3. CASE a \notin DOMAIN rows
    BY <2>1, <2>3 DEF KeepsHistory
  <2>. QED BY <2>2, <2>3
<1>. QED BY <1>1, <1>2, <1>3, <1>4, <1>5 DEF Own

\* What the step of one client has to keep.
LEMMA OneMoves ==
    ASSUME IInv, Typed', NEW c \in Clients, RowsGrow, dedups' = dedups,
           \A d \in Clients \ {c} : Rests(d),
           DOMAIN rows' \subseteq DOMAIN rows \cup (IF pc[c] = "insert" THEN {draft[c]} ELSE {}),
           quiet' = {} \/ (rows' = rows /\ quiet' \subseteq quiet \cup {c}),
           pc'[c] = "insert" => \A d \in Clients \ {c} : pc[d] = "insert" => draft[d] # draft'[c],
           Own(c)', TakenGone', KeepsHistory(c)
    PROVE  IInv'
<1>1. ASSUME NEW d \in Clients \ {c} PROVE Own(d)'
  <2>1. pc[d] = "insert" => draft[d] \notin DOMAIN rows'
    BY DEF IInv, Own, Drafting, StampsDiffer
  <2>2. Own(d) /\ Typed
    BY DEF IInv
  <2>. QED BY <2>1, <2>2, RestKeeps
<1>2. StampsDiffer'
  BY DEF IInv, StampsDiffer, Rests
<1>3. OneRowPerKey'
  BY DEF KeepsHistory
<1>. QED BY <1>1, <1>2, <1>3 DEF IInv

\* A client whose call has ended has nothing to keep.
LEMMA IdleKeeps ==
    ASSUME NEW c \in Clients, pc'[c] = "idle"
    PROVE  Own(c)'
  BY DEF Own, Drafting, Reading, Clearing, Popping, Missing, Setting, Undisturbed, Found, Queued

\* What Begin() assigns.
LEMMA BeginFacts ==
    ASSUME Typed, NEW c \in Clients, NEW o, NEW read, NEW label,
           o \in Call, read \in 0..clock, label \in Labels \ {"insert"},
           Begin(c, o, read, label), dedups' = dedups
    PROVE  /\ ListingTypeOK'
           /\ pc' \in [Clients -> Labels] /\ op' \in [Clients -> Call]
           /\ pc'[c] = label /\ op'[c] = o /\ held'[c] = read
           /\ pc[c] = "idle" /\ draft'[c] = draft[c]
           /\ \A d \in Clients \ {c} : /\ pc'[d] = pc[d] /\ op'[d] = op[d]
                                       /\ held'[d] = held[d] /\ draft'[d] = draft[d]
                                       /\ saw'[d] = saw[d]
           /\ saw'[c] \subseteq ListAll(o.scope, PageLimit)
           /\ RowsGrow /\ rows' = rows /\ quiet' = quiet \cup {c}
<1>1. /\ pc' = [pc EXCEPT ![c] = label] /\ op' = [op EXCEPT ![c] = o]
      /\ held' = [held EXCEPT ![c] = read] /\ quiet' = quiet \cup {c}
      /\ rows' = rows /\ clock' = clock /\ draft' = draft /\ stale' = stale
      /\ pc[c] = "idle"
  BY DEF Begin
<1>2. /\ pc' \in [Clients -> Labels] /\ op' \in [Clients -> Call]
      /\ pc'[c] = label /\ op'[c] = o
      /\ \A d \in Clients \ {c} : pc'[d] = pc[d] /\ op'[d] = op[d]
  BY <1>1 DEF Typed
<1>3. /\ held' \in [Clients -> 0..clock] /\ held'[c] = read
      /\ \A d \in Clients \ {c} : held'[d] = held[d]
  BY <1>1 DEF Typed, TypeOK, ListingTypeOK
<1>4. /\ saw' \in [Clients -> SUBSET Stamps] /\ saw'[c] \subseteq ListAll(o.scope, PageLimit)
      /\ \A d \in Clients \ {c} : saw'[d] = saw[d]
  <2> DEFINE page == IF o.kind = "clear" THEN ListAll(o.scope, PageLimit) ELSE {}
  <2>1. page \subseteq DOMAIN rows
    BY DEF ListAll, Visible
  <2>2. DOMAIN rows \subseteq Stamps
    BY ListingAssumption DEF Typed, TypeOK, ListingTypeOK, Stamps
  <2>3. saw' = [saw EXCEPT ![c] = page]
    BY DEF Begin
  <2>. HIDE DEF page
  <2>4. saw \in [Clients -> SUBSET Stamps]
    BY DEF Typed, TypeOK, ListingTypeOK
  <2>5. /\ saw' \in [Clients -> SUBSET Stamps] /\ saw'[c] = page
        /\ \A d \in Clients \ {c} : saw'[d] = saw[d]
    BY <2>1, <2>2, <2>3, <2>4
  <2>. QED BY <2>5 DEF page
<1>5. ListingTypeOK'
  <2>1. \A d \in Clients : draft[d] # 0 <=> pc'[d] = "insert"
    BY <1>1, <1>2 DEF Typed, TypeOK, ListingTypeOK
  <2>2. DOMAIN pc' = Clients /\ DOMAIN op' = Clients
    BY <1>2
  <2>3. saw' \in [Clients -> SUBSET Stamps]
    BY <1>4
  <2>. QED BY <1>1, <1>3, <2>1, <2>2, <2>3 DEF Typed, TypeOK, ListingTypeOK
<1>. QED BY <1>1, <1>2, <1>3, <1>4, <1>5 DEF RowsGrow

\* What End() assigns.
LEMMA EndFacts ==
    ASSUME Typed, NEW c \in Clients, End(c)
    PROVE  /\ pc' \in [Clients -> Labels] /\ op' \in [Clients -> Call]
           /\ held' \in [Clients -> 0..clock] /\ draft' \in [Clients -> 0..clock]
           /\ saw' \in [Clients -> SUBSET Stamps]
           /\ \A d \in Clients : draft'[d] # 0 <=> pc'[d] = "insert"
           /\ pc'[c] = "idle"
           /\ \A d \in Clients \ {c} : /\ pc'[d] = pc[d] /\ op'[d] = op[d]
                                       /\ held'[d] = held[d] /\ draft'[d] = draft[d]
                                       /\ saw'[d] = saw[d]
<1>1. /\ pc' = [pc EXCEPT ![c] = "idle"] /\ op' = [op EXCEPT ![c] = NoOp]
      /\ held' = [held EXCEPT ![c] = 0] /\ draft' = [draft EXCEPT ![c] = 0]
      /\ saw' = [saw EXCEPT ![c] = {}]
  BY DEF End
<1>2. NoOp \in Call
  BY DEF NoOp, Op, Call, Kinds, Scopes
<1>3. 0 \in 0..clock
  BY DEF Typed, TypeOK, ListingTypeOK
<1>4. /\ pc' \in [Clients -> Labels] /\ op' \in [Clients -> Call] /\ pc'[c] = "idle"
      /\ \A d \in Clients \ {c} : pc'[d] = pc[d] /\ op'[d] = op[d]
  BY <1>1, <1>2 DEF Typed, Labels
<1>5. /\ held' \in [Clients -> 0..clock] /\ draft' \in [Clients -> 0..clock]
      /\ saw' \in [Clients -> SUBSET Stamps] /\ draft'[c] = 0
      /\ \A d \in Clients \ {c} : /\ held'[d] = held[d] /\ draft'[d] = draft[d]
                                  /\ saw'[d] = saw[d]
  BY <1>1, <1>3 DEF Typed, TypeOK, ListingTypeOK
<1>6. \A d \in Clients : draft'[d] # 0 <=> pc'[d] = "insert"
  BY <1>4, <1>5 DEF Typed, TypeOK, ListingTypeOK
<1>. QED BY <1>4, <1>5, <1>6

\* What forget() does to the table.
LEMMA ForgetFacts ==
    ASSUME Typed, NEW c \in Clients, NEW a, Forget(c, a)
    PROVE  /\ DOMAIN rows' = DOMAIN rows /\ \A b \in DOMAIN rows : rows'[b] \in Row
           /\ RowsGrow /\ stale' \subseteq Clients /\ quiet' \subseteq Clients
           /\ quiet' = {} \/ (rows' = rows /\ quiet' \subseteq quiet)
           /\ a \in DOMAIN rows /\ Reaches(op[c].scope, a) => rows'[a].deleted
           /\ \A b \in DOMAIN rows : rows'[b] # rows[b] => b = a /\ Reaches(op[c].scope, a)
           /\ Live(a) /\ Reaches(op[c].scope, a)
              => rows' = [rows EXCEPT ![a].deleted = TRUE]
<1>1. /\ \A b \in DOMAIN rows : rows[b] \in Row
      /\ stale \subseteq Clients /\ quiet \subseteq Clients
  BY DEF Typed, TypeOK, ListingTypeOK
<1>2. CASE Live(a) /\ Reaches(op[c].scope, a)
  <2>1. rows' = [rows EXCEPT ![a].deleted = TRUE] /\ Committed(c, a) /\ a \in DOMAIN rows
    BY <1>2 DEF Forget, Live
  <2>2. /\ rows[a] \in Row
        /\ rows'[a] = [rows[a] EXCEPT !.deleted = TRUE]
        /\ \A b \in DOMAIN rows : b # a => rows'[b] = rows[b]
    BY <1>1, <2>1
  <2>3. /\ rows'[a] \in Row /\ rows'[a].deleted
        /\ rows'[a].owner = rows[a].owner /\ rows'[a].key = rows[a].key
    BY <2>2 DEF Row
  <2>4. DOMAIN rows' = DOMAIN rows /\ RowsGrow
    BY <2>1, <2>2, <2>3 DEF RowsGrow
  <2>. QED BY <1>1, <1>2, <2>1, <2>2, <2>3, <2>4 DEF Committed
<1>3. CASE ~(Live(a) /\ Reaches(op[c].scope, a))
  <2>1. rows' = rows /\ Finished(c)
    BY <1>3 DEF Forget
  <2>2. a \in DOMAIN rows /\ Reaches(op[c].scope, a) => rows[a].deleted
    BY <1>1, <1>3 DEF Live, Row
  <2>. QED BY <1>1, <1>3, <2>1, <2>2 DEF Finished, RowsGrow
<1>. QED BY <1>2, <1>3

\* What the INSERT of create() does to the table.
LEMMA InsertFacts ==
    ASSUME IInv, NEW c \in Clients, Insert(c)
    PROVE  /\ pc[c] = "insert" /\ draft[c] \in 1..clock /\ draft[c] \notin DOMAIN rows
           /\ DOMAIN rows' = DOMAIN rows \cup {draft[c]}
           /\ \A a \in DOMAIN rows' : rows'[a] \in Row
           /\ \A a \in DOMAIN rows : rows'[a] = rows[a]
           /\ rows'[draft[c]] = [owner |-> op[c].scope, key |-> op[c].key,
                                 content |-> op[c].content, deleted |-> FALSE]
           /\ rows'[draft[c]].owner = op[c].scope /\ rows'[draft[c]].key = op[c].key
           /\ RowsGrow /\ stale' \subseteq Clients /\ quiet' = {} /\ clock' = clock
<1>1. /\ pc[c] = "insert" /\ Committed(c, draft[c]) /\ clock' = clock
      /\ rows' = [a \in DOMAIN rows \cup {draft[c]} |->
                    IF a # draft[c] THEN rows[a]
                    ELSE [owner |-> op[c].scope, key |-> op[c].key,
                          content |-> op[c].content, deleted |-> FALSE]]
  BY DEF Insert
<1>2. draft[c] \in 1..clock /\ draft[c] \notin DOMAIN rows
  BY <1>1 DEF IInv, Typed, TypeOK, ListingTypeOK, Own, Drafting
<1>3. /\ DOMAIN rows' = DOMAIN rows \cup {draft[c]}
      /\ \A a \in DOMAIN rows : rows'[a] = rows[a]
      /\ rows'[draft[c]] = [owner |-> op[c].scope, key |-> op[c].key,
                            content |-> op[c].content, deleted |-> FALSE]
  BY <1>1, <1>2
<1>4. rows'[draft[c]] \in Row
  BY <1>3 DEF IInv, Typed, Call, Row
<1>5. \A a \in DOMAIN rows' : rows'[a] \in Row
  BY <1>3, <1>4 DEF IInv, Typed, TypeOK, ListingTypeOK
<1>6. stale' \subseteq Clients /\ quiet' = {}
  BY <1>1 DEF Committed, IInv, Typed, TypeOK, ListingTypeOK
<1>7. rows'[draft[c]].owner = op[c].scope /\ rows'[draft[c]].key = op[c].key
  BY <1>3
<1>. QED BY <1>1, <1>2, <1>3, <1>5, <1>6, <1>7 DEF RowsGrow

-----------------------------------------------------------------------------
\* What a client begins keeps the invariant if it does so for the client.
LEMMA BeginKeeps ==
    ASSUME IInv, NEW c \in Clients, NEW o, NEW read, NEW label,
           o \in Call, read \in 0..clock, label \in Labels \ {"insert"},
           Begin(c, o, read, label), dedups' = dedups,
           SessionTypeOK', taken' = taken, OthersMissed(c),
           \A d \in Clients \ {c} : /\ queue'[d] = queue[d] /\ todo'[d] = todo[d]
                                    /\ takenAt'[d] = takenAt[d],
           Own(c)'
    PROVE  IInv'
<1>1. Typed
  BY DEF IInv
<1>2. /\ ListingTypeOK'
      /\ pc' \in [Clients -> Labels] /\ op' \in [Clients -> Call]
      /\ pc'[c] = label
      /\ \A d \in Clients \ {c} : /\ pc'[d] = pc[d] /\ op'[d] = op[d]
                                  /\ held'[d] = held[d] /\ draft'[d] = draft[d]
                                  /\ saw'[d] = saw[d]
      /\ RowsGrow /\ rows' = rows /\ quiet' = quiet \cup {c}
  BY <1>1, BeginFacts
<1>3. KeepsHistory(c)
  BY <1>2, HistoryFrame
<1>4. Typed' /\ TakenGone' /\ \A d \in Clients \ {c} : Rests(d)
  BY <1>2, <1>3 DEF Typed, TypeOK, KeepsHistory, Rests, IInv, TakenGone
<1>. QED BY <1>2, <1>3, <1>4, OneMoves

\* So does a step that ends a call.
LEMMA EndKeeps ==
    ASSUME IInv, NEW c \in Clients, End(c), dedups' = dedups, clock' = clock,
           DOMAIN rows' \subseteq DOMAIN rows \cup (IF pc[c] = "insert" THEN {draft[c]} ELSE {}),
           \A a \in DOMAIN rows' : rows'[a] \in Row, RowsGrow,
           stale' \subseteq Clients,
           quiet' = {} \/ (rows' = rows /\ quiet' \subseteq quiet),
           SessionTypeOK', TakenGone', KeepsHistory(c),
           \A d \in Clients \ {c} : /\ queue'[d] = queue[d] /\ todo'[d] = todo[d]
                                    /\ takenAt'[d] = takenAt[d]
    PROVE  IInv'
<1>1. Typed
  BY DEF IInv
<1>2. /\ pc' \in [Clients -> Labels] /\ op' \in [Clients -> Call]
      /\ held' \in [Clients -> 0..clock] /\ draft' \in [Clients -> 0..clock]
      /\ saw' \in [Clients -> SUBSET Stamps]
      /\ \A d \in Clients : draft'[d] # 0 <=> pc'[d] = "insert"
      /\ pc'[c] = "idle"
      /\ \A d \in Clients \ {c} : /\ pc'[d] = pc[d] /\ op'[d] = op[d]
                                  /\ held'[d] = held[d] /\ draft'[d] = draft[d]
                                  /\ saw'[d] = saw[d]
  BY <1>1, EndFacts
<1>3. DOMAIN rows' \subseteq 1..clock
  BY <1>1 DEF Typed, TypeOK, ListingTypeOK
<1>4. quiet' \subseteq Clients
  BY <1>1 DEF Typed, TypeOK, ListingTypeOK
<1>5. Typed'
  BY <1>1, <1>2, <1>3, <1>4 DEF Typed, TypeOK, ListingTypeOK, KeepsHistory
<1>6. Own(c)' /\ \A d \in Clients \ {c} : Rests(d)
  BY <1>2, IdleKeeps DEF Rests
<1>. QED BY <1>2, <1>5, <1>6, OneMoves

LEMMA OpType ==
    ASSUME NEW kind \in Kinds, NEW s \in Scopes, NEW k \in Keys \cup {NoKey},
           NEW x \in Contents \cup {NoContent}
    PROVE  /\ Op(kind, s, k, x) \in Call
           /\ Op(kind, s, k, x).kind = kind /\ Op(kind, s, k, x).scope = s
           /\ Op(kind, s, k, x).key = k /\ Op(kind, s, k, x).content = x
  BY DEF Op, Call

\* What is listed is live, and in reach of the scope that lists.
LEMMA ListedFacts ==
    ASSUME Typed, NEW s, NEW n, NEW a \in ListAll(s, n)
    PROVE  /\ a \in DOMAIN rows /\ a \in 1..clock /\ a \in Stamps
           /\ ~rows[a].deleted /\ Reaches(s, a)
  BY ListingAssumption
     DEF ListAll, Visible, Live, Typed, TypeOK, ListingTypeOK, Stamps

-----------------------------------------------------------------------------
\* The calls of a session.
LEMMA AddStep ==
    ASSUME IInv, NEW c \in Clients, NEW s \in Scopes, NEW n \in 1..MaxBatch,
           Add(c, s, n), dedups' = dedups, UNCHANGED keyValueVars
    PROVE  IInv'
<1> DEFINE o == Op("add", s, NoKey, NoContent)
<1>1. /\ Begin(c, o, 0, "create") /\ queue' = [queue EXCEPT ![c] = n]
      /\ UNCHANGED <<todo, taken, takenAt>>
  BY DEF Add
<1>2. /\ o \in Call /\ o.kind = "add" /\ o.key = NoKey
      /\ 0 \in 0..clock /\ "create" \in Labels \ {"insert"} /\ Typed
  BY OpType DEF Kinds, Labels, IInv, Typed, TypeOK, ListingTypeOK
<1>. HIDE DEF o
<1>3. SessionTypeOK' /\ queue'[c] = n
      /\ \A d \in Clients \ {c} : queue'[d] = queue[d]
  BY <1>1, <1>2, SessionAssumption DEF Typed, TypeOK, SessionTypeOK
<1>4. pc'[c] = "create" /\ op'[c] = o
  BY <1>1, <1>2, BeginFacts
<1>5. Own(c)'
  BY <1>2, <1>3, <1>4 DEF Own, Drafting, Reading, Clearing, Popping, Missing, Setting,
                          Undisturbed, Found, Queued
<1>. QED BY <1>1, <1>2, <1>3, <1>5, BeginKeeps, SameHistory

LEMMA ClearStep ==
    ASSUME IInv, NEW c \in Clients, NEW s \in Scopes,
           Clear(c, s), dedups' = dedups, UNCHANGED keyValueVars
    PROVE  IInv'
<1> DEFINE o == Op("clear", s, NoKey, NoContent)
<1>1. /\ Begin(c, o, 0, "forget") /\ todo' = [todo EXCEPT ![c] = ListAll(s, PageLimit)]
      /\ UNCHANGED <<queue, taken, takenAt>>
  BY DEF Clear
<1>2. /\ o \in Call /\ o.kind = "clear" /\ o.scope = s
      /\ 0 \in 0..clock /\ "forget" \in Labels \ {"insert"} /\ Typed
  BY OpType DEF Kinds, Labels, IInv, Typed, TypeOK, ListingTypeOK
<1>. HIDE DEF o
<1>3. /\ SessionTypeOK' /\ todo'[c] = ListAll(s, PageLimit)
      /\ \A d \in Clients \ {c} : todo'[d] = todo[d]
  <2>1. ListAll(s, PageLimit) \in SUBSET Stamps
    BY <1>2, ListedFacts
  <2>. QED BY <1>1, <1>2, <2>1 DEF Typed, TypeOK, SessionTypeOK
<1>4. /\ pc'[c] = "forget" /\ op'[c] = o /\ rows' = rows
      /\ saw'[c] \subseteq ListAll(s, PageLimit)
  BY <1>1, <1>2, BeginFacts
<1>5. Clearing(c)'
  <2>1. \A a \in ListAll(s, PageLimit) : a \in DOMAIN rows /\ Reaches(s, a)
    BY <1>2, ListedFacts
  <2>. QED BY <1>2, <1>3, <1>4, <2>1 DEF Clearing, Reaches
<1>6. Own(c)'
  BY <1>2, <1>4, <1>5 DEF Own, Drafting, Reading, Popping, Missing, Setting, Undisturbed, Found, Queued
<1>. QED BY <1>1, <1>2, <1>3, <1>6, BeginKeeps, SameHistory

LEMMA PopStep ==
    ASSUME IInv, NEW c \in Clients, NEW s \in Scopes,
           Pop(c, s), dedups' = dedups, UNCHANGED keyValueVars
    PROVE  IInv'
<1> DEFINE o == Op("pop", s, NoKey, NoContent)
<1>1. PICK a \in ListAll(s, 1) :
        /\ Begin(c, o, a, "remove") /\ takenAt' = [takenAt EXCEPT ![c] = taken]
        /\ UNCHANGED <<queue, todo, taken>>
  BY DEF Pop
<1>2. /\ o \in Call /\ o.kind = "pop" /\ o.scope = s
      /\ "remove" \in Labels \ {"insert"} /\ Typed
  BY OpType DEF Kinds, Labels, IInv
<1>. HIDE DEF o
<1>3. a \in DOMAIN rows /\ a \in 0..clock /\ ~rows[a].deleted /\ Reaches(s, a)
  BY <1>2, ListedFacts
<1>4. /\ SessionTypeOK' /\ takenAt'[c] = taken
      /\ \A d \in Clients \ {c} : takenAt'[d] = takenAt[d]
  BY <1>1, <1>2 DEF Typed, TypeOK, SessionTypeOK
<1>5. pc'[c] = "remove" /\ op'[c] = o /\ held'[c] = a /\ rows' = rows
  BY <1>1, <1>2, <1>3, BeginFacts
<1>6. Reading(c)' /\ Popping(c)'
  BY <1>2, <1>3, <1>4, <1>5 DEF Reading, Reaches, Popping, IInv, TakenGone
<1>7. Own(c)'
  BY <1>2, <1>5, <1>6 DEF Own, Drafting, Clearing, Missing, Setting, Undisturbed, Found, Queued
<1>. QED BY <1>1, <1>2, <1>3, <1>4, <1>7, BeginKeeps, SameHistory

\* Delete() by a session and by a store.
LEMMA DeleteStep ==
    ASSUME IInv, NEW c \in Clients, NEW s \in Scopes, NEW a \in Visible(s),
           Delete(c, s, a), UNCHANGED <<dedups, sessionVars, keyValueVars>>
    PROVE  IInv'
<1> DEFINE o == Op("delete", s, NoKey, NoContent)
<1>1. Begin(c, o, a, "remove")
  BY DEF Delete
<1>2. /\ o \in Call /\ o.kind = "delete" /\ o.scope = s
      /\ "remove" \in Labels \ {"insert"} /\ Typed
  BY OpType DEF Kinds, Labels, IInv
<1>. HIDE DEF o
<1>3. a \in DOMAIN rows /\ a \in 0..clock /\ Reaches(s, a)
  BY <1>2 DEF Visible, Live, Typed, TypeOK, ListingTypeOK
<1>4. UNCHANGED <<queue, todo, taken, takenAt>> /\ SessionTypeOK'
  BY <1>2 DEF sessionVars, Typed, TypeOK, SessionTypeOK
<1>5. pc'[c] = "remove" /\ op'[c] = o /\ held'[c] = a /\ rows' = rows
  BY <1>1, <1>2, <1>3, BeginFacts
<1>6. Reading(c)'
  BY <1>2, <1>3, <1>5 DEF Reading, Reaches
<1>7. Own(c)'
  BY <1>2, <1>5, <1>6 DEF Own, Drafting, Popping, Clearing, Missing, Setting, Undisturbed, Found, Queued
<1>. QED BY <1>1, <1>2, <1>3, <1>4, <1>7, BeginKeeps, SameHistory

\* The time that create() takes is after all that is committed.
LEMMA StampStep ==
    ASSUME IInv, NEW c \in Clients, Stamp(c), UNCHANGED <<dedups, sessionVars>>,
           OthersMissed(c), pc'[c] # "idle" => missed'[c] = missed[c]
    PROVE  IInv'
<1>1. /\ Typed /\ SessionTypeOK' /\ rows' = rows /\ pc[c] = "create" /\ clock < MaxRows
      /\ UNCHANGED <<queue, todo, taken, takenAt>>
  BY DEF Stamp, IInv, sessionVars, Typed, TypeOK, SessionTypeOK
<1>2. RowsGrow /\ TakenGone' /\ KeepsHistory(c)
  <2>1. RowsGrow /\ TakenGone'
    BY <1>1 DEF RowsGrow, IInv, TakenGone
  <2>. QED BY <1>1, <2>1, HistoryFrame
<1>3. CASE dedups /\ \E a \in Visible(op[c].scope) : rows[a].content = op[c].content
  <2>1. End(c) /\ Finished(c) /\ clock' = clock
    BY <1>3 DEF Stamp
  <2>2. /\ stale' \subseteq Clients /\ quiet' \subseteq quiet
        /\ \A a \in DOMAIN rows' : rows'[a] \in Row
    BY <1>1, <2>1 DEF Finished, Typed, TypeOK, ListingTypeOK
  <2>. QED BY <1>1, <1>2, <2>1, <2>2, EndKeeps
<1>4. CASE ~(dedups /\ \E a \in Visible(op[c].scope) : rows[a].content = op[c].content)
  <2>1. /\ clock' = clock + 1 /\ draft' = [draft EXCEPT ![c] = clock + 1]
        /\ pc' = [pc EXCEPT ![c] = "insert"] /\ UNCHANGED <<op, held, stale, quiet, saw>>
    BY <1>4 DEF Stamp
  <2>2. /\ clock \in Nat /\ clock' \in 0..MaxRows /\ 0..clock \subseteq 0..clock'
        /\ clock' \in 0..clock' /\ clock' # 0 /\ \A a \in DOMAIN rows : a \in 1..clock
    BY <1>1, <2>1, ListingAssumption DEF Typed, TypeOK, ListingTypeOK
  <2>3. /\ draft' \in [Clients -> 0..clock'] /\ draft'[c] = clock'
        /\ \A d \in Clients \ {c} : draft'[d] = draft[d] /\ draft[d] \in 0..clock
    BY <1>1, <2>1, <2>2 DEF Typed, TypeOK, ListingTypeOK
  <2>4. /\ pc' \in [Clients -> Labels] /\ pc'[c] = "insert"
        /\ \A d \in Clients \ {c} : pc'[d] = pc[d]
    BY <1>1, <2>1 DEF Typed, Labels
  <2>5. \A d \in Clients : draft'[d] # 0 <=> pc'[d] = "insert"
    BY <1>1, <2>2, <2>3, <2>4 DEF Typed, TypeOK, ListingTypeOK
  <2>6. held' \in [Clients -> 0..clock']
    BY <1>1, <2>1, <2>2 DEF Typed, TypeOK, ListingTypeOK
  <2>7. DOMAIN rows' \subseteq 1..clock'
    BY <1>1, <2>1, <2>2
  <2>8. Typed'
    BY <1>1, <1>2, <2>1, <2>2, <2>3, <2>4, <2>5, <2>6, <2>7
       DEF Typed, TypeOK, ListingTypeOK, KeepsHistory
  <2>9. clock' \notin DOMAIN rows /\ \A a \in DOMAIN rows : a < clock'
    BY <2>1, <2>2
  <2>10. Own(c)'
    <3>1. Drafting(c)' /\ Reading(c)' /\ Clearing(c)' /\ Popping(c)'
      BY <1>1, <2>3, <2>4, <2>9 DEF Drafting, Reading, Clearing, Popping
    <3>2. Undisturbed(c)'
      BY <1>1, <2>3, <2>4, <2>9 DEF Undisturbed, Found
    <3>3. Missing(c)'
      <4>1. RowsOfKey(op[c].scope, op[c].key)' = RowsOfKey(op[c].scope, op[c].key)
        BY <1>1, <2>1 DEF RowsOfKey, Visible, Live, Reaches
      <4>2. missed'[c] = missed[c] /\ (Setting(c)' => Setting(c))
        BY <1>1, <2>1, <2>4 DEF Setting
      <4>. QED BY <1>1, <4>1, <4>2 DEF IInv, Own, Missing
    <3>4. Queued(c)'
      BY <1>1, <2>1, <2>4 DEF IInv, Own, Queued
    <3>. QED BY <3>1, <3>2, <3>3, <3>4 DEF Own
  <2>11. \A d \in Clients \ {c} : Rests(d) /\ draft[d] # draft'[c]
    BY <1>1, <2>1, <2>2, <2>3, <2>4 DEF Rests
  <2>. QED BY <1>1, <1>2, <2>1, <2>8, <2>10, <2>11, OneMoves
<1>. QED BY <1>3, <1>4

\* Forgetting what was read, whatever forget() answers.
LEMMA RemoveStep ==
    ASSUME IInv, NEW c \in Clients, Remove(c), dedups' = dedups, OthersMissed(c),
           queue' = queue, todo' = todo,
           taken' = taken \/ taken' = taken \cup {held[c]},
           takenAt' \in [Clients -> SUBSET taken'],
           \A d \in Clients \ {c} : takenAt'[d] = takenAt[d]
    PROVE  IInv'
<1>1. /\ Typed /\ pc[c] = "remove" /\ Forget(c, held[c]) /\ End(c) /\ clock' = clock
  BY DEF Remove, IInv
<1>2. held[c] \in DOMAIN rows /\ Reaches(op[c].scope, held[c])
  BY <1>1 DEF IInv, Own, Reading
<1>3. /\ DOMAIN rows' = DOMAIN rows /\ \A b \in DOMAIN rows : rows'[b] \in Row
      /\ RowsGrow /\ stale' \subseteq Clients
      /\ quiet' = {} \/ (rows' = rows /\ quiet' \subseteq quiet)
      /\ rows'[held[c]].deleted
  BY <1>1, <1>2, ForgetFacts
<1>4. TakenGone' /\ KeepsHistory(c)
  BY <1>2, <1>3, HistoryFrame DEF IInv, TakenGone, RowsGrow
<1>5. SessionTypeOK'
  <2>1. held[c] \in Stamps
    BY <1>1, <1>2, ListingAssumption DEF Typed, TypeOK, ListingTypeOK, Stamps
  <2>. QED BY <1>1, <2>1 DEF Typed, TypeOK, SessionTypeOK
<1>. QED BY <1>1, <1>3, <1>4, <1>5, EndKeeps

\* A call that breaks off.
LEMMA BreakStep ==
    ASSUME IInv, NEW c \in Clients, Break(c), dedups' = dedups, OthersMissed(c), taken' = taken,
           SessionTypeOK',
           \A d \in Clients \ {c} : /\ queue'[d] = queue[d] /\ todo'[d] = todo[d]
                                    /\ takenAt'[d] = takenAt[d]
    PROVE  IInv'
<1>1. Typed /\ End(c) /\ Finished(c) /\ rows' = rows /\ clock' = clock
  BY DEF Break, IInv
<1>2. /\ stale' \subseteq Clients /\ quiet' \subseteq quiet
      /\ \A a \in DOMAIN rows' : rows'[a] \in Row
  BY <1>1 DEF Finished, Typed, TypeOK, ListingTypeOK
<1>3. RowsGrow /\ TakenGone'
  BY <1>1 DEF RowsGrow, IInv, TakenGone
<1>4. KeepsHistory(c)
  BY <1>1, <1>3, HistoryFrame
<1>. QED BY <1>1, <1>2, <1>3, <1>4, EndKeeps

LEMMA ForgetNextStep ==
    ASSUME IInv, NEW c \in Clients, ForgetNext(c), dedups' = dedups, UNCHANGED keyValueVars
    PROVE  IInv'
<1>1. /\ Typed /\ pc[c] = "forget" /\ clock' = clock
      /\ queue' = queue /\ taken' = taken /\ takenAt' = takenAt
  BY DEF ForgetNext, IInv
<1>2. CASE todo[c] = {}
  <2>1. End(c) /\ Finished(c) /\ rows' = rows /\ todo' = todo
    BY <1>2 DEF ForgetNext
  <2>2. /\ stale' \subseteq Clients /\ quiet' \subseteq quiet
        /\ \A a \in DOMAIN rows' : rows'[a] \in Row
    BY <1>1, <2>1 DEF Finished, Typed, TypeOK, ListingTypeOK
  <2>3. RowsGrow /\ TakenGone' /\ SessionTypeOK'
    BY <1>1, <2>1 DEF RowsGrow, IInv, TakenGone, Typed, TypeOK, SessionTypeOK
  <2>4. KeepsHistory(c)
    BY <1>1, <2>1, <2>3, SameHistory, HistoryFrame
  <2>. QED BY <1>1, <2>1, <2>2, <2>3, <2>4, EndKeeps
<1>3. CASE todo[c] # {}
  <2> DEFINE a == Newest(todo[c])
  <2>1. /\ Forget(c, a) /\ todo' = [todo EXCEPT ![c] = @ \ {a}]
        /\ UNCHANGED <<pc, op, held, draft, saw>>
    BY <1>3 DEF ForgetNext
  <2>2. /\ todo[c] \subseteq Stamps
        /\ \A b \in todo[c] : b \in DOMAIN rows /\ Reaches(op[c].scope, b)
        /\ \A b \in saw[c] : b \in DOMAIN rows /\ (b \in todo[c] \/ rows[b].deleted)
    BY <1>1 DEF IInv, Own, Clearing, Typed, TypeOK, SessionTypeOK
  <2>3. a \in todo[c]
    <3>1. todo[c] \subseteq 0..MaxRows /\ MaxRows \in Nat
      BY <2>2, ListingAssumption DEF Stamps
    <3>. QED BY <1>3, <3>1, NewestFacts
  <2>. HIDE DEF a
  <2>4. /\ DOMAIN rows' = DOMAIN rows /\ \A b \in DOMAIN rows : rows'[b] \in Row
        /\ RowsGrow /\ stale' \subseteq Clients /\ quiet' \subseteq Clients
        /\ quiet' = {} \/ (rows' = rows /\ quiet' \subseteq quiet)
        /\ rows'[a].deleted
    BY <1>1, <2>1, <2>2, <2>3, ForgetFacts
  <2>5. /\ SessionTypeOK' /\ todo'[c] = todo[c] \ {a}
        /\ \A d \in Clients \ {c} : todo'[d] = todo[d]
    BY <1>1, <2>1 DEF Typed, TypeOK, SessionTypeOK
  <2>9. TakenGone' /\ KeepsHistory(c)
    BY <1>1, <2>4, SameHistory, HistoryFrame DEF IInv, TakenGone, RowsGrow
  <2>6. Typed'
    BY <1>1, <2>1, <2>4, <2>5, <2>9 DEF Typed, TypeOK, ListingTypeOK, KeepsHistory
  <2>7. Clearing(c)'
    BY <2>1, <2>2, <2>4, <2>5 DEF Clearing, RowsGrow, Reaches
  <2>8. Own(c)'
    BY <1>1, <2>1, <2>7 DEF Own, Drafting, Reading, Popping, Missing, Setting, Undisturbed, Found, Queued
  <2>10. \A d \in Clients \ {c} : Rests(d)
    BY <1>1, <2>1, <2>5 DEF Rests
  <2>. QED BY <1>1, <2>1, <2>4, <2>6, <2>8, <2>9, <2>10, OneMoves
<1>. QED BY <1>2, <1>3

LEMMA InsertMessageStep ==
    ASSUME IInv, NEW c \in Clients, InsertMessage(c), ~dedups, dedups' = dedups, UNCHANGED keyValueVars
    PROVE  IInv'
<1>1. /\ Typed /\ Insert(c) /\ queue' = [queue EXCEPT ![c] = @ - 1]
      /\ UNCHANGED <<todo, taken, takenAt>>
  BY DEF InsertMessage, IInv
<1>2. /\ pc[c] = "insert" /\ draft[c] \in 1..clock
      /\ DOMAIN rows' = DOMAIN rows \cup {draft[c]}
      /\ \A a \in DOMAIN rows' : rows'[a] \in Row
      /\ \A a \in DOMAIN rows : rows'[a] = rows[a]
      /\ RowsGrow /\ stale' \subseteq Clients /\ quiet' = {} /\ clock' = clock
  BY <1>1, InsertFacts
<1>3. queue[c] \in 1..MaxBatch
  BY <1>1, <1>2, SessionAssumption DEF IInv, Own, Queued, Typed, TypeOK, SessionTypeOK
<1>4. /\ SessionTypeOK' /\ queue'[c] = queue[c] - 1
      /\ \A d \in Clients \ {c} : queue'[d] = queue[d]
  BY <1>1, <1>3, SessionAssumption DEF Typed, TypeOK, SessionTypeOK
<1>5. TakenGone' /\ KeepsHistory(c)
  BY <1>1, <1>2, SameHistory, HistoryFrame DEF IInv, TakenGone
<1>6. CASE queue[c] = 1
  <2>1. End(c)
    BY <1>6 DEF InsertMessage
  <2>. QED BY <1>1, <1>2, <1>4, <1>5, <2>1, EndKeeps
<1>7. CASE queue[c] # 1
  <2>1. /\ pc' = [pc EXCEPT ![c] = "create"] /\ draft' = [draft EXCEPT ![c] = 0]
        /\ UNCHANGED <<op, held, saw>>
    BY <1>7 DEF InsertMessage
  <2>2. /\ pc' \in [Clients -> Labels] /\ pc'[c] = "create"
        /\ \A d \in Clients \ {c} : pc'[d] = pc[d]
    BY <1>1, <2>1 DEF Typed, Labels
  <2>3. /\ draft' \in [Clients -> 0..clock] /\ draft'[c] = 0
        /\ \A d \in Clients \ {c} : draft'[d] = draft[d]
    BY <1>1, <1>2, <2>1 DEF Typed, TypeOK, ListingTypeOK
  <2>4. \A d \in Clients : draft'[d] # 0 <=> pc'[d] = "insert"
    BY <1>1, <2>2, <2>3 DEF Typed, TypeOK, ListingTypeOK
  <2>5. DOMAIN rows' \subseteq 1..clock
    BY <1>1, <1>2 DEF Typed, TypeOK, ListingTypeOK
  <2>6. Typed'
    BY <1>1, <1>2, <1>4, <1>5, <2>1, <2>2, <2>3, <2>4, <2>5
       DEF Typed, TypeOK, ListingTypeOK, KeepsHistory
  <2>7. Own(c)'
    <3>1. Missing(c)'
      BY DEF Missing
    <3>2. queue'[c] # 0
      BY <1>3, <1>4, <1>7
    <3>. QED BY <1>2, <2>2, <3>1, <3>2 DEF Own, Drafting, Reading, Clearing, Popping,
                                           Undisturbed, Found, Queued
  <2>8. \A d \in Clients \ {c} : Rests(d)
    BY <1>1, <1>4, <2>1, <2>2, <2>3 DEF Rests
  <2>. QED BY <1>2, <1>5, <2>2, <2>6, <2>7, <2>8, OneMoves
<1>. QED BY <1>6, <1>7

LEMMA SessionStep ==
    ASSUME IInv, NEW c \in Clients, SessionCall(c), ~dedups, UNCHANGED <<dedups, keyValueVars>>
    PROVE  IInv'
<1>1. ASSUME NEW s \in Scopes, NEW n \in 1..MaxBatch, Add(c, s, n) PROVE IInv'
  BY <1>1, AddStep
<1>2. ASSUME NEW s \in Scopes, NEW n \in 1..MaxBatch, SaveMessages(c, s, n) PROVE IInv'
  BY <1>1, <1>2 DEF SaveMessages
<1>3. ASSUME NEW s \in Scopes, NEW n \in 1..MaxBatch, NEW t \in Scopes, AfterRun(c, t, s, n)
      PROVE IInv'
  BY <1>1, <1>3 DEF AfterRun, ContextThread
<1>4. ASSUME NEW s \in Scopes, Clear(c, s) PROVE IInv'
  BY <1>4, ClearStep
<1>5. ASSUME NEW s \in Scopes, Pop(c, s) PROVE IInv'
  BY <1>5, PopStep
<1>0. Typed /\ missed' = missed /\ OthersMissed(c)
  BY SameHistory DEF IInv, keyValueVars
<1>6. ASSUME NEW s \in Scopes, NEW a \in Visible(s), Delete(c, s, a), UNCHANGED sessionVars
      PROVE IInv'
  BY <1>6, DeleteStep
<1>7. ASSUME StampMessage(c) PROVE IInv'
  BY <1>0, <1>7, StampStep DEF StampMessage
<1>8. ASSUME InsertMessage(c) PROVE IInv'
  BY <1>8, InsertMessageStep
<1>9. ASSUME ForgetNext(c) PROVE IInv'
  BY <1>9, ForgetNextStep
<1>10. ASSUME RemoveMessage(c) PROVE IInv'
  <2>1. /\ Remove(c) /\ takenAt' = [takenAt EXCEPT ![c] = {}] /\ UNCHANGED <<queue, todo>>
        /\ taken' = taken \/ taken' = taken \cup {held[c]}
    BY <1>10 DEF RemoveMessage
  <2>2. /\ takenAt' \in [Clients -> SUBSET taken']
        /\ \A d \in Clients \ {c} : takenAt'[d] = takenAt[d]
    BY <2>1 DEF IInv, Typed, TypeOK, SessionTypeOK
  <2>. QED BY <1>0, <2>1, <2>2, RemoveStep
<1>11. ASSUME BreakSession(c) PROVE IInv'
  <2>1. /\ Break(c) /\ taken' = taken /\ takenAt' = [takenAt EXCEPT ![c] = {}]
        /\ queue' = [queue EXCEPT ![c] = 0] /\ todo' = [todo EXCEPT ![c] = {}]
    BY <1>11 DEF BreakSession
  <2>2. SessionTypeOK'
    BY <2>1, SessionAssumption DEF IInv, Typed, TypeOK, SessionTypeOK
  <2>3. \A d \in Clients \ {c} : /\ queue'[d] = queue[d] /\ todo'[d] = todo[d]
                                 /\ takenAt'[d] = takenAt[d]
    BY <2>1 DEF IInv, Typed, TypeOK, SessionTypeOK
  <2>. QED BY <1>0, <2>1, <2>2, <2>3, BreakStep
<1>. QED BY <1>1, <1>2, <1>3, <1>4, <1>5, <1>6, <1>7, <1>8, <1>9, <1>10, <1>11
        DEF SessionCall

-----------------------------------------------------------------------------
\* _find_by_key() answers the newest row of the key in the page, or none.
LEMMA FindFacts ==
    ASSUME Typed, NEW s, NEW k
    PROVE  LET f == FindByKey(s, k) IN
           /\ f = 0 => \A a \in ListAll(s, PageLimit) : rows[a].key # k
           /\ f # 0 => /\ f \in ListAll(s, PageLimit) /\ rows[f].key = k
                       /\ \A a \in ListAll(s, PageLimit) : rows[a].key = k => a <= f
<1> DEFINE match == {a \in ListAll(s, PageLimit) : rows[a].key = k}
<1>1. match \subseteq 0..MaxRows /\ 0 \notin match /\ MaxRows \in Nat
  BY ListedFacts, ListingAssumption DEF Stamps
<1>2. FindByKey(s, k) = IF match = {} THEN 0 ELSE Newest(match)
  BY DEF FindByKey
<1>3. match # {} => Newest(match) \in match /\ \A a \in match : a <= Newest(match)
  <2>. HIDE DEF match
  <2>. QED BY <1>1, NewestFacts
<1>. QED BY <1>1, <1>2, <1>3

\* The calls of a store.
LEMMA UpsertStep ==
    ASSUME IInv, NEW c \in Clients, NEW o, NEW found,
           o \in Call, found \in 0..clock, o.kind \in {"mset", "identity"},
           o.kind = "mset" => /\ found = FindByKey(o.scope, o.key)
                              /\ missed'[c] = RowsOfKey(o.scope, o.key)
                                                \ ListAll(o.scope, PageLimit),
           o.kind = "identity" => o.key = NoKey,
           Upsert(c, o, found), OthersMissed(c), dedups, UNCHANGED <<dedups, sessionVars>>
    PROVE  IInv'
<1> DEFINE label == IF found = 0 THEN "create" ELSE "update"
<1>1. Begin(c, o, found, label)
  BY DEF Upsert
<1>2. label \in Labels \ {"insert"} /\ Typed
  BY DEF Labels, IInv
<1>3. found = 0 <=> label = "create"
  OBVIOUS
<1>4. label \in {"create", "update"}
  OBVIOUS
<1>. HIDE DEF label
<1>5. UNCHANGED <<queue, todo, taken, takenAt>> /\ SessionTypeOK'
  BY <1>2 DEF sessionVars, Typed, TypeOK, SessionTypeOK
<1>6. pc'[c] = label /\ op'[c] = o /\ held'[c] = found /\ rows' = rows
  BY <1>1, <1>2, BeginFacts
<1>7. Missing(c)'
  <2>. SUFFICES ASSUME o.key # NoKey, found = 0
                PROVE  RowsOfKey(op[c].scope, op[c].key)' \subseteq missed'[c]
    BY <1>3, <1>4, <1>6 DEF Missing, Setting
  <2>1. RowsOfKey(op[c].scope, op[c].key)' = RowsOfKey(o.scope, o.key)
    BY <1>6 DEF RowsOfKey, Visible, Live, Reaches
  <2>2. \A a \in ListAll(o.scope, PageLimit) : rows[a].key # o.key
    BY <1>2, FindFacts
  <2>. QED BY <2>1, <2>2 DEF RowsOfKey
<1>8. FindByKey(op[c].scope, op[c].key)' = FindByKey(o.scope, o.key)
  BY <1>6 DEF FindByKey, ListAll, Visible, Live, Reaches, Newest
<1>9. Undisturbed(c)'
  BY <1>3, <1>4, <1>6, <1>8 DEF Undisturbed, Found
<1>10. Own(c)'
  BY <1>4, <1>6, <1>7, <1>9 DEF Own, Drafting, Reading, Clearing, Popping, Queued
<1>. QED BY <1>1, <1>2, <1>5, <1>10, BeginKeeps

LEMMA MdeleteStep ==
    ASSUME IInv, NEW c \in Clients, NEW s \in Scopes, NEW k \in Keys, Mdelete(c, s, k),
           UNCHANGED <<dedups, sessionVars>>
    PROVE  IInv'
<1> DEFINE o == Op("mdelete", s, k, NoContent)
<1>1. FindByKey(s, k) # 0 /\ Begin(c, o, FindByKey(s, k), "remove") /\ UNCHANGED keyValueVars
  BY DEF Mdelete
<1>2. /\ o \in Call /\ o.kind = "mdelete" /\ o.scope = s /\ o.key = k
      /\ "remove" \in Labels \ {"insert"} /\ Typed
  BY OpType DEF Kinds, Labels, IInv
<1>. HIDE DEF o
<1>3. FindByKey(s, k) \in ListAll(s, PageLimit)
  BY <1>1, <1>2, FindFacts
<1>4. /\ FindByKey(s, k) \in DOMAIN rows /\ FindByKey(s, k) \in 0..clock
      /\ Reaches(s, FindByKey(s, k))
  BY <1>2, <1>3, ListedFacts
<1>5. UNCHANGED <<queue, todo, taken, takenAt>> /\ SessionTypeOK'
  BY <1>2 DEF sessionVars, Typed, TypeOK, SessionTypeOK
<1>6. pc'[c] = "remove" /\ op'[c] = o /\ held'[c] = FindByKey(s, k) /\ rows' = rows
  BY <1>1, <1>2, <1>4, BeginFacts
<1>7. Reading(c)'
  BY <1>2, <1>4, <1>6 DEF Reading, Reaches
<1>8. FindByKey(op[c].scope, op[c].key)' = FindByKey(o.scope, o.key)
  BY <1>6 DEF FindByKey, ListAll, Visible, Live, Reaches, Newest
<1>9. Undisturbed(c)'
  BY <1>1, <1>2, <1>6, <1>8 DEF Undisturbed, Found
<1>10. Own(c)'
  BY <1>2, <1>6, <1>7, <1>9 DEF Own, Drafting, Missing, Setting, Clearing, Popping, Queued
<1>. QED BY <1>1, <1>2, <1>4, <1>5, <1>10, BeginKeeps, SameHistory

\* A call that ends forgets what it has missed, and no more.
LEMMA ForgottenFacts ==
    ASSUME Typed, NEW c \in Clients, Forgotten(c), basis' = basis
    PROVE  OthersMissed(c)
  BY DEF Forgotten, OthersMissed, Typed, TypeOK, KeyValueTypeOK

\* What a step on one row writes into it.
LEMMA UpdateFacts ==
    ASSUME IInv, NEW c \in Clients, Update(c)
    PROVE  /\ held[c] \in DOMAIN rows /\ Reaches(op[c].scope, held[c]) /\ End(c)
           /\ DOMAIN rows' = DOMAIN rows /\ \A b \in DOMAIN rows : rows'[b] \in Row
           /\ RowsGrow /\ stale' \subseteq Clients /\ quiet' = {} /\ clock' = clock
           /\ rows'[held[c]].content = op[c].content
           /\ \A b \in DOMAIN rows : /\ rows'[b].deleted = rows[b].deleted
                                     /\ b # held[c] => rows'[b] = rows[b]
<1> DEFINE a == held[c]
<1>1. /\ Typed /\ Live(a) /\ Reaches(op[c].scope, a) /\ End(c) /\ Committed(c, a)
      /\ rows' = [rows EXCEPT ![a].content = op[c].content] /\ clock' = clock
  BY DEF Update, IInv
<1>2. a \in DOMAIN rows /\ rows[a] \in Row /\ \A b \in DOMAIN rows : rows[b] \in Row
  BY <1>1 DEF Live, Typed, TypeOK, ListingTypeOK
<1>3. op[c].content \in Contents \cup {NoContent}
  BY <1>1 DEF Typed, Call
<1>. HIDE DEF a
<1>4. /\ DOMAIN rows' = DOMAIN rows /\ \A b \in DOMAIN rows : b # a => rows'[b] = rows[b]
      /\ rows'[a] = [rows[a] EXCEPT !.content = op[c].content]
  BY <1>1, <1>2
<1>5. /\ rows'[a] \in Row /\ rows'[a].content = op[c].content
      /\ rows'[a].owner = rows[a].owner /\ rows'[a].key = rows[a].key
      /\ rows'[a].deleted = rows[a].deleted
  BY <1>2, <1>3, <1>4 DEF Row
<1>6. \A b \in DOMAIN rows : rows'[b] \in Row /\ rows'[b].deleted = rows[b].deleted
  BY <1>2, <1>4, <1>5
<1>7. RowsGrow
  BY <1>4, <1>5 DEF RowsGrow
<1>8. stale' \subseteq Clients /\ quiet' = {}
  BY <1>1 DEF Committed, Typed, TypeOK, ListingTypeOK
<1>. QED BY <1>1, <1>2, <1>4, <1>5, <1>6, <1>7, <1>8 DEF a

LEMMA UpdateStep ==
    ASSUME IInv, NEW c \in Clients, Update(c), UNCHANGED <<dedups, sessionVars>>
    PROVE  IInv'
<1>1. /\ End(c) /\ DOMAIN rows' = DOMAIN rows /\ \A b \in DOMAIN rows : rows'[b] \in Row
      /\ RowsGrow /\ stale' \subseteq Clients /\ quiet' = {} /\ clock' = clock
  BY UpdateFacts
<1>2. OthersMissed(c) /\ UNCHANGED <<queue, todo, taken, takenAt>>
  BY ForgottenFacts DEF Update, sessionVars, IInv
<1>3. SessionTypeOK' /\ TakenGone' /\ KeepsHistory(c)
  BY <1>1, <1>2, HistoryFrame DEF IInv, Typed, TypeOK, SessionTypeOK, TakenGone, RowsGrow
<1>. QED BY <1>1, <1>2, <1>3, EndKeeps

\* An mset() whose update has failed has missed all the rows of its key.
LEMMA UpdateFailsStep ==
    ASSUME IInv, NEW c \in Clients, UpdateFails(c), dedups, UNCHANGED <<dedups, sessionVars>>
    PROVE  IInv'
<1>1. /\ Typed /\ pc[c] = "update"
      /\ pc' = [pc EXCEPT ![c] = "create"] /\ op' = [op EXCEPT ![c].kind = "fallback"]
      /\ held' = [held EXCEPT ![c] = 0] /\ stale' = stale \ {c}
      /\ missed' = [missed EXCEPT ![c] = RowsOfKey(op[c].scope, op[c].key)]
      /\ UNCHANGED <<rows, clock, draft, quiet, saw, basis>>
  BY DEF UpdateFails, IInv
<1>2. UNCHANGED <<queue, todo, taken, takenAt>> /\ SessionTypeOK'
  BY <1>1 DEF sessionVars, Typed, TypeOK, SessionTypeOK
<1>3. /\ pc' \in [Clients -> Labels] /\ pc'[c] = "create"
      /\ \A d \in Clients \ {c} : pc'[d] = pc[d]
  BY <1>1 DEF Typed, Labels
<1>4. /\ op' \in [Clients -> Call] /\ op'[c].kind = "fallback"
      /\ \A d \in Clients \ {c} : op'[d] = op[d]
  <2>1. /\ op[c] \in Call /\ op'[c] = [op[c] EXCEPT !.kind = "fallback"]
        /\ \A d \in Clients \ {c} : op'[d] = op[d]
    BY <1>1 DEF Typed
  <2>2. op'[c] \in Call /\ op'[c].kind = "fallback"
    BY <2>1 DEF Call, Kinds
  <2>. QED BY <1>1, <2>1, <2>2 DEF Typed
<1>5. /\ held' \in [Clients -> 0..clock]
      /\ \A d \in Clients \ {c} : held'[d] = held[d]
  BY <1>1 DEF Typed, TypeOK, ListingTypeOK
<1>others. OthersMissed(c) /\ missed'[c] = RowsOfKey(op[c].scope, op[c].key)
  <2>1. RowsOfKey(op[c].scope, op[c].key) \in SUBSET Stamps
    BY <1>1, ListingAssumption
       DEF RowsOfKey, Visible, Live, Stamps, Typed, TypeOK, ListingTypeOK
  <2>. QED BY <1>1, <2>1 DEF OthersMissed, Typed, TypeOK, KeyValueTypeOK
<1>9. RowsGrow /\ TakenGone' /\ KeepsHistory(c)
  <2>1. RowsGrow /\ TakenGone'
    BY <1>1, <1>2 DEF RowsGrow, IInv, TakenGone
  <2>. QED BY <1>1, <1>others, <2>1, HistoryFrame
<1>6. \A d \in Clients : draft'[d] # 0 <=> pc'[d] = "insert"
  BY <1>1, <1>3 DEF Typed, TypeOK, ListingTypeOK
<1>7. Typed'
  BY <1>1, <1>2, <1>3, <1>4, <1>5, <1>6, <1>9 DEF Typed, TypeOK, ListingTypeOK, KeepsHistory
<1>8. Own(c)'
  <2>1. op'[c].scope = op[c].scope /\ op'[c].key = op[c].key
    BY <1>1 DEF Typed, Call
  <2>2. RowsOfKey(op[c].scope, op[c].key)' = RowsOfKey(op[c].scope, op[c].key)
    BY <1>1, <2>1 DEF RowsOfKey, Visible, Live, Reaches
  <2>3. Missing(c)'
    BY <1>others, <2>2 DEF Missing
  <2>. QED BY <1>3, <1>4, <2>3 DEF Own, Drafting, Reading, Clearing, Popping, Undisturbed,
                                   Found, Queued
<1>10. \A d \in Clients \ {c} : Rests(d)
  BY <1>1, <1>2, <1>3, <1>4, <1>5 DEF Rests
<1>. QED BY <1>1, <1>3, <1>7, <1>8, <1>9, <1>10, OneMoves

\* The live rows of its key that are there when an mset() inserts are among those
\* it has missed.
LEMMA InsertExplained ==
    ASSUME IInv, NEW c \in Clients, InsertRow(c), dedups
    PROVE  OneRowPerKey'
<1> DEFINE n == draft[c]
<1>1. /\ pc[c] = "insert" /\ n \notin DOMAIN rows /\ DOMAIN rows' = DOMAIN rows \cup {n}
      /\ \A a \in DOMAIN rows : rows'[a] = rows[a]
      /\ rows'[n].owner = op[c].scope /\ rows'[n].key = op[c].key
  BY InsertFacts DEF InsertRow
<1>2. DOMAIN basis \subseteq DOMAIN rows
  BY DEF IInv, Typed, TypeOK, KeyValueTypeOK
<1>3. basis' = [a \in DOMAIN basis \cup {n} |-> IF a = n THEN missed[c] ELSE basis[a]]
  BY DEF InsertRow
<1>. HIDE DEF n
<1>4. /\ DOMAIN basis' = DOMAIN basis \cup {n} /\ basis'[n] = missed[c]
      /\ \A a \in DOMAIN basis : a # n /\ basis'[a] = basis[a] /\ (Live(a)' <=> Live(a))
  BY <1>1, <1>2, <1>3 DEF Live
<1>5. ASSUME NEW a \in DOMAIN basis, Live(a), rows[a].owner = op[c].scope,
             rows[a].key = op[c].key, op[c].key # NoKey
      PROVE  a \in missed[c]
  <2>1. a \in RowsOfKey(op[c].scope, op[c].key)
    BY <1>2, <1>5 DEF RowsOfKey, Visible, Reaches
  <2>. QED BY <1>1, <1>5, <2>1 DEF IInv, Own, Missing, Setting
<1>6. \A a \in DOMAIN basis : rows'[a] = rows[a]
  BY <1>1, <1>2
<1>7. ASSUME NEW a \in DOMAIN basis', NEW b \in DOMAIN basis', a # b, Live(a)', Live(b)',
             rows'[a].owner = rows'[b].owner, rows'[a].key = rows'[b].key,
             rows'[a].key # NoKey
      PROVE  a \in basis'[b] \/ b \in basis'[a]
  <2>1. CASE a = n
    BY <1>1, <1>4, <1>5, <1>6, <1>7, <2>1
  <2>2. CASE b = n
    BY <1>1, <1>4, <1>5, <1>6, <1>7, <2>2
  <2>3. CASE a # n /\ b # n
    BY <1>4, <1>6, <1>7, <2>3 DEF IInv, OneRowPerKey
  <2>. QED BY <2>1, <2>2, <2>3
<1>. QED BY <1>7 DEF OneRowPerKey

LEMMA InsertRowStep ==
    ASSUME IInv, NEW c \in Clients, InsertRow(c), dedups, UNCHANGED <<dedups, sessionVars>>
    PROVE  IInv'
<1>1. /\ Typed /\ Insert(c) /\ End(c)
      /\ DOMAIN basis' = DOMAIN basis \cup {draft[c]}
      /\ missed' = [d \in Clients |-> IF d = c THEN {}
                                      ELSE IF Setting(d) /\ op[d].key = op[c].key
                                      THEN missed[d] \cup {draft[c]}
                                      ELSE missed[d]]
  BY DEF InsertRow, IInv
<1>2. /\ pc[c] = "insert" /\ draft[c] \in 1..clock
      /\ DOMAIN rows' = DOMAIN rows \cup {draft[c]}
      /\ \A a \in DOMAIN rows' : rows'[a] \in Row
      /\ \A a \in DOMAIN rows : rows'[a] = rows[a]
      /\ rows'[draft[c]].key = op[c].key
      /\ RowsGrow /\ stale' \subseteq Clients /\ quiet' = {} /\ clock' = clock
  BY <1>1, InsertFacts
<1>3. UNCHANGED <<queue, todo, taken, takenAt>> /\ SessionTypeOK'
  BY <1>1 DEF sessionVars, Typed, TypeOK, SessionTypeOK
<1>4. KeyValueTypeOK'
  <2>1. draft[c] \in Stamps
    BY <1>1, <1>2, ListingAssumption DEF Typed, TypeOK, ListingTypeOK, Stamps
  <2>2. missed' \in [Clients -> SUBSET Stamps]
    BY <1>1, <2>1 DEF Typed, TypeOK, KeyValueTypeOK
  <2>. QED BY <1>1, <1>2, <2>2 DEF Typed, TypeOK, KeyValueTypeOK
<1>5. TakenGone' /\ KeepsHistory(c)
  <2>1. TakenGone'
    BY <1>2, <1>3 DEF IInv, TakenGone
  <2>2. \A d \in Clients \ {c} : Setting(d) =>
           /\ missed[d] \subseteq missed'[d]
           /\ \A a \in DOMAIN rows' \ DOMAIN rows : rows'[a].key = op[d].key => a \in missed'[d]
    BY <1>1, <1>2
  <2>. QED BY <1>4, <2>1, <2>2, InsertExplained DEF KeepsHistory
<1>. QED BY <1>1, <1>2, <1>3, <1>5, EndKeeps

LEMMA KeyValueStep ==
    ASSUME IInv, NEW c \in Clients, KeyValueCall(c), dedups, UNCHANGED <<dedups, sessionVars>>
    PROVE  IInv'
<1>1. UNCHANGED <<queue, todo, taken, takenAt>> /\ Typed
  BY DEF sessionVars, IInv
<1>2. ASSUME NEW s \in Scopes, NEW k \in Keys, NEW x \in Contents, Mset(c, s, k, x) PROVE IInv'
  <2> DEFINE o == Op("mset", s, k, x)
  <2>1. o \in Call /\ o.kind = "mset" /\ o.scope = s /\ o.key = k
    BY OpType DEF Kinds
  <2>2. /\ Upsert(c, o, FindByKey(s, k))
        /\ missed' = [missed EXCEPT ![c] = RowsOfKey(s, k) \ ListAll(s, PageLimit)]
    BY <1>2 DEF Mset
  <2>. HIDE DEF o
  <2>4. /\ missed'[c] = RowsOfKey(s, k) \ ListAll(s, PageLimit)
        /\ OthersMissed(c)
    <3>1. RowsOfKey(s, k) \subseteq Stamps
      BY <1>1, ListingAssumption
         DEF RowsOfKey, Visible, Live, Stamps, Typed, TypeOK, ListingTypeOK
    <3>. QED BY <1>1, <2>2, <3>1 DEF OthersMissed, Typed, TypeOK, KeyValueTypeOK, Upsert
  <2>3. FindByKey(s, k) \in 0..clock
    <3>1. FindByKey(s, k) # 0 => FindByKey(s, k) \in ListAll(s, PageLimit)
      BY <1>1, FindFacts
    <3>2. 0 \in 0..clock
      BY <1>1 DEF Typed, TypeOK, ListingTypeOK
    <3>. QED BY <1>1, <3>1, <3>2, ListedFacts
  <2>. QED BY <2>1, <2>2, <2>3, <2>4, UpsertStep
<1>3. ASSUME NEW s \in Scopes, NEW k \in Keys, Mdelete(c, s, k) PROVE IInv'
  BY <1>3, MdeleteStep
<1>4. ASSUME NEW s \in Scopes, NEW a \in Visible(s), Delete(c, s, a), UNCHANGED keyValueVars PROVE IInv'
  BY <1>4, DeleteStep
<1>5. ASSUME NEW s \in Scopes, NEW x \in Contents, AddIdentity(c, s, x) PROVE IInv'
  <2> DEFINE o == Op("identity", s, NoKey, x)
             found == IF Visible(s) = {} THEN 0 ELSE Newest(Visible(s))
  <2>1. o \in Call /\ o.kind = "identity" /\ o.key = NoKey
    BY OpType DEF Kinds
  <2>2. Upsert(c, o, found) /\ OthersMissed(c)
    BY <1>1, <1>5 DEF AddIdentity, Upsert, OthersMissed, Typed, TypeOK, KeyValueTypeOK
  <2>3. found \in 0..clock
    <3>1. Visible(s) \subseteq 0..clock /\ clock \in Nat
      BY <1>1, ListingAssumption DEF Visible, Typed, TypeOK, ListingTypeOK
    <3>2. Visible(s) # {} => Newest(Visible(s)) \in Visible(s)
      BY <3>1, NewestFacts
    <3>. QED BY <3>1, <3>2
  <2>. HIDE DEF o, found
  <2>. QED BY <2>1, <2>2, <2>3, UpsertStep
<1>6. ASSUME NEW x \in Contents, NEW u \in Owners, AddUser(c, u, x) PROVE IInv'
  BY <1>5, <1>6 DEF AddUser, Scopes
<1>7. ASSUME NEW x \in Contents, AddAgent(c, x) PROVE IInv'
  BY <1>5, <1>7 DEF AddAgent, Scopes
<1>8. ASSUME Update(c) PROVE IInv'
  BY <1>8, UpdateStep
<1>9. ASSUME UpdateFails(c) PROVE IInv'
  BY <1>9, UpdateFailsStep
<1>10. ASSUME StampRow(c) PROVE IInv'
  <2>1. /\ Stamp(c) /\ basis' = basis
        /\ IF pc'[c] = "idle" THEN Forgotten(c) ELSE missed' = missed
    BY <1>10 DEF StampRow
  <2>2. OthersMissed(c)
    BY <1>1, <2>1, ForgottenFacts DEF OthersMissed, Typed, TypeOK, KeyValueTypeOK
  <2>. QED BY <2>1, <2>2, StampStep
<1>11. ASSUME InsertRow(c) PROVE IInv'
  BY <1>11, InsertRowStep
<1>12. ASSUME Remove(c), Forgotten(c), UNCHANGED basis PROVE IInv'
  <2>1. takenAt' \in [Clients -> SUBSET taken']
    BY <1>1 DEF Typed, TypeOK, SessionTypeOK
  <2>. QED BY <1>1, <1>12, <2>1, RemoveStep, ForgottenFacts
<1>13. ASSUME Break(c), Forgotten(c), UNCHANGED basis PROVE IInv'
  <2>1. SessionTypeOK'
    BY <1>1 DEF Typed, TypeOK, SessionTypeOK
  <2>. QED BY <1>1, <1>13, <2>1, BreakStep, ForgottenFacts
<1>. QED BY <1>2, <1>3, <1>4, <1>6, <1>7, <1>8, <1>9, <1>10, <1>11, <1>12, <1>13
         DEF KeyValueCall

-----------------------------------------------------------------------------
LEMMA InvInit == Init => IInv
<1>. SUFFICES ASSUME Init PROVE IInv
  OBVIOUS
<1>1. NoOp \in Call
  BY DEF NoOp, Op, Call, Kinds, Scopes
<1>2. ListingInit /\ SessionInit /\ KeyValueInit
  BY DEF Init
<1>3. Typed
  BY <1>1, <1>2, ListingAssumption, SessionAssumption
     DEF ListingInit, SessionInit, KeyValueInit, Typed, TypeOK, ListingTypeOK, SessionTypeOK,
         KeyValueTypeOK, Labels
<1>4. \A c \in Clients : pc[c] = "idle" /\ quiet = {}
  BY <1>2 DEF ListingInit
<1>5. \A c \in Clients : Own(c)
  BY <1>4 DEF Own, Drafting, Reading, Clearing, Popping, Missing, Setting, Undisturbed, Queued
<1>6. StampsDiffer /\ TakenGone /\ OneRowPerKey
  BY <1>2, <1>4 DEF StampsDiffer, TakenGone, OneRowPerKey, SessionInit, KeyValueInit
<1>. QED BY <1>3, <1>5, <1>6 DEF IInv

LEMMA StutterKeeps == ASSUME IInv, UNCHANGED vars PROVE IInv'
<1>1. /\ UNCHANGED <<dedups, rows, clock, pc, op, held, draft, stale, quiet, saw>>
      /\ UNCHANGED <<queue, todo, taken, takenAt, basis, missed>>
  BY DEF vars, listingVars, sessionVars, keyValueVars
<1>2. Typed'
  BY <1>1 DEF IInv, Typed, TypeOK, ListingTypeOK, SessionTypeOK, KeyValueTypeOK
<1>3. StampsDiffer' /\ TakenGone'
  BY <1>1 DEF IInv, StampsDiffer, TakenGone
<1>4. OneRowPerKey'
  BY <1>1 DEF IInv, OneRowPerKey, Live
<1>5. ASSUME NEW c \in Clients PROVE Own(c)'
  <2>1. Own(c)
    BY DEF IInv
  <2>2. Drafting(c)' /\ Reading(c)' /\ Clearing(c)' /\ Popping(c)' /\ Queued(c)'
    BY <1>1, <2>1 DEF Own, Drafting, Reading, Clearing, Popping, Queued, Reaches
  <2>3. Missing(c)'
    BY <1>1, <2>1 DEF Own, Missing, Setting, RowsOfKey, Visible, Live, Reaches
  <2>4. FindByKey(op[c].scope, op[c].key)' = FindByKey(op[c].scope, op[c].key)
    BY <1>1 DEF FindByKey, ListAll, Visible, Live, Reaches, Newest
  <2>5. Undisturbed(c)'
    BY <1>1, <2>1, <2>4 DEF Own, Undisturbed, Found
  <2>. QED BY <2>2, <2>3, <2>5 DEF Own
<1>. QED BY <1>2, <1>3, <1>4, <1>5 DEF IInv

LEMMA InvStep == IInv /\ [Next]_vars => IInv'
<1>1. ASSUME IInv, NEW c \in Clients, UNCHANGED dedups,
             ~dedups, SessionCall(c), UNCHANGED keyValueVars PROVE IInv'
  BY <1>1, SessionStep
<1>2. ASSUME IInv, NEW c \in Clients, UNCHANGED dedups,
             dedups, KeyValueCall(c), UNCHANGED sessionVars PROVE IInv'
  BY <1>2, KeyValueStep
<1>. QED BY <1>1, <1>2, StutterKeeps DEF Next

\* The invariant holds for ever.
LEMMA Invariance == Spec => []IInv
  BY InvInit, InvStep, PTL DEF Spec

\* Type correctness.
THEOREM TypeCorrect == Spec => []TypeOK
<1>1. IInv => TypeOK
  BY DEF IInv, Typed
<1>. QED BY <1>1, Invariance, PTL

\* A clear that is about to end leaves none of the newest messages there were
\* when it began, whoever else pops, clears or writes: clear_session() reports
\* an empty session only of one.
THEOREM ClearEmpties == Spec => []ClearEmptiesPage
<1>1. IInv => ClearEmptiesPage
  BY DEF IInv, Own, Clearing, ClearEmptiesPage, Live
<1>. QED BY <1>1, Invariance, PTL

\* Of calls of pop_item() only those that overlap can return one message.
THEOREM MessagePoppedOnce == Spec => []PoppedOnce
<1>1. IInv => PoppedOnce
  BY DEF IInv, Own, Popping, PoppedOnce
<1>. QED BY <1>1, Invariance, PTL

\* Two live rows of one owner and key come from overlapping mset() calls, from a
\* page too short for the older one, or from a failed update, in whatever order
\* they were stamped, committed and forgotten: there is no other way to a second
\* row of a key.
THEOREM KeyHasOneRow == Spec => []OneRowPerKey
<1>1. IInv => OneRowPerKey
  BY DEF IInv
<1>. QED BY <1>1, Invariance, PTL

-----------------------------------------------------------------------------
\* A row changes by the call of a client that reaches it.
LEMMA ChangeFacts ==
    ASSUME IInv, NEW c \in Clients, SessionCall(c) \/ KeyValueCall(c),
           NEW a \in DOMAIN rows, rows'[a] # rows[a]
    PROVE  a \in todo[c] \cup {held[c]} /\ Reaches(op[c].scope, a)
<1>1. Typed
  BY DEF IInv
<1>2. ASSUME NEW o, NEW read, NEW label, Begin(c, o, read, label) PROVE FALSE
  BY <1>2 DEF Begin
<1>3. ASSUME Insert(c) PROVE FALSE
  BY <1>3, InsertFacts
<1>4. ASSUME ForgetNext(c) PROVE a \in todo[c] /\ Reaches(op[c].scope, a)
  <2>1. todo[c] # {} /\ Forget(c, Newest(todo[c]))
    BY <1>4 DEF ForgetNext
  <2>2. todo[c] \subseteq 0..MaxRows /\ MaxRows \in Nat
    BY <1>1, ListingAssumption DEF Stamps, Typed, TypeOK, SessionTypeOK
  <2>3. Newest(todo[c]) \in todo[c]
    BY <2>1, <2>2, NewestFacts
  <2>. QED BY <1>1, <2>1, <2>3, ForgetFacts
<1>5. ASSUME Remove(c) PROVE a = held[c] /\ Reaches(op[c].scope, a)
  BY <1>1, <1>5, ForgetFacts DEF Remove
<1>6. ASSUME Update(c) PROVE a = held[c] /\ Reaches(op[c].scope, a)
  BY <1>6, UpdateFacts
<1>7. ~Stamp(c) /\ ~Break(c) /\ ~UpdateFails(c)
  BY DEF Stamp, Break, UpdateFails
<1>8. CASE SessionCall(c)
  <2>1. ForgetNext(c) \/ Remove(c)
    BY <1>2, <1>3, <1>7, <1>8
       DEF SessionCall, SaveMessages, AfterRun, Add, Clear, Pop, Delete, StampMessage,
           InsertMessage, RemoveMessage, BreakSession
  <2>. QED BY <1>4, <1>5, <2>1
<1>9. CASE KeyValueCall(c)
  <2>1. Update(c) \/ Remove(c)
    BY <1>2, <1>3, <1>7, <1>9
       DEF KeyValueCall, Mset, Mdelete, AddUser, AddAgent, AddIdentity, Upsert, Delete,
           StampRow, InsertRow
  <2>. QED BY <1>5, <1>6, <2>1
<1>. QED BY <1>8, <1>9

\* A row of one thread or user changes only by a call that has read or listed
\* it, and whose scope is that thread or user, or none.
THEOREM RowsStayApart == Spec => OwnersApart
<1>1. IInv /\ [Next]_vars =>
        [\A a \in DOMAIN rows : rows'[a] # rows[a] =>
            \E c \in Clients : /\ a \in todo[c] \cup {held[c]}
                               /\ op[c].scope \in {NoOwner, rows[a].owner}]_vars
  <2>. SUFFICES ASSUME IInv, Next, NEW a \in DOMAIN rows, rows'[a] # rows[a]
       PROVE \E c \in Clients : /\ a \in todo[c] \cup {held[c]}
                                /\ op[c].scope \in {NoOwner, rows[a].owner}
    OBVIOUS
  <2>1. PICK c \in Clients : SessionCall(c) \/ KeyValueCall(c)
    BY DEF Next
  <2>. QED BY <2>1, ChangeFacts DEF Reaches
<1>. QED BY <1>1, Invariance, PTL DEF Spec, OwnersApart

-----------------------------------------------------------------------------
\* What _find_by_key() answers after a step.
LEMMA FindAfter ==
    ASSUME Typed', NEW s, NEW k
    PROVE  /\ FindByKey(s, k)' = 0 => \A a \in ListAll(s, PageLimit)' : rows'[a].key # k
           /\ FindByKey(s, k)' # 0 =>
                /\ FindByKey(s, k)' \in ListAll(s, PageLimit)' /\ rows'[FindByKey(s, k)'].key = k
                /\ \A a \in ListAll(s, PageLimit)' : rows'[a].key = k => a <= FindByKey(s, k)'
<1> DEFINE match == {a \in ListAll(s, PageLimit)' : rows'[a].key = k}
<1>1. match \subseteq 0..MaxRows /\ 0 \notin match /\ MaxRows \in Nat
  BY ListingAssumption DEF Typed, TypeOK, ListingTypeOK, ListAll, Visible, Live
<1>2. FindByKey(s, k)' = IF match = {} THEN 0 ELSE Newest(match)
  BY DEF FindByKey, Newest
<1>3. match # {} => Newest(match) \in match /\ \A a \in match : a <= Newest(match)
  <2>. HIDE DEF match
  <2>. QED BY <1>1, NewestFacts
<1>. QED BY <1>1, <1>2, <1>3

\* A row that is updated, while nobody else commits, is found again.
LEMMA UpdateDecides ==
    ASSUME IInv, NEW c \in quiet, c \in Clients, NEW s, NEW k, op[c].scope = s, op[c].key = k,
           op[c].kind # "identity", Update(c)
    PROVE  FindByKey(s, k)' = held[c] /\ rows'[held[c]].content = op[c].content
<1>1. held[c] # 0 /\ held[c] = FindByKey(s, k)
  BY DEF IInv, Own, Undisturbed, Found, Update
<1>2. /\ DOMAIN rows' = DOMAIN rows /\ RowsGrow /\ rows'[held[c]].content = op[c].content
      /\ \A b \in DOMAIN rows : rows'[b].deleted = rows[b].deleted
  BY UpdateFacts
<1>3. Visible(s)' = Visible(s)
  BY <1>2 DEF Visible, Live, Reaches, RowsGrow
<1>4. ListAll(s, PageLimit)' = ListAll(s, PageLimit)
  BY <1>3 DEF ListAll
<1>5. \A a \in ListAll(s, PageLimit) : rows'[a].key = rows[a].key
  BY <1>2 DEF RowsGrow, ListAll, Visible, Live
<1> DEFINE before == {a \in ListAll(s, PageLimit) : rows[a].key = k}
           after == {a \in ListAll(s, PageLimit)' : rows'[a].key = k}
<1>6. FindByKey(s, k) = IF before = {} THEN 0 ELSE Newest(before)
  BY DEF FindByKey
<1>7. FindByKey(s, k)' = IF after = {} THEN 0 ELSE Newest(after)
  BY DEF FindByKey, Newest
<1>8. before = after
  BY <1>4, <1>5
<1>. HIDE DEF before, after
<1>. QED BY <1>1, <1>2, <1>6, <1>7, <1>8

\* A row that is inserted, while nobody else commits, is the newest of all.
LEMMA InsertDecides ==
    ASSUME IInv, Typed', NEW c \in quiet, c \in Clients, NEW s, NEW k,
           op[c].scope = s, op[c].key = k, Insert(c)
    PROVE  FindByKey(s, k)' = draft[c] /\ rows'[draft[c]].content = op[c].content
<1> DEFINE d == draft[c]
<1>1. /\ pc[c] = "insert" /\ d \in 1..clock /\ DOMAIN rows' = DOMAIN rows \cup {d}
      /\ rows'[d] = [owner |-> s, key |-> k, content |-> op[c].content, deleted |-> FALSE]
  BY InsertFacts
<1>2. \A a \in DOMAIN rows : a < d /\ a \in Nat
  BY <1>1 DEF IInv, Own, Undisturbed, Typed, TypeOK, ListingTypeOK
<1>3. d \in Nat \ {0} /\ \A a \in DOMAIN rows' : a <= d /\ ~(a > d)
  BY <1>1, <1>2, ListingAssumption DEF IInv, Typed, TypeOK, ListingTypeOK
<1>. HIDE DEF d
<1>4. d \in Visible(s)' /\ \A a \in Visible(s)' : a <= d /\ ~(a > d)
  BY <1>1, <1>3 DEF Visible, Live, Reaches
<1>5. d \in ListAll(s, PageLimit)'
  <2>1. {b \in Visible(s)' : b > d} = {}
    BY <1>4
  <2>2. Cardinality({b \in Visible(s)' : b > d}) = 0
    BY <2>1, FS_EmptySet
  <2>. QED BY <1>4, <2>2, ListingAssumption DEF ListAll
<1>6. FindByKey(s, k)' # 0 /\ FindByKey(s, k)' \in ListAll(s, PageLimit)' /\ d <= FindByKey(s, k)'
  BY <1>1, <1>5, FindAfter
<1>7. FindByKey(s, k)' <= d /\ FindByKey(s, k)' \in Nat
  BY <1>2, <1>1, <1>3, <1>4, <1>6 DEF ListAll, Visible, Live
<1>8. FindByKey(s, k)' = d
  BY <1>3, <1>6, <1>7
<1>. QED BY <1>1, <1>8 DEF d

\* An mset() whose value create() finds in a row has set no row of its key.
LEMMA StampDecides ==
    ASSUME IInv, NEW c \in quiet, c \in Clients, NEW s, NEW k, op[c].scope = s,
           op[c].key = k, op[c].kind = "mset", Stamp(c)
    PROVE  FindByKey(s, k)' = 0
<1>1. rows' = rows /\ FindByKey(s, k) = 0
  BY DEF Stamp, IInv, Own, Undisturbed
<1>. QED BY <1>1, SameFound

\* A key that is deleted, while nobody else commits, comes back older.
LEMMA RemoveDecides ==
    ASSUME IInv, Typed', NEW c \in quiet, c \in Clients, NEW s, NEW k,
           op[c].scope = s, op[c].key = k, op[c].kind = "mdelete", Remove(c)
    PROVE  FindByKey(s, k)' < held[c]
<1> DEFINE f == held[c]
<1>1. Typed /\ pc[c] = "remove" /\ Forget(c, f)
  BY DEF Remove, IInv
<1>2. f # 0 /\ f = FindByKey(s, k)
  BY <1>1 DEF IInv, Own, Undisturbed, Found
<1>. HIDE DEF f
<1>3. /\ f \in ListAll(s, PageLimit)
      /\ \A a \in ListAll(s, PageLimit) : rows[a].key = k => a <= f
  BY <1>1, <1>2, FindFacts
<1>4. f \in DOMAIN rows /\ f \in 1..clock /\ ~rows[f].deleted /\ Reaches(s, f)
  BY <1>1, <1>3, ListedFacts
<1>5. DOMAIN rows' = DOMAIN rows /\ RowsGrow /\ rows' = [rows EXCEPT ![f].deleted = TRUE]
  BY <1>1, <1>4, ForgetFacts DEF Live
<1>6. /\ \A b \in DOMAIN rows : b # f => rows'[b] = rows[b]
      /\ rows'[f].deleted
  BY <1>1, <1>4, <1>5, ForgetFacts
<1>7. Visible(s)' = Visible(s) \ {f}
  BY <1>5, <1>6 DEF Visible, Live, Reaches, RowsGrow
<1>8. ASSUME NEW a \in ListAll(s, PageLimit)', rows'[a].key = k PROVE a < f
  <2>1. a \in Visible(s) /\ a # f /\ a \in DOMAIN rows /\ a \in Nat /\ f \in Nat
    BY <1>1, <1>4, <1>7 DEF ListAll, Visible, Live, Typed, TypeOK, ListingTypeOK
  <2>2. Visible(s) \subseteq Nat
    BY <1>1 DEF Visible, Live, Typed, TypeOK, ListingTypeOK
  <2>3. ASSUME a > f PROVE FALSE
    <3>1. {b \in Visible(s)' : b > a} = {b \in Visible(s) : b > a}
      BY <1>7, <2>1, <2>3
    <3>2. a \in ListAll(s, PageLimit)
      BY <2>1, <3>1 DEF ListAll
    <3>3. rows[a].key = k
      BY <1>6, <1>8, <2>1
    <3>. QED BY <1>3, <2>1, <2>3, <3>2, <3>3
  <2>. QED BY <2>1, <2>3
<1>9. CASE FindByKey(s, k)' = 0
  BY <1>4, <1>9 DEF f
<1>10. CASE FindByKey(s, k)' # 0
  BY <1>8, <1>10, FindAfter DEF f
<1>. QED BY <1>9, <1>10

\* What the next reader of a key finds, if nobody else committed meanwhile, is
\* the very row that mset() has updated or inserted, or none if create() answered
\* mset() with a row of the same value; and a deleted key comes back only with an
\* older row.
THEOREM ReadYourWrites == Spec => LastCallDecides
<1>1. ASSUME IInv, IInv', NEW c \in quiet, NEW s \in Scopes, NEW k \in Keys
      PROVE  Decides(c, s, k)
  <2>1. c \in Clients /\ Typed /\ Typed'
    BY <1>1 DEF IInv, Typed, TypeOK, ListingTypeOK
  <2>2. ASSUME NEW kind \in {"mset", "fallback"}, NEW x \in Contents, op[c] = Op(kind, s, k, x)
        PROVE  /\ op[c].scope = s /\ op[c].key = k /\ op[c].content = x
               /\ op[c].kind = kind /\ op[c].kind # "identity"
    BY <2>2 DEF Op
  <2>3. op[c] = Op("mdelete", s, k, NoContent)
        => op[c].scope = s /\ op[c].key = k /\ op[c].kind = "mdelete"
    BY DEF Op
  <2>4. ASSUME NEW kind \in {"mset", "fallback"}, NEW x \in Contents, op[c] = Op(kind, s, k, x)
        PROVE  /\ Update(c) => FindByKey(s, k)' = held[c] /\ rows'[held[c]].content = x
               /\ InsertRow(c) => FindByKey(s, k)' = draft[c] /\ rows'[draft[c]].content = x
               /\ kind = "mset" /\ StampRow(c) => FindByKey(s, k)' = 0
    <3>1. /\ op[c].scope = s /\ op[c].key = k /\ op[c].content = x
          /\ op[c].kind = kind /\ op[c].kind # "identity"
      BY <2>2, <2>4
    <3>2. ASSUME Update(c) PROVE FindByKey(s, k)' = held[c] /\ rows'[held[c]].content = x
      BY <1>1, <2>1, <3>1, <3>2, UpdateDecides
    <3>3. ASSUME InsertRow(c) PROVE FindByKey(s, k)' = draft[c] /\ rows'[draft[c]].content = x
      BY <1>1, <2>1, <3>1, <3>3, InsertDecides DEF InsertRow
    <3>4. ASSUME kind = "mset", StampRow(c) PROVE FindByKey(s, k)' = 0
      BY <1>1, <2>1, <3>1, <3>4, StampDecides DEF StampRow
    <3>. QED BY <3>2, <3>3, <3>4
  <2>5. ASSUME op[c] = Op("mdelete", s, k, NoContent), Remove(c)
        PROVE  FindByKey(s, k)' < held[c]
    BY <1>1, <2>1, <2>3, <2>5, RemoveDecides
  <2>. QED BY <2>4, <2>5 DEF Decides
<1>2. IInv /\ IInv' => \A c \in quiet, s \in Scopes, k \in Keys : Decides(c, s, k)
  BY <1>1
<1>. QED BY <1>2, Invariance, PTL DEF LastCallDecides
=============================================================================
