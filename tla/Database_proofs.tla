--------------------------- MODULE Database_proofs ---------------------------
(***************************************************************************)
(* The connection layer and the schema below it: first the pool, for any   *)
(* number of threads and any size (no connection is shared, closed under   *)
(* somebody's hands, or mislaid), then the migrator, for any number of     *)
(* runners, files and breaks.  A runner applies an upper part              *)
(* k .. Len(Files) of the directory, whose predecessors are recorded: this *)
(* is why a primary key on the version is enough to keep two runners       *)
(* apart.  What it has executed of file k is committed or open, which is   *)
(* what its last statement commits.                                        *)
(***************************************************************************)
EXTENDS ConnectionPool, Migrator, FiniteSetTheorems, TLAPS

\* A queue without duplicates, and what is in it.
NoDup(q) == \A i, j \in 1..Len(q) : i # j => q[i] # q[j]
Elements(q) == {q[i] : i \in 1..Len(q)}

\* Queue.get(): what is left of such a queue without its head.
LEMMA TailFacts ==
    ASSUME NEW S, NEW q \in Seq(S), q # <<>>, NoDup(q)
    PROVE  /\ Head(q) \in S /\ Tail(q) \in Seq(S) /\ NoDup(Tail(q))
           /\ Head(q) \in Elements(q) /\ Head(q) \notin Elements(Tail(q))
           /\ Elements(q) = Elements(Tail(q)) \cup {Head(q)}
<1>1. /\ Len(q) \in Nat /\ Len(q) > 0 /\ Head(q) = q[1]
      /\ Tail(q) \in Seq(S) /\ Len(Tail(q)) = Len(q) - 1
      /\ \A i \in 1..Len(Tail(q)) : Tail(q)[i] = q[i + 1]
      /\ \A i \in 1..Len(q) : q[i] \in S
  OBVIOUS
<1>2. \A i \in 1..Len(Tail(q)) : i + 1 \in 1..Len(q) /\ i + 1 # 1
  BY <1>1
<1>3. NoDup(Tail(q)) /\ Head(q) \notin Elements(Tail(q))
  BY <1>1, <1>2 DEF NoDup, Elements
<1>4. Head(q) \in Elements(q) /\ Elements(Tail(q)) \subseteq Elements(q)
  BY <1>1, <1>2 DEF Elements
<1>5. ASSUME NEW i \in 1..Len(q) PROVE q[i] \in Elements(Tail(q)) \cup {Head(q)}
  <2>1. CASE i = 1
    BY <1>1, <2>1
  <2>2. CASE i # 1
    <3>1. i - 1 \in 1..Len(Tail(q)) /\ Tail(q)[i - 1] = q[i]
      BY <1>1, <2>2
    <3>. QED BY <3>1 DEF Elements
  <2>. QED BY <2>1, <2>2
<1>. QED BY <1>1, <1>3, <1>4, <1>5 DEF Elements

\* put_nowait(): such a queue with a handle it does not hold.
LEMMA AppendFacts ==
    ASSUME NEW S, NEW q \in Seq(S), NEW h \in S, NoDup(q), h \notin Elements(q)
    PROVE  /\ Append(q, h) \in Seq(S) /\ NoDup(Append(q, h))
           /\ Elements(Append(q, h)) = Elements(q) \cup {h}
<1>. DEFINE r == Append(q, h)
<1>1. /\ r \in Seq(S) /\ Len(q) \in Nat /\ Len(r) = Len(q) + 1
      /\ r[Len(q) + 1] = h /\ \A i \in 1..Len(q) : r[i] = q[i]
  OBVIOUS
<1>. HIDE DEF r
<1>2. 1..Len(r) = 1..Len(q) \cup {Len(q) + 1}
  BY <1>1
<1>3. Elements(r) = Elements(q) \cup {h}
  BY <1>1, <1>2 DEF Elements
<1>4. NoDup(r)
  <2>. SUFFICES ASSUME NEW i \in 1..Len(r), NEW j \in 1..Len(r), i # j
                PROVE  r[i] # r[j]
    BY DEF NoDup
  <2>. QED BY <1>1, <1>2 DEF NoDup, Elements
<1>. QED BY <1>1, <1>3, <1>4 DEF r

-----------------------------------------------------------------------------
\* NoSharing is not inductive alone: what returns to the queue is what a thread
\* owned, and what close() has closed must not be in the queue any more.
PoolInv ==
    /\ PoolTypeOK
    /\ OwnsWhileUsing
    /\ NoSharing
    /\ NeverClosedInUse
    /\ Free \cap disconnected = {}

\* The free handles are those in the queue, before and after a step.
LEMMA FreeIsElements == Free = Elements(queue)
BY DEF Free, Elements

\* The same of the next state.
LEMMA FreeIsElementsPrime == Free' = Elements(queue')
BY DEF Free, Elements

\* The invariant holds of a new pool.
LEMMA PoolInvInit == PoolInit => PoolInv
<1>. SUFFICES ASSUME PoolInit PROVE PoolInv
  OBVIOUS
<1>1. Cardinality(Handles) \in Nat
  BY PoolAssumption, FS_CardinalityType
<1>2. queue \in Seq(Handles)
  BY <1>1 DEF PoolInit
<1>3. Owned = {}
  BY DEF PoolInit, Owned
<1>4. PoolTypeOK
  BY <1>2 DEF PoolInit, PoolTypeOK
<1>. QED BY <1>2, <1>3, <1>4 DEF PoolInit, PoolInv, OwnsWhileUsing, NoSharing,
                                 NeverClosedInUse

\* Every step keeps the invariant.
LEMMA PoolInvStep == PoolInv /\ [PoolNext]_poolVars => PoolInv'
<1>. SUFFICES ASSUME PoolInv, [PoolNext]_poolVars PROVE PoolInv'
  OBVIOUS
<1>. USE DEF PoolInv
<1>a. queue \in Seq(Handles) /\ NoDup(queue) /\ NoHandle \notin Handles
  BY PoolAssumption DEF PoolTypeOK, NoSharing, NoDup
<1>0. CASE UNCHANGED poolVars
  <2>1. PoolTypeOK'
    BY <1>0 DEF poolVars, PoolTypeOK
  <2>2. Free' = Free /\ Owned' = Owned
    BY <1>0 DEF poolVars, Free, Owned
  <2>3. OwnsWhileUsing' /\ NoSharing' /\ NeverClosedInUse'
    BY <1>0, <2>2 DEF poolVars, OwnsWhileUsing, NoSharing, NeverClosedInUse
  <2>4. (Free \cap disconnected = {})'
    BY <1>0, <2>2 DEF poolVars
  <2> QED
    BY <2>1, <2>3, <2>4
\* Steps that only move a thread between states in which it owns nothing.
<1>1. ASSUME NEW t \in Threads, NEW to \in {"idle", "waiting", "closing"},
             at[t] # "using", at' = [at EXCEPT ![t] = to],
             closed' \in BOOLEAN, UNCHANGED <<queue, handle, disconnected, lost>>
      PROVE  PoolInv'
  <2>1. \A u \in Threads : at'[u] = IF u = t THEN to ELSE at[u]
    BY <1>1 DEF PoolTypeOK
  <2>2. Free' = Free /\ Owned' = Owned
    BY <1>1 DEF Free, Owned
  <2>3. PoolTypeOK'
    BY <1>1 DEF PoolTypeOK
  <2>4. OwnsWhileUsing'
    BY <1>1, <2>1 DEF OwnsWhileUsing
  <2>5. NoSharing'
    BY <1>1, <2>2 DEF NoSharing
  <2>6. NeverClosedInUse' /\ (Free \cap disconnected = {})'
    BY <1>1, <2>2 DEF NeverClosedInUse
  <2>. QED BY <2>3, <2>4, <2>5, <2>6
<1>2. ASSUME NEW t \in Threads,
             Enter(t) \/ TimeOut(t) \/ CloseBegin(t) \/ CloseEnd(t)
      PROVE  PoolInv'
  BY <1>1, <1>2 DEF Enter, TimeOut, CloseBegin, CloseEnd, PoolTypeOK
<1>3. ASSUME NEW t \in Threads, CheckOut(t) PROVE PoolInv'
  <2>. DEFINE h == Head(queue)
  <2>1. /\ h \in Handles /\ Tail(queue) \in Seq(Handles) /\ NoDup(Tail(queue))
        /\ h \in Free /\ h \notin Elements(Tail(queue))
        /\ Free = Elements(Tail(queue)) \cup {h}
    BY <1>a, <1>3, TailFacts, FreeIsElements DEF CheckOut
  <2>2. Free' = Elements(Tail(queue))
    BY <1>3, FreeIsElementsPrime DEF CheckOut
  <2>. HIDE DEF h
  <2>3. /\ handle' = [handle EXCEPT ![t] = h] /\ queue' = Tail(queue)
        /\ at' = [at EXCEPT ![t] = "using"] /\ handle[t] = NoHandle
        /\ UNCHANGED <<closed, disconnected, lost>>
    BY <1>3 DEF CheckOut, h, OwnsWhileUsing, PoolTypeOK
  <2>4. PoolTypeOK' /\ OwnsWhileUsing'
    BY <1>a, <2>1, <2>3 DEF PoolTypeOK, OwnsWhileUsing
  <2>5. h \notin Owned /\ Owned' = Owned \cup {h}
    BY <1>a, <2>1, <2>3 DEF PoolTypeOK, NoSharing, Owned
  <2>6. NoSharing'
    <3>1. ASSUME NEW u \in Threads, NEW w \in Threads, u # w,
                 handle'[u] # NoHandle
          PROVE  handle'[u] # handle'[w]
      BY <1>a, <2>1, <2>3, <2>5, <3>1 DEF PoolTypeOK, NoSharing, Owned
    <3>2. Free' \cap Owned' = {}
      BY <2>1, <2>2, <2>5 DEF NoSharing
    <3>. QED BY <2>1, <2>3, <3>1, <3>2 DEF NoSharing, NoDup
  <2>7. NeverClosedInUse' /\ (Free \cap disconnected = {})'
    BY <2>1, <2>2, <2>3, <2>5 DEF NeverClosedInUse
  <2>. QED BY <2>4, <2>6, <2>7
<1>4. ASSUME NEW t \in Threads, WrapFails(t) \/ CloseDrain(t) PROVE PoolInv'
  <2>. DEFINE h == Head(queue)
  <2>1. /\ h \in Handles /\ Tail(queue) \in Seq(Handles) /\ NoDup(Tail(queue))
        /\ h \in Free /\ h \notin Elements(Tail(queue))
        /\ Free = Elements(Tail(queue)) \cup {h}
    BY <1>a, <1>4, TailFacts, FreeIsElements DEF WrapFails, CloseDrain
  <2>2. Free' = Elements(Tail(queue)) /\ queue' = Tail(queue)
    BY <1>4, FreeIsElementsPrime DEF WrapFails, CloseDrain
  <2>. HIDE DEF h
  <2>3. /\ disconnected' \subseteq disconnected \cup {h}
        /\ lost' \subseteq lost \cup {h}
        /\ UNCHANGED <<handle, closed>>
        /\ \/ at' = at
           \/ at[t] # "using" /\ at' = [at EXCEPT ![t] = "idle"]
    <3>1. CASE WrapFails(t)
      BY <3>1 DEF WrapFails, h
    <3>2. CASE CloseDrain(t)
      BY <3>2 DEF CloseDrain, h
    <3>. QED BY <1>4, <3>1, <3>2
  <2>9. handle[t] = NoHandle \/ at' = at
    BY <2>3 DEF PoolTypeOK, OwnsWhileUsing
  <2>10. OwnsWhileUsing'
    BY <2>9, <2>3 DEF PoolTypeOK, OwnsWhileUsing
  <2>4. PoolTypeOK' /\ OwnsWhileUsing'
    BY <2>10, <2>1, <2>2, <2>3 DEF PoolTypeOK
  <2>5. Owned' = Owned
    BY <2>3 DEF Owned
  <2>6. NoSharing'
    BY <2>1, <2>2, <2>3, <2>5 DEF NoSharing, NoDup
  <2>7. NeverClosedInUse' /\ (Free \cap disconnected = {})'
    BY <2>1, <2>2, <2>3, <2>5 DEF NeverClosedInUse, NoSharing
  <2>. QED BY <2>4, <2>6, <2>7
<1>5. ASSUME NEW t \in Threads, Release(t) PROVE PoolInv'
  <2>. DEFINE h == handle[t]
  <2>1. h \in Handles /\ h \in Owned /\ h \notin Free /\ h \notin disconnected
    BY <1>5 DEF Release, OwnsWhileUsing, PoolTypeOK, Owned, NoSharing, NeverClosedInUse
  <2>2. /\ Append(queue, h) \in Seq(Handles) /\ NoDup(Append(queue, h))
        /\ Elements(Append(queue, h)) = Free \cup {h}
    BY <1>a, <2>1, AppendFacts, FreeIsElements
  <2>3. Free' = Free \cup {h} /\ queue' = Append(queue, h)
    BY <1>5, <2>2, FreeIsElementsPrime DEF Release
  <2>. HIDE DEF h
  <2>4. /\ handle' = [handle EXCEPT ![t] = NoHandle] /\ handle[t] = h
        /\ at' = [at EXCEPT ![t] = "idle"]
        /\ UNCHANGED <<closed, disconnected, lost>>
    BY <1>5 DEF Release, h
  <2>5. PoolTypeOK' /\ OwnsWhileUsing'
    BY <2>2, <2>3, <2>4 DEF PoolTypeOK, OwnsWhileUsing
  <2>6. Owned' = Owned \ {h}
    BY <1>a, <2>1, <2>4 DEF PoolTypeOK, NoSharing, Owned
  <2>7. NoSharing'
    <3>1. \A u, w \in Threads :
             u # w /\ handle'[u] # NoHandle => handle'[u] # handle'[w]
      BY <2>4 DEF PoolTypeOK, NoSharing
    <3>2. Free' \cap Owned' = {}
      BY <2>3, <2>6 DEF NoSharing
    <3>. QED BY <2>2, <2>3, <3>1, <3>2 DEF NoSharing, NoDup
  <2>8. NeverClosedInUse' /\ (Free \cap disconnected = {})'
    BY <2>1, <2>3, <2>4, <2>6 DEF NeverClosedInUse
  <2>. QED BY <2>5, <2>7, <2>8
<1>. QED BY <1>0, <1>2, <1>3, <1>4, <1>5 DEF PoolNext, Leave

\* Concurrent callers get distinct connections, for any number of threads and
\* any pool size.
THEOREM NoSharingThm == PoolSpec => []NoSharing
<1>1. PoolInv => NoSharing
  BY DEF PoolInv
<1>. QED BY <1>1, PoolInvInit, PoolInvStep, PTL DEF PoolSpec

\* close() never closes a connection that a thread is using.
THEOREM NeverClosedInUseThm == PoolSpec => []NeverClosedInUse
<1>1. PoolInv => NeverClosedInUse
  BY DEF PoolInv
<1>. QED BY <1>1, PoolInvInit, PoolInvStep, PTL DEF PoolSpec

\* No handle is mislaid but those whose wrapper could not be built.
THEOREM EveryHandleAccountedThm == PoolSpec => []EveryHandleAccounted
<1>1. PoolInit => EveryHandleAccounted
  BY DEF PoolInit, EveryHandleAccounted, Owned
<1>2. PoolInv /\ EveryHandleAccounted /\ [PoolNext]_poolVars => EveryHandleAccounted'
  <2>. SUFFICES ASSUME PoolInv, EveryHandleAccounted, [PoolNext]_poolVars
                PROVE  EveryHandleAccounted'
    OBVIOUS
  <2>. USE DEF EveryHandleAccounted
  <2>a. queue \in Seq(Handles) /\ NoDup(queue) /\ NoHandle \notin Handles
    BY PoolAssumption DEF PoolInv, PoolTypeOK, NoSharing, NoDup
  <2>1. CASE UNCHANGED <<queue, handle, disconnected, lost>>
    BY <2>1 DEF Free, Owned
  <2>2. ASSUME NEW t \in Threads,
               CheckOut(t) \/ WrapFails(t) \/ CloseDrain(t)
        PROVE  EveryHandleAccounted'
    <3>1. /\ Head(queue) \in Handles
          /\ Free = Elements(Tail(queue)) \cup {Head(queue)}
          /\ Free' = Elements(Tail(queue))
      BY <2>a, <2>2, TailFacts, FreeIsElements, FreeIsElementsPrime
         DEF CheckOut, WrapFails, CloseDrain
    <3>2. CASE CheckOut(t)
      <4>1. handle[t] = NoHandle
        BY <3>2 DEF CheckOut, PoolInv, OwnsWhileUsing
      <4>2. /\ handle' = [handle EXCEPT ![t] = Head(queue)]
              /\ disconnected' = disconnected /\ lost' = lost
        BY <3>2 DEF CheckOut
      <4>3. Owned' = Owned \cup {Head(queue)}
        BY <2>a, <3>1, <4>1, <4>2 DEF PoolInv, PoolTypeOK, Owned
      <4>. QED BY <3>1, <4>2, <4>3
    <3>3. CASE CloseDrain(t)
      <4>1. /\ Owned' = Owned /\ lost' = lost
            /\ disconnected' = disconnected \cup {Head(queue)}
        BY <3>3 DEF CloseDrain, Owned
      <4>. QED BY <3>1, <4>1
    <3>4. CASE WrapFails(t)
      <4>1. /\ Owned' = Owned /\ disconnected' = disconnected
            /\ lost' = lost \cup {Head(queue)}
        BY <3>4 DEF WrapFails, Owned
      <4>. QED BY <3>1, <4>1
    <3>. QED BY <2>2, <3>2, <3>3, <3>4
  <2>3. ASSUME NEW t \in Threads, Release(t) PROVE EveryHandleAccounted'
    <3>1. /\ handle[t] \in Handles /\ handle[t] \in Owned
          /\ handle[t] \notin Elements(queue)
      BY <2>3, FreeIsElements
         DEF Release, PoolInv, OwnsWhileUsing, PoolTypeOK, Owned, NoSharing
    <3>2. Free' = Free \cup {handle[t]}
      BY <2>a, <2>3, <3>1, AppendFacts, FreeIsElements, FreeIsElementsPrime
         DEF Release
    <3>3. /\ handle' = [handle EXCEPT ![t] = NoHandle]
          /\ disconnected' = disconnected /\ lost' = lost
      BY <2>3 DEF Release
    <3>4. Owned' = Owned \ {handle[t]}
      BY <2>a, <3>1, <3>3 DEF PoolInv, PoolTypeOK, NoSharing, Owned
    <3>. QED BY <3>1, <3>2, <3>3, <3>4
  <2>4. ASSUME NEW t \in Threads,
               Enter(t) \/ TimeOut(t) \/ CloseBegin(t) \/ CloseEnd(t)
        PROVE  UNCHANGED <<queue, handle, disconnected, lost>>
    BY <2>4 DEF Enter, TimeOut, CloseBegin, CloseEnd
  <2>. QED BY <2>1, <2>2, <2>3, <2>4 DEF PoolNext, Leave, poolVars
<1>. QED BY <1>1, <1>2, PoolInvInit, PoolInvStep, PTL DEF PoolSpec

\* Every variable has its type: the queue holds handles of this pool only.
THEOREM PoolTypeCorrect == PoolSpec => []PoolTypeOK
<1>1. PoolInv => PoolTypeOK
  BY DEF PoolInv
<1>. QED BY <1>1, PoolInvInit, PoolInvStep, PTL DEF PoolSpec

-----------------------------------------------------------------------------
\* The migrator.
\* The files are numbered from 1 and are sequences of statements.
LEMMA FilesType ==
    /\ Len(Files) \in Nat /\ Versions = 1..Len(Files)
    /\ \A f \in Versions : /\ Files[f] \in Seq(Statements) /\ Len(Files[f]) \in Nat
                           /\ StatementsOf(f) \subseteq Statements
                           /\ StatementsOf(f) = {Files[f][i] : i \in 1..Len(Files[f])}
<1>1. Files \in Seq(Seq(Statements))
  BY MigratorAssumption
<1>2. /\ Len(Files) \in Nat /\ Versions = 1..Len(Files)
      /\ \A f \in Versions : Files[f] \in Seq(Statements)
  BY <1>1 DEF Versions
<1>3. ASSUME NEW f \in Versions
      PROVE  /\ Len(Files[f]) \in Nat
             /\ StatementsOf(f) \subseteq Statements
             /\ StatementsOf(f) = {Files[f][i] : i \in 1..Len(Files[f])}
  BY <1>2 DEF StatementsOf
<1>. QED BY <1>2, <1>3

-----------------------------------------------------------------------------
\* Runner r applies file k, of which the statements before next[r] are
\* executed; the files before k are recorded.
Applying(r, k) ==
    /\ pending[r] = k..Len(Files) /\ 1..(k-1) \subseteq recorded
    /\ next[r] <= Len(Files[k]) + 1
    /\ \A i \in 1..(next[r] - 1) : Files[k][i] \in objects \cup open[r]
    /\ open[r] \subseteq StatementsOf(k)

\* What is known of a runner wherever it is.
RunnerInv(r) ==
    /\ pc[r] = "execute" => \E k \in Versions : Applying(r, k)
    /\ pc[r] # "execute" => open[r] = {}
    /\ autocommit => open[r] = {}
    /\ newly[r] \subseteq recorded
    /\ pc[r] = "returned" => recorded = Versions

Labels == Ended \cup {"probe", "create", "versions", "execute",
                      "tables", "columns", "indexes"}

\* The types of what the argument is about.
Shape ==
    /\ recorded \subseteq Versions /\ Tracking \in Statements
    /\ pc \in [Runners -> Labels] /\ pending \in [Runners -> SUBSET Versions]
    /\ next \in [Runners -> Nat \ {0}] /\ open \in [Runners -> SUBSET Statements]
    /\ newly \in [Runners -> SUBSET Versions]

NewlyApart == \A r, q \in Runners : r # q => newly[r] \cap newly[q] = {}

IInv == /\ Shape /\ SchemaMatchesVersions /\ NewlyApart
        /\ \E n \in 0..Len(Files) : recorded = 1..n
        /\ \A r \in Runners : RunnerInv(r)

\* The file a runner applies is the first of those it has left.
LEMMA FileIs ==
    ASSUME NEW r \in Runners, NEW k \in Versions, pending[r] = k..Len(Files)
    PROVE  File(r) = k
<1>1. k \in pending[r] /\ \A g \in pending[r] : k <= g
  BY FilesType
<1>2. \A f \in pending[r] : (\A g \in pending[r] : f <= g) => f = k
  BY <1>1, FilesType
<1>. QED BY <1>1, <1>2 DEF File

\* What the others do leaves a runner with what it knows: objects and versions
\* are only added.
LEMMA OtherRunner ==
    ASSUME NEW q \in Runners, RunnerInv(q), autocommit' = autocommit,
           pc'[q] = pc[q], pending'[q] = pending[q], next'[q] = next[q],
           open'[q] = open[q], newly'[q] = newly[q],
           objects \subseteq objects', recorded \subseteq recorded',
           recorded' \subseteq Versions
    PROVE  RunnerInv(q)'
<1>1. ASSUME NEW k \in Versions, Applying(q, k) PROVE Applying(q, k)'
  BY <1>1 DEF Applying, StatementsOf
<1>. QED BY <1>1 DEF RunnerInv, Versions

\* The invariant holds in a database nobody has begun to migrate.
LEMMA InvInit == Init => IInv
<1>. SUFFICES ASSUME Init PROVE IInv
  OBVIOUS
<1>1. Shape
  BY MigratorAssumption, FilesType DEF Init, Shape, Labels, Ended
<1>2. SchemaMatchesVersions
  BY DEF Init, SchemaMatchesVersions, Leftovers
<1>3. \E n \in 0..Len(Files) : recorded = 1..n
  <2>1. CASE recorded = {}
    BY <2>1, FilesType
  <2>2. CASE \E n \in Versions : recorded = 1..n
    BY <2>2, FilesType
  <2>. QED BY <2>1, <2>2 DEF Init
<1>4. NewlyApart /\ \A r \in Runners : RunnerInv(r)
  BY DEF Init, NewlyApart, RunnerInv
<1>. QED BY <1>1, <1>2, <1>3, <1>4 DEF IInv

-----------------------------------------------------------------------------
\* A step that changes at most the position of one runner and its list of new
\* versions to none, outside the loop over the files.
LEMMA QuietStep ==
    ASSUME IInv, NEW r \in Runners, NEW label \in Labels,
           label \notin {"execute", "returned"},
           pc' = [pc EXCEPT ![r] = label],
           open' = [open EXCEPT ![r] = {}],
           UNCHANGED <<autocommit, provisioned, objects, recorded>>,
           pending' \in [Runners -> SUBSET Versions],
           next' \in [Runners -> Nat \ {0}],
           \A q \in Runners \ {r} : pending'[q] = pending[q] /\ next'[q] = next[q],
           newly' = newly \/ newly' = [newly EXCEPT ![r] = {}]
    PROVE  IInv'
<1>1. Shape'
  BY DEF IInv, Shape, Versions
<1>2. SchemaMatchesVersions'
  BY DEF IInv, SchemaMatchesVersions, Leftovers, StatementsOf
<1>3. NewlyApart' /\ \A q \in Runners \ {r} : newly'[q] = newly[q]
  BY DEF IInv, NewlyApart, Shape
<1>4. RunnerInv(r)'
  BY DEF IInv, RunnerInv, Shape
<1>5. ASSUME NEW q \in Runners \ {r} PROVE RunnerInv(q)'
  <2>1. pc'[q] = pc[q] /\ open'[q] = open[q]
    BY DEF IInv, Shape
  <2>. QED BY <1>3, <2>1, OtherRunner DEF IInv, Shape
<1>. QED BY <1>1, <1>2, <1>3, <1>4, <1>5 DEF IInv

\* A runner outside the loop has nothing open.
LEMMA NothingOpen ==
    ASSUME IInv, NEW r \in Runners, pc[r] # "execute"
    PROVE  open = [open EXCEPT ![r] = {}]
BY DEF IInv, RunnerInv, Shape

\* The calls before and around the loop: start, probe, catalog reads, and the
\* ends with an exception.
LEMMA OutsideStep ==
    ASSUME IInv, NEW r \in Runners, UNCHANGED constVars,
           \/ \E c \in Calls : Start(r, c)
           \/ Probe(r) \/ Raise(r)
           \/ ReadTables(r) \/ ReadColumns(r) \/ ReadIndexes(r)
    PROVE  IInv'
<1>. autocommit' = autocommit /\ provisioned' = provisioned
  BY DEF constVars
<1>s. Shape
  BY DEF IInv
<1>1. ASSUME NEW c \in Calls, Start(r, c) PROVE IInv'
  <2>1. open = [open EXCEPT ![r] = {}]
    BY <1>1, NothingOpen DEF Start, Ended
  <2>2. /\ pc' = [pc EXCEPT ![r] = IF c = "validate" THEN "tables" ELSE "probe"]
        /\ newly' = [newly EXCEPT ![r] = {}]
        /\ UNCHANGED <<objects, recorded, pending, next, open>>
    BY <1>1 DEF Start, Goto, dbVars
  <2>. QED BY <1>s, <2>1, <2>2, QuietStep DEF Shape, Labels, Ended
<1>2. ASSUME Probe(r) PROVE IInv'
  <2>1. open = [open EXCEPT ![r] = {}]
    BY <1>2, NothingOpen DEF Probe
  <2>2. /\ pc' = [pc EXCEPT ![r] = "versions"] \/ pc' = [pc EXCEPT ![r] = "create"]
        /\ UNCHANGED <<objects, recorded, pending, next, open, newly>>
    BY <1>2 DEF Probe, Goto, dbVars, runVars
  <2>. QED BY <1>s, <2>1, <2>2, QuietStep DEF Shape, Labels, Ended
<1>3. ASSUME Raise(r) PROVE IInv'
  <2>1. /\ pc' = [pc EXCEPT ![r] = "ended"]
        /\ open' = [open EXCEPT ![r] = {}] /\ newly' = [newly EXCEPT ![r] = {}]
        /\ pending' = [pending EXCEPT ![r] = {}] /\ next' = [next EXCEPT ![r] = 1]
        /\ UNCHANGED <<objects, recorded>>
    BY <1>3 DEF Raise, End, Goto, dbVars
  <2>2. pending' \in [Runners -> SUBSET Versions] /\ next' \in [Runners -> Nat \ {0}]
    BY <1>s, <2>1 DEF Shape
  <2>3. \A q \in Runners \ {r} : pending'[q] = pending[q] /\ next'[q] = next[q]
    BY <1>s, <2>1 DEF Shape
  <2>4. "ended" \in Labels
    BY DEF Labels, Ended
  <2>. QED BY <2>1, <2>2, <2>3, <2>4, QuietStep
<1>4. ASSUME ReadTables(r) \/ ReadColumns(r) \/ ReadIndexes(r) PROVE IInv'
  <2>1. open = [open EXCEPT ![r] = {}]
    BY <1>4, NothingOpen DEF ReadTables, ReadColumns, ReadIndexes
  <2>2. /\ \E l \in {"columns", "indexes", "valid", "ended"} : pc' = [pc EXCEPT ![r] = l]
        /\ UNCHANGED <<objects, recorded, pending, next, open, newly>>
    BY <1>4 DEF ReadTables, ReadColumns, ReadIndexes, End, Goto, dbVars, runVars
  <2>. QED BY <1>s, <2>1, <2>2, QuietStep DEF Shape, Labels, Ended
<1>. QED BY <1>1, <1>2, <1>3, <1>4

\* _bootstrap() adds the tracking table, which is no leftover.
LEMMA CreateTrackingStep ==
    ASSUME IInv, NEW r \in Runners, UNCHANGED constVars, CreateTracking(r)
    PROVE  IInv'
<1>1. /\ objects' = objects \cup {Tracking} /\ pc' = [pc EXCEPT ![r] = "versions"]
      /\ UNCHANGED <<autocommit, provisioned, recorded, pending, next, open, newly>>
  BY DEF CreateTracking, Goto, constVars, runVars
<1>2. Shape'
  BY <1>1 DEF IInv, Shape, Versions, Labels, Ended
<1>3. SchemaMatchesVersions' /\ NewlyApart'
  BY <1>1 DEF IInv, SchemaMatchesVersions, Leftovers, StatementsOf, NewlyApart
<1>4. RunnerInv(r)'
  BY <1>1 DEF IInv, RunnerInv, Shape, CreateTracking
<1>5. ASSUME NEW q \in Runners \ {r} PROVE RunnerInv(q)'
  <2>1. pc'[q] = pc[q]
    BY <1>1 DEF IInv, Shape
  <2>. QED BY <1>1, <2>1, OtherRunner DEF IInv, Shape
<1>. QED BY <1>1, <1>2, <1>3, <1>4, <1>5 DEF IInv

\* run() takes the files that are not recorded: an upper part, because the
\* versions have no gap.
LEMMA ReadVersionsStep ==
    ASSUME IInv, NEW r \in Runners, UNCHANGED constVars, ReadVersions(r)
    PROVE  IInv'
<1>1. /\ UNCHANGED <<autocommit, provisioned, objects, recorded, open, newly>>
      /\ pc[r] = "versions" /\ Shape /\ open[r] = {}
  BY DEF ReadVersions, constVars, dbVars, IInv, RunnerInv
<1>2. CASE pc' = [pc EXCEPT ![r] = "ended"] /\ UNCHANGED <<pending, next>>
  BY <1>1, <1>2, NothingOpen, QuietStep DEF Shape, Labels, Ended
<1>3. CASE Continue(r, Versions \ recorded)
  <2>1. PICK n \in 0..Len(Files) : recorded = 1..n
    BY DEF IInv
  <2>2. Versions \ recorded = (n+1)..Len(Files)
    BY <2>1, FilesType
  <2>3. /\ pending' = [pending EXCEPT ![r] = Versions \ recorded]
        /\ next' = [next EXCEPT ![r] = 1]
        /\ pc' = [pc EXCEPT ![r] = IF Versions \ recorded = {} THEN "returned" ELSE "execute"]
    BY <1>3 DEF Continue, End, Goto
  <2>4. Shape'
    BY <1>1, <2>3 DEF Shape, Versions, Labels, Ended
  <2>5. SchemaMatchesVersions' /\ NewlyApart'
    BY <1>1 DEF IInv, SchemaMatchesVersions, Leftovers, StatementsOf, NewlyApart
  <2>6. RunnerInv(r)'
    <3>1. CASE Versions \ recorded = {}
      <4>1. pc'[r] = "returned" /\ recorded = Versions
        BY <1>1, <2>3, <3>1 DEF Shape
      <4>. QED BY <1>1, <4>1 DEF IInv, RunnerInv, Versions
    <3>2. CASE Versions \ recorded # {}
      <4>1. n + 1 \in Versions
        BY <2>1, <2>2, <3>2, FilesType
      <4>2. pc'[r] = "execute" /\ pending'[r] = (n+1)..Len(Files) /\ next'[r] = 1
        BY <1>1, <2>2, <2>3, <3>2 DEF Shape
      <4>3. Applying(r, n + 1)'
        BY <1>1, <2>1, <4>1, <4>2, FilesType DEF Applying
      <4>. QED BY <1>1, <4>1, <4>2, <4>3 DEF IInv, RunnerInv, Versions
    <3>. QED BY <3>1, <3>2
  <2>7. ASSUME NEW q \in Runners \ {r} PROVE RunnerInv(q)'
    <3>1. pc'[q] = pc[q] /\ pending'[q] = pending[q] /\ next'[q] = next[q]
      BY <1>1, <2>3 DEF Shape
    <3>. QED BY <1>1, <3>1, OtherRunner DEF IInv, Shape
  <2>. QED BY <1>1, <2>4, <2>5, <2>6, <2>7 DEF IInv
<1>. QED BY <1>2, <1>3 DEF ReadVersions, End, Goto

-----------------------------------------------------------------------------
\* A statement is committed or stays open; it is one of the file's.
LEMMA ExecuteStep ==
    ASSUME IInv, NEW r \in Runners, UNCHANGED constVars, Execute(r)
    PROVE  IInv'
<1>. DEFINE s == NextOf(r)
<1>1. /\ Shape /\ pc[r] = "execute"
      /\ UNCHANGED <<autocommit, provisioned, recorded, pc, pending, newly>>
      /\ next' = [next EXCEPT ![r] = next[r] + 1]
  BY DEF IInv, Execute, Applies, constVars
<1>2. PICK k \in Versions : Applying(r, k)
  BY <1>1 DEF IInv, RunnerInv
<1>3. File(r) = k
  BY <1>2, FileIs DEF Applying
<1>4. /\ next[r] \in 1..Len(Files[k]) /\ s = Files[k][next[r]] /\ s \in StatementsOf(k)
      /\ s \in Statements
  BY <1>1, <1>3, FilesType DEF Execute, Applies, NextOf, Shape
<1>. HIDE DEF s
<1>5. \/ autocommit /\ objects' = objects \cup {s} /\ open' = open
      \/ /\ ~autocommit /\ objects' = objects
         /\ open' = [open EXCEPT ![r] = open[r] \cup ({s} \ objects)]
  BY DEF Execute, s
<1>6. /\ objects \subseteq objects' /\ s \in objects' \cup open'[r]
      /\ open[r] \subseteq open'[r] /\ open'[r] \subseteq open[r] \cup {s}
      /\ (autocommit => open' = open)
  BY <1>1, <1>5 DEF Shape
<1>7. Shape'
  <2>1. next[r] + 1 \in Nat \ {0}
    BY <1>1 DEF Shape
  <2>2. next' \in [Runners -> Nat \ {0}]
    BY <1>1, <2>1 DEF Shape
  <2>. DEFINE mine == open[r] \cup ({s} \ objects)
  <2>a. /\ open \in [Runners -> SUBSET Statements] /\ mine \in SUBSET Statements
        /\ open' = open \/ open' = [open EXCEPT ![r] = mine]
    BY <1>1, <1>4, <1>5 DEF Shape
  <2>. HIDE DEF mine
  <2>3. open' \in [Runners -> SUBSET Statements]
    BY <2>a
  <2>. QED BY <1>1, <2>2, <2>3 DEF Shape
<1>8. SchemaMatchesVersions' /\ NewlyApart'
  BY <1>1, <1>5 DEF IInv, SchemaMatchesVersions, Leftovers, StatementsOf, NewlyApart
<1>9. Applying(r, k)'
  <2>1. next'[r] = next[r] + 1 /\ next'[r] <= Len(Files[k]) + 1
    BY <1>1, <1>4, FilesType DEF Shape
  <2>2. ASSUME NEW i \in 1..(next'[r] - 1) PROVE Files[k][i] \in objects' \cup open'[r]
    <3>1. i \in 1..(next[r] - 1) \/ i = next[r]
      BY <1>4, <2>1, FilesType
    <3>. QED BY <1>2, <1>4, <1>6, <3>1 DEF Applying
  <2>. QED BY <1>1, <1>2, <1>4, <1>6, <2>1, <2>2 DEF Applying, StatementsOf
<1>10. RunnerInv(r)'
  BY <1>1, <1>6, <1>9 DEF IInv, RunnerInv, Versions
<1>11. ASSUME NEW q \in Runners \ {r} PROVE RunnerInv(q)'
  <2>1. next'[q] = next[q] /\ open'[q] = open[q]
    BY <1>1, <1>5 DEF Shape
  <2>. QED BY <1>1, <1>6, <2>1, OtherRunner DEF IInv, Shape
<1>. QED BY <1>1, <1>7, <1>8, <1>10, <1>11 DEF IInv

\* The version is recorded with all that is open: it is the first one missing,
\* or its primary key is taken and the call raises.
LEMMA RecordStep ==
    ASSUME IInv, NEW r \in Runners, UNCHANGED constVars, Record(r)
    PROVE  IInv'
<1>1. CASE File(r) \in recorded
  BY <1>1, OutsideStep DEF Record
<1>2. CASE File(r) \notin recorded
  <2>1. Shape /\ pc[r] = "execute" /\ next[r] > Len(Files[File(r)])
    BY DEF IInv, Record
  <2>2. PICK k \in Versions : Applying(r, k)
    BY <2>1 DEF IInv, RunnerInv
  <2>3. File(r) = k
    BY <2>2, FileIs DEF Applying
  <2>. DEFINE left == pending[r] \ {k}
  <2>4. /\ UNCHANGED <<autocommit, provisioned>>
        /\ recorded' = recorded \cup {k} /\ objects' = objects \cup open[r]
        /\ open' = [open EXCEPT ![r] = {}]
        /\ newly' = [newly EXCEPT ![r] = newly[r] \cup {k}]
        /\ pending' = [pending EXCEPT ![r] = left]
        /\ next' = [next EXCEPT ![r] = 1]
        /\ pc' = [pc EXCEPT ![r] = IF left = {} THEN "returned" ELSE "execute"]
    BY <1>2, <2>3 DEF Record, Continue, End, Goto, constVars
  <2>5. k \in 1..Len(Files) /\ left = (k+1)..Len(Files)
    BY <2>2, FilesType DEF Applying
  <2>6. recorded' = 1..k
    <3>1. PICK n \in 0..Len(Files) : recorded = 1..n
      BY DEF IInv
    <3>2. n = k - 1
      <4>1. n \in Nat /\ k \in Nat \ {0} /\ k \notin 1..n
        BY <1>2, <2>3, <2>5, <3>1, FilesType
      <4>2. 1..(k-1) \subseteq 1..n
        BY <2>2, <3>1 DEF Applying
      <4>3. k - 1 \in 1..(k-1) \/ k = 1
        BY <4>1
      <4>. QED BY <4>1, <4>2, <4>3
    <3>. QED BY <2>4, <2>5, <3>1, <3>2, FilesType
  <2>7. StatementsOf(k) \subseteq objects'
    <3>1. \A i \in 1..Len(Files[k]) : Files[k][i] \in objects \cup open[r]
      BY <2>1, <2>2, <2>3, FilesType DEF Applying, Shape
    <3>. QED BY <2>4, <3>1, FilesType
  <2>. HIDE DEF left
  <2>8. Shape'
    <3>1. recorded' \subseteq Versions /\ left \in SUBSET Versions /\ {} \in SUBSET Statements
      BY <2>4, <2>5, FilesType DEF IInv, Shape
    <3>. QED BY <2>1, <2>4, <3>1 DEF Shape, Versions, Labels, Ended
  <2>9. SchemaMatchesVersions'
    <3>1. ASSUME NEW f \in recorded' PROVE StatementsOf(f) \subseteq objects'
      BY <2>4, <2>7 DEF IInv, SchemaMatchesVersions
    <3>2. Leftovers' \subseteq Leftovers
      BY <2>2, <2>4 DEF Leftovers, Applying, StatementsOf
    <3>. QED BY <2>4, <3>1, <3>2 DEF IInv, SchemaMatchesVersions, StatementsOf
  <2>10. NewlyApart'
    <3>1. \A q \in Runners : k \notin newly[q]
      BY <1>2, <2>3 DEF IInv, RunnerInv
    <3>. QED BY <2>1, <2>4, <3>1 DEF IInv, NewlyApart, Shape
  <2>11. RunnerInv(r)'
    <3>1. /\ open'[r] = {} /\ newly'[r] \subseteq recorded'
          /\ pending'[r] = left /\ next'[r] = 1
          /\ pc'[r] = IF left = {} THEN "returned" ELSE "execute"
      BY <2>1, <2>4 DEF IInv, RunnerInv, Shape
    <3>2. CASE left = {}
      <4>1. recorded' = Versions
        BY <2>5, <2>6, <3>2, FilesType
      <4>. QED BY <3>1, <3>2, <4>1 DEF RunnerInv, Versions
    <3>3. CASE left # {}
      <4>1. k + 1 \in Versions
        BY <2>5, <3>3, FilesType
      <4>2. Applying(r, k + 1)'
        BY <2>5, <2>6, <3>1, <4>1, FilesType DEF Applying
      <4>. QED BY <3>1, <3>3, <4>1, <4>2 DEF RunnerInv, Versions
    <3>. QED BY <3>2, <3>3
  <2>12. ASSUME NEW q \in Runners \ {r} PROVE RunnerInv(q)'
    <3>1. /\ pc'[q] = pc[q] /\ pending'[q] = pending[q] /\ next'[q] = next[q]
          /\ open'[q] = open[q] /\ newly'[q] = newly[q]
      BY <2>1, <2>4 DEF Shape
    <3>. QED BY <2>4, <2>8, <3>1, OtherRunner DEF IInv, Shape, Versions
  <2>. QED BY <2>5, <2>6, <2>8, <2>9, <2>10, <2>11, <2>12, FilesType DEF IInv
<1>. QED BY <1>1, <1>2

-----------------------------------------------------------------------------
\* Every step of every runner preserves the invariant.
LEMMA InvStep == IInv /\ [Next]_vars => IInv'
<1>. SUFFICES ASSUME IInv, [Next]_vars PROVE IInv'
  OBVIOUS
<1>1. CASE UNCHANGED vars
  BY <1>1 DEF vars, constVars, dbVars, runVars, IInv, Shape, SchemaMatchesVersions,
      Leftovers, StatementsOf, NewlyApart, RunnerInv, Applying, Versions
<1>2. CASE Next
  <2>1. PICK r \in Runners : /\ UNCHANGED constVars
                             /\ \/ \E c \in Calls : Start(r, c)
                                \/ RunnerStep(r)
                                \/ Break(r)
    BY <1>2 DEF Next
  <2>2. CASE CreateTracking(r)
    BY <2>1, <2>2, CreateTrackingStep
  <2>3. CASE ReadVersions(r)
    BY <2>1, <2>3, ReadVersionsStep
  <2>4. CASE Execute(r)
    BY <2>1, <2>4, ExecuteStep
  <2>5. CASE Record(r)
    BY <2>1, <2>5, RecordStep
  <2>6. CASE ObjectExists(r) \/ Break(r)
    BY <2>1, <2>6, OutsideStep DEF ObjectExists, Break
  <2>7. CASE \/ \E c \in Calls : Start(r, c)
             \/ Probe(r) \/ ReadTables(r) \/ ReadColumns(r) \/ ReadIndexes(r)
    BY <2>1, <2>7, OutsideStep
  <2>. QED BY <2>1, <2>2, <2>3, <2>4, <2>5, <2>6, <2>7 DEF RunnerStep
<1>. QED BY <1>1, <1>2

\* The invariant, for any number of runners, files and breaks.
THEOREM Inductive == Spec => []IInv
BY InvInit, InvStep, PTL DEF Spec

\* _apply_file() and run(): a recorded version has all its objects, whatever
\* breaks; what is left of an unrecorded file was committed by the driver.
THEOREM Matches == Spec => []SchemaMatchesVersions
<1>1. IInv => SchemaMatchesVersions
  BY DEF IInv
<1>. QED BY <1>1, Inductive, PTL

\* run() of several processes: no file is applied twice or before its
\* predecessors, and a run() that returns leaves none pending.
THEOREM InOrder == Spec => []AppliedOnceInOrder
<1>1. IInv => AppliedOnceInOrder
  <2>. SUFFICES ASSUME IInv PROVE AppliedOnceInOrder
    OBVIOUS
  <2>1. PICK n \in 0..Len(Files) : recorded = 1..n
    BY DEF IInv
  <2>2. \A f \in recorded : \A g \in Versions : g < f => g \in recorded
    BY <2>1, FilesType
  <2>. QED BY <2>2 DEF IInv, AppliedOnceInOrder, NewlyApart, RunnerInv
<1>. QED BY <1>1, Inductive, PTL

-----------------------------------------------------------------------------
\* What validate() knows after each of its reads, although the database grows
\* between them: of a table it did not find it forgets the columns and indexes,
\* but that the table was missing it remembers to the end.
CatalogRead(r) ==
    /\ pc[r] \in {"columns", "indexes"} =>
          Required("table") \subseteq present[r] \cup missing[r] /\ present[r] \subseteq objects
    /\ pc[r] = "indexes" => \A s \in Required("column") :
          TableOf[s] \in present[r] => s \in objects \cup missing[r]
    /\ pc[r] = "valid" => Manifest \subseteq objects

ReadInv == /\ IInv
           /\ present \in [Runners -> SUBSET Manifest]
           /\ missing \in [Runners -> SUBSET Manifest]
           /\ \A r \in Runners : CatalogRead(r)

\* A step of one runner, which drops no object, leaves the others what they know.
LEMMA ReadFrame ==
    ASSUME ReadInv, IInv', NEW r \in Runners,
           objects \subseteq objects',
           \A q \in Runners \ {r} : /\ pc'[q] = pc[q] /\ present'[q] = present[q]
                                    /\ missing'[q] = missing[q],
           present' \in [Runners -> SUBSET Manifest],
           missing' \in [Runners -> SUBSET Manifest],
           CatalogRead(r)'
    PROVE  ReadInv'
<1>1. ASSUME NEW q \in Runners \ {r} PROVE CatalogRead(q)'
  <2>1. CatalogRead(q)
    BY DEF ReadInv
  <2>. QED BY <2>1 DEF CatalogRead, Required
<1>. QED BY <1>1 DEF ReadInv

\* The steps outside validate(): they create objects or none, and pass nothing.
LEMMA OutsideReads ==
    ASSUME ReadInv, IInv', NEW r \in Runners,
           \/ \E c \in Calls : Start(r, c)
           \/ Probe(r) \/ CreateTracking(r) \/ ReadVersions(r)
           \/ Execute(r) \/ ObjectExists(r) \/ Record(r) \/ Break(r)
    PROVE  ReadInv'
<1>1. /\ pc \in [Runners -> Labels]
      /\ present \in [Runners -> SUBSET Manifest]
      /\ missing \in [Runners -> SUBSET Manifest]
  BY DEF ReadInv, IInv, Shape
<1>. DEFINE Others == {"probe", "create", "versions", "execute", "tables",
                       "returned", "ended"}
<1>2. ASSUME UNCHANGED checkVars, objects \subseteq objects',
             \E l \in Others : pc' = [pc EXCEPT ![r] = l]
      PROVE  ReadInv'
  <2>1. /\ pc'[r] \notin {"columns", "indexes", "valid"}
        /\ \A q \in Runners \ {r} : pc'[q] = pc[q]
    BY <1>1, <1>2
  <2>2. CatalogRead(r)'
    BY <2>1 DEF CatalogRead
  <2>. QED BY <1>1, <1>2, <2>1, <2>2, ReadFrame DEF checkVars
<1>3. CASE Raise(r)
  <2>1. /\ pc' = [pc EXCEPT ![r] = "ended"] /\ objects' = objects
        /\ present' = [present EXCEPT ![r] = {}] /\ missing' = [missing EXCEPT ![r] = {}]
    BY <1>3 DEF Raise, End, Goto, dbVars
  <2>2. /\ pc'[r] = "ended"
        /\ \A q \in Runners \ {r} : /\ pc'[q] = pc[q] /\ present'[q] = present[q]
                                    /\ missing'[q] = missing[q]
    BY <1>1, <2>1
  <2>3. present' \in [Runners -> SUBSET Manifest] /\ missing' \in [Runners -> SUBSET Manifest]
    BY <1>1, <2>1
  <2>4. CatalogRead(r)'
    BY <2>2 DEF CatalogRead
  <2>. QED BY <2>1, <2>2, <2>3, <2>4, ReadFrame
<1>4. ASSUME NEW c \in Calls, Start(r, c) PROVE ReadInv'
  BY <1>2, <1>4 DEF Start, Goto, dbVars
<1>5. CASE Probe(r)
  BY <1>2, <1>5 DEF Probe, Goto, dbVars
<1>6. CASE CreateTracking(r)
  BY <1>2, <1>6 DEF CreateTracking, Goto
<1>7. CASE ReadVersions(r)
  BY <1>2, <1>7 DEF ReadVersions, Continue, End, Goto, dbVars
<1>8. CASE Execute(r)
  <2>1. pc' = [pc EXCEPT ![r] = "execute"]
    BY <1>1, <1>8 DEF Execute, Applies
  <2>2. UNCHANGED checkVars /\ objects \subseteq objects'
    BY <1>8 DEF Execute
  <2>. QED BY <1>2, <2>1, <2>2
<1>9. CASE Record(r) /\ ~Raise(r)
  <2>1. /\ Continue(r, pending[r] \ {File(r)}) /\ UNCHANGED checkVars
        /\ objects' = objects \cup open[r]
    BY <1>9 DEF Record
  <2>. QED BY <1>2, <2>1 DEF Continue, End, Goto
<1>. QED BY <1>3, <1>4, <1>5, <1>6, <1>7, <1>8, <1>9 DEF ObjectExists, Break

\* SYSCAT.TABLES: every table required is found or missing.
LEMMA TablesRead ==
    ASSUME ReadInv, IInv', NEW r \in Runners, ReadTables(r)
    PROVE  ReadInv'
<1>1. /\ pc \in [Runners -> Labels]
      /\ present \in [Runners -> SUBSET Manifest]
      /\ missing \in [Runners -> SUBSET Manifest]
  BY DEF ReadInv, IInv, Shape
<1>2. /\ pc' = [pc EXCEPT ![r] = "columns"] /\ objects' = objects
      /\ present' = [present EXCEPT ![r] = Required("table") \cap objects]
      /\ missing' = [missing EXCEPT ![r] = Required("table") \ objects]
  BY DEF ReadTables, Goto, dbVars
<1>3. /\ Required("table") \cap objects \in SUBSET Manifest
      /\ Required("table") \ objects \in SUBSET Manifest
  BY DEF Required
<1>4. /\ pc'[r] = "columns" /\ present'[r] = Required("table") \cap objects
      /\ missing'[r] = Required("table") \ objects
      /\ \A q \in Runners \ {r} : /\ pc'[q] = pc[q] /\ present'[q] = present[q]
                                  /\ missing'[q] = missing[q]
  BY <1>1, <1>2
<1>5. present' \in [Runners -> SUBSET Manifest] /\ missing' \in [Runners -> SUBSET Manifest]
  BY <1>1, <1>2, <1>3
<1>6. CatalogRead(r)'
  BY <1>2, <1>4 DEF CatalogRead, Required
<1>. QED BY <1>2, <1>4, <1>5, <1>6, ReadFrame

\* SYSCAT.COLUMNS: every column of a table found is there or missing.
LEMMA ColumnsRead ==
    ASSUME ReadInv, IInv', NEW r \in Runners, ReadColumns(r)
    PROVE  ReadInv'
<1>1. /\ pc \in [Runners -> Labels]
      /\ present \in [Runners -> SUBSET Manifest]
      /\ missing \in [Runners -> SUBSET Manifest] /\ CatalogRead(r)
  BY DEF ReadInv, IInv, Shape
<1>2. /\ pc[r] = "columns" /\ pc' = [pc EXCEPT ![r] = "indexes"]
      /\ objects' = objects /\ present' = present
      /\ missing' = [missing EXCEPT ![r] = missing[r] \cup Absent(r, "column")]
  BY DEF ReadColumns, Goto, dbVars
<1>3. missing[r] \cup Absent(r, "column") \in SUBSET Manifest
  BY <1>1 DEF Absent, Required
<1>4. /\ pc'[r] = "indexes" /\ missing'[r] = missing[r] \cup Absent(r, "column")
      /\ \A q \in Runners \ {r} : /\ pc'[q] = pc[q] /\ present'[q] = present[q]
                                  /\ missing'[q] = missing[q]
  BY <1>1, <1>2
<1>5. present' \in [Runners -> SUBSET Manifest] /\ missing' \in [Runners -> SUBSET Manifest]
  BY <1>1, <1>2, <1>3
<1>6. \A s \in Required("column") :
         TableOf[s] \in present[r] => s \in objects \cup missing'[r]
  BY <1>4 DEF Absent
<1>7. CatalogRead(r)'
  BY <1>1, <1>2, <1>4, <1>6 DEF CatalogRead, Required
<1>. QED BY <1>2, <1>4, <1>5, <1>7, ReadFrame

\* SYSCAT.INDEXES: nothing missing means that every table was found by the
\* first read, every column of it by the second and every index by this one.
LEMMA IndexesRead ==
    ASSUME ReadInv, IInv', NEW r \in Runners, ReadIndexes(r)
    PROVE  ReadInv'
<1>1. /\ pc \in [Runners -> Labels]
      /\ present \in [Runners -> SUBSET Manifest]
      /\ missing \in [Runners -> SUBSET Manifest] /\ CatalogRead(r)
  BY DEF ReadInv, IInv, Shape
<1>. DEFINE how == IF missing[r] \cup Absent(r, "index") = {} THEN "valid" ELSE "ended"
<1>2. /\ pc[r] = "indexes" /\ pc' = [pc EXCEPT ![r] = how] /\ objects' = objects
      /\ present' = [present EXCEPT ![r] = {}] /\ missing' = [missing EXCEPT ![r] = {}]
  BY DEF ReadIndexes, End, Goto, dbVars
<1>3. how = "valid" => Manifest \subseteq objects
  <2>. SUFFICES ASSUME how = "valid", NEW s \in Manifest PROVE s \in objects
    OBVIOUS
  <2>1. missing[r] = {} /\ Absent(r, "index") = {}
    OBVIOUS
  <2>2. Required("table") \subseteq present[r] /\ present[r] \subseteq objects
    BY <1>1, <1>2, <2>1 DEF CatalogRead
  <2>3. Kind[s] \in {"table", "column", "index"}
    BY MigratorAssumption
  <2>4. CASE Kind[s] = "table"
    BY <2>2, <2>4 DEF Required
  <2>5. CASE Kind[s] # "table"
    <3>1. TableOf[s] \in present[r]
      BY <2>2, <2>5, ManifestAssumption
    <3>2. CASE Kind[s] = "column"
      BY <1>1, <1>2, <2>1, <3>1, <3>2 DEF CatalogRead, Required
    <3>3. CASE Kind[s] = "index"
      BY <2>1, <3>1, <3>3 DEF Absent, Required
    <3>. QED BY <2>3, <2>5, <3>2, <3>3
  <2>. QED BY <2>4, <2>5
<1>4. how \in {"valid", "ended"}
  OBVIOUS
<1>. HIDE DEF how
<1>5. /\ pc'[r] = how
      /\ \A q \in Runners \ {r} : /\ pc'[q] = pc[q] /\ present'[q] = present[q]
                                  /\ missing'[q] = missing[q]
  BY <1>1, <1>2
<1>6. present' \in [Runners -> SUBSET Manifest] /\ missing' \in [Runners -> SUBSET Manifest]
  BY <1>1, <1>2
<1>7. CatalogRead(r)'
  BY <1>2, <1>3, <1>4, <1>5 DEF CatalogRead
<1>. QED BY <1>2, <1>5, <1>6, <1>7, ReadFrame

\* The invariant of validate() holds at first, and every step keeps it.
LEMMA ReadInit == Init => ReadInv
BY InvInit DEF Init, ReadInv, CatalogRead

LEMMA ReadStep == ReadInv /\ [Next]_vars => ReadInv'
<1>. SUFFICES ASSUME ReadInv, [Next]_vars PROVE ReadInv'
  OBVIOUS
<1>1. IInv'
  BY InvStep DEF ReadInv
<1>2. CASE UNCHANGED vars
  BY <1>1, <1>2 DEF vars, dbVars, checkVars, ReadInv, CatalogRead, Required
<1>3. CASE Next
  BY <1>1, <1>3, OutsideReads, TablesRead, ColumnsRead, IndexesRead DEF Next, RunnerStep
<1>. QED BY <1>2, <1>3

\* validate(): it passes only on a database that has everything it requires,
\* whatever runners create between its three reads.
THEOREM ValidIsComplete == Spec => []ValidMeansComplete
<1>1. ReadInv => ValidMeansComplete
  BY DEF ReadInv, CatalogRead, ValidMeansComplete
<1>. QED BY <1>1, ReadInit, ReadStep, PTL DEF Spec

-----------------------------------------------------------------------------
\* What the arguments above do not need of the types.
Rest == /\ autocommit \in BOOLEAN /\ provisioned \subseteq Statements
        /\ objects \subseteq Statements
        /\ call \in [Runners -> Calls \cup {"none"}]
        /\ breaks \in 0..MaxBreaks

LEMMA RestStep ==
    ASSUME IInv, Rest, Next
    PROVE  Rest'
<1>1. PICK r \in Runners : /\ UNCHANGED constVars
                           /\ \/ \E c \in Calls : Start(r, c)
                              \/ RunnerStep(r)
                              \/ Break(r)
  BY DEF Next
<1>2. breaks' \in 0..MaxBreaks
  <2>1. breaks' = breaks \/ (breaks < MaxBreaks /\ breaks' = breaks + 1)
    BY <1>1 DEF Start, RunnerStep, Probe, CreateTracking, ReadVersions, Execute,
                ObjectExists, Record, ReadTables, ReadColumns, ReadIndexes, Break
  <2>. QED BY <2>1, MigratorAssumption DEF Rest
<1>3. call' \in [Runners -> Calls \cup {"none"}]
  <2>1. \/ call' = call
        \/ \E c \in Calls \cup {"none"} : call' = [call EXCEPT ![r] = c]
    BY <1>1 DEF Start, RunnerStep, Probe, CreateTracking, ReadVersions, Continue, End,
                Execute, ObjectExists, Raise, Record, ReadTables, ReadColumns,
                ReadIndexes, Break
  <2>. QED BY <2>1 DEF Rest
<1>4. objects' \subseteq Statements
  <2>1. CASE CreateTracking(r)
    BY <2>1, MigratorAssumption DEF CreateTracking, Rest
  <2>2. CASE Execute(r)
    <3>1. PICK k \in Versions : Applying(r, k)
      BY <2>2 DEF IInv, RunnerInv, Execute, Applies
    <3>2. File(r) = k
      BY <3>1, FileIs DEF Applying
    <3>3. NextOf(r) \in Statements
      BY <2>2, <3>2, FilesType DEF Execute, Applies, NextOf, IInv, Shape
    <3>. QED BY <2>2, <3>3 DEF Execute, Rest
  <2>3. CASE Record(r)
    <3>1. open[r] \subseteq Statements
      BY DEF IInv, Shape
    <3>. QED BY <2>3, <3>1 DEF Record, Raise, dbVars, Rest
  <2>4. CASE ~CreateTracking(r) /\ ~Execute(r) /\ ~Record(r)
    BY <1>1, <2>4 DEF Start, RunnerStep, Probe, ReadVersions, ObjectExists, Raise,
                      ReadTables, ReadColumns, ReadIndexes, Break, dbVars, Rest
  <2>. QED BY <2>1, <2>2, <2>3, <2>4
<1>. QED BY <1>1, <1>2, <1>3, <1>4 DEF Rest, constVars

\* Every variable has its type.
THEOREM TypeCorrect == Spec => []TypeOK
<1>1. Init => ReadInv /\ Rest
  <2>. SUFFICES ASSUME Init PROVE ReadInv /\ Rest
    OBVIOUS
  <2>1. objects \subseteq Statements /\ provisioned \subseteq Statements
    <3>1. recorded \subseteq Versions
      BY InvInit DEF IInv, Shape
    <3>. QED BY <3>1, FilesType, MigratorAssumption DEF Init
  <2>. QED BY <2>1, ReadInit, MigratorAssumption DEF Init, Rest
<1>2. ReadInv /\ Rest /\ [Next]_vars => (ReadInv /\ Rest)'
  <2>1. ASSUME ReadInv, Rest, Next PROVE Rest'
    BY <2>1, RestStep DEF ReadInv
  <2>2. ASSUME Rest, UNCHANGED vars PROVE Rest'
    BY <2>2 DEF vars, constVars, dbVars, Rest
  <2>. QED BY <2>1, <2>2, ReadStep
<1>3. ReadInv /\ Rest => TypeOK
  <2>. SUFFICES ASSUME ReadInv, Rest PROVE TypeOK
    OBVIOUS
  <2>1. ASSUME NEW r \in Runners, pc[r] = "execute"
        PROVE  pending[r] # {} /\ next[r] <= Len(Files[File(r)]) + 1
    <3>1. PICK k \in Versions : Applying(r, k)
      BY <2>1 DEF ReadInv, IInv, RunnerInv
    <3>2. File(r) = k
      BY <3>1, FileIs DEF Applying
    <3>. QED BY <3>1, <3>2, FilesType DEF Applying
  <2>. QED BY <2>1 DEF ReadInv, IInv, Shape, Rest, TypeOK, Labels
<1>. QED BY <1>1, <1>2, <1>3, PTL DEF Spec
=============================================================================
