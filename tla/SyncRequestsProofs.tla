------------------------- MODULE SyncRequestsProofs -------------------------
(***************************************************************************)
(* Theorems about SyncData and SyncRequests, for every set of records and  *)
(* mutations: what a push does to the tables and what a page holds.        *)
(*                                                                         *)
(* A push is a recursive function over the list of mutations.  Induction   *)
(* is stated with SETS of natural numbers, which first-order provers can   *)
(* use: a set that has 0 and the successor of each member is Nat.          *)
(***************************************************************************)
EXTENDS SyncRequests, FiniteSetTheorems, WellFoundedInduction, TLAPS

-----------------------------------------------------------------------------
(***************************************************************************)
(* Induction and recursion.                                                *)
(***************************************************************************)

LEMMA LeastMember ==
    ASSUME NEW S \in SUBSET Nat, S # {}
    PROVE  \E n \in S : \A m \in S : n <= m
<1> DEFINE less == OpToRel(<, Nat)
<1>1. IsWellFoundedOn(less, Nat)
  BY NatLessThanWellFounded
<1>2. PICK n \in S : \A m \in S : <<m, n>> \notin less
  <2> HIDE DEF less
  <2> QED
    BY <1>1, WFMin
<1>3. \A m \in S : ~(m < n)
  BY <1>2 DEF OpToRel
<1> HIDE DEF less
<1> QED
  BY <1>2, <1>3

LEMMA InductiveSet ==
    ASSUME NEW S \in SUBSET Nat, 0 \in S, \A n \in S : n + 1 \in S
    PROVE  S = Nat
<1> SUFFICES ASSUME Nat \ S # {} PROVE FALSE
  OBVIOUS
<1>1. PICK n \in Nat \ S : \A m \in Nat \ S : n <= m
  BY LeastMember
<1>2. n - 1 \in S
  BY <1>1
<1> QED
  BY <1>1, <1>2

StepsOf(A, N) == [1..N -> [A -> A]]

RunOf(f, A, N, base, step) ==
    /\ f \in [0..N -> A]
    /\ \A n \in 0..N : f[n] = IF n = 0 THEN base ELSE step[n][f[n - 1]]

\* There is a function that starts with `base` and goes on with `step`.
LEMMA Recursion ==
    ASSUME NEW A, NEW N \in Nat, NEW base \in A, NEW step \in StepsOf(A, N)
    PROVE  \E f : RunOf(f, A, N, base, step)
<1> DEFINE Runs(k, f) ==
              \A n \in 0..k : f[n] = IF n = 0 THEN base ELSE step[n][f[n - 1]]
           Reaches(k) == \E f \in [0..k -> A] : Runs(k, f)
           S == {k \in Nat : k <= N => Reaches(k)}
<1>1. Reaches(0)
  <2>1. Runs(0, [n \in 0..0 |-> base]) /\ [n \in 0..0 |-> base] \in [0..0 -> A]
    OBVIOUS
  <2> HIDE DEF Runs
  <2> QED
    BY <2>1
<1>2. ASSUME NEW k \in Nat, Reaches(k), k + 1 <= N PROVE Reaches(k + 1)
  <2>1. PICK f \in [0..k -> A] : Runs(k, f)
    BY <1>2
  <2> DEFINE g == [n \in 0..(k + 1) |->
                      IF n = k + 1 THEN step[k + 1][f[k]] ELSE f[n]]
  <2>2. step[k + 1][f[k]] \in A
    BY <2>1, <1>2 DEF StepsOf
  <2>3. g \in [0..(k + 1) -> A]
    BY <2>1, <2>2, <1>2
  <2>4. Runs(k + 1, g)
    <3> SUFFICES ASSUME NEW n \in 0..(k + 1)
                 PROVE  g[n] = IF n = 0 THEN base ELSE step[n][g[n - 1]]
      OBVIOUS
    <3>1. CASE n = k + 1
      BY <3>1, <1>2
    <3>2. CASE n \in 0..k
      BY <3>2, <2>1, <1>2
    <3> QED
      BY <3>1, <3>2, <1>2
  <2> HIDE DEF Runs
  <2> QED
    BY <2>3, <2>4
<1> HIDE DEF Reaches
<1>3. 0 \in S /\ \A k \in S : k + 1 \in S
  BY <1>1, <1>2
<1>4. S = Nat
  <2> HIDE DEF S
  <2> QED
    BY <1>3, InductiveSet DEF S
<1>5. Reaches(N)
  BY <1>4
<1> QED
  BY <1>5 DEF Reaches, RunOf

-----------------------------------------------------------------------------
(***************************************************************************)
(* The rules of SyncData keep rows and tables well typed.                  *)
(***************************************************************************)

LEMMA ResolvedPayloadType ==
    ASSUME NEW row \in Row, NEW m \in Mutation
    PROVE  ResolvedPayload(row, m) \in Payload
<1>1. row.payload \in Payload /\ m.payload \in Payload
  BY DEF Row, Mutation
<1>2. MergeHistory(row.payload, m.payload) \in Payload
  BY <1>1 DEF MergeHistory, Larger, Payload
<1>3. MergePosition(row.payload, m.payload) \in Payload
  BY <1>1 DEF MergePosition, Larger, Payload
<1> QED
  BY <1>1, <1>2, <1>3 DEF ResolvedPayload

LEMMA SavedObjectType ==
    ASSUME NEW row \in Row, NEW m \in Mutation, NEW n \in Nat
    PROVE  SavedObject(row, m, n) \in Row
BY ResolvedPayloadType DEF SavedObject, Row, Mutation

LEMMA FlushedRowType ==
    ASSUME NEW stored \in Row, NEW loaded \in Row, NEW object \in Row
    PROVE  FlushedRow(stored, loaded, object) \in Row
BY DEF FlushedRow, Row

LEMMA WithMutationType ==
    ASSUME NEW d \in Database, NEW loaded \in Row, NEW m \in Mutation
    PROVE  WithMutation(d, loaded, m) \in Database
<1>1. /\ d.rows \in [RecordIds -> Row] /\ d.receipts \in SUBSET Mutation
      /\ d.revision \in Nat /\ m.rec \in RecordIds
  BY DEF Database, Mutation
<1>2. SavedObject(loaded, m, d.revision + 1) \in Row
  BY <1>1, SavedObjectType
<1>3. FlushedRow(d.rows[m.rec], loaded,
                 SavedObject(loaded, m, d.revision + 1)) \in Row
  BY <1>1, <1>2, FlushedRowType
<1> QED
  BY <1>1, <1>3 DEF WithMutation, Database

LEMMA EmptyDatabaseType == EmptyDatabase \in Database /\ NoRow \in Row
BY DEF EmptyDatabase, Database, NoRow, Row, NoPayload, Payload

LEMMA AcknowledgedRowType ==
    ASSUME NEW d \in Database, NEW loaded \in Row, NEW m \in Mutation
    PROVE  AcknowledgedRow(d, loaded, m) \in Row
BY SavedObjectType DEF AcknowledgedRow, Database

-----------------------------------------------------------------------------
(***************************************************************************)
(* How tables grow.                                                        *)
(***************************************************************************)

LEMMA ExtendsItself ==
    ASSUME NEW d \in Database
    PROVE  Extends(d, d)
BY DEF Extends, Database

LEMMA ExtendsTransitive ==
    ASSUME NEW a \in Database, NEW b \in Database, NEW c \in Database,
           Extends(b, a), Extends(c, b)
    PROVE  Extends(c, a)
<1>1. a.receipts \subseteq c.receipts /\ a.revision <= c.revision
  BY DEF Extends, Database
<1>2. ASSUME NEW r \in RecordIds, c.rows[r] # a.rows[r]
      PROVE  /\ c.rows[r].revision > a.revision
             /\ ReceiptsOf(a, c.rows[r].last) = {}
  <2>1. CASE c.rows[r] # b.rows[r]
    <3>1. c.rows[r].revision > b.revision /\ c.rows[r].revision \in Nat
      BY <2>1 DEF Extends, Database, Row
    <3>2. ReceiptsOf(b, c.rows[r].last) = {}
      BY <2>1 DEF Extends
    <3> QED
      BY <3>1, <3>2 DEF Extends, Database, ReceiptsOf
  <2>2. CASE c.rows[r] = b.rows[r]
    BY <1>2, <2>2 DEF Extends
  <2> QED
    BY <2>1, <2>2
<1> QED
  BY <1>1, <1>2 DEF Extends

\* A row that exists goes on existing.
LEMMA ExtendsKeepsRows ==
    ASSUME NEW a \in Database, NEW b \in Database, Extends(b, a),
           NEW r \in RecordIds, Exists(a.rows[r])
    PROVE  Exists(b.rows[r])
BY DEF Extends, Exists, Database, Row

\* A mutation that breaks no uniqueness constraint keeps the tables sound and
\* only adds to them, provided the row that was loaded has not disappeared.
LEMMA WriteKeepsSound ==
    ASSUME NEW d \in Database, NEW loaded \in Row, NEW m \in Mutation,
           Sound(d), ~ViolatesUniqueness(d, loaded, m),
           Exists(loaded) => Exists(d.rows[m.rec])
    PROVE  /\ Sound(WithMutation(d, loaded, m))
           /\ Extends(WithMutation(d, loaded, m), d)
           /\ m \in WithMutation(d, loaded, m).receipts
<1> DEFINE after == WithMutation(d, loaded, m)
           object == SavedObject(loaded, m, d.revision + 1)
           row == FlushedRow(d.rows[m.rec], loaded, object)
<1>1. /\ d.rows \in [RecordIds -> Row] /\ d.revision \in Nat
      /\ m.rec \in RecordIds /\ m.id \in MutationIds
      /\ \A r \in RecordIds : d.rows[r].revision \in Nat
  BY DEF Database, Mutation, Row
<1>2. ReceiptsOf(d, m.id) = {}
  BY DEF ViolatesUniqueness
<1>3. CASE Changes(loaded, m)
  <2>1. object.revision = d.revision + 1 /\ object.last = m.id
    BY DEF SavedObject
  <2>2. row.revision = d.revision + 1 /\ row.last = m.id
    BY <2>1, SavedObjectType, <1>1 DEF FlushedRow, SavedObject
  <2>3. /\ after.rows = [d.rows EXCEPT ![m.rec] = row]
        /\ after.receipts = d.receipts \cup {m}
        /\ after.revision = d.revision + 1
    BY <1>3 DEF WithMutation
  <2>4. \A r \in RecordIds :
            after.rows[r] = IF r = m.rec THEN row ELSE d.rows[r]
    BY <2>3, <1>1
  <2> HIDE DEF after, row, object
  <2>5. Sound(after)
    <3>1. \A n \in after.receipts : Exists(after.rows[n.rec])
      BY <2>2, <2>3, <2>4, <1>1 DEF Sound, Exists, Database, Mutation
    <3>2. ASSUME NEW r \in RecordIds
          PROVE  after.rows[r].revision <= after.revision
      <4>1. d.rows[r].revision <= d.revision
        BY DEF Sound
      <4>2. d.rows[r].revision <= d.revision + 1
        BY <1>1, <4>1
      <4> QED
        BY <2>2, <2>3, <2>4, <1>1, <4>2
    <3>3. ASSUME NEW r \in RecordIds, NEW s \in RecordIds,
                 Exists(after.rows[r]),
                 after.rows[r].revision = after.rows[s].revision
          PROVE  r = s
      <4>1. \A q \in RecordIds : d.rows[q].revision # d.revision + 1
        BY <1>1 DEF Sound
      <4> QED
        BY <3>3, <4>1, <2>2, <2>4 DEF Sound, Exists
    <3> QED
      BY <3>1, <3>2, <3>3 DEF Sound
  <2>6. Extends(after, d)
    BY <2>2, <2>3, <2>4, <1>1, <1>2 DEF Extends
  <2> QED
    BY <2>3, <2>5, <2>6 DEF after
<1>4. CASE ~Changes(loaded, m)
  <2>1. Exists(d.rows[m.rec])
    BY <1>4 DEF Changes, TakesIncoming
  <2>2. /\ after.rows = d.rows
        /\ after.receipts = d.receipts \cup {m}
        /\ after.revision = d.revision
    BY <1>4 DEF WithMutation, Database
  <2> HIDE DEF after
  <2>3. Sound(after)
    BY <2>1, <2>2, <1>1 DEF Sound
  <2>4. Extends(after, d)
    BY <2>2, <1>1 DEF Extends
  <2> QED
    BY <2>2, <2>3, <2>4 DEF after
<1> QED
  BY <1>3, <1>4

-----------------------------------------------------------------------------
(***************************************************************************)
(* What a push does.                                                       *)
(***************************************************************************)

Served == [db : Database, acks : Seq(Received), rejected : BOOLEAN]

Unserved(tables) == [db |-> tables, acks |-> <<>>, rejected |-> FALSE]

LEMMA UnservedType ==
    ASSUME NEW tables \in Database
    PROVE  Unserved(tables) \in Served
BY DEF Unserved, Served

LEMMA PushOneType ==
    ASSUME NEW p \in Served, NEW m \in Mutation
    PROVE  PushOne(p, m) \in Served
<1>1. /\ p.db \in Database /\ p.acks \in Seq(Received) /\ p.rejected \in BOOLEAN
      /\ m.rec \in RecordIds /\ p.db.rows[m.rec] \in Row
  BY DEF Served, Database, Mutation
<1>2. /\ WithMutation(p.db, p.db.rows[m.rec], m) \in Database
      /\ AcknowledgedRow(p.db, p.db.rows[m.rec], m) \in Row
  BY <1>1, WithMutationType, AcknowledgedRowType
<1>3. \A row \in Row : Append(p.acks, [rec |-> m.rec, row |-> row]) \in Seq(Received)
  BY <1>1 DEF Received
<1> HIDE DEF Database, Received
<1> QED
  BY <1>1, <1>2, <1>3 DEF PushOne, Served

Chain(tables, batch, f) ==
    [n \in 0..Len(batch) |->
        IF n = 0 THEN Unserved(tables) ELSE PushOne(f[n - 1], batch[n])]

LEMMA ChainExists ==
    ASSUME NEW tables \in Database, NEW batch \in Seq(Mutation)
    PROVE  \E f \in [0..Len(batch) -> Served] : f = Chain(tables, batch, f)
<1> DEFINE step == [n \in 1..Len(batch) |-> [p \in Served |-> PushOne(p, batch[n])]]
<1>1. Len(batch) \in Nat /\ \A n \in 1..Len(batch) : batch[n] \in Mutation
  OBVIOUS
<1>2. step \in StepsOf(Served, Len(batch))
  BY <1>1, PushOneType DEF StepsOf
<1>3. Unserved(tables) \in Served
  BY UnservedType
<1>4. \A n \in 1..Len(batch) : \A p \in Served : step[n][p] = PushOne(p, batch[n])
  OBVIOUS
<1> HIDE DEF step
<1>5. PICK f : RunOf(f, Served, Len(batch), Unserved(tables), step)
  BY <1>1, <1>2, <1>3, Recursion
<1>6. \A n \in 1..Len(batch) : f[n - 1] \in Served /\ n \in 0..Len(batch) /\ n # 0
  BY <1>5, <1>1 DEF RunOf
<1>7. \A n \in 0..Len(batch) :
          f[n] = IF n = 0 THEN Unserved(tables) ELSE PushOne(f[n - 1], batch[n])
  BY <1>4, <1>5, <1>6, <1>1 DEF RunOf
<1>8. f = Chain(tables, batch, f)
  BY <1>5, <1>7 DEF Chain, RunOf
<1> QED
  BY <1>5, <1>8 DEF RunOf

\* A push is the chain of its steps.
LEMMA PushIsAChain ==
    ASSUME NEW tables \in Database, NEW batch \in Seq(Mutation)
    PROVE  \E after \in [0..Len(batch) -> Served] :
              /\ after[0] = Unserved(tables)
              /\ \A n \in 1..Len(batch) : after[n] = PushOne(after[n - 1], batch[n])
              /\ Push(tables, batch) = after[Len(batch)]
<1> DEFINE after == CHOOSE f : f = Chain(tables, batch, f)
<1>1. Push(tables, batch) = after[Len(batch)]
  BY DEF Push, Chain, Unserved
<1>2. after = Chain(tables, batch, after)
  BY ChainExists
<1>3. Len(batch) \in Nat
  OBVIOUS
<1> HIDE DEF after
<1>4. /\ after[0] = Unserved(tables)
      /\ \A n \in 1..Len(batch) : after[n] = PushOne(after[n - 1], batch[n])
      /\ DOMAIN after = 0..Len(batch)
  BY <1>2, <1>3 DEF Chain
<1>5. ASSUME NEW n \in 0..Len(batch) PROVE after[n] \in Served
  <2> DEFINE S == {k \in Nat : k <= Len(batch) => after[k] \in Served}
  <2>1. 0 \in S
    BY <1>3, <1>4, UnservedType
  <2>2. ASSUME NEW k \in S PROVE k + 1 \in S
    BY <1>3, <1>4, <2>2, PushOneType
  <2> HIDE DEF S
  <2>3. S = Nat
    BY <2>1, <2>2, InductiveSet DEF S
  <2> QED
    BY <2>3 DEF S
<1>6. after \in [0..Len(batch) -> Served]
  BY <1>2, <1>4, <1>5 DEF Chain
<1> QED
  BY <1>1, <1>4, <1>6

\* No two mutations of the list and the receipts have one id.
Distinct(tables, batch) ==
    \A m, n \in ToSet(batch) \cup tables.receipts : m.id = n.id => m = n

\* The first n mutations have their receipts and acknowledgements, in order.
Acknowledges(batch, n, p) ==
    /\ Len(p.acks) = n
    /\ \A i \in 1..n : batch[i] \in p.db.receipts /\ p.acks[i].rec = batch[i].rec

\* An acknowledgement shows the row as it is, unless the push itself has changed
\* it again.
ShowsRows(tables, p) ==
    \A i \in 1..Len(p.acks) :
        LET row == p.db.rows[p.acks[i].rec] IN
        Exists(row) /\ (p.acks[i].row = row \/ row.revision > tables.revision)

\* What is true of a push after the first n mutations.
Progressed(tables, batch, n, p) ==
    /\ Sound(p.db)
    /\ Extends(p.db, tables)
    /\ p.db.receipts \subseteq tables.receipts \cup ToSet(batch)
    /\ ~p.rejected => Acknowledges(batch, n, p)
    /\ ShowsRows(tables, p)
    /\ Distinct(tables, batch) => ~p.rejected

LEMMA FlushedAsLoaded ==
    ASSUME NEW row \in Row, NEW object \in Row
    PROVE  FlushedRow(row, row, object) = object
BY DEF FlushedRow, Row

LEMMA AcknowledgedAsWritten ==
    ASSUME NEW d \in Database, NEW m \in Mutation, d.rows[m.rec] \in Row
    PROVE  AcknowledgedRow(d, d.rows[m.rec], m)
              = WithMutation(d, d.rows[m.rec], m).rows[m.rec]
<1>1. d.revision + 1 \in Nat /\ m.rec \in DOMAIN d.rows
  BY DEF Database, Mutation
<1>2. SavedObject(d.rows[m.rec], m, d.revision + 1) \in Row
  BY <1>1, SavedObjectType
<1> QED
  BY <1>1, <1>2, FlushedAsLoaded DEF AcknowledgedRow, WithMutation

\* One more mutation is acknowledged.
LEMMA AppendAcknowledges ==
    ASSUME NEW tables \in Database, NEW batch \in Seq(Mutation),
           NEW n \in 1..Len(batch), NEW p \in Served, NEW q \in Served,
           Extends(p.db, tables), Extends(q.db, p.db),
           Acknowledges(batch, n - 1, p), ShowsRows(tables, p),
           batch[n] \in q.db.receipts, Exists(q.db.rows[batch[n].rec]),
           q.acks = Append(p.acks, [rec |-> batch[n].rec, row |-> q.db.rows[batch[n].rec]])
    PROVE  Acknowledges(batch, n, q) /\ ShowsRows(tables, q)
<1> DEFINE ack == [rec |-> batch[n].rec, row |-> q.db.rows[batch[n].rec]]
<1>1. /\ p.db \in Database /\ q.db \in Database
      /\ p.acks \in Seq(Received) /\ q.acks \in Seq(Received)
      /\ Len(p.acks) = n - 1
  BY DEF Served, Acknowledges
<1>2. /\ Len(q.acks) = n
      /\ \A i \in 1..(n - 1) : q.acks[i] = p.acks[i]
      /\ q.acks[n] = ack
  BY <1>1
<1>3. Len(batch) \in Nat /\ n \in Nat /\ \A i \in 1..n : i = n \/ i \in 1..(n - 1)
  OBVIOUS
<1>4. p.db.receipts \subseteq q.db.receipts
  BY DEF Extends
<1>5. \A i \in 1..(n - 1) : batch[i] \in p.db.receipts /\ p.acks[i].rec = batch[i].rec
  BY DEF Acknowledges
<1>6. Acknowledges(batch, n, q)
  <2>1. ASSUME NEW i \in 1..n
        PROVE  batch[i] \in q.db.receipts /\ q.acks[i].rec = batch[i].rec
    <3>1. CASE i = n
      BY <3>1, <1>2
    <3>2. CASE i \in 1..(n - 1)
      BY <3>2, <1>2, <1>4, <1>5
    <3> QED
      BY <3>1, <3>2, <1>3
  <2> QED
    BY <2>1, <1>2 DEF Acknowledges
<1>7. ASSUME NEW i \in 1..n
      PROVE  LET row == q.db.rows[q.acks[i].rec] IN
             Exists(row) /\ (q.acks[i].row = row \/ row.revision > tables.revision)
  <2>1. CASE i = n
    BY <2>1, <1>2
  <2>2. CASE i \in 1..(n - 1)
    <3> DEFINE r == p.acks[i].rec
    <3>1. q.acks[i] = p.acks[i] /\ p.acks[i] \in Received /\ i \in 1..Len(p.acks)
      BY <2>2, <1>1, <1>2
    <3>2. r \in RecordIds
      BY <3>1 DEF Received
    <3>3. /\ Exists(p.db.rows[r])
          /\ p.acks[i].row = p.db.rows[r] \/ p.db.rows[r].revision > tables.revision
      BY <3>1 DEF ShowsRows
    <3>4. Exists(q.db.rows[r])
      BY <3>2, <3>3, <1>1, ExtendsKeepsRows
    <3>5. CASE q.db.rows[r] = p.db.rows[r]
      BY <3>1, <3>3, <3>4, <3>5
    <3>6. CASE q.db.rows[r] # p.db.rows[r]
      <4>1. q.db.rows[r].revision > p.db.revision /\ p.db.revision >= tables.revision
        BY <3>2, <3>6 DEF Extends
      <4>2. /\ q.db.rows[r].revision \in Nat /\ p.db.revision \in Nat
            /\ tables.revision \in Nat
        BY <3>2, <1>1 DEF Database, Row
      <4>3. \A a, b, c \in Nat : a > b /\ b >= c => a > c
        OBVIOUS
      <4>4. q.db.rows[r].revision > tables.revision
        <5> HIDE DEF r
        <5> QED
          BY <4>1, <4>2, <4>3
      <4> QED
        BY <3>1, <3>4, <4>4
    <3> QED
      BY <3>5, <3>6
  <2> QED
    BY <2>1, <2>2, <1>3
<1> QED
  BY <1>2, <1>6, <1>7 DEF ShowsRows

LEMMA PushOneProgresses ==
    ASSUME NEW tables \in Database, NEW batch \in Seq(Mutation),
           NEW n \in 1..Len(batch), NEW p \in Served,
           Progressed(tables, batch, n - 1, p)
    PROVE  Progressed(tables, batch, n, PushOne(p, batch[n]))
<1> DEFINE m == batch[n]
           row == p.db.rows[m.rec]
           q == PushOne(p, m)
<1>1. m \in Mutation /\ m \in ToSet(batch)
  BY DEF ToSet
<1>2. p.db \in Database /\ p.acks \in Seq(Received) /\ p.rejected \in BOOLEAN
  BY DEF Served
<1>3. m.rec \in RecordIds /\ row \in Row /\ q \in Served
  BY <1>1, <1>2, PushOneType DEF Mutation, Database
<1>4. CASE p.rejected \/ (ReceiptsOf(p.db, m.id) # {} /\ m \notin p.db.receipts)
  <2>1. q.db = p.db /\ q.acks = p.acks /\ q.rejected
    BY <1>4 DEF PushOne, ReceiptsOf, Served
  <2>2. ~Distinct(tables, batch)
    BY <1>1, <1>4 DEF Progressed, Distinct, ReceiptsOf
  <2> QED
    BY <2>1, <2>2 DEF Progressed, ShowsRows
<1>5. CASE ~p.rejected /\ m \in p.db.receipts
  <2>1. /\ q.db = p.db /\ ~q.rejected
        /\ q.acks = Append(p.acks, [rec |-> m.rec, row |-> row])
    BY <1>5 DEF PushOne, ReceiptsOf, Served
  <2>2. Exists(row) /\ Extends(p.db, p.db)
    BY <1>1, <1>2, <1>5, ExtendsItself DEF Progressed, Sound
  <2>3. Acknowledges(batch, n, q) /\ ShowsRows(tables, q)
    <3> HIDE DEF q
    <3> QED
      BY <1>3, <1>5, <2>1, <2>2, AppendAcknowledges DEF Progressed
  <2> QED
    BY <2>1, <2>3 DEF Progressed
<1>6. CASE ~p.rejected /\ ReceiptsOf(p.db, m.id) = {}
  <2> DEFINE later == WithMutation(p.db, row, m)
  <2>1. /\ q.db = later /\ ~q.rejected
        /\ q.acks = Append(p.acks, [rec |-> m.rec, row |-> later.rows[m.rec]])
    BY <1>1, <1>2, <1>3, <1>6, AcknowledgedAsWritten DEF PushOne, ReceiptsOf, Served
  <2>2. ~ViolatesUniqueness(p.db, row, m)
    BY <1>6 DEF ViolatesUniqueness
  <2>3. Sound(later) /\ Extends(later, p.db) /\ m \in later.receipts
    BY <1>1, <1>2, <1>3, <2>2, WriteKeepsSound DEF Progressed
  <2>4. later \in Database /\ later.receipts = p.db.receipts \cup {m}
    BY <1>1, <1>2, <1>3, WithMutationType DEF WithMutation, Database
  <2> HIDE DEF later, q
  <2>5. Extends(later, tables)
    BY <1>2, <2>3, <2>4, ExtendsTransitive DEF Progressed
  <2>6. Exists(later.rows[m.rec])
    BY <2>3 DEF Sound
  <2>7. Acknowledges(batch, n, q) /\ ShowsRows(tables, q)
    BY <1>3, <1>6, <2>1, <2>3, <2>6, AppendAcknowledges DEF Progressed
  <2>8. q.db.receipts \subseteq tables.receipts \cup ToSet(batch)
    BY <1>1, <2>1, <2>4 DEF Progressed
  <2>9. Progressed(tables, batch, n, q)
    BY <2>1, <2>3, <2>5, <2>7, <2>8 DEF Progressed
  <2> QED
    BY <2>9 DEF q
<1> QED
  BY <1>4, <1>5, <1>6

\* Whatever a device sends: sound tables stay sound and only grow, a request
\* that is not rejected has all its receipts and one acknowledgement each, and
\* it is rejected only if an id was used for other content.
LEMMA PushProgresses ==
    ASSUME NEW tables \in Database, Sound(tables), NEW batch \in Seq(Mutation)
    PROVE  /\ Push(tables, batch) \in Served
           /\ Progressed(tables, batch, Len(batch), Push(tables, batch))
<1>1. PICK after \in [0..Len(batch) -> Served] :
          /\ after[0] = Unserved(tables)
          /\ \A n \in 1..Len(batch) : after[n] = PushOne(after[n - 1], batch[n])
          /\ Push(tables, batch) = after[Len(batch)]
  BY PushIsAChain
<1> DEFINE S == {k \in Nat : k <= Len(batch) => Progressed(tables, batch, k, after[k])}
<1>2. Len(batch) \in Nat
  OBVIOUS
<1>3. 0 \in S
  <2>1. Progressed(tables, batch, 0, Unserved(tables))
    BY ExtendsItself DEF Progressed, Unserved, Acknowledges, ShowsRows
  <2> QED
    BY <1>1, <2>1
<1>4. ASSUME NEW k \in S PROVE k + 1 \in S
  <2> SUFFICES ASSUME k + 1 <= Len(batch)
               PROVE  Progressed(tables, batch, k + 1, after[k + 1])
    OBVIOUS
  <2>1. /\ k + 1 \in 1..Len(batch) /\ (k + 1) - 1 = k
        /\ after[k] \in Served /\ Progressed(tables, batch, k, after[k])
    BY <1>1, <1>2, <1>4
  <2>2. after[k + 1] = PushOne(after[k], batch[k + 1])
    BY <1>1, <2>1
  <2> QED
    BY <2>1, <2>2, PushOneProgresses
<1>5. S = Nat
  <2> HIDE DEF S
  <2> QED
    BY <1>3, <1>4, InductiveSet DEF S
<1> QED
  BY <1>1, <1>2, <1>5

-----------------------------------------------------------------------------
(***************************************************************************)
(* What a page holds.                                                      *)
(***************************************************************************)

Older(tables, records, r) ==
    {s \in records : tables.rows[s].revision < tables.rows[r].revision}

Rank(tables, records, r) == Cardinality(Older(tables, records, r))

\* Revisions are unique, so the ranks of n rows are 0 to n - 1.
LEMMA Ranks ==
    ASSUME NEW tables \in Database, Sound(tables), NEW after \in Nat,
           NEW newer, newer = Newer(tables, after)
    PROVE  /\ Cardinality(newer) \in Nat
           /\ \A r \in newer : Rank(tables, newer, r) \in 0..(Cardinality(newer) - 1)
           /\ \A r, s \in newer :
                tables.rows[r].revision < tables.rows[s].revision
                    => Rank(tables, newer, r) < Rank(tables, newer, s)
           /\ \A r, s \in newer :
                Rank(tables, newer, r) = Rank(tables, newer, s) => r = s
           /\ \A i \in 0..(Cardinality(newer) - 1) :
                \E r \in newer : Rank(tables, newer, r) = i
<1>1. /\ newer \subseteq RecordIds
      /\ \A r \in newer : tables.rows[r].revision \in Nat /\ Exists(tables.rows[r])
  BY DEF Newer, Database, Row, Exists
<1>2. IsFiniteSet(newer) /\ Cardinality(newer) \in Nat
  BY <1>1, RecordsAreFinite, FS_Subset, FS_CardinalityType
<1>3. ASSUME NEW r \in newer
      PROVE  /\ IsFiniteSet(Older(tables, newer, r))
             /\ Rank(tables, newer, r) \in 0..(Cardinality(newer) - 1)
  <2>1. Older(tables, newer, r) \in SUBSET newer /\ r \notin Older(tables, newer, r)
    BY <1>1 DEF Older
  <2>2. Cardinality(Older(tables, newer, r)) # Cardinality(newer)
    BY <2>1, <1>2, FS_Subset
  <2>3. /\ IsFiniteSet(Older(tables, newer, r))
        /\ Cardinality(Older(tables, newer, r)) <= Cardinality(newer)
        /\ Cardinality(Older(tables, newer, r)) \in Nat
    BY <2>1, <1>2, FS_Subset, FS_CardinalityType
  <2> QED
    BY <2>2, <2>3, <1>2 DEF Rank
<1>4. ASSUME NEW r \in newer, NEW s \in newer,
             tables.rows[r].revision < tables.rows[s].revision
      PROVE  Rank(tables, newer, r) < Rank(tables, newer, s)
  <2>1. Older(tables, newer, r) \in SUBSET Older(tables, newer, s)
    BY <1>1, <1>4 DEF Older
  <2>2. r \in Older(tables, newer, s) /\ r \notin Older(tables, newer, r)
    BY <1>1, <1>4 DEF Older
  <2>3. /\ Rank(tables, newer, r) <= Rank(tables, newer, s)
        /\ Rank(tables, newer, r) # Rank(tables, newer, s)
    BY <2>1, <2>2, <1>3, FS_Subset DEF Rank
  <2> QED
    BY <2>3, <1>2, <1>3
<1>5. ASSUME NEW r \in newer, NEW s \in newer,
             Rank(tables, newer, r) = Rank(tables, newer, s)
      PROVE  r = s
  <2>1. /\ ~(tables.rows[r].revision < tables.rows[s].revision)
        /\ ~(tables.rows[s].revision < tables.rows[r].revision)
    BY <1>2, <1>3, <1>4, <1>5
  <2>2. tables.rows[r].revision = tables.rows[s].revision
    BY <2>1, <1>1
  <2> QED
    BY <2>2, <1>1 DEF Sound
<1>6. ASSUME NEW i \in 0..(Cardinality(newer) - 1)
      PROVE  \E r \in newer : Rank(tables, newer, r) = i
  <2> DEFINE ranks == 0..(Cardinality(newer) - 1)
             f == [r \in newer |-> Rank(tables, newer, r)]
  <2>1. f \in [newer -> ranks] /\ \A r \in newer : f[r] = Rank(tables, newer, r)
    BY <1>3
  <2> HIDE DEF f
  <2>2. f \in Injection(newer, ranks)
    BY <2>1, <1>5 DEF Injection, IsInjective
  <2>3. IsFiniteSet(ranks) /\ Cardinality(ranks) = Cardinality(newer)
    <3>1. 0 \in Int /\ Cardinality(newer) - 1 \in Int
      BY <1>2
    <3> QED
      BY <3>1, <1>2, FS_Interval
  <2>4. f \in Surjection(newer, ranks)
    <3> HIDE DEF ranks
    <3> QED
      BY <2>2, <2>3, FS_Injection
  <2> QED
    BY <2>1, <2>4, <1>6 DEF Surjection
<1> QED
  BY <1>2, <1>3, <1>4, <1>5, <1>6

\* The revision a device has read up to when it has a page.
ReadUpTo(page, after) == IF page = <<>> THEN after ELSE page[Len(page)].row.revision

\* A page shows rows as they are, all that are newer than `after` up to its last
\* one, and all newer ones if it is not full.
LEMMA PullReads ==
    ASSUME NEW tables \in Database, Sound(tables), NEW after \in Nat,
           NEW limit \in Nat \ {0}, NEW page, page = Pull(tables, after, limit)
    PROVE  /\ page \in Seq(Received)
           /\ \A i \in 1..Len(page) :
                 /\ page[i].row = tables.rows[page[i].rec]
                 /\ page[i].row.revision > after
           /\ \A r \in RecordIds :
                 (/\ tables.rows[r].revision > after
                  /\ \/ tables.rows[r].revision <= ReadUpTo(page, after)
                     \/ Len(page) < limit)
                 => \E i \in 1..Len(page) :
                       page[i] = [rec |-> r, row |-> tables.rows[r]]
           /\ ReadUpTo(page, after) \in Nat
           /\ ReadUpTo(page, after) >= after
<1> DEFINE newer == Newer(tables, after)
           n == Smaller(limit, Cardinality(newer))
           record(i) == Nth(tables, newer, i)
<1>1. /\ Cardinality(newer) \in Nat
      /\ \A r \in newer : Rank(tables, newer, r) \in 0..(Cardinality(newer) - 1)
      /\ \A r, s \in newer :
            tables.rows[r].revision < tables.rows[s].revision
                => Rank(tables, newer, r) < Rank(tables, newer, s)
      /\ \A r, s \in newer :
            Rank(tables, newer, r) = Rank(tables, newer, s) => r = s
      /\ \A i \in 0..(Cardinality(newer) - 1) :
            \E r \in newer : Rank(tables, newer, r) = i
  BY Ranks
<1>2. /\ newer \subseteq RecordIds
      /\ \A r \in RecordIds : tables.rows[r] \in Row /\ tables.rows[r].revision \in Nat
      /\ \A r \in newer : tables.rows[r].revision > after
      /\ \A r \in RecordIds : tables.rows[r].revision > after => r \in newer
  BY DEF Newer, Database, Row
<1>3. page = [i \in 1..n |-> [rec |-> record(i), row |-> tables.rows[record(i)]]]
  BY DEF Pull
<1>4. /\ n \in Nat /\ n <= limit /\ n <= Cardinality(newer)
      /\ n < limit => n = Cardinality(newer)
  BY <1>1 DEF Smaller
<1>5. ASSUME NEW i \in 1..Cardinality(newer)
      PROVE  record(i) \in newer /\ Rank(tables, newer, record(i)) = i - 1
  <2>1. i - 1 \in 0..(Cardinality(newer) - 1)
    BY <1>1
  <2>2. \E r \in newer : Rank(tables, newer, r) = i - 1
    BY <2>1, <1>1
  <2> HIDE DEF newer
  <2> QED
    BY <2>2 DEF Nth, Rank, Older
<1> HIDE DEF newer, n, record
<1>6. \A i \in 1..n : i \in 1..Cardinality(newer)
  BY <1>1, <1>4
<1>7. /\ page \in Seq(Received) /\ Len(page) = n
      /\ \A i \in 1..n : page[i] = [rec |-> record(i), row |-> tables.rows[record(i)]]
  <2>1. \A i \in 1..n : [rec |-> record(i), row |-> tables.rows[record(i)]] \in Received
    BY <1>2, <1>5, <1>6 DEF Received
  <2> QED
    BY <2>1, <1>3, <1>4
<1>8. ASSUME NEW i \in 1..Len(page)
      PROVE  page[i].row = tables.rows[page[i].rec] /\ page[i].row.revision > after
  BY <1>2, <1>5, <1>6, <1>7
<1>9. ASSUME NEW r \in RecordIds, tables.rows[r].revision > after,
             tables.rows[r].revision <= ReadUpTo(page, after) \/ Len(page) < limit
      PROVE  \E i \in 1..Len(page) : page[i] = [rec |-> r, row |-> tables.rows[r]]
  <2> DEFINE i == Rank(tables, newer, r) + 1
  <2>1. r \in newer /\ i \in 1..Cardinality(newer)
    BY <1>1, <1>2, <1>9
  <2>2. record(i) = r
    <3>1. Rank(tables, newer, record(i)) = Rank(tables, newer, r)
      BY <2>1, <1>1, <1>5
    <3> HIDE DEF i
    <3> QED
      BY <3>1, <2>1, <1>1, <1>5
  <2>3. i <= n
    <3> SUFFICES ASSUME i > n PROVE FALSE
      BY <2>1, <1>4, <1>1
    <3>1. n = limit /\ n # 0
      BY <2>1, <1>1, <1>4
    <3>2. page # <<>> /\ ReadUpTo(page, after) = tables.rows[record(n)].revision
      BY <3>1, <1>4, <1>7 DEF ReadUpTo
    <3>3. n \in 1..Cardinality(newer) /\ record(n) \in newer
      BY <3>1, <1>4, <1>5, <1>6
    <3>4. Rank(tables, newer, record(n)) < Rank(tables, newer, r)
      BY <2>1, <3>3, <1>1, <1>4, <1>5
    <3>5. tables.rows[r].revision <= tables.rows[record(n)].revision
      BY <3>1, <3>2, <1>7, <1>9
    <3>6. ~(tables.rows[r].revision < tables.rows[record(n)].revision)
      BY <2>1, <3>3, <3>4, <1>1
    <3>7. /\ tables.rows[r].revision \in Nat
          /\ tables.rows[record(n)].revision \in Nat
          /\ Exists(tables.rows[r])
      BY <2>1, <3>3, <1>2, <1>9 DEF Exists
    <3>8. tables.rows[r].revision = tables.rows[record(n)].revision
      BY <3>5, <3>6, <3>7
    <3>9. r = record(n)
      BY <3>3, <3>7, <3>8, <1>2 DEF Sound
    <3> QED
      BY <2>1, <3>4, <3>9, <1>1
  <2>4. i \in 1..Len(page)
    BY <2>1, <2>3, <1>1, <1>4, <1>7
  <2> HIDE DEF i
  <2> QED
    BY <2>2, <2>4, <1>7
<1>10. ReadUpTo(page, after) \in Nat /\ ReadUpTo(page, after) >= after
  <2>1. CASE page = <<>>
    BY <2>1 DEF ReadUpTo
  <2>2. CASE page # <<>>
    <3>1. n \in 1..Len(page) /\ Len(page) = n
      BY <2>2, <1>4, <1>7
    <3>2. page[n].row = tables.rows[record(n)] /\ record(n) \in RecordIds
      BY <3>1, <1>2, <1>5, <1>6, <1>7
    <3>3. page[n].row.revision \in Nat /\ page[n].row.revision > after
      BY <3>1, <3>2, <1>2, <1>8
    <3> QED
      BY <2>2, <3>1, <3>3 DEF ReadUpTo
  <2> QED
    BY <2>1, <2>2
<1> QED
  BY <1>7, <1>8, <1>9, <1>10
=============================================================================
