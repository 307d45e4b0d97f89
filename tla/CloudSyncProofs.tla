--------------------------- MODULE CloudSyncProofs ---------------------------
(***************************************************************************)
(* Theorems about CloudSync, for every set of devices, records and entries *)
(* and every limit.                                                        *)
(*                                                                         *)
(* The argument is about ONE device between two states of the tables:      *)
(* DeviceOK is its invariant, and every action of the specification is one *)
(* of fourteen kinds of steps of a device, or leaves it alone while the    *)
(* tables grow.                                                            *)
(***************************************************************************)
EXTENDS CloudSync, SyncRequestsProofs

-----------------------------------------------------------------------------
(***************************************************************************)
(* The members of sequences.                                               *)
(***************************************************************************)

LEMMA MembersOfEmpty ==
    ASSUME NEW A, NEW s \in Seq(A)
    PROVE  /\ ToSet(s) \subseteq A
           /\ ToSet(s) = {} <=> s = <<>>
<1>1. Len(s) \in Nat /\ DOMAIN s = 1..Len(s) /\ \A i \in 1..Len(s) : s[i] \in A
  OBVIOUS
<1>2. ToSet(s) \subseteq A
  BY <1>1 DEF ToSet
<1>3. ASSUME s # <<>> PROVE s[1] \in ToSet(s)
  <2>1. 1 \in 1..Len(s)
    BY <1>3
  <2> QED
    BY <2>1, <1>1 DEF ToSet
<1>4. ASSUME s = <<>> PROVE ToSet(s) = {}
  BY <1>4, <1>1 DEF ToSet
<1> QED
  BY <1>2, <1>3, <1>4

LEMMA MembersOfAppend ==
    ASSUME NEW A, NEW s \in Seq(A), NEW x \in A
    PROVE  /\ Append(s, x) \in Seq(A)
           /\ ToSet(Append(s, x)) = ToSet(s) \cup {x}
<1> DEFINE t == Append(s, x)
<1>1. /\ t \in Seq(A) /\ Len(t) = Len(s) + 1 /\ Len(s) \in Nat
      /\ t[Len(s) + 1] = x /\ \A i \in 1..Len(s) : t[i] = s[i]
  OBVIOUS
<1> HIDE DEF t
<1>2. DOMAIN t = 1..(Len(s) + 1) /\ DOMAIN s = 1..Len(s)
  BY <1>1
<1>3. ASSUME NEW y \in ToSet(t) PROVE y \in ToSet(s) \cup {x}
  <2>1. PICK i \in 1..(Len(s) + 1) : y = t[i]
    BY <1>2, <1>3 DEF ToSet
  <2>2. i = Len(s) + 1 \/ i \in 1..Len(s)
    BY <1>1
  <2> QED
    BY <1>1, <1>2, <2>1, <2>2 DEF ToSet
<1>4. ASSUME NEW y \in ToSet(s) \cup {x} PROVE y \in ToSet(t)
  <2>1. CASE y = x
    BY <2>1, <1>1, <1>2 DEF ToSet
  <2>2. CASE y \in ToSet(s)
    <3>1. PICK i \in 1..Len(s) : y = s[i]
      BY <1>2, <2>2 DEF ToSet
    <3>2. i \in 1..(Len(s) + 1) /\ t[i] = y
      BY <3>1, <1>1
    <3> QED
      BY <3>2, <1>2 DEF ToSet
  <2> QED
    BY <1>4, <2>1, <2>2
<1>5. ToSet(t) = ToSet(s) \cup {x}
  BY <1>3, <1>4
<1> QED
  BY <1>1, <1>5 DEF t

LEMMA MembersOfTail ==
    ASSUME NEW A, NEW s \in Seq(A), s # <<>>
    PROVE  /\ Head(s) \in A /\ Tail(s) \in Seq(A) /\ Len(s) \in Nat \ {0}
           /\ Len(Tail(s)) = Len(s) - 1
           /\ ToSet(s) = {Head(s)} \cup ToSet(Tail(s))
<1> DEFINE t == Tail(s)
<1>1. /\ Head(s) = s[1] /\ Head(s) \in A /\ t \in Seq(A)
      /\ Len(s) \in Nat \ {0} /\ Len(t) = Len(s) - 1
      /\ \A i \in 1..Len(t) : t[i] = s[i + 1]
      /\ DOMAIN t = 1..Len(t) /\ DOMAIN s = 1..Len(s)
  OBVIOUS
<1> HIDE DEF t
<1>2. ASSUME NEW y \in ToSet(s) PROVE y \in {Head(s)} \cup ToSet(t)
  <2>1. PICK i \in 1..Len(s) : y = s[i]
    BY <1>1, <1>2 DEF ToSet
  <2>2. CASE i = 1
    BY <2>1, <2>2, <1>1
  <2>3. CASE i # 1
    <3>1. i - 1 \in 1..Len(t) /\ (i - 1) + 1 = i
      BY <2>1, <2>3, <1>1
    <3>2. t[i - 1] = y
      BY <3>1, <2>1, <1>1
    <3> QED
      BY <3>1, <3>2, <1>1 DEF ToSet
  <2> QED
    BY <2>2, <2>3
<1>3. ASSUME NEW y \in {Head(s)} \cup ToSet(t) PROVE y \in ToSet(s)
  <2>1. CASE y = Head(s)
    BY <2>1, <1>1 DEF ToSet
  <2>2. CASE y \in ToSet(t)
    <3>1. PICK i \in 1..Len(t) : y = t[i]
      BY <2>2, <1>1 DEF ToSet
    <3>2. i + 1 \in 1..Len(s) /\ s[i + 1] = y
      BY <3>1, <1>1
    <3> QED
      BY <3>2, <1>1 DEF ToSet
  <2> QED
    BY <1>3, <2>1, <2>2
<1>4. ToSet(s) = {Head(s)} \cup ToSet(t)
  BY <1>2, <1>3
<1> QED
  BY <1>1, <1>4 DEF t

LEMMA MembersOfConcat ==
    ASSUME NEW A, NEW s \in Seq(A), NEW t \in Seq(A)
    PROVE  /\ s \o t \in Seq(A)
           /\ ToSet(s \o t) = ToSet(s) \cup ToSet(t)
<1> DEFINE u == s \o t
<1>1. /\ u \in Seq(A) /\ Len(u) = Len(s) + Len(t)
      /\ Len(s) \in Nat /\ Len(t) \in Nat
      /\ \A i \in 1..Len(s) : u[i] = s[i]
      /\ \A i \in 1..Len(u) : i > Len(s) => u[i] = t[i - Len(s)]
      /\ DOMAIN u = 1..Len(u) /\ DOMAIN s = 1..Len(s) /\ DOMAIN t = 1..Len(t)
  OBVIOUS
<1> HIDE DEF u
<1>2. ASSUME NEW y \in ToSet(u) PROVE y \in ToSet(s) \cup ToSet(t)
  <2>1. PICK i \in 1..Len(u) : y = u[i]
    BY <1>1, <1>2 DEF ToSet
  <2>2. CASE i <= Len(s)
    <3>1. i \in 1..Len(s) /\ s[i] = y
      BY <2>1, <2>2, <1>1
    <3> QED
      BY <3>1, <1>1 DEF ToSet
  <2>3. CASE i > Len(s)
    <3>1. i - Len(s) \in 1..Len(t) /\ t[i - Len(s)] = y
      BY <2>1, <2>3, <1>1
    <3> QED
      BY <3>1, <1>1 DEF ToSet
  <2> QED
    BY <2>2, <2>3, <1>1
<1>3. ASSUME NEW y \in ToSet(s) \cup ToSet(t) PROVE y \in ToSet(u)
  <2>1. CASE y \in ToSet(s)
    <3>1. PICK i \in 1..Len(s) : y = s[i]
      BY <2>1, <1>1 DEF ToSet
    <3>2. i \in 1..Len(u) /\ u[i] = y
      BY <3>1, <1>1
    <3> QED
      BY <3>2, <1>1 DEF ToSet
  <2>2. CASE y \in ToSet(t)
    <3>1. PICK i \in 1..Len(t) : y = t[i]
      BY <2>2, <1>1 DEF ToSet
    <3>2. /\ i + Len(s) \in 1..Len(u) /\ i + Len(s) > Len(s)
          /\ (i + Len(s)) - Len(s) = i
      BY <3>1, <1>1
    <3>3. u[i + Len(s)] = y
      BY <3>1, <3>2, <1>1
    <3> QED
      BY <3>2, <3>3, <1>1 DEF ToSet
  <2> QED
    BY <1>3, <2>1, <2>2
<1>4. ToSet(u) = ToSet(s) \cup ToSet(t)
  BY <1>2, <1>3
<1> QED
  BY <1>1, <1>4 DEF u

LEMMA MembersOfPrefix ==
    ASSUME NEW A, NEW s \in Seq(A), NEW n \in 0..Len(s)
    PROVE  /\ SubSeq(s, 1, n) \in Seq(A)
           /\ ToSet(SubSeq(s, 1, n)) \subseteq ToSet(s)
BY DEF ToSet

LEMMA MembersOfSet ==
    ASSUME NEW S, IsFiniteSet(S)
    PROVE  /\ SetToSeq(S) \in Seq(S)
           /\ ToSet(SetToSeq(S)) = S
           /\ \A i, j \in 1..Len(SetToSeq(S)) :
                 SetToSeq(S)[i] = SetToSeq(S)[j] => i = j
<1>1. Cardinality(S) \in Nat /\ ExistsBijection(1..Cardinality(S), S)
  BY FS_CardinalityType
<1>2. PICK f \in [1..Cardinality(S) -> S] :
          IsInjective(f) /\ \A x \in S : \E i \in 1..Cardinality(S) : f[i] = x
  BY <1>1 DEF ExistsBijection, Bijection, Injection, Surjection, IsInjective
<1>3. SetToSeq(S) \in [1..Cardinality(S) -> S] /\ IsInjective(SetToSeq(S))
  BY <1>2 DEF SetToSeq
<1> DEFINE g == SetToSeq(S)
<1>4. g \in [1..Cardinality(S) -> S] /\ g \in Seq(S) /\ Len(g) = Cardinality(S)
  BY <1>1, <1>3
<1>5. g \in Injection(1..Cardinality(S), S)
  BY <1>3 DEF Injection, IsInjective
<1> HIDE DEF g
<1>6. g \in Surjection(1..Cardinality(S), S)
  <2>1. IsFiniteSet(1..Cardinality(S)) /\ Cardinality(1..Cardinality(S)) = Cardinality(S)
    <3>1. 1 \in Int /\ Cardinality(S) \in Int
      BY <1>1
    <3> QED
      BY <3>1, <1>1, FS_Interval
  <2> QED
    BY <2>1, <1>5, FS_Injection
<1>7. ToSet(g) = S
  BY <1>4, <1>6 DEF ToSet, Surjection
<1>8. \A i, j \in 1..Len(g) : g[i] = g[j] => i = j
  BY <1>4, <1>5 DEF Injection, IsInjective
<1> QED
  BY <1>4, <1>7, <1>8 DEF g

\* One step of Without.
Filtered(p, x, gone) == IF x \in gone THEN p ELSE Append(p, x)

Filter(s, gone, f) ==
    [n \in 0..Len(s) |-> IF n = 0 THEN <<>> ELSE Filtered(f[n - 1], s[n], gone)]

LEMMA MembersOfWithout ==
    ASSUME NEW A, NEW s \in Seq(A), NEW gone
    PROVE  /\ Without(s, gone) \in Seq(A)
           /\ ToSet(Without(s, gone)) = ToSet(s) \ gone
<1> DEFINE kept == CHOOSE f : f = Filter(s, gone, f)
           step == [n \in 1..Len(s) |-> [p \in Seq(A) |-> Filtered(p, s[n], gone)]]
<1>1. Len(s) \in Nat /\ \A n \in 1..Len(s) : s[n] \in A
  OBVIOUS
<1>2. step \in StepsOf(Seq(A), Len(s)) /\ <<>> \in Seq(A)
  BY <1>1 DEF StepsOf, Filtered
<1>3. \A n \in 1..Len(s) : \A p \in Seq(A) : step[n][p] = Filtered(p, s[n], gone)
  OBVIOUS
<1> HIDE DEF step
<1>4. PICK f : RunOf(f, Seq(A), Len(s), <<>>, step)
  BY <1>1, <1>2, Recursion
<1>5. \A n \in 1..Len(s) : f[n - 1] \in Seq(A) /\ n \in 0..Len(s) /\ n # 0
  BY <1>4, <1>1 DEF RunOf
<1>6. \A n \in 0..Len(s) :
          f[n] = IF n = 0 THEN <<>> ELSE Filtered(f[n - 1], s[n], gone)
  BY <1>3, <1>4, <1>5, <1>1 DEF RunOf
<1>7. f = Filter(s, gone, f)
  BY <1>4, <1>6 DEF RunOf, Filter
<1>8. kept = Filter(s, gone, kept)
  BY <1>7
<1>9. Without(s, gone) = kept[Len(s)]
  BY DEF Without, Filter, Filtered
<1> HIDE DEF kept
<1>10. /\ kept[0] = <<>>
       /\ \A n \in 1..Len(s) : kept[n] = Filtered(kept[n - 1], s[n], gone)
  BY <1>8, <1>1 DEF Filter
<1> DEFINE Members(n) == {s[i] : i \in 1..n} \ gone
           S == {n \in Nat : n <= Len(s) =>
                    kept[n] \in Seq(A) /\ ToSet(kept[n]) = Members(n)}
<1>11. 0 \in S
  <2>1. <<>> \in Seq(A)
    OBVIOUS
  <2>2. ToSet(<<>>) = {}
    BY <2>1, MembersOfEmpty
  <2>3. Members(0) = {}
    OBVIOUS
  <2> HIDE DEF Members
  <2> QED
    BY <1>10, <2>1, <2>2, <2>3
<1>12. ASSUME NEW n \in S PROVE n + 1 \in S
  <2> SUFFICES ASSUME n + 1 <= Len(s)
               PROVE  kept[n + 1] \in Seq(A) /\ ToSet(kept[n + 1]) = Members(n + 1)
    OBVIOUS
  <2>1. /\ n \in Nat /\ n + 1 \in 1..Len(s) /\ (n + 1) - 1 = n
        /\ kept[n] \in Seq(A) /\ ToSet(kept[n]) = Members(n) /\ s[n + 1] \in A
    BY <1>1, <1>12
  <2>2. Members(n + 1) = Members(n) \cup ({s[n + 1]} \ gone)
    BY <2>1
  <2> HIDE DEF Members
  <2>3. kept[n + 1] = Filtered(kept[n], s[n + 1], gone)
    BY <2>1, <1>10
  <2>4. CASE s[n + 1] \in gone
    BY <2>1, <2>2, <2>3, <2>4 DEF Filtered
  <2>5. CASE s[n + 1] \notin gone
    <3>1. kept[n + 1] = Append(kept[n], s[n + 1])
      BY <2>3, <2>5 DEF Filtered
    <3>2. /\ kept[n + 1] \in Seq(A)
          /\ ToSet(kept[n + 1]) = ToSet(kept[n]) \cup {s[n + 1]}
      BY <3>1, <2>1, MembersOfAppend
    <3> QED
      BY <3>2, <2>1, <2>2, <2>5
  <2> QED
    BY <2>4, <2>5
<1>13. S = Nat
  <2> HIDE DEF S
  <2> QED
    BY <1>11, <1>12, InductiveSet DEF S
<1>14. Members(Len(s)) = ToSet(s) \ gone
  BY DEF ToSet
<1> HIDE DEF Members
<1>15. kept[Len(s)] \in Seq(A) /\ ToSet(kept[Len(s)]) = Members(Len(s))
  BY <1>1, <1>13
<1> QED
  BY <1>9, <1>14, <1>15

\* The records that the members of a list are about, and their ids.
Records(list) == {x.rec : x \in ToSet(list)}
Ids(list) == {m.id : m \in ToSet(list)}

LEMMA NoMembers == ToSet(<<>>) = {} /\ Records(<<>>) = {} /\ Ids(<<>>) = {}
<1>1. <<>> \in Seq({})
  OBVIOUS
<1>2. ToSet(<<>>) = {}
  BY <1>1, MembersOfEmpty
<1> QED
  BY <1>2 DEF Records, Ids

LEMMA RecordsOfTail ==
    ASSUME NEW A, NEW s \in Seq(A), s # <<>>
    PROVE  Records(s) = {Head(s).rec} \cup Records(Tail(s))
BY MembersOfTail DEF Records

-----------------------------------------------------------------------------
(***************************************************************************)
(* The invariant, for one device: T are the tables, k is its disk and a    *)
(* its running application.                                                *)
(***************************************************************************)

\* How the chains of futures hold each other up.
Shaped(k, a) ==
    /\ a.edit.stage = "none" => a.edit = NoEdit
    /\ a.edit.stage \in {"queue", "put"} => a.edit.changes # <<>>
    /\ a.edit.stage = "save" => a.edit.changes = <<>>
    /\ a.writer = "edit" <=> a.edit.stage = "put"
    /\ a.writer = "none" => a.state = k.state
    /\ a.edit = NoEdit => a.entries = k.entries
    /\ a.run.pc = "idle" => a.run = NoRun
    /\ a.run.pc \notin {"acks", "rows"} => a.run.todo = <<>>

\* Mutations are numbered, in memory and on disk.
Orderly(d, k, a) ==
    /\ \A m \in ToSet(a.state.queue) \cup ToSet(a.run.sent) :
          m.id[1] = d /\ m.id[2] <= a.state.counter
    /\ \A m, n \in ToSet(a.state.queue) \cup ToSet(a.run.sent) :
          m.id = n.id => m = n
    /\ \A m \in ToSet(k.state.queue) :
          m.id[1] = d /\ m.id[2] <= k.state.counter
    /\ \A m, n \in ToSet(k.state.queue) : m.id = n.id => m = n
    /\ k.state.counter <= a.state.counter

\* A mutation that left the queue in memory is received or has a successor.
Kept(T, k, a) ==
    \A m \in ToSet(k.state.queue) :
        \/ m \in T.receipts
        \/ \E n \in ToSet(a.state.queue) : n.rec = m.rec /\ n.id[2] >= m.id[2]

\* No cursor is ahead of the server.
Behind(T, k, a) ==
    /\ k.state.cursor <= T.revision
    /\ a.state.cursor <= T.revision
    /\ a.run.cursor <= T.revision

\* What the device was answered: every mutation it sent is received, and a record
\* still to be applied is the row as it is or one that a later page will bring.
Answered(T, a) ==
    /\ a.run.pc = "acks" => ToSet(a.run.sent) \subseteq T.receipts
    /\ \A x \in ToSet(a.run.todo) :
          /\ Exists(T.rows[x.rec])
          /\ \/ x.row = T.rows[x.rec]
             \/ /\ T.rows[x.rec].revision > a.state.cursor
                /\ T.rows[x.rec].revision > a.run.cursor

\* A change of r is in the queue that the answer on its way will not take out of
\* it before the record of the answer has been applied.
Unanswered(a, r) ==
    \E m \in ToSet(a.state.queue) :
        /\ m.rec = r
        /\ a.run.pc = "acks" => m.id \notin Ids(a.run.sent) \/ r \in Records(a.run.todo)

\* An entry on screen that is not on disk is about to be queued, or it is queued.
Unsaved(k, a, r) ==
    a.entries[CellOf[r]] # k.entries[CellOf[r]] =>
        \/ r \in Records(a.edit.changes)
        \/ Waits(k.state.queue, r) /\ Unanswered(a, r)

\* The same, for the mutation that is being put.
BeingPut(a) ==
    a.edit.stage = "put" => Unanswered(a, Head(a.edit.changes).rec)

\* An acknowledged record has been applied, unless it is out of date.
Acknowledged(T, k, a, r) ==
    a.run.pc = "acks" /\ r \in Records(a.run.sent) /\ r \notin Records(a.run.todo) =>
        \/ k.entries[CellOf[r]] = EntryOf(T.rows[r])
        \/ T.rows[r].revision > a.state.cursor
        \/ \E m \in ToSet(a.state.queue) : m.rec = r /\ m.id \notin Ids(a.run.sent)

\* What the cursor of the run has passed is applied, waits to be applied, or has
\* a change of its own waiting.
Pulled(T, k, a, r) ==
    /\ a.run.pc \in {"pull", "rows"}
    /\ Exists(T.rows[r]) /\ T.rows[r].revision <= a.run.cursor
    => \/ k.entries[CellOf[r]] = EntryOf(T.rows[r])
       \/ Waits(a.state.queue, r)
       \/ r \in Records(a.run.todo)

Covered(T, k, a) ==
    \A r \in RecordIds : Alone(r) =>
        /\ Covers(T, k.state, k.entries, r)
        /\ Covers(T, a.state, k.entries, r)
        /\ Unsaved(k, a, r)
        /\ Acknowledged(T, k, a, r)
        /\ Pulled(T, k, a, r)

\* "Synced" is shown to devices that have migrated and have an empty queue, but
\* for a mutation that is just being put.
Drained(a) ==
    /\ a.phase = "synced" =>
          a.state.migrated /\ (a.state.queue = <<>> \/ a.writer = "edit")
    /\ a.run.pc = "baseline" => ~a.state.migrated
    /\ a.run.pc = "finish" => a.state.migrated

DeviceOK(T, d, k, a) ==
    /\ Shaped(k, a)
    /\ Orderly(d, k, a)
    /\ Kept(T, k, a)
    /\ Behind(T, k, a)
    /\ Answered(T, a)
    /\ BeingPut(a)
    /\ Covered(T, k, a)
    /\ Drained(a)

\* What the parts of the invariant are stated about is well typed.
Facing(T, d, k, a) ==
    /\ T \in Database /\ k \in Disk /\ a \in App
    /\ DeviceOK(T, d, k, a)

LEMMA StoresType ==
    ASSUME NEW k \in Disk, NEW a \in App, NEW T \in Database
    PROVE  /\ k.state.queue \in Seq(Mutation) /\ a.state.queue \in Seq(Mutation)
           /\ a.run.sent \in Seq(Mutation) /\ a.run.todo \in Seq(Received)
           /\ a.edit.changes \in Seq(Change)
           /\ k.state.cursor \in Nat /\ a.state.cursor \in Nat /\ a.run.cursor \in Nat
           /\ k.state.counter \in Nat /\ a.state.counter \in Nat
           /\ k.state \in SyncState /\ a.state \in SyncState /\ a.run \in Run
           /\ a.edit \in Edit
           /\ k.entries \in [Cells -> Payload] /\ a.entries \in [Cells -> Payload]
           /\ T.rows \in [RecordIds -> Row] /\ T.receipts \in SUBSET Mutation
           /\ T.revision \in Nat
           /\ \A r \in RecordIds : T.rows[r] \in Row /\ T.rows[r].revision \in Nat
           /\ \A r \in RecordIds : CellOf[r] \in Cells
<1>1. /\ k.state \in SyncState /\ a.state \in SyncState /\ a.run \in Run
      /\ a.edit \in Edit
      /\ k.entries \in [Cells -> Payload] /\ a.entries \in [Cells -> Payload]
  BY DEF Disk, App, Entries
<1>2. /\ k.state.queue \in Seq(Mutation) /\ a.state.queue \in Seq(Mutation)
      /\ k.state.cursor \in Nat /\ a.state.cursor \in Nat
      /\ k.state.counter \in Nat /\ a.state.counter \in Nat
  BY <1>1, LimitAssumption DEF SyncState
<1>3. /\ a.run.sent \in Seq(Mutation) /\ a.run.todo \in Seq(Received)
      /\ a.run.cursor \in Nat
  BY <1>1 DEF Run
<1>4. a.edit.changes \in Seq(Change)
  BY <1>1 DEF Edit
<1>5. /\ T.rows \in [RecordIds -> Row] /\ T.receipts \in SUBSET Mutation
      /\ T.revision \in Nat
      /\ \A r \in RecordIds : T.rows[r] \in Row /\ T.rows[r].revision \in Nat
  BY DEF Database, Row
<1> QED
  BY <1>1, <1>2, <1>3, <1>4, <1>5, CellAssumption

\* What the members of the lists are.
LEMMA MembersType ==
    ASSUME NEW k \in Disk, NEW a \in App
    PROVE  /\ \A m \in ToSet(k.state.queue) \cup ToSet(a.state.queue)
                          \cup ToSet(a.run.sent) :
                 /\ m \in Mutation /\ m.rec \in RecordIds /\ m.id \in Devices \X (1..MaxCounter)
                 /\ m.id[1] \in Devices /\ m.id[2] \in Nat
           /\ \A x \in ToSet(a.run.todo) : x \in Received /\ x.rec \in RecordIds
           /\ \A x \in ToSet(a.edit.changes) : x \in Change /\ x.rec \in RecordIds
<1>1. /\ k.state.queue \in Seq(Mutation) /\ a.state.queue \in Seq(Mutation)
      /\ a.run.sent \in Seq(Mutation) /\ a.run.todo \in Seq(Received)
      /\ a.edit.changes \in Seq(Change)
  BY StoresType, EmptyDatabaseType
<1>2. /\ ToSet(k.state.queue) \subseteq Mutation /\ ToSet(a.state.queue) \subseteq Mutation
      /\ ToSet(a.run.sent) \subseteq Mutation /\ ToSet(a.run.todo) \subseteq Received
      /\ ToSet(a.edit.changes) \subseteq Change
  BY <1>1, MembersOfEmpty
<1>3. /\ \A m \in Mutation :
            /\ m.rec \in RecordIds /\ m.id \in Devices \X (1..MaxCounter)
            /\ m.id[1] \in Devices /\ m.id[2] \in Nat
  BY IdAssumption, LimitAssumption DEF Mutation
<1>4. /\ \A x \in Received : x.rec \in RecordIds
      /\ \A x \in Change : x.rec \in RecordIds
  BY DEF Received, Change
<1> QED
  BY <1>2, <1>3, <1>4

-----------------------------------------------------------------------------
(***************************************************************************)
(* The steps of a device: each keeps the invariant.                        *)
(***************************************************************************)

\* The tables grow and the device does nothing.
LEMMA GrowthOK ==
    ASSUME NEW T, NEW d, NEW k, NEW a, Facing(T, d, k, a),
           NEW U \in Database, Extends(U, T)
    PROVE  DeviceOK(U, d, k, a)
<1>1. /\ T \in Database /\ k \in Disk /\ a \in App /\ U \in Database
      /\ DeviceOK(T, d, k, a)
  BY DEF Facing
<1>2. /\ T.receipts \subseteq U.receipts /\ T.revision <= U.revision
      /\ T.revision \in Nat /\ U.revision \in Nat
      /\ \A r \in RecordIds : /\ T.rows[r].revision \in Nat /\ U.rows[r].revision \in Nat
                              /\ \/ U.rows[r] = T.rows[r]
                                 \/ U.rows[r].revision > T.revision
      /\ \A r \in RecordIds : Exists(T.rows[r]) => Exists(U.rows[r])
  BY <1>1, StoresType, ExtendsKeepsRows DEF Extends
<1>3. Kept(U, k, a)
  BY <1>1, <1>2 DEF DeviceOK, Kept
<1>4. Behind(U, k, a)
  BY <1>1, <1>2, StoresType DEF DeviceOK, Behind
<1>5. Answered(U, a)
  <2>1. ASSUME NEW x \in ToSet(a.run.todo)
        PROVE  /\ Exists(U.rows[x.rec])
               /\ \/ x.row = U.rows[x.rec]
                  \/ /\ U.rows[x.rec].revision > a.state.cursor
                     /\ U.rows[x.rec].revision > a.run.cursor
    <3>1. x.rec \in RecordIds
      BY <1>1, MembersType
    <3>2. /\ Exists(T.rows[x.rec])
          /\ \/ x.row = T.rows[x.rec]
             \/ /\ T.rows[x.rec].revision > a.state.cursor
                /\ T.rows[x.rec].revision > a.run.cursor
      BY <1>1 DEF DeviceOK, Answered
    <3>3. CASE U.rows[x.rec] = T.rows[x.rec]
      BY <3>2, <3>3
    <3>4. CASE U.rows[x.rec].revision > T.revision
      <4>1. /\ a.state.cursor \in Nat /\ a.run.cursor \in Nat
            /\ a.state.cursor <= T.revision /\ a.run.cursor <= T.revision
            /\ U.rows[x.rec].revision \in Nat
        BY <3>1, <1>1, <1>2, StoresType DEF DeviceOK, Behind
      <4>2. \A u, v, w \in Nat : u <= v /\ w > v => w > u
        OBVIOUS
      <4> QED
        BY <3>1, <3>2, <3>4, <4>1, <4>2, <1>2
    <3> QED
      BY <3>1, <3>3, <3>4, <1>2
  <2> QED
    BY <2>1, <1>1, <1>2 DEF DeviceOK, Answered
<1>6. Covered(U, k, a)
  <2> SUFFICES ASSUME NEW r \in RecordIds, Alone(r)
               PROVE  /\ Covers(U, k.state, k.entries, r)
                      /\ Covers(U, a.state, k.entries, r)
                      /\ Unsaved(k, a, r)
                      /\ Acknowledged(U, k, a, r)
                      /\ Pulled(U, k, a, r)
    BY DEF Covered
  <2>1. /\ Covers(T, k.state, k.entries, r)
        /\ Covers(T, a.state, k.entries, r)
        /\ Unsaved(k, a, r)
        /\ Acknowledged(T, k, a, r)
        /\ Pulled(T, k, a, r)
    BY <1>1 DEF DeviceOK, Covered
  <2>2. CASE U.rows[r] = T.rows[r]
    BY <2>1, <2>2 DEF Covers, Acknowledged, Pulled
  <2>3. CASE U.rows[r].revision > T.revision
    <3>1. /\ U.rows[r].revision > k.state.cursor
          /\ U.rows[r].revision > a.state.cursor
          /\ U.rows[r].revision > a.run.cursor
      BY <2>3, <1>1, <1>2, StoresType DEF DeviceOK, Behind
    <3>2. /\ ~(U.rows[r].revision <= k.state.cursor)
          /\ ~(U.rows[r].revision <= a.state.cursor)
          /\ ~(U.rows[r].revision <= a.run.cursor)
      BY <3>1, <1>1, <1>2, StoresType
    <3> QED
      BY <2>1, <3>1, <3>2 DEF Covers, Acknowledged, Pulled
  <2> QED
    BY <2>2, <2>3, <1>2
<1> QED
  BY <1>1, <1>3, <1>4, <1>5, <1>6 DEF DeviceOK

Steady(a, b) ==
    /\ b.state = a.state /\ b.entries = a.entries
    /\ b.edit = a.edit /\ b.writer = a.writer

\* Nothing happens but that a run starts or ends.
Rests(a, b) ==
    /\ Steady(a, b)
    /\ b.run = a.run \/ b.run = NoRun \/ b.run = [NoRun EXCEPT !.pc = "push"]
    /\ b.phase = "synced" =>
          a.phase = "synced" \/ (a.run.pc = "finish" /\ a.state.queue = <<>>)

LEMMA RestsOK ==
    ASSUME NEW T, NEW d, NEW k, NEW a, Facing(T, d, k, a), NEW b \in App, Rests(a, b)
    PROVE  DeviceOK(T, d, k, b)
<1>1. /\ T \in Database /\ k \in Disk /\ a \in App /\ DeviceOK(T, d, k, a)
      /\ Steady(a, b)
  BY DEF Facing, Rests
<1>2. \/ b.run = a.run
      \/ /\ b.run.pc \in {"idle", "push"} /\ b.run.sent = <<>> /\ b.run.todo = <<>>
         /\ b.run.cursor = 0
         /\ b.run.pc = "idle" => b.run = NoRun
  BY DEF Rests, NoRun
<1>3. ToSet(b.run.sent) \subseteq ToSet(a.run.sent)
  BY <1>2, NoMembers
<1>4. Shaped(k, b)
  BY <1>1, <1>2 DEF DeviceOK, Shaped, Steady
<1>5. Orderly(d, k, b)
  BY <1>1, <1>3 DEF DeviceOK, Orderly, Steady
<1>6. Kept(T, k, b)
  BY <1>1 DEF DeviceOK, Kept, Steady
<1>7. Behind(T, k, b)
  BY <1>1, <1>2, StoresType DEF DeviceOK, Behind, Steady
<1>8. Answered(T, b)
  BY <1>1, <1>2, NoMembers DEF DeviceOK, Answered, Steady
<1>9. \A r : Unanswered(a, r) => Unanswered(b, r)
  BY <1>1, <1>2 DEF Unanswered, Steady
<1>10. BeingPut(b)
  BY <1>1, <1>9 DEF DeviceOK, BeingPut, Steady
<1>11. Covered(T, k, b)
  <2> SUFFICES ASSUME NEW r \in RecordIds, Alone(r)
               PROVE  /\ Covers(T, b.state, k.entries, r)
                      /\ Unsaved(k, b, r)
                      /\ Acknowledged(T, k, b, r)
                      /\ Pulled(T, k, b, r)
    BY <1>1 DEF DeviceOK, Covered
  <2>1. /\ Covers(T, a.state, k.entries, r)
        /\ Unsaved(k, a, r)
        /\ Acknowledged(T, k, a, r)
        /\ Pulled(T, k, a, r)
    BY <1>1 DEF DeviceOK, Covered
  <2>2. Unsaved(k, b, r)
    BY <1>1, <1>9, <2>1 DEF Unsaved, Steady
  <2> QED
    BY <1>1, <1>2, <2>1, <2>2 DEF Acknowledged, Pulled, Steady
<1>12. Drained(b)
  BY <1>1, <1>2 DEF DeviceOK, Drained, Steady, Rests
<1> QED
  BY <1>1, <1>4, <1>5, <1>6, <1>7, <1>8, <1>10, <1>11, <1>12 DEF DeviceOK, Covered

\* A user action shows its result before it has its mutations.
Publishes(a, b) ==
    /\ a.edit = NoEdit
    /\ b.state = a.state /\ b.writer = a.writer /\ b.run = a.run /\ b.phase = a.phase
    /\ b.edit.stage = "queue" /\ b.edit.changes # <<>>
    /\ \A r \in RecordIds :
          Alone(r) /\ b.entries[CellOf[r]] # a.entries[CellOf[r]]
              => r \in Records(b.edit.changes)

LEMMA PublishesOK ==
    ASSUME NEW T, NEW d, NEW k, NEW a, Facing(T, d, k, a), NEW b \in App, Publishes(a, b)
    PROVE  DeviceOK(T, d, k, b)
<1>1. /\ DeviceOK(T, d, k, a)
      /\ b.state = a.state /\ b.writer = a.writer /\ b.run = a.run /\ b.phase = a.phase
      /\ a.edit.stage = "none" /\ b.edit.stage = "queue" /\ b.edit # NoEdit
  BY DEF Facing, Publishes, NoEdit
<1>2. Shaped(k, b)
  BY <1>1 DEF DeviceOK, Shaped, Publishes
<1>3. Orderly(d, k, b) /\ Kept(T, k, b) /\ Behind(T, k, b) /\ Answered(T, b)
  BY <1>1 DEF DeviceOK, Orderly, Kept, Behind, Answered
<1>4. BeingPut(b) /\ Drained(b)
  BY <1>1 DEF DeviceOK, BeingPut, Drained
<1>5. Covered(T, k, b)
  <2>1. ASSUME NEW r \in RecordIds, Alone(r) PROVE Unsaved(k, b, r)
    BY <1>1, <2>1 DEF DeviceOK, Shaped, Unsaved, Publishes
  <2> QED
    BY <2>1, <1>1 DEF DeviceOK, Covered, Acknowledged, Pulled
<1> QED
  BY <1>2, <1>3, <1>4, <1>5 DEF DeviceOK

\* The first change of the action gets its mutation, which is being put.
Enqueues(d, a, b) ==
    /\ a.edit.stage = "queue" /\ a.writer = "none"
    /\ b.entries = a.entries /\ b.run = a.run /\ b.phase = a.phase
    /\ b.writer = "edit" /\ b.edit.stage = "put" /\ b.edit.changes = a.edit.changes
    /\ b.state.migrated = a.state.migrated /\ b.state.cursor = a.state.cursor
    /\ b.state.counter = a.state.counter + 1
    /\ \E new \in Mutation :
          /\ new.id = <<d, a.state.counter + 1>>
          /\ new.rec = Head(a.edit.changes).rec
          /\ ToSet(b.state.queue) =
                {m \in ToSet(a.state.queue) : m.rec # new.rec} \cup {new}

LEMMA EnqueuesOK ==
    ASSUME NEW T, NEW d, NEW k, NEW a, Facing(T, d, k, a), NEW b \in App, Enqueues(d, a, b)
    PROVE  DeviceOK(T, d, k, b)
<1>1. /\ T \in Database /\ k \in Disk /\ a \in App /\ DeviceOK(T, d, k, a)
      /\ b.entries = a.entries /\ b.run = a.run /\ b.phase = a.phase
      /\ b.state.migrated = a.state.migrated /\ b.state.cursor = a.state.cursor
      /\ b.state.counter = a.state.counter + 1
      /\ a.state.counter \in Nat /\ k.state.counter \in Nat
      /\ k.state.counter <= a.state.counter
  BY StoresType DEF Facing, Enqueues, DeviceOK, Orderly
<1>2. PICK new \in Mutation :
          /\ new.id = <<d, a.state.counter + 1>>
          /\ new.rec = Head(a.edit.changes).rec
          /\ ToSet(b.state.queue) =
                {m \in ToSet(a.state.queue) : m.rec # new.rec} \cup {new}
  BY DEF Enqueues
<1>3. new.id[1] = d /\ new.id[2] = a.state.counter + 1
  BY <1>2
<1>4. \A m \in ToSet(k.state.queue) \cup ToSet(a.state.queue) \cup ToSet(a.run.sent) :
          m.id[2] <= a.state.counter /\ m.id[2] \in Nat
  BY <1>1, MembersType DEF DeviceOK, Orderly
<1>5. \A m \in ToSet(k.state.queue) \cup ToSet(a.state.queue) \cup ToSet(a.run.sent) :
          /\ m.id[2] <= b.state.counter /\ m.id[2] < new.id[2]
          /\ m.id # new.id /\ m # new
  BY <1>1, <1>3, <1>4
<1>6. new.id \notin Ids(b.run.sent)
  BY <1>1, <1>5 DEF Ids
<1>7. Shaped(k, b)
  BY <1>1 DEF DeviceOK, Shaped, Enqueues, NoEdit
<1>8. Orderly(d, k, b)
  <2>1. \A m \in ToSet(b.state.queue) \cup ToSet(b.run.sent) :
            \/ m = new
            \/ m \in ToSet(a.state.queue) \cup ToSet(a.run.sent)
    BY <1>1, <1>2
  <2>2. \A m \in ToSet(b.state.queue) \cup ToSet(b.run.sent) :
            m.id[1] = d /\ m.id[2] <= b.state.counter
    BY <2>1, <1>1, <1>3, <1>5 DEF DeviceOK, Orderly
  <2>3. \A m, n \in ToSet(b.state.queue) \cup ToSet(b.run.sent) : m.id = n.id => m = n
    BY <2>1, <1>1, <1>5 DEF DeviceOK, Orderly
  <2>4. k.state.counter <= b.state.counter
    BY <1>1
  <2> QED
    BY <2>2, <2>3, <2>4, <1>1 DEF DeviceOK, Orderly
<1>9. Kept(T, k, b)
  <2> SUFFICES ASSUME NEW m \in ToSet(k.state.queue), m \notin T.receipts
               PROVE  \E n \in ToSet(b.state.queue) : n.rec = m.rec /\ n.id[2] >= m.id[2]
    BY DEF Kept
  <2>1. CASE m.rec = new.rec
    <3>1. new \in ToSet(b.state.queue) /\ new.id[2] >= m.id[2]
      BY <1>1, <1>2, <1>3, <1>4
    <3> QED
      BY <2>1, <3>1
  <2>2. CASE m.rec # new.rec
    BY <2>2, <1>1, <1>2 DEF DeviceOK, Kept
  <2> QED
    BY <2>1, <2>2
<1>10. Behind(T, k, b) /\ Answered(T, b)
  BY <1>1 DEF DeviceOK, Behind, Answered
<1>11. Unanswered(b, new.rec)
  BY <1>2, <1>6 DEF Unanswered
<1>12. /\ \A r : Unanswered(a, r) => Unanswered(b, r)
       /\ \A r : Waits(a.state.queue, r) => Waits(b.state.queue, r)
  <2>1. ASSUME NEW r, Unanswered(a, r), r # new.rec PROVE Unanswered(b, r)
    BY <1>1, <1>2, <2>1 DEF Unanswered
  <2>2. \A r : Waits(a.state.queue, r) => Waits(b.state.queue, r)
    BY <1>2 DEF Waits
  <2> QED
    BY <1>11, <2>1, <2>2
<1>13. BeingPut(b)
  BY <1>1, <1>2, <1>11 DEF BeingPut, Enqueues
<1>14. Covered(T, k, b)
  <2> SUFFICES ASSUME NEW r \in RecordIds, Alone(r)
               PROVE  /\ Covers(T, b.state, k.entries, r)
                      /\ Unsaved(k, b, r)
                      /\ Acknowledged(T, k, b, r)
                      /\ Pulled(T, k, b, r)
    BY <1>1 DEF DeviceOK, Covered
  <2>1. /\ Covers(T, a.state, k.entries, r)
        /\ Unsaved(k, a, r)
        /\ Acknowledged(T, k, a, r)
        /\ Pulled(T, k, a, r)
    BY <1>1 DEF DeviceOK, Covered
  <2>2. Covers(T, b.state, k.entries, r)
    BY <2>1, <1>1, <1>12 DEF Covers
  <2>3. Unsaved(k, b, r)
    BY <2>1, <1>1, <1>12 DEF Unsaved, Enqueues
  <2>4. Acknowledged(T, k, b, r)
    <3>1. CASE r = new.rec
      BY <3>1, <1>2, <1>6 DEF Acknowledged
    <3>2. CASE r # new.rec
      BY <3>2, <2>1, <1>1, <1>2 DEF Acknowledged
    <3> QED
      BY <3>1, <3>2
  <2>5. Pulled(T, k, b, r)
    BY <2>1, <1>1, <1>12 DEF Pulled
  <2> QED
    BY <2>2, <2>3, <2>4, <2>5
<1>15. Drained(b)
  BY <1>1 DEF DeviceOK, Drained, Enqueues
<1> QED
  BY <1>7, <1>8, <1>9, <1>10, <1>13, <1>14, <1>15 DEF DeviceOK

\* The state in memory is on disk.
Puts(k, a, l, b) ==
    /\ a.writer # "none" /\ b.writer = "none"
    /\ l.state = a.state /\ l.entries = k.entries
    /\ b.state = a.state /\ b.entries = a.entries /\ b.run = a.run
    /\ \/ /\ a.writer = "edit"
          /\ b.edit.changes = Tail(a.edit.changes)
          /\ b.edit.stage = IF Len(a.edit.changes) > 1 THEN "queue" ELSE "save"
          /\ b.phase # "synced"
       \/ a.writer = "run" /\ b.edit = a.edit /\ b.phase = a.phase

LEMMA PutsOK ==
    ASSUME NEW T, NEW d, NEW k, NEW a, Facing(T, d, k, a), NEW l \in Disk, NEW b \in App,
           Puts(k, a, l, b)
    PROVE  DeviceOK(T, d, l, b)
<1>1. /\ T \in Database /\ k \in Disk /\ a \in App /\ DeviceOK(T, d, k, a)
      /\ b.state = a.state /\ b.entries = a.entries /\ b.run = a.run
      /\ l.state = a.state /\ l.entries = k.entries /\ b.writer = "none"
  BY DEF Facing, Puts
<1>2. Orderly(d, l, b)
  BY <1>1, StoresType DEF DeviceOK, Orderly
<1>3. Kept(T, l, b)
  BY <1>1, MembersType DEF Kept
<1>4. Behind(T, l, b) /\ Answered(T, b)
  BY <1>1 DEF DeviceOK, Behind, Answered
<1>5. ASSUME \A r \in RecordIds : Unsaved(k, a, r) => Unsaved(l, b, r)
      PROVE  Covered(T, l, b)
  BY <1>1, <1>5 DEF DeviceOK, Covered, Acknowledged, Pulled
<1>6. CASE a.writer = "edit"
  <2>1. /\ a.edit.stage = "put" /\ a.edit.changes # <<>>
        /\ b.edit.changes = Tail(a.edit.changes)
        /\ b.edit.stage = IF Len(a.edit.changes) > 1 THEN "queue" ELSE "save"
        /\ b.phase # "synced"
    BY <1>1, <1>6 DEF Puts, DeviceOK, Shaped
  <2>2. /\ Len(a.edit.changes) \in Nat \ {0}
        /\ Len(b.edit.changes) = Len(a.edit.changes) - 1
        /\ b.edit.changes \in Seq(Change)
        /\ Records(a.edit.changes) = {Head(a.edit.changes).rec} \cup Records(b.edit.changes)
    BY <2>1, <1>1, StoresType, MembersOfTail, RecordsOfTail
  <2>3. /\ \/ b.edit.stage = "queue" /\ b.edit.changes # <<>>
           \/ b.edit.stage = "save" /\ b.edit.changes = <<>>
        /\ b.edit # NoEdit
    <3>1. \A t \in Seq(Change) : Len(t) = 0 <=> t = <<>>
      OBVIOUS
    <3>2. \/ Len(a.edit.changes) > 1 /\ Len(b.edit.changes) # 0
          \/ ~(Len(a.edit.changes) > 1) /\ Len(b.edit.changes) = 0
      <4>1. \A n \in Nat \ {0} : (n > 1 /\ n - 1 # 0) \/ (~(n > 1) /\ n - 1 = 0)
        OBVIOUS
      <4> QED
        BY <4>1, <2>2
    <3>3. NoEdit.stage = "none"
      BY DEF NoEdit
    <3> QED
      BY <3>1, <3>2, <3>3, <2>1, <2>2
  <2>4. Shaped(l, b)
    BY <2>3, <1>1 DEF DeviceOK, Shaped
  <2>5. \A r : Unanswered(a, r) => Unanswered(b, r) /\ Waits(l.state.queue, r)
    BY <1>1 DEF Unanswered, Waits
  <2>6. \A r \in RecordIds : Unsaved(k, a, r) => Unsaved(l, b, r)
    BY <2>1, <2>2, <2>5, <1>1 DEF DeviceOK, BeingPut, Unsaved
  <2>7. BeingPut(b) /\ Drained(b)
    BY <2>1, <2>3, <1>1 DEF DeviceOK, BeingPut, Drained
  <2> QED
    BY <2>4, <2>6, <2>7, <1>2, <1>3, <1>4, <1>5 DEF DeviceOK
<1>7. CASE a.writer = "run"
  <2>1. b.edit = a.edit /\ b.phase = a.phase /\ a.edit.stage # "put"
    BY <1>1, <1>7 DEF Puts, DeviceOK, Shaped
  <2>2. Shaped(l, b)
    BY <2>1, <1>1 DEF DeviceOK, Shaped
  <2>3. \A r : Unanswered(a, r) => Unanswered(b, r) /\ Waits(l.state.queue, r)
    BY <1>1 DEF Unanswered, Waits
  <2>4. \A r \in RecordIds : Unsaved(k, a, r) => Unsaved(l, b, r)
    BY <2>1, <2>3, <1>1 DEF Unsaved
  <2>5. BeingPut(b) /\ Drained(b)
    BY <2>1, <1>1, <1>7 DEF DeviceOK, BeingPut, Drained
  <2> QED
    BY <2>2, <2>4, <2>5, <1>2, <1>3, <1>4, <1>5 DEF DeviceOK
<1> QED
  BY <1>6, <1>7 DEF Puts

\* The library on disk is the one on screen.
Saves(k, a, l, b) ==
    /\ a.edit.stage = "save" /\ b.edit = NoEdit
    /\ l.state = k.state /\ l.entries = a.entries
    /\ b.state = a.state /\ b.entries = a.entries /\ b.writer = a.writer
    /\ b.run = a.run /\ b.phase = a.phase

LEMMA SavesOK ==
    ASSUME NEW T, NEW d, NEW k, NEW a, Facing(T, d, k, a), NEW l \in Disk, NEW b \in App,
           Saves(k, a, l, b)
    PROVE  DeviceOK(T, d, l, b)
<1>1. /\ DeviceOK(T, d, k, a)
      /\ b.state = a.state /\ b.entries = a.entries /\ b.run = a.run
      /\ b.writer = a.writer /\ b.phase = a.phase
      /\ l.state = k.state /\ l.entries = a.entries
      /\ b.edit.stage = "none" /\ a.edit.stage = "save" /\ a.edit.changes = <<>>
      /\ b.edit = NoEdit
  BY DEF Facing, Saves, DeviceOK, Shaped, NoEdit
<1>2. Shaped(l, b)
  BY <1>1 DEF DeviceOK, Shaped
<1>3. Orderly(d, l, b) /\ Kept(T, l, b) /\ Behind(T, l, b) /\ Answered(T, b)
  BY <1>1 DEF DeviceOK, Orderly, Kept, Behind, Answered
<1>4. BeingPut(b) /\ Drained(b)
  BY <1>1 DEF DeviceOK, BeingPut, Drained
<1>5. Covered(T, l, b)
  <2> SUFFICES ASSUME NEW r \in RecordIds, Alone(r)
               PROVE  /\ Covers(T, l.state, l.entries, r)
                      /\ Covers(T, b.state, l.entries, r)
                      /\ Unsaved(l, b, r)
                      /\ Acknowledged(T, l, b, r)
                      /\ Pulled(T, l, b, r)
    BY DEF Covered
  <2>1. /\ Covers(T, k.state, k.entries, r)
        /\ Covers(T, a.state, k.entries, r)
        /\ Unsaved(k, a, r)
        /\ Acknowledged(T, k, a, r)
        /\ Pulled(T, k, a, r)
    BY <1>1 DEF DeviceOK, Covered
  <2>2. Unsaved(l, b, r)
    BY <1>1 DEF Unsaved
  <2>3. CASE a.entries[CellOf[r]] = k.entries[CellOf[r]]
    BY <2>1, <2>2, <2>3, <1>1 DEF Covers, Acknowledged, Pulled
  <2>4. CASE a.entries[CellOf[r]] # k.entries[CellOf[r]]
    <3>1. Waits(k.state.queue, r) /\ Unanswered(a, r)
      BY <2>1, <2>4, <1>1, NoMembers DEF Unsaved
    <3>2. Waits(a.state.queue, r)
      BY <3>1 DEF Waits, Unanswered
    <3>3. Acknowledged(T, l, b, r)
      BY <3>1, <1>1 DEF Acknowledged, Unanswered
    <3> QED
      BY <2>2, <3>1, <3>2, <3>3, <1>1 DEF Covers, Pulled
  <2> QED
    BY <2>3, <2>4
<1> QED
  BY <1>2, <1>3, <1>4, <1>5 DEF DeviceOK

\* The head of the queue is on its way.
Sends(a, b) ==
    /\ Steady(a, b) /\ b.phase = a.phase
    /\ a.run.pc = "push" /\ b.run.pc = "pushWait"
    /\ b.run.todo = a.run.todo /\ b.run.cursor = a.run.cursor /\ b.run.seen = a.run.seen
    /\ ToSet(b.run.sent) \subseteq ToSet(a.state.queue)

LEMMA SendsOK ==
    ASSUME NEW T, NEW d, NEW k, NEW a, Facing(T, d, k, a), NEW b \in App, Sends(a, b)
    PROVE  DeviceOK(T, d, k, b)
<1>1. /\ DeviceOK(T, d, k, a) /\ Steady(a, b) /\ b.phase = a.phase
      /\ a.run.pc = "push" /\ b.run.pc = "pushWait"
      /\ b.run.todo = a.run.todo /\ b.run.cursor = a.run.cursor
      /\ ToSet(b.run.sent) \subseteq ToSet(a.state.queue)
  BY DEF Facing, Sends
<1>2. Shaped(k, b)
  BY <1>1 DEF DeviceOK, Shaped, Steady
<1>3. Orderly(d, k, b)
  BY <1>1 DEF DeviceOK, Orderly, Steady
<1>4. Kept(T, k, b) /\ Behind(T, k, b) /\ Answered(T, b)
  BY <1>1 DEF DeviceOK, Kept, Behind, Answered, Steady
<1>5. \A r : Unanswered(a, r) => Unanswered(b, r)
  BY <1>1 DEF Unanswered, Steady
<1>6. BeingPut(b) /\ Drained(b)
  BY <1>1, <1>5 DEF DeviceOK, BeingPut, Drained, Steady
<1>7. Covered(T, k, b)
  <2>1. \A r \in RecordIds : Unsaved(k, a, r) => Unsaved(k, b, r)
    BY <1>1, <1>5 DEF Unsaved, Steady
  <2> QED
    BY <2>1, <1>1 DEF DeviceOK, Covered, Acknowledged, Pulled, Steady
<1> QED
  BY <1>2, <1>3, <1>4, <1>6, <1>7 DEF DeviceOK

\* Everything is uploaded; the pull starts where the last one ended, or from the
\* beginning.
StartsPull(a, b) ==
    /\ Steady(a, b) /\ b.phase = a.phase
    /\ a.run.pc = "push" /\ a.state.queue = <<>>
    /\ b.run = [NoRun EXCEPT
          !.pc = "pull",
          !.cursor = IF a.state.migrated THEN a.state.cursor ELSE 0]

LEMMA StartsPullOK ==
    ASSUME NEW T, NEW d, NEW k, NEW a, Facing(T, d, k, a), NEW b \in App, StartsPull(a, b)
    PROVE  DeviceOK(T, d, k, b)
<1>1. /\ T \in Database /\ k \in Disk /\ a \in App
      /\ DeviceOK(T, d, k, a) /\ Steady(a, b) /\ b.phase = a.phase
      /\ b.run.pc = "pull" /\ b.run.sent = <<>> /\ b.run.todo = <<>>
      /\ b.run.cursor = a.state.cursor \/ b.run.cursor = 0
      /\ ToSet(b.run.sent) = {} /\ ToSet(b.run.todo) = {}
  BY NoMembers DEF Facing, StartsPull, NoRun
<1>2. Shaped(k, b)
  BY <1>1 DEF DeviceOK, Shaped, Steady
<1>3. Orderly(d, k, b) /\ Kept(T, k, b)
  BY <1>1 DEF DeviceOK, Orderly, Kept, Steady
<1>4. Behind(T, k, b)
  BY <1>1, StoresType DEF DeviceOK, Behind, Steady
<1>5. Answered(T, b)
  BY <1>1 DEF Answered
<1>6. \A r : Unanswered(a, r) => Unanswered(b, r)
  BY <1>1 DEF Unanswered, Steady
<1>7. BeingPut(b) /\ Drained(b)
  BY <1>1, <1>6 DEF DeviceOK, BeingPut, Drained, Steady
<1>8. Covered(T, k, b)
  <2> SUFFICES ASSUME NEW r \in RecordIds, Alone(r)
               PROVE  /\ Unsaved(k, b, r)
                      /\ Acknowledged(T, k, b, r)
                      /\ Pulled(T, k, b, r)
    BY <1>1 DEF DeviceOK, Covered, Steady
  <2>1. Unsaved(k, b, r)
    BY <1>1, <1>6 DEF DeviceOK, Covered, Unsaved, Steady
  <2>2. Acknowledged(T, k, b, r)
    BY <1>1 DEF Acknowledged
  <2>3. Pulled(T, k, b, r)
    <3>1. CASE b.run.cursor = a.state.cursor
      BY <3>1, <1>1 DEF DeviceOK, Covered, Covers, Pulled, Steady
    <3>2. CASE b.run.cursor = 0
      BY <3>2, <1>1, StoresType DEF Pulled, Exists
    <3> QED
      BY <3>1, <3>2, <1>1
  <2> QED
    BY <2>1, <2>2, <2>3
<1> QED
  BY <1>2, <1>3, <1>4, <1>5, <1>7, <1>8 DEF DeviceOK

\* The server has taken the request and the device has the answer.
IsAnswered(T, a, U, b) ==
    /\ Steady(a, b) /\ b.phase = a.phase
    /\ a.run.pc = "pushWait" /\ b.run.pc = "acks"
    /\ ~Push(T, a.run.sent).rejected
    /\ U = Push(T, a.run.sent).db
    /\ b.run.todo = Push(T, a.run.sent).acks
    /\ b.run.sent = a.run.sent /\ b.run.cursor = a.run.cursor /\ b.run.seen = a.run.seen

LEMMA IsAnsweredOK ==
    ASSUME NEW T, NEW d, NEW k, NEW a, Facing(T, d, k, a), Sound(T),
           NEW b \in App, NEW U, IsAnswered(T, a, U, b)
    PROVE  /\ U \in Database /\ Sound(U) /\ Extends(U, T)
           /\ DeviceOK(U, d, k, b)
<1> DEFINE push == Push(T, a.run.sent)
<1>1. /\ T \in Database /\ k \in Disk /\ a \in App /\ DeviceOK(T, d, k, a)
      /\ Steady(a, b) /\ b.phase = a.phase
      /\ a.run.pc = "pushWait" /\ b.run.pc = "acks"
      /\ b.run.sent = a.run.sent /\ b.run.cursor = a.run.cursor
      /\ U = push.db /\ b.run.todo = push.acks /\ ~push.rejected
  BY DEF Facing, IsAnswered
<1>2. a.run.sent \in Seq(Mutation)
  BY <1>1, StoresType
<1>3. push \in Served /\ Progressed(T, a.run.sent, Len(a.run.sent), push)
  BY <1>1, <1>2, PushProgresses
<1> HIDE DEF push
<1>4. /\ U \in Database /\ Sound(U) /\ Extends(U, T)
      /\ Acknowledges(a.run.sent, Len(a.run.sent), push) /\ ShowsRows(T, push)
      /\ push.acks \in Seq(Received)
  BY <1>1, <1>3 DEF Served, Progressed
<1>5. DeviceOK(U, d, k, a)
  BY <1>1, <1>4, GrowthOK
<1>6. /\ Len(push.acks) = Len(a.run.sent) /\ Len(a.run.sent) \in Nat
      /\ DOMAIN push.acks = 1..Len(a.run.sent) /\ DOMAIN a.run.sent = 1..Len(a.run.sent)
      /\ \A i \in 1..Len(a.run.sent) :
            a.run.sent[i] \in U.receipts /\ push.acks[i].rec = a.run.sent[i].rec
  BY <1>1, <1>2, <1>4 DEF Acknowledges
<1>7. ToSet(b.run.sent) \subseteq U.receipts
  BY <1>1, <1>6 DEF ToSet
<1>8. Records(b.run.sent) \subseteq Records(b.run.todo)
  BY <1>1, <1>6 DEF Records, ToSet
<1>9. ASSUME NEW x \in ToSet(b.run.todo)
      PROVE  /\ Exists(U.rows[x.rec])
             /\ \/ x.row = U.rows[x.rec]
                \/ /\ U.rows[x.rec].revision > b.state.cursor
                   /\ U.rows[x.rec].revision > b.run.cursor
  <2>1. PICK i \in 1..Len(push.acks) : x = push.acks[i]
    BY <1>1, <1>4, <1>9 DEF ToSet
  <2>2. Exists(U.rows[x.rec]) /\ (x.row = U.rows[x.rec] \/ U.rows[x.rec].revision > T.revision)
    BY <2>1, <1>1, <1>4 DEF ShowsRows
  <2>3. x.rec \in RecordIds
    BY <1>1, <1>9, MembersType
  <2>4. /\ b.state.cursor \in Nat /\ b.run.cursor \in Nat
        /\ b.state.cursor <= T.revision /\ b.run.cursor <= T.revision
        /\ T.revision \in Nat /\ U.rows[x.rec].revision \in Nat
    BY <2>3, <1>1, <1>4, StoresType DEF DeviceOK, Behind, Steady
  <2>5. \A u, v, w \in Nat : u <= v /\ w > v => w > u
    OBVIOUS
  <2> QED
    BY <2>2, <2>4, <2>5
<1>10. Shaped(k, b)
  BY <1>1 DEF DeviceOK, Shaped, Steady
<1>11. Orderly(d, k, b) /\ Kept(U, k, b) /\ Behind(U, k, b)
  BY <1>1, <1>5 DEF DeviceOK, Orderly, Kept, Behind, Steady
<1>12. Answered(U, b)
  BY <1>7, <1>9 DEF Answered
<1>13. ASSUME NEW r, Unanswered(a, r) PROVE Unanswered(b, r)
  <2>1. PICK m \in ToSet(a.state.queue) : m.rec = r
    BY <1>13 DEF Unanswered
  <2>2. ASSUME m.id \in Ids(b.run.sent) PROVE r \in Records(b.run.sent)
    BY <2>1, <2>2, <1>1 DEF Ids, Records, DeviceOK, Orderly
  <2> QED
    BY <2>1, <2>2, <1>1, <1>8 DEF Unanswered, Steady
<1>14. BeingPut(b) /\ Drained(b)
  BY <1>1, <1>13 DEF DeviceOK, BeingPut, Drained, Steady
<1>15. Covered(U, k, b)
  <2>1. \A r \in RecordIds : Unsaved(k, a, r) => Unsaved(k, b, r)
    BY <1>1, <1>13 DEF Unsaved, Steady
  <2>2. \A r \in RecordIds : Acknowledged(U, k, b, r) /\ Pulled(U, k, b, r)
    BY <1>1, <1>8 DEF Acknowledged, Pulled
  <2> QED
    BY <2>1, <2>2, <1>1, <1>5 DEF DeviceOK, Covered, Steady
<1> QED
  BY <1>4, <1>10, <1>11, <1>12, <1>14, <1>15 DEF DeviceOK

\* A record replaces the entry.
Applies(k, a, l, b) ==
    /\ a.run.pc \in {"acks", "rows"} /\ a.run.todo # <<>>
    /\ a.writer # "run" /\ a.edit = NoEdit
    /\ b.state = a.state /\ b.edit = a.edit /\ b.writer = a.writer /\ b.phase = a.phase
    /\ b.run.pc = a.run.pc /\ b.run.todo = Tail(a.run.todo)
    /\ b.run.sent = a.run.sent /\ b.run.cursor = a.run.cursor /\ b.run.seen = a.run.seen
    /\ l.state = k.state
    /\ LET x == Head(a.run.todo) IN
       /\ b.entries = [a.entries EXCEPT ![CellOf[x.rec]] = EntryOf(x.row)]
       /\ l.entries = [k.entries EXCEPT ![CellOf[x.rec]] = EntryOf(x.row)]

LEMMA AppliesOK ==
    ASSUME NEW T, NEW d, NEW k, NEW a, Facing(T, d, k, a), NEW l \in Disk, NEW b \in App,
           Applies(k, a, l, b)
    PROVE  DeviceOK(T, d, l, b)
<1> DEFINE x == Head(a.run.todo)
<1>1. /\ T \in Database /\ k \in Disk /\ a \in App /\ DeviceOK(T, d, k, a)
      /\ b.state = a.state /\ b.edit = a.edit /\ b.writer = a.writer /\ b.phase = a.phase
      /\ b.run.pc = a.run.pc /\ b.run.sent = a.run.sent /\ b.run.cursor = a.run.cursor
      /\ a.run.pc \in {"acks", "rows"} /\ a.edit = NoEdit /\ a.edit.stage = "none"
      /\ l.state = k.state /\ l.state = a.state /\ a.writer = "none"
      /\ a.entries = k.entries
  BY DEF Facing, Applies, DeviceOK, Shaped, NoEdit, App
<1>2. /\ x \in ToSet(a.run.todo) /\ x.rec \in RecordIds
      /\ ToSet(b.run.todo) \subseteq ToSet(a.run.todo)
      /\ Records(a.run.todo) = {x.rec} \cup Records(b.run.todo)
  BY <1>1, StoresType, MembersType, MembersOfTail, RecordsOfTail DEF Applies
<1>3. /\ b.entries = l.entries
      /\ \A r \in RecordIds : l.entries[CellOf[r]] =
            IF CellOf[r] = CellOf[x.rec] THEN EntryOf(x.row) ELSE k.entries[CellOf[r]]
  BY <1>1, <1>2, StoresType DEF Applies
<1>4. /\ Exists(T.rows[x.rec])
      /\ \/ x.row = T.rows[x.rec]
         \/ /\ T.rows[x.rec].revision > a.state.cursor
            /\ T.rows[x.rec].revision > a.run.cursor
  BY <1>1, <1>2 DEF DeviceOK, Answered
<1>5. Shaped(l, b)
  BY <1>1, <1>3 DEF DeviceOK, Shaped, NoRun
<1>6. Orderly(d, l, b) /\ Kept(T, l, b) /\ Behind(T, l, b) /\ Answered(T, b)
  BY <1>1, <1>2 DEF DeviceOK, Orderly, Kept, Behind, Answered
<1>7. BeingPut(b) /\ Drained(b)
  BY <1>1 DEF DeviceOK, BeingPut, Drained
<1>8. Covered(T, l, b)
  <2> SUFFICES ASSUME NEW r \in RecordIds, Alone(r)
               PROVE  /\ Covers(T, a.state, l.entries, r)
                      /\ Acknowledged(T, l, b, r)
                      /\ Pulled(T, l, b, r)
    BY <1>1, <1>3 DEF Covered, Unsaved
  <2>1. /\ Covers(T, a.state, k.entries, r)
        /\ Acknowledged(T, k, a, r)
        /\ Pulled(T, k, a, r)
    BY <1>1 DEF DeviceOK, Covered
  <2>2. CASE r = x.rec
    <3>1. l.entries[CellOf[r]] = EntryOf(x.row)
      BY <2>2, <1>3
    <3>2. CASE x.row = T.rows[r]
      BY <3>1, <3>2 DEF Covers, Acknowledged, Pulled
    <3>3. CASE T.rows[r].revision > a.state.cursor /\ T.rows[r].revision > a.run.cursor
      <4>1. /\ ~(T.rows[r].revision <= a.state.cursor)
            /\ ~(T.rows[r].revision <= b.run.cursor)
        BY <3>3, <1>1, StoresType
      <4> QED
        BY <4>1, <3>3, <1>1 DEF Covers, Acknowledged, Pulled
    <3> QED
      BY <2>2, <3>2, <3>3, <1>4
  <2>3. CASE r # x.rec
    <3>1. l.entries[CellOf[r]] = k.entries[CellOf[r]]
      BY <2>3, <1>2, <1>3 DEF Alone
    <3>2. r \in Records(a.run.todo) => r \in Records(b.run.todo)
      BY <2>3, <1>2
    <3> QED
      BY <3>1, <3>2, <2>1, <1>1 DEF Covers, Acknowledged, Pulled
  <2> QED
    BY <2>2, <2>3
<1> QED
  BY <1>5, <1>6, <1>7, <1>8 DEF DeviceOK

\* What was acknowledged leaves the queue.
Drops(a, b) ==
    /\ a.run.pc = "acks" /\ a.run.todo = <<>> /\ a.writer = "none"
    /\ b.entries = a.entries /\ b.edit = a.edit /\ b.phase = a.phase
    /\ b.writer = "run"
    /\ b.state.migrated = a.state.migrated /\ b.state.cursor = a.state.cursor
    /\ b.state.counter = a.state.counter
    /\ ToSet(b.state.queue) = {m \in ToSet(a.state.queue) : m.id \notin Ids(a.run.sent)}
    /\ b.run.pc = "push" /\ b.run.sent = <<>> /\ b.run.todo = <<>>
    /\ b.run.cursor = a.run.cursor /\ b.run.seen = a.run.seen

LEMMA DropsOK ==
    ASSUME NEW T, NEW d, NEW k, NEW a, Facing(T, d, k, a), NEW b \in App, Drops(a, b)
    PROVE  DeviceOK(T, d, k, b)
<1>1. /\ T \in Database /\ k \in Disk /\ a \in App /\ DeviceOK(T, d, k, a)
      /\ b.entries = a.entries /\ b.edit = a.edit /\ b.phase = a.phase
      /\ b.writer = "run" /\ a.writer = "none" /\ a.edit.stage # "put"
      /\ b.state.migrated = a.state.migrated /\ b.state.cursor = a.state.cursor
      /\ b.state.counter = a.state.counter /\ k.state = a.state
      /\ a.run.pc = "acks" /\ b.run.pc = "push" /\ b.run.cursor = a.run.cursor
      /\ b.run.todo = <<>> /\ ToSet(b.run.sent) = {} /\ ToSet(b.run.todo) = {}
      /\ Records(a.run.todo) = {}
      /\ ToSet(b.state.queue) = {m \in ToSet(a.state.queue) : m.id \notin Ids(a.run.sent)}
  BY NoMembers DEF Facing, Drops, DeviceOK, Shaped
<1>2. \A m \in ToSet(a.state.queue) :
          /\ m \in ToSet(b.state.queue) \/ m \in ToSet(a.run.sent)
          /\ m.id[2] \in Nat
  BY <1>1, MembersType DEF DeviceOK, Orderly, Ids
<1>3. Shaped(k, b)
  BY <1>1 DEF DeviceOK, Shaped
<1>4. Orderly(d, k, b)
  BY <1>1 DEF DeviceOK, Orderly
<1>5. Kept(T, k, b)
  <2> SUFFICES ASSUME NEW m \in ToSet(k.state.queue)
               PROVE  \/ m \in T.receipts
                      \/ \E n \in ToSet(b.state.queue) : n.rec = m.rec /\ n.id[2] >= m.id[2]
    BY DEF Kept
  <2>1. m \in ToSet(b.state.queue) \/ m \in T.receipts
    BY <1>1, <1>2 DEF DeviceOK, Answered
  <2>2. m.id[2] >= m.id[2]
    BY <1>1, <1>2
  <2> QED
    BY <2>1, <2>2
<1>6. Behind(T, k, b) /\ Answered(T, b)
  BY <1>1 DEF DeviceOK, Behind, Answered
<1>7. \A r : Unanswered(a, r) => Unanswered(b, r)
  BY <1>1 DEF Unanswered
<1>8. BeingPut(b)
  BY <1>1 DEF BeingPut
<1>9. Covered(T, k, b)
  <2> SUFFICES ASSUME NEW r \in RecordIds, Alone(r)
               PROVE  /\ Covers(T, b.state, k.entries, r)
                      /\ Unsaved(k, b, r)
    BY <1>1 DEF DeviceOK, Covered, Acknowledged, Pulled
  <2>1. /\ Covers(T, a.state, k.entries, r)
        /\ Unsaved(k, a, r)
        /\ Acknowledged(T, k, a, r)
    BY <1>1 DEF DeviceOK, Covered
  <2>2. Unsaved(k, b, r)
    BY <2>1, <1>1, <1>7 DEF Unsaved
  <2>3. Covers(T, b.state, k.entries, r)
    <3> SUFFICES ASSUME Exists(T.rows[r]), T.rows[r].revision <= a.state.cursor,
                        k.entries[CellOf[r]] # EntryOf(T.rows[r])
                 PROVE  Waits(b.state.queue, r)
      BY <1>1 DEF Covers
    <3>1. PICK m \in ToSet(a.state.queue) : m.rec = r
      BY <2>1 DEF Covers, Waits
    <3>2. CASE m \in ToSet(b.state.queue)
      BY <3>1, <3>2 DEF Waits
    <3>3. CASE m \in ToSet(a.run.sent)
      <4>1. r \in Records(a.run.sent) /\ ~(T.rows[r].revision > a.state.cursor)
        BY <3>1, <3>3, <1>1, StoresType DEF Records
      <4> QED
        BY <4>1, <2>1, <1>1 DEF Acknowledged, Waits
    <3> QED
      BY <3>1, <3>2, <3>3, <1>2
  <2> QED
    BY <2>2, <2>3
<1>10. Drained(b)
  <2>1. a.state.queue = <<>> => b.state.queue = <<>>
    BY <1>1, NoMembers, StoresType, MembersOfEmpty
  <2> QED
    BY <2>1, <1>1 DEF DeviceOK, Drained
<1> QED
  BY <1>1, <1>3, <1>4, <1>5, <1>6, <1>8, <1>9, <1>10 DEF DeviceOK

\* A page arrives.
GetsPage(T, a, b) ==
    /\ Steady(a, b) /\ b.phase = a.phase
    /\ a.run.pc = "pull" /\ b.run.pc = "rows"
    /\ b.run.todo = Pull(T, a.run.cursor, PageLimit)
    /\ b.run.cursor = ReadUpTo(b.run.todo, a.run.cursor)
    /\ b.run.sent = a.run.sent
    /\ b.run.seen = a.run.seen \cup Records(b.run.todo)

LEMMA GetsPageOK ==
    ASSUME NEW T, NEW d, NEW k, NEW a, Facing(T, d, k, a), Sound(T),
           NEW b \in App, GetsPage(T, a, b)
    PROVE  DeviceOK(T, d, k, b)
<1> DEFINE page == b.run.todo
<1>1. /\ T \in Database /\ k \in Disk /\ a \in App /\ DeviceOK(T, d, k, a)
      /\ Steady(a, b) /\ b.phase = a.phase
      /\ a.run.pc = "pull" /\ b.run.pc = "rows" /\ b.run.sent = a.run.sent
      /\ a.run.todo = <<>> /\ a.run.cursor \in Nat /\ b.run.cursor \in Nat
      /\ a.run.cursor <= T.revision
  BY StoresType DEF Facing, GetsPage, DeviceOK, Shaped, Behind
<1>2. PageLimit \in Nat \ {0}
  BY LimitAssumption
<1>3. /\ page \in Seq(Received)
      /\ \A i \in 1..Len(page) :
            /\ page[i].row = T.rows[page[i].rec]
            /\ page[i].row.revision > a.run.cursor
      /\ \A r \in RecordIds :
            (/\ T.rows[r].revision > a.run.cursor
             /\ \/ T.rows[r].revision <= ReadUpTo(page, a.run.cursor)
                \/ Len(page) < PageLimit)
            => \E i \in 1..Len(page) : page[i] = [rec |-> r, row |-> T.rows[r]]
  BY <1>1, <1>2, PullReads DEF GetsPage
<1>4. b.run.cursor = ReadUpTo(page, a.run.cursor)
  BY DEF GetsPage
<1> HIDE DEF page
<1>5. /\ Len(page) \in Nat /\ DOMAIN page = 1..Len(page)
      /\ \A i \in 1..Len(page) : page[i].rec \in RecordIds
      /\ page # <<>> => Len(page) \in 1..Len(page)
  <2>1. \A x \in Received : x.rec \in RecordIds
    BY DEF Received
  <2> QED
    BY <2>1, <1>3
<1>6. \A x \in ToSet(page) : Exists(T.rows[x.rec]) /\ x.row = T.rows[x.rec]
  BY <1>1, <1>3, <1>5, StoresType DEF ToSet, Exists
<1>7. b.run.cursor <= T.revision
  <2>1. CASE page = <<>>
    BY <2>1, <1>1, <1>4 DEF ReadUpTo
  <2>2. CASE page # <<>>
    BY <2>2, <1>3, <1>4, <1>5 DEF ReadUpTo, Sound
  <2> QED
    BY <2>1, <2>2
<1>8. Shaped(k, b)
  BY <1>1 DEF DeviceOK, Shaped, Steady
<1>9. Orderly(d, k, b) /\ Kept(T, k, b)
  BY <1>1 DEF DeviceOK, Orderly, Kept, Steady
<1>10. Behind(T, k, b)
  BY <1>1, <1>7 DEF DeviceOK, Behind, Steady
<1>11. Answered(T, b)
  BY <1>1, <1>6 DEF Answered, page
<1>12. \A r : Unanswered(a, r) => Unanswered(b, r)
  BY <1>1 DEF Unanswered, Steady
<1>13. BeingPut(b) /\ Drained(b)
  BY <1>1, <1>12 DEF DeviceOK, BeingPut, Drained, Steady
<1>14. Covered(T, k, b)
  <2> SUFFICES ASSUME NEW r \in RecordIds, Alone(r)
               PROVE  Unsaved(k, b, r) /\ Acknowledged(T, k, b, r) /\ Pulled(T, k, b, r)
    BY <1>1 DEF DeviceOK, Covered, Steady
  <2>1. Unsaved(k, a, r) /\ Pulled(T, k, a, r)
    BY <1>1 DEF DeviceOK, Covered
  <2>2. Unsaved(k, b, r) /\ Acknowledged(T, k, b, r)
    BY <2>1, <1>1, <1>12 DEF Unsaved, Acknowledged, Steady
  <2>3. Pulled(T, k, b, r)
    <3>1. CASE T.rows[r].revision <= a.run.cursor
      BY <3>1, <2>1, <1>1, NoMembers DEF Pulled, Steady
    <3>2. CASE ~(T.rows[r].revision <= a.run.cursor)
      <4>1. T.rows[r].revision > a.run.cursor
        BY <3>2, <1>1, StoresType
      <4>2. ASSUME T.rows[r].revision <= b.run.cursor PROVE r \in Records(page)
        <5>1. \E i \in 1..Len(page) : page[i] = [rec |-> r, row |-> T.rows[r]]
          BY <4>1, <4>2, <1>3, <1>4
        <5> QED
          BY <5>1, <1>5 DEF Records, ToSet
      <4> QED
        BY <4>2 DEF Pulled, page
    <3> QED
      BY <3>1, <3>2
  <2> QED
    BY <2>2, <2>3
<1> QED
  BY <1>8, <1>9, <1>10, <1>11, <1>13, <1>14 DEF DeviceOK

\* A page has been applied.
PageDone(a, b) ==
    /\ a.run.pc = "rows" /\ a.run.todo = <<>>
    /\ b.entries = a.entries /\ b.edit = a.edit /\ b.phase = a.phase
    /\ b.run.sent = a.run.sent /\ b.run.todo = a.run.todo
    /\ b.run.cursor = a.run.cursor /\ b.run.seen = a.run.seen
    /\ \/ /\ a.state.migrated /\ a.writer = "none" /\ b.writer = "run"
          /\ b.state.migrated = a.state.migrated
          /\ b.state.counter = a.state.counter /\ b.state.queue = a.state.queue
          /\ b.state.cursor = Larger(a.state.cursor, a.run.cursor)
          /\ b.run.pc \in {"finish", "pull"}
       \/ /\ ~a.state.migrated /\ b.state = a.state /\ b.writer = a.writer
          /\ b.run.pc \in {"baseline", "pull"}

LEMMA PageDoneOK ==
    ASSUME NEW T, NEW d, NEW k, NEW a, Facing(T, d, k, a), NEW b \in App, PageDone(a, b)
    PROVE  DeviceOK(T, d, k, b)
<1>1. /\ T \in Database /\ k \in Disk /\ a \in App /\ DeviceOK(T, d, k, a)
      /\ b.entries = a.entries /\ b.edit = a.edit /\ b.phase = a.phase
      /\ b.run.sent = a.run.sent /\ b.run.todo = a.run.todo /\ b.run.cursor = a.run.cursor
      /\ a.run.pc = "rows" /\ a.run.todo = <<>> /\ ToSet(b.run.todo) = {}
      /\ Records(a.run.todo) = {}
      /\ b.state.migrated = a.state.migrated
      /\ b.state.counter = a.state.counter /\ b.state.queue = a.state.queue
      /\ a.state.cursor \in Nat /\ a.run.cursor \in Nat
      /\ b.run.pc \in {"finish", "pull", "baseline"}
  BY NoMembers, StoresType DEF Facing, PageDone
<1>2. b.state.cursor = a.state.cursor \/ b.state.cursor = a.run.cursor
  BY DEF PageDone, Larger
<1>3. Shaped(k, b)
  BY <1>1 DEF DeviceOK, Shaped, PageDone
<1>4. Orderly(d, k, b) /\ Kept(T, k, b)
  BY <1>1 DEF DeviceOK, Orderly, Kept
<1>5. Behind(T, k, b) /\ Answered(T, b)
  BY <1>1, <1>2 DEF DeviceOK, Behind, Answered
<1>6. \A r : Unanswered(a, r) => Unanswered(b, r)
  BY <1>1 DEF Unanswered
<1>7. BeingPut(b)
  BY <1>1, <1>6 DEF DeviceOK, BeingPut
<1>8. Covered(T, k, b)
  <2> SUFFICES ASSUME NEW r \in RecordIds, Alone(r)
               PROVE  /\ Covers(T, b.state, k.entries, r)
                      /\ Unsaved(k, b, r)
                      /\ Acknowledged(T, k, b, r)
                      /\ Pulled(T, k, b, r)
    BY <1>1 DEF DeviceOK, Covered
  <2>1. /\ Covers(T, a.state, k.entries, r)
        /\ Unsaved(k, a, r)
        /\ Pulled(T, k, a, r)
    BY <1>1 DEF DeviceOK, Covered
  <2>2. Covers(T, b.state, k.entries, r)
    BY <2>1, <1>1, <1>2 DEF Covers, Pulled
  <2>3. Unsaved(k, b, r)
    BY <2>1, <1>1, <1>6 DEF Unsaved
  <2>4. Acknowledged(T, k, b, r) /\ Pulled(T, k, b, r)
    BY <2>1, <1>1 DEF Acknowledged, Pulled
  <2> QED
    BY <2>2, <2>3, <2>4
<1>9. Drained(b)
  BY <1>1 DEF DeviceOK, Drained, PageDone
<1> QED
  BY <1>3, <1>4, <1>5, <1>7, <1>8, <1>9 DEF DeviceOK

\* The baseline takes the place of what the queue holds of the same records.
Migrates(d, a, b) ==
    /\ a.run.pc = "baseline" /\ a.writer = "none"
    /\ b.entries = a.entries /\ b.edit = a.edit /\ b.phase = a.phase
    /\ b.writer = "run" /\ b.run = [NoRun EXCEPT !.pc = "push"]
    /\ b.state.migrated /\ b.state.cursor = a.state.cursor
    /\ b.state.counter >= a.state.counter
    /\ \E new \in SUBSET Mutation :
          /\ \A m \in new : /\ m.id[1] = d
                            /\ m.id[2] > a.state.counter
                            /\ m.id[2] <= b.state.counter
          /\ \A m, n \in new : m.id = n.id => m = n
          /\ {m.rec : m \in new} =
                {r \in RecordIds \ a.run.seen : a.entries[CellOf[r]] # NoPayload}
          /\ ToSet(b.state.queue) =
                {m \in ToSet(a.state.queue) : \A n \in new : n.rec # m.rec} \cup new

LEMMA MigratesOK ==
    ASSUME NEW T, NEW d, NEW k, NEW a, Facing(T, d, k, a), NEW b \in App, Migrates(d, a, b)
    PROVE  DeviceOK(T, d, k, b)
<1>1. /\ T \in Database /\ k \in Disk /\ a \in App /\ DeviceOK(T, d, k, a)
      /\ b.entries = a.entries /\ b.edit = a.edit /\ b.phase = a.phase
      /\ b.writer = "run" /\ a.writer = "none" /\ a.edit.stage # "put"
      /\ b.state.migrated /\ ~a.state.migrated /\ b.state.cursor = a.state.cursor
      /\ b.state.counter >= a.state.counter /\ k.state = a.state
      /\ a.state.counter \in Nat /\ b.state.counter \in Nat
      /\ b.run.pc = "push" /\ b.run.cursor = 0 /\ b.run.todo = <<>>
      /\ ToSet(b.run.sent) = {} /\ ToSet(b.run.todo) = {}
  BY StoresType, NoMembers DEF Facing, Migrates, DeviceOK, Shaped, Drained, NoRun
<1>2. PICK new \in SUBSET Mutation :
          /\ \A m \in new : /\ m.id[1] = d
                            /\ m.id[2] > a.state.counter
                            /\ m.id[2] <= b.state.counter
          /\ \A m, n \in new : m.id = n.id => m = n
          /\ ToSet(b.state.queue) =
                {m \in ToSet(a.state.queue) : \A n \in new : n.rec # m.rec} \cup new
  BY DEF Migrates
<1>3. \A m \in ToSet(a.state.queue) \cup new : m.id[2] \in Nat
  <2>1. \A m \in Mutation : m.id[2] \in Nat
    BY IdAssumption, LimitAssumption DEF Mutation
  <2> QED
    BY <2>1, <1>1, <1>2, StoresType, MembersOfEmpty
<1>4. \A m \in ToSet(a.state.queue) :
          /\ m.id[1] = d /\ m.id[2] <= a.state.counter /\ m.id[2] <= b.state.counter
          /\ \A n \in new : n.id # m.id /\ n.id[2] >= m.id[2]
  BY <1>1, <1>2, <1>3 DEF DeviceOK, Orderly
<1>5. Shaped(k, b)
  BY <1>1 DEF DeviceOK, Shaped
<1>6. Orderly(d, k, b)
  <2>1. \A m \in ToSet(b.state.queue) : m.id[1] = d /\ m.id[2] <= b.state.counter
    BY <1>2, <1>4
  <2>2. \A m, n \in ToSet(b.state.queue) : m.id = n.id => m = n
    BY <1>1, <1>2, <1>4 DEF DeviceOK, Orderly
  <2> QED
    BY <2>1, <2>2, <1>1 DEF DeviceOK, Orderly
<1>7. Kept(T, k, b)
  <2> SUFFICES ASSUME NEW m \in ToSet(a.state.queue)
               PROVE  \E n \in ToSet(b.state.queue) : n.rec = m.rec /\ n.id[2] >= m.id[2]
    BY <1>1 DEF Kept
  <2>1. m.id[2] >= m.id[2]
    BY <1>3
  <2> QED
    BY <2>1, <1>2, <1>4
<1>8. Behind(T, k, b) /\ Answered(T, b)
  BY <1>1, StoresType DEF DeviceOK, Behind, Answered
<1>9. \A r : Waits(a.state.queue, r) => Waits(b.state.queue, r)
  BY <1>2 DEF Waits
<1>10. \A r : Unanswered(a, r) => Unanswered(b, r)
  BY <1>1, <1>9 DEF Unanswered, Waits
<1>11. BeingPut(b) /\ Drained(b)
  BY <1>1 DEF DeviceOK, BeingPut, Drained
<1>12. Covered(T, k, b)
  <2> SUFFICES ASSUME NEW r \in RecordIds, Alone(r)
               PROVE  Covers(T, b.state, k.entries, r) /\ Unsaved(k, b, r)
    BY <1>1 DEF DeviceOK, Covered, Acknowledged, Pulled
  <2>1. Covers(T, a.state, k.entries, r) /\ Unsaved(k, a, r)
    BY <1>1 DEF DeviceOK, Covered
  <2> QED
    BY <2>1, <1>1, <1>9, <1>10 DEF Covers, Unsaved
<1> QED
  BY <1>5, <1>6, <1>7, <1>8, <1>11, <1>12 DEF DeviceOK

\* The application starts with what is on disk, or with nothing.
Restarts(k, l, b) ==
    /\ l = k \/ l.state = NewState
    /\ b.state = l.state /\ b.entries = l.entries /\ b.edit = NoEdit
    /\ b.writer = "none" /\ b.run = NoRun /\ b.phase # "synced"

LEMMA RestartsOK ==
    ASSUME NEW T, NEW d, NEW k, NEW a, Facing(T, d, k, a), NEW l \in Disk, NEW b \in App,
           Restarts(k, l, b)
    PROVE  DeviceOK(T, d, l, b)
<1>1. /\ T \in Database /\ k \in Disk /\ a \in App /\ DeviceOK(T, d, k, a)
      /\ b.state = l.state /\ b.entries = l.entries /\ b.edit = NoEdit
      /\ b.edit.stage = "none" /\ b.run = NoRun /\ b.writer = "none"
      /\ b.phase # "synced" /\ b.run.pc = "idle" /\ b.run.cursor = 0
      /\ b.run.todo = <<>> /\ ToSet(b.run.sent) = {} /\ ToSet(b.run.todo) = {}
      /\ l.state.counter \in Nat
  BY NoMembers, StoresType DEF Facing, Restarts, NoEdit, NoRun
<1>2. \/ l = k
      \/ /\ l.state.queue = <<>> /\ l.state.cursor = 0 /\ l.state.counter = 0
         /\ ToSet(l.state.queue) = {}
  BY NoMembers DEF Restarts, NewState
<1>3. Shaped(l, b)
  BY <1>1 DEF Shaped
<1>4. Orderly(d, l, b)
  <2>1. /\ \A m \in ToSet(l.state.queue) : m.id[1] = d /\ m.id[2] <= l.state.counter
        /\ \A m, n \in ToSet(l.state.queue) : m.id = n.id => m = n
    BY <1>1, <1>2 DEF DeviceOK, Orderly
  <2> QED
    BY <2>1, <1>1 DEF Orderly
<1>5. Kept(T, l, b)
  BY <1>1, MembersType DEF Kept
<1>6. Behind(T, l, b)
  BY <1>1, <1>2, StoresType DEF DeviceOK, Behind
<1>7. Answered(T, b) /\ BeingPut(b) /\ Drained(b)
  BY <1>1 DEF Answered, BeingPut, Drained
<1>8. Covered(T, l, b)
  <2> SUFFICES ASSUME NEW r \in RecordIds, Alone(r)
               PROVE  Covers(T, l.state, l.entries, r)
    BY <1>1 DEF Covered, Unsaved, Acknowledged, Pulled
  <2>1. CASE l = k
    BY <2>1, <1>1 DEF DeviceOK, Covered
  <2>2. CASE l.state.cursor = 0
    BY <2>2, <1>1, StoresType DEF Covers, Exists
  <2> QED
    BY <2>1, <2>2, <1>2
<1> QED
  BY <1>3, <1>4, <1>5, <1>6, <1>7, <1>8 DEF DeviceOK

-----------------------------------------------------------------------------
(***************************************************************************)
(* The actions of the specification are these steps.                       *)
(***************************************************************************)

IInv ==
    /\ TypeOK
    /\ Sound(db)
    /\ \A d \in Devices : DeviceOK(db, d, disk[d], app[d])

\* Only the application of d changes; only its stores change.
AppMoves(d) == app' \in [Devices -> App] /\ \A e \in Devices \ {d} : app'[e] = app[e]

DiskMoves(d) == disk' \in [Devices -> Disk] /\ \A e \in Devices \ {d} : disk'[e] = disk[e]

LEMMA NoRunType == /\ NoRun \in Run
                   /\ [NoRun EXCEPT !.pc = "push"] \in Run
                   /\ NoEdit \in Edit /\ NewState \in SyncState /\ NoEntries \in Entries
<1>1. 0 \in 0..MaxBatches /\ 0 \in 0..MaxCounter
  BY LimitAssumption
<1>2. \A A : <<>> \in Seq(A)
  OBVIOUS
<1>3. /\ <<>> \in Seq(Mutation) /\ <<>> \in Seq(Received) /\ <<>> \in Seq(Change)
  BY <1>2
<1>4. NoRun \in Run /\ [NoRun EXCEPT !.pc = "push"] \in Run
  BY <1>1, <1>3 DEF NoRun, Run
<1>5. NoEdit \in Edit /\ NewState \in SyncState
  BY <1>1, <1>3 DEF NoEdit, Edit, NewState, SyncState
<1>6. NoEntries \in Entries
  BY DEF NoEntries, Entries, NoPayload, Payload
<1> QED
  BY <1>4, <1>5, <1>6

LEMMA StopMoves ==
    ASSUME TypeOK, NEW d \in Devices, NEW phase \in Phases, Stop(d, phase),
           phase = "synced" => app[d].run.pc = "finish" /\ app[d].state.queue = <<>>
    PROVE  AppMoves(d) /\ Rests(app[d], app'[d])
<1> DEFINE a == app[d]
           b == [a EXCEPT !.run = NoRun, !.phase = phase,
                          !.expired = @ \/ phase = "expired",
                          !.timer = phase = "offline"]
<1>1. app \in [Devices -> App] /\ a \in App
  BY DEF TypeOK
<1>2. app' = [app EXCEPT ![d] = b]
  BY <1>1 DEF Stop
<1>3. b \in App
  BY <1>1, NoRunType DEF App
<1>4. Rests(a, b)
  BY <1>1 DEF Rests, Steady, App
<1> QED
  BY <1>1, <1>2, <1>3, <1>4 DEF AppMoves

LEMMA StartRunMoves ==
    ASSUME IInv, NEW d \in Devices, StartRun(d)
    PROVE  AppMoves(d) /\ Rests(app[d], app'[d])
<1> DEFINE a == app[d]
           run == [a.run EXCEPT !.pc = IF a.expired THEN "idle" ELSE "push"]
           b == [a EXCEPT !.wanted = FALSE, !.timer = @ /\ a.expired, !.run = run]
<1>1. app \in [Devices -> App] /\ a \in App /\ a.run = NoRun
  BY DEF IInv, TypeOK, DeviceOK, Shaped, StartRun, At
<1>2. app' = [app EXCEPT ![d] = b]
  BY <1>1 DEF StartRun, App, Run
<1>3. run \in Run /\ (run = NoRun \/ run = [NoRun EXCEPT !.pc = "push"])
  BY <1>1, NoRunType DEF NoRun
<1> HIDE DEF run
<1>4. b \in App
  BY <1>1, <1>3 DEF App
<1>5. Rests(a, b)
  BY <1>1, <1>3 DEF Rests, Steady, App
<1> QED
  BY <1>1, <1>2, <1>4, <1>5 DEF AppMoves

LEMMA RetryTimerMoves ==
    ASSUME TypeOK, NEW d \in Devices, RetryTimer(d)
    PROVE  AppMoves(d) /\ Rests(app[d], app'[d])
<1> DEFINE a == app[d]
           b == [a EXCEPT !.timer = FALSE, !.wanted = @ \/ ~a.expired]
<1>1. app \in [Devices -> App] /\ a \in App
  BY DEF TypeOK
<1>2. app' = [app EXCEPT ![d] = b]
  BY <1>1 DEF RetryTimer
<1>3. b \in App
  BY <1>1 DEF App
<1>4. Rests(a, b)
  BY <1>1 DEF Rests, Steady, App
<1> QED
  BY <1>1, <1>2, <1>3, <1>4 DEF AppMoves

LEMMA SendPushMoves ==
    ASSUME TypeOK, NEW d \in Devices, SendPush(d)
    PROVE  AppMoves(d) /\ Sends(app[d], app'[d])
<1> DEFINE a == app[d]
           queue == a.state.queue
           sent == SubSeq(queue, 1, Smaller(BatchLimit, Len(queue)))
           run == [a.run EXCEPT !.pc = "pushWait", !.round = @ + 1, !.sent = sent]
           b == [a EXCEPT !.run = run]
<1>1. app \in [Devices -> App] /\ a \in App /\ queue \in Seq(Mutation) /\ a.run \in Run
  BY DEF TypeOK, App, SyncState
<1>2. app' = [app EXCEPT ![d] = b]
  BY <1>1 DEF SendPush, App, Run
<1>3. sent \in Seq(Mutation) /\ ToSet(sent) \subseteq ToSet(queue)
  <2>1. Smaller(BatchLimit, Len(queue)) \in 0..Len(queue)
    BY <1>1, LimitAssumption DEF Smaller
  <2> QED
    BY <2>1, <1>1, MembersOfPrefix
<1>4. a.run.round < MaxBatches /\ a.run.pc = "push"
  BY DEF SendPush, At
<1> HIDE DEF sent
<1>5. run \in Run
  <2>1. \A i \in 0..MaxBatches : i < MaxBatches => i + 1 \in 0..MaxBatches
    BY LimitAssumption
  <2>2. a.run.round \in 0..MaxBatches
    BY <1>1 DEF Run
  <2>3. a.run.round + 1 \in 0..MaxBatches
    BY <2>1, <2>2, <1>4
  <2> QED
    BY <1>1, <1>3, <2>3 DEF Run
<1>6. /\ run.pc = "pushWait" /\ run.todo = a.run.todo /\ run.cursor = a.run.cursor
      /\ run.seen = a.run.seen /\ run.sent = sent
  BY <1>1 DEF Run
<1> HIDE DEF run
<1>7. b \in App
  BY <1>1, <1>5 DEF App
<1>8. Sends(a, b)
  BY <1>1, <1>3, <1>4, <1>6 DEF Sends, Steady, App
<1> QED
  BY <1>1, <1>2, <1>7, <1>8 DEF AppMoves

LEMMA PushDoneMoves ==
    ASSUME TypeOK, NEW d \in Devices, PushDone(d)
    PROVE  AppMoves(d) /\ StartsPull(app[d], app'[d])
<1> DEFINE a == app[d]
           run == [NoRun EXCEPT !.pc = "pull",
                                !.cursor = IF a.state.migrated THEN a.state.cursor ELSE 0]
           b == [a EXCEPT !.run = run]
<1>1. app \in [Devices -> App] /\ a \in App /\ a.state.cursor \in Nat
  BY DEF TypeOK, App, SyncState
<1>2. app' = [app EXCEPT ![d] = b]
  BY <1>1 DEF PushDone
<1>3. run \in Run
  BY <1>1, NoRunType DEF NoRun, Run
<1>4. a.run.pc = "push" /\ a.state.queue = <<>>
  BY DEF PushDone, At
<1> HIDE DEF run
<1>5. b \in App
  BY <1>1, <1>3 DEF App
<1>6. /\ Steady(a, b) /\ b.phase = a.phase /\ b.run = run
  BY <1>1 DEF Steady, App
<1>7. StartsPull(a, b)
  BY <1>4, <1>6 DEF StartsPull, run
<1> QED
  BY <1>1, <1>2, <1>5, <1>7 DEF AppMoves

\* A run that stops without being done.
LEMMA StopsMoves ==
    ASSUME TypeOK, NEW d \in Devices,
           \/ PushExhausted(d) \/ ReceiveRejection(d) \/ PullExhausted(d)
           \/ FinishRun(d) \/ RequestFails(d) \/ SessionExpires(d)
    PROVE  AppMoves(d) /\ Rests(app[d], app'[d])
<1>1. \A phase \in {"error", "offline", "expired", "pending"} :
          Stop(d, phase) => AppMoves(d) /\ Rests(app[d], app'[d])
  BY StopMoves DEF Phases
<1>2. CASE FinishRun(d)
  <2>1. app[d].run.pc = "finish"
    BY <1>2 DEF FinishRun, At
  <2>2. CASE app[d].state.queue = <<>>
    BY <2>1, <2>2, <1>2, StopMoves DEF FinishRun, Phases
  <2>3. CASE app[d].state.queue # <<>>
    BY <2>3, <1>1, <1>2 DEF FinishRun
  <2> QED
    BY <2>2, <2>3
<1> QED
  BY <1>1, <1>2
     DEF PushExhausted, ReceiveRejection, PullExhausted, RequestFails, SessionExpires

-----------------------------------------------------------------------------
\* What a user action shows, if it is well typed.
LEMMA PublishMoves ==
    ASSUME TypeOK, NEW d \in Devices, NEW entries \in Entries,
           NEW changes \in Seq(Change), changes # <<>>,
           \A r \in RecordIds :
              Alone(r) /\ entries[CellOf[r]] # app[d].entries[CellOf[r]]
                 => r \in Records(changes),
           Publish(d, entries, changes)
    PROVE  AppMoves(d) /\ Publishes(app[d], app'[d])
<1> DEFINE a == app[d]
           edit == [stage |-> "queue", changes |-> changes]
           b == [a EXCEPT !.entries = entries, !.edit = edit]
<1>1. app \in [Devices -> App] /\ a \in App /\ a.edit = NoEdit
  BY DEF TypeOK, Publish
<1>2. app' = [app EXCEPT ![d] = b]
  BY <1>1 DEF Publish
<1>3. edit \in Edit /\ edit.stage = "queue" /\ edit.changes = changes
  BY DEF Edit
<1> HIDE DEF edit
<1>4. b \in App
  BY <1>1, <1>3 DEF App
<1>5. /\ b.state = a.state /\ b.writer = a.writer /\ b.run = a.run /\ b.phase = a.phase
      /\ b.entries = entries /\ b.edit = edit
  BY <1>1 DEF App
<1> HIDE DEF b
<1>6. Publishes(a, b)
  BY <1>1, <1>3, <1>5 DEF Publishes
<1>7. AppMoves(d) /\ app'[d] = b
  BY <1>1, <1>2, <1>4 DEF AppMoves
<1> QED
  BY <1>6, <1>7

LEMMA SetEntryMoves ==
    ASSUME TypeOK, NEW d \in Devices, NEW r \in RecordIds, NEW payload \in Payload,
           SetEntry(d, r, payload)
    PROVE  AppMoves(d) /\ Publishes(app[d], app'[d])
<1> DEFINE change == [rec |-> r, payload |-> payload, deleted |-> FALSE]
           entries == [app[d].entries EXCEPT ![CellOf[r]] = payload]
<1>1. app[d].entries \in [Cells -> Payload] /\ CellOf[r] \in Cells
  BY CellAssumption DEF TypeOK, App, Entries
<1>2. entries \in Entries
  BY <1>1 DEF Entries
<1>3. change \in Change /\ change.rec = r
  BY DEF Change
<1>4. <<change>> \in Seq(Change) /\ <<change>> # <<>> /\ ToSet(<<change>>) = {change}
  <2> HIDE DEF change
  <2>1. <<change>> \in Seq(Change) /\ DOMAIN <<change>> = {1} /\ <<change>>[1] = change
    BY <1>3
  <2>2. ToSet(<<change>>) = {change}
    BY <2>1 DEF ToSet
  <2> QED
    BY <2>1, <2>2, NoMembers
<1>5. r \in Records(<<change>>)
  BY <1>3, <1>4 DEF Records
<1>6. ASSUME NEW s \in RecordIds, Alone(s), entries[CellOf[s]] # app[d].entries[CellOf[s]]
      PROVE  s \in Records(<<change>>)
  <2>1. CellOf[s] = CellOf[r]
    BY <1>1, <1>6, CellAssumption
  <2> QED
    BY <2>1, <1>5, <1>6 DEF Alone
<1>7. Publish(d, entries, <<change>>)
  BY DEF SetEntry
<1> HIDE DEF entries, change
<1> QED
  BY <1>2, <1>4, <1>6, <1>7, PublishMoves

LEMMA RemoveEntriesMoves ==
    ASSUME TypeOK, NEW d \in Devices, NEW records \in SUBSET RecordIds, records # {},
           RemoveEntries(d, records)
    PROVE  AppMoves(d) /\ Publishes(app[d], app'[d])
<1> DEFINE removal(r) == [rec |-> r, payload |-> app[d].entries[CellOf[r]],
                          deleted |-> TRUE]
           removals == {removal(r) : r \in records}
           changes == SetToSeq(removals)
           removed == {c \in Cells : \E r \in records : CellOf[r] = c}
           entries == [c \in Cells |->
                         IF c \in removed THEN NoPayload ELSE app[d].entries[c]]
<1>1. app[d].entries \in [Cells -> Payload] /\ \A r \in RecordIds : CellOf[r] \in Cells
  BY CellAssumption DEF TypeOK, App, Entries
<1>2. entries \in Entries
  BY <1>1 DEF Entries, NoPayload, Payload
<1>3. /\ \A r \in records : removal(r) \in Change /\ removal(r).rec = r
      /\ removals \in SUBSET Change
  <2>1. ASSUME NEW r \in records
        PROVE  removal(r) \in Change /\ removal(r).rec = r
    <3>1. app[d].entries[CellOf[r]] \in Payload
      BY <1>1
    <3> QED
      BY <3>1 DEF Change
  <2> QED
    BY <2>1
<1>4. IsFiniteSet(removals)
  <2> DEFINE f == [r \in records |-> removal(r)]
  <2>1. IsFiniteSet(records)
    BY RecordsAreFinite, FS_Subset
  <2>2. f \in Surjection(records, removals)
    BY DEF Surjection
  <2> HIDE DEF f, removals
  <2> QED
    BY <2>1, <2>2, FS_Surjection
<1>5. changes \in Seq(removals) /\ ToSet(changes) = removals
  BY <1>4, MembersOfSet
<1>6. changes \in Seq(Change)
  BY <1>3, <1>5
<1>7. records \subseteq Records(changes)
  BY <1>3, <1>5 DEF Records
<1>8. changes # <<>>
  BY <1>7, NoMembers
<1>9. ASSUME NEW s \in RecordIds, Alone(s), entries[CellOf[s]] # app[d].entries[CellOf[s]]
      PROVE  s \in Records(changes)
  <2>1. CellOf[s] \in removed
    BY <1>1, <1>9
  <2> QED
    BY <2>1, <1>7, <1>9 DEF Alone
<1>10. Publish(d, entries, changes)
  BY DEF RemoveEntries
<1> HIDE DEF entries, changes, removed, removals
<1> QED
  BY <1>2, <1>6, <1>8, <1>9, <1>10, PublishMoves

LEMMA UserMoves ==
    ASSUME TypeOK, NEW d \in Devices, UserActs(d)
    PROVE  /\ AppMoves(d) /\ Publishes(app[d], app'[d])
           /\ used' \in [DOMAIN Bound -> Nat] /\ UNCHANGED <<db, late, disk>>
<1>1. used \in [DOMAIN Bound -> Nat] /\ "edits" \in DOMAIN Bound /\ Now \in Nat
  BY DEF TypeOK, Bound, Now
<1>2. ASSUME NEW entries, NEW changes, Publish(d, entries, changes)
      PROVE  used' \in [DOMAIN Bound -> Nat] /\ UNCHANGED <<db, late, disk>>
  BY <1>1, <1>2 DEF Publish, Happens
<1>3. \A r \in RecordIds : \A payload :
          SetEntry(d, r, payload) =>
             used' \in [DOMAIN Bound -> Nat] /\ UNCHANGED <<db, late, disk>>
  BY <1>2 DEF SetEntry
<1>4. \A records :
          RemoveEntries(d, records) =>
             used' \in [DOMAIN Bound -> Nat] /\ UNCHANGED <<db, late, disk>>
  BY <1>2 DEF RemoveEntries
<1>5. ASSUME NEW r \in RecordIds, NEW payload \in Payload, SetEntry(d, r, payload)
      PROVE  AppMoves(d) /\ Publishes(app[d], app'[d])
  BY <1>5, SetEntryMoves
<1>6. CASE \E r \in RecordIds : Toggle(d, r)
  <2>1. PICK r \in RecordIds : Toggle(d, r)
    BY <1>6
  <2>2. CASE HasEntry(d, r)
    <3>1. RemoveEntries(d, {r}) /\ {r} \in SUBSET RecordIds /\ {r} # {}
      BY <2>1, <2>2 DEF Toggle
    <3> QED
      BY <3>1, <1>4, RemoveEntriesMoves
  <2>3. CASE ~HasEntry(d, r)
    <3>1. SetEntry(d, r, [at |-> Now, progress |-> 0, completed |-> FALSE])
      BY <2>1, <2>3 DEF Toggle
    <3>2. [at |-> Now, progress |-> 0, completed |-> FALSE] \in Payload
      BY <1>1 DEF Payload
    <3> QED
      BY <3>1, <3>2, <1>3, <1>5
  <2> QED
    BY <2>2, <2>3
<1>7. CASE \E r \in RecordIds : AddHistory(d, r)
  <2>1. PICK r \in RecordIds : AddHistory(d, r)
    BY <1>7
  <2>2. app[d].entries[CellOf[r]] \in Payload
    BY CellAssumption DEF TypeOK, App, Entries
  <2>3. [app[d].entries[CellOf[r]] EXCEPT !.at = Now] \in Payload
    BY <1>1, <2>2 DEF Payload
  <2> QED
    BY <2>1, <2>3, <1>3, <1>5 DEF AddHistory
<1>8. CASE \E r \in RecordIds : \E progress \in Progress : UpdateProgress(d, r, progress)
  <2>1. PICK r \in RecordIds, progress \in Progress : UpdateProgress(d, r, progress)
    BY <1>8
  <2>2. [at |-> Now, progress |-> progress, completed |-> progress = 0] \in Payload
    BY <1>1, ProgressAssumption DEF Payload
  <2> QED
    BY <2>1, <2>2, <1>3, <1>5 DEF UpdateProgress
<1>9. CASE ClearHistory(d)
  <2> DEFINE viewed == {r \in RecordIds : KindOf[r] = "history" /\ HasEntry(d, r)}
  <2>1. viewed # {} /\ RemoveEntries(d, viewed) /\ viewed \in SUBSET RecordIds
    BY <1>9 DEF ClearHistory
  <2> HIDE DEF viewed
  <2> QED
    BY <2>1, <1>4, RemoveEntriesMoves
<1> QED
  BY <1>6, <1>7, <1>8, <1>9 DEF UserActs

-----------------------------------------------------------------------------
\* An EXCEPT of many components is a chain of updates of one device.
LEMMA Restaged ==
    ASSUME NEW f \in [Devices -> App], NEW d \in Devices
    PROVE  \A g, u : g = [f EXCEPT ![d] = u] =>
              g[d] = u /\ \A v : [g EXCEPT ![d] = v] = [f EXCEPT ![d] = v]
OBVIOUS

LEMMA EnqueueMoves ==
    ASSUME IInv, NEW d \in Devices, Enqueue(d)
    PROVE  AppMoves(d) /\ Enqueues(d, app[d], app'[d])
<1> DEFINE a == app[d]
           change == Head(a.edit.changes)
           new == [id |-> NextId(d, a.state, 1), rec |-> change.rec,
                   payload |-> change.payload, deleted |-> change.deleted]
           left == Compacted(a.state.queue, change.rec)
           state == [a.state EXCEPT !.counter = @ + 1, !.queue = Append(left, new)]
           edit == [a.edit EXCEPT !.stage = "put"]
           b == [a EXCEPT !.state = state, !.edit = edit, !.writer = "edit"]
<1>1. app \in [Devices -> App] /\ a \in App /\ a.state \in SyncState /\ a.edit \in Edit
  BY DEF IInv, TypeOK, App
<1>2. a.state.queue \in Seq(Mutation) /\ a.edit.changes \in Seq(Change)
      /\ a.state.counter \in 0..MaxCounter
  BY <1>1 DEF SyncState, Edit
<1>3. a.edit.stage = "queue" /\ a.writer = "none" /\ a.state.counter < MaxCounter
  BY DEF Enqueue
<1>4. a.edit.changes # <<>>
  BY <1>3 DEF IInv, DeviceOK, Shaped
<1>5. change \in Change
  BY <1>2, <1>4, MembersOfTail
<1>6. /\ a.state.counter + 1 \in 1..MaxCounter /\ a.state.counter + 1 \in 0..MaxCounter
  <2>1. \A i \in 0..MaxCounter : i < MaxCounter => i + 1 \in 1..MaxCounter /\ i + 1 \in 0..MaxCounter
    BY LimitAssumption
  <2> QED
    BY <2>1, <1>2, <1>3
<1>7. /\ new.id = <<d, a.state.counter + 1>> /\ new.rec = change.rec
      /\ new.id \in MutationIds
  BY <1>6, IdAssumption DEF NextId
<1>8. new \in Mutation
  BY <1>5, <1>7 DEF Mutation, Change
<1>9. app' = [app EXCEPT ![d] = b]
  <2> DEFINE f1 == [app EXCEPT ![d].state.counter = a.state.counter + 1]
             f2 == [f1 EXCEPT ![d].state.queue = Append(left, new)]
             f3 == [f2 EXCEPT ![d].edit.stage = "put"]
             f4 == [f3 EXCEPT ![d].writer = "edit"]
             b1 == [a EXCEPT !.state = [@ EXCEPT !.counter = a.state.counter + 1]]
             b2 == [b1 EXCEPT !.state = [@ EXCEPT !.queue = Append(left, new)]]
             b3 == [b2 EXCEPT !.edit = [@ EXCEPT !.stage = "put"]]
             b4 == [b3 EXCEPT !.writer = "edit"]
  <2>1. app' = f4
    BY DEF Enqueue
  <2> HIDE DEF change, new, left
  <2>2. f1 = [app EXCEPT ![d] = b1]
    OBVIOUS
  <2>3. b4 = b
    BY <1>1 DEF App, SyncState
  <2> HIDE DEF f1, b1, b
  <2>4. f2 = [app EXCEPT ![d] = b2]
    BY <2>2, <1>1, Restaged
  <2> HIDE DEF f2, b2
  <2>5. f3 = [app EXCEPT ![d] = b3]
    BY <2>4, <1>1, Restaged
  <2> HIDE DEF f3, b3
  <2>6. f4 = [app EXCEPT ![d] = b4]
    BY <2>5, <1>1, Restaged
  <2> QED
    BY <2>1, <2>3, <2>6
<1> HIDE DEF change, new
<1>10. /\ left \in Seq(Mutation)
       /\ ToSet(left) = ToSet(a.state.queue) \ {m \in ToSet(a.state.queue) : m.rec = change.rec}
  BY <1>2, MembersOfWithout DEF Compacted
<1> HIDE DEF left
<1>11. /\ Append(left, new) \in Seq(Mutation)
       /\ ToSet(Append(left, new)) = ToSet(left) \cup {new}
  BY <1>8, <1>10, MembersOfAppend
<1>12. ToSet(Append(left, new)) =
          {m \in ToSet(a.state.queue) : m.rec # new.rec} \cup {new}
  BY <1>7, <1>10, <1>11
<1>13. /\ state \in SyncState /\ state.queue = Append(left, new)
       /\ state.migrated = a.state.migrated /\ state.cursor = a.state.cursor
       /\ state.counter = a.state.counter + 1
  BY <1>1, <1>6, <1>11 DEF SyncState
<1>14. edit \in Edit /\ edit.stage = "put" /\ edit.changes = a.edit.changes
  BY <1>1 DEF Edit
<1> HIDE DEF state, edit
<1>15. /\ b \in App /\ b.state = state /\ b.edit = edit /\ b.writer = "edit"
       /\ b.entries = a.entries /\ b.run = a.run /\ b.phase = a.phase
  BY <1>1, <1>13, <1>14 DEF App
<1>16. AppMoves(d) /\ app'[d] = b
  BY <1>1, <1>9, <1>15 DEF AppMoves
<1> HIDE DEF b
<1>17. new.rec = Head(a.edit.changes).rec
  BY <1>7 DEF change
<1>18. Enqueues(d, a, b)
  BY <1>3, <1>7, <1>8, <1>12, <1>13, <1>14, <1>15, <1>17 DEF Enqueues
<1> QED
  BY <1>16, <1>18

LEMMA EditRestaged ==
    ASSUME NEW e \in Edit, NEW stage, NEW changes
    PROVE  [[e EXCEPT !.changes = changes] EXCEPT !.stage = stage] =
               [stage |-> stage, changes |-> changes]
<1> DEFINE f == [[e EXCEPT !.changes = changes] EXCEPT !.stage = stage]
           g == [stage |-> stage, changes |-> changes]
<1>1. DOMAIN e = {"stage", "changes"}
  BY DEF Edit
<1>2. f = [x \in {"stage", "changes"} |-> f[x]] /\ f["stage"] = stage /\ f["changes"] = changes
  BY <1>1
<1>3. g = [x \in {"stage", "changes"} |-> g[x]] /\ g["stage"] = stage /\ g["changes"] = changes
  OBVIOUS
<1>4. \A x \in {"stage", "changes"} : f[x] = g[x]
  BY <1>2, <1>3
<1>5. \A u, v : /\ u = [x \in {"stage", "changes"} |-> u[x]]
                /\ v = [x \in {"stage", "changes"} |-> v[x]]
                /\ \A x \in {"stage", "changes"} : u[x] = v[x]
                => u = v
  OBVIOUS
<1>6. f = g
  <2> HIDE DEF f, g
  <2> QED
    BY <1>2, <1>3, <1>4, <1>5, Zenon
<1> QED
  BY <1>6 DEF f, g

LEMMA FinishPutMoves ==
    ASSUME IInv, NEW d \in Devices, FinishPut(d)
    PROVE  AppMoves(d) /\ DiskMoves(d) /\ Puts(disk[d], app[d], disk'[d], app'[d])
<1> DEFINE a == app[d]
           k == disk[d]
           l == [k EXCEPT !.state = a.state]
           edit == [stage |-> IF Len(a.edit.changes) > 1 THEN "queue" ELSE "save",
                    changes |-> Tail(a.edit.changes)]
           b == IF a.writer = "edit"
                THEN [a EXCEPT !.writer = "none", !.edit = edit,
                               !.phase = IF a.expired THEN "expired" ELSE "pending",
                               !.wanted = @ \/ ~a.expired]
                ELSE [a EXCEPT !.writer = "none"]
<1>1. /\ app \in [Devices -> App] /\ a \in App /\ a.edit \in Edit
      /\ a.edit.changes \in Seq(Change) /\ a.writer \in {"edit", "run"}
  BY DEF IInv, TypeOK, App, Edit, FinishPut
<1>2. disk \in [Devices -> Disk] /\ k \in Disk
  BY DEF IInv, TypeOK
<1>3. app' = [app EXCEPT ![d] = b]
  <2>1. CASE a.writer = "edit"
    <3> DEFINE stage == IF Len(a.edit.changes) > 1 THEN "queue" ELSE "save"
               left == Tail(a.edit.changes)
               phase == IF a.expired THEN "expired" ELSE "pending"
               wanted == a.wanted \/ ~a.expired
               f1 == [app EXCEPT ![d].writer = "none"]
               f2 == [f1 EXCEPT ![d].edit.changes = left]
               f3 == [f2 EXCEPT ![d].edit.stage = stage]
               f4 == [f3 EXCEPT ![d].phase = phase]
               f5 == [f4 EXCEPT ![d].wanted = wanted]
               b1 == [a EXCEPT !.writer = "none"]
               b2 == [b1 EXCEPT !.edit = [@ EXCEPT !.changes = left]]
               b3 == [b2 EXCEPT !.edit = [@ EXCEPT !.stage = stage]]
               b4 == [b3 EXCEPT !.phase = phase]
               b5 == [b4 EXCEPT !.wanted = wanted]
    <3>1. app' = f5
      BY <2>1 DEF FinishPut
    <3>2. b = [a EXCEPT !.writer = "none", !.edit = [stage |-> stage, changes |-> left],
                        !.phase = phase, !.wanted = wanted]
      BY <2>1
    <3> HIDE DEF stage, left, phase, wanted, b
    <3>3. b5 = b
      <4>1. \A e \in Edit :
                [[e EXCEPT !.changes = left] EXCEPT !.stage = stage] =
                    [stage |-> stage, changes |-> left]
        BY EditRestaged
      <4>2. b5 = [a EXCEPT !.writer = "none",
                           !.edit = [[@ EXCEPT !.changes = left] EXCEPT !.stage = stage],
                           !.phase = phase, !.wanted = wanted]
        BY <1>1 DEF App
      <4> QED
        BY <1>1, <3>2, <4>1, <4>2
    <3>4. f1 = [app EXCEPT ![d] = b1]
      OBVIOUS
    <3> HIDE DEF f1, b1
    <3>5. f2 = [app EXCEPT ![d] = b2]
      BY <3>4, <1>1, Restaged
    <3> HIDE DEF f2, b2
    <3>6. f3 = [app EXCEPT ![d] = b3]
      BY <3>5, <1>1, Restaged
    <3> HIDE DEF f3, b3
    <3>7. f4 = [app EXCEPT ![d] = b4]
      BY <3>6, <1>1, Restaged
    <3> HIDE DEF f4, b4
    <3>8. f5 = [app EXCEPT ![d] = b5]
      BY <3>7, <1>1, Restaged
    <3> QED
      BY <3>1, <3>3, <3>8
  <2>2. CASE a.writer # "edit"
    BY <2>2, <1>1 DEF FinishPut
  <2> QED
    BY <2>1, <2>2
<1>4. disk' = [disk EXCEPT ![d] = l]
  BY <1>2 DEF FinishPut
<1>5. a.writer = "edit" => edit \in Edit
  <2>1. a.writer = "edit" => a.edit.changes # <<>>
    BY DEF IInv, DeviceOK, Shaped
  <2>2. a.writer = "edit" => Tail(a.edit.changes) \in Seq(Change)
    BY <2>1, <1>1
  <2> QED
    BY <2>2 DEF Edit
<1>6. edit.changes = Tail(a.edit.changes)
      /\ edit.stage = IF Len(a.edit.changes) > 1 THEN "queue" ELSE "save"
  OBVIOUS
<1> HIDE DEF edit
<1>7. /\ b \in App /\ b.writer = "none" /\ b.state = a.state /\ b.entries = a.entries
      /\ b.run = a.run
      /\ \/ a.writer = "edit" /\ b.edit = edit /\ b.phase # "synced"
         \/ a.writer = "run" /\ b.edit = a.edit /\ b.phase = a.phase
  <2>1. CASE a.writer = "edit"
    BY <2>1, <1>1, <1>5 DEF App, Phases
  <2>2. CASE a.writer = "run"
    BY <2>2, <1>1 DEF App
  <2> QED
    BY <2>1, <2>2, <1>1
<1> HIDE DEF b
<1>8. l \in Disk /\ l.state = a.state /\ l.entries = k.entries
  BY <1>1, <1>2 DEF Disk, App
<1> HIDE DEF l
<1>9. Puts(k, a, l, b)
  BY <1>1, <1>6, <1>7, <1>8 DEF Puts
<1>10. app'[d] = b /\ AppMoves(d)
  BY <1>1, <1>3, <1>7 DEF AppMoves
<1>11. disk'[d] = l /\ DiskMoves(d)
  BY <1>2, <1>4, <1>8 DEF DiskMoves
<1> QED
  BY <1>9, <1>10, <1>11

LEMMA SaveEntriesMoves ==
    ASSUME TypeOK, NEW d \in Devices, SaveEntries(d)
    PROVE  AppMoves(d) /\ DiskMoves(d) /\ Saves(disk[d], app[d], disk'[d], app'[d])
<1> DEFINE a == app[d]
           k == disk[d]
           l == [k EXCEPT !.entries = a.entries]
           b == [a EXCEPT !.edit = NoEdit]
<1>1. app \in [Devices -> App] /\ a \in App /\ disk \in [Devices -> Disk] /\ k \in Disk
  BY DEF TypeOK
<1>2. app' = [app EXCEPT ![d] = b] /\ disk' = [disk EXCEPT ![d] = l]
  BY <1>1 DEF SaveEntries
<1>3. /\ b \in App /\ b.edit = NoEdit /\ b.state = a.state /\ b.entries = a.entries
      /\ b.writer = a.writer /\ b.run = a.run /\ b.phase = a.phase
  BY <1>1, NoRunType DEF App
<1>4. l \in Disk /\ l.state = k.state /\ l.entries = a.entries
  BY <1>1 DEF Disk, App
<1> HIDE DEF b, l
<1>5. Saves(k, a, l, b)
  BY <1>3, <1>4 DEF Saves, SaveEntries
<1>6. app'[d] = b /\ AppMoves(d) /\ disk'[d] = l /\ DiskMoves(d)
  BY <1>1, <1>2, <1>3, <1>4 DEF AppMoves, DiskMoves
<1> QED
  BY <1>5, <1>6

-----------------------------------------------------------------------------
LEMMA ReceivePushMoves ==
    ASSUME IInv, NEW d \in Devices, ReceivePush(d)
    PROVE  AppMoves(d) /\ IsAnswered(db, app[d], db', app'[d])
<1> DEFINE a == app[d]
           push == Push(db, a.run.sent)
           run == [a.run EXCEPT !.pc = "acks", !.todo = push.acks]
           b == [a EXCEPT !.run = run]
<1>1. /\ app \in [Devices -> App] /\ a \in App /\ a.run \in Run
      /\ a.run.sent \in Seq(Mutation) /\ db \in Database /\ Sound(db)
  BY DEF IInv, TypeOK, App, Run
<1>2. push \in Served
  BY <1>1, PushProgresses
<1>3. app' = [app EXCEPT ![d] = b]
  BY <1>1 DEF ReceivePush, App, Run
<1>4. ~push.rejected /\ db' = push.db /\ a.run.pc = "pushWait"
  BY DEF ReceivePush, At
<1>5. push.acks \in Seq(Received)
  BY <1>2 DEF Served
<1> HIDE DEF push
<1>6. /\ run \in Run /\ run.pc = "acks" /\ run.todo = push.acks /\ run.sent = a.run.sent
      /\ run.cursor = a.run.cursor /\ run.seen = a.run.seen
  BY <1>1, <1>5 DEF Run
<1> HIDE DEF run
<1>7. /\ b \in App /\ b.run = run /\ Steady(a, b) /\ b.phase = a.phase
  BY <1>1, <1>6 DEF App, Steady
<1> HIDE DEF b
<1>8. app'[d] = b /\ AppMoves(d)
  BY <1>1, <1>3, <1>7 DEF AppMoves
<1>9. IsAnswered(db, a, db', b)
  BY <1>4, <1>6, <1>7 DEF IsAnswered, push
<1> QED
  BY <1>8, <1>9

LEMMA EntryOfType ==
    ASSUME NEW row \in Row
    PROVE  EntryOf(row) \in Payload
<1>1. row.payload \in Payload /\ row.deleted \in BOOLEAN
  BY DEF Row
<1> QED
  BY <1>1 DEF EntryOf, Payload, NoPayload

LEMMA ApplyRecordMoves ==
    ASSUME TypeOK, NEW d \in Devices, ApplyRecord(d)
    PROVE  AppMoves(d) /\ DiskMoves(d) /\ Applies(disk[d], app[d], disk'[d], app'[d])
<1> DEFINE a == app[d]
           k == disk[d]
           x == Head(a.run.todo)
           c == CellOf[x.rec]
           e == EntryOf(x.row)
           l == [k EXCEPT !.entries = [@ EXCEPT ![c] = e]]
           run == [a.run EXCEPT !.todo = Tail(@)]
           b == [a EXCEPT !.entries = [@ EXCEPT ![c] = e], !.run = run]
<1>1. /\ app \in [Devices -> App] /\ a \in App /\ a.run \in Run
      /\ a.run.todo \in Seq(Received) /\ a.run.todo # <<>>
      /\ disk \in [Devices -> Disk] /\ k \in Disk
      /\ a.entries \in [Cells -> Payload] /\ k.entries \in [Cells -> Payload]
  BY DEF TypeOK, App, Run, Disk, Entries, ApplyRecord
<1>2. x \in Received /\ Tail(a.run.todo) \in Seq(Received)
  BY <1>1, MembersOfTail
<1>3. c \in Cells /\ e \in Payload
  <2>1. x.rec \in RecordIds /\ x.row \in Row
    BY <1>2 DEF Received
  <2> QED
    BY <2>1, CellAssumption, EntryOfType
<1>4. app' = [app EXCEPT ![d] = b] /\ disk' = [disk EXCEPT ![d] = l]
  BY <1>1 DEF ApplyRecord, App, Run, Disk
<1>5. a.run.pc \in {"acks", "rows"} /\ a.writer # "run" /\ a.edit = NoEdit
  BY DEF ApplyRecord, At
<1> HIDE DEF e, c
<1>6. /\ run \in Run /\ run.pc = a.run.pc /\ run.todo = Tail(a.run.todo)
      /\ run.sent = a.run.sent /\ run.cursor = a.run.cursor /\ run.seen = a.run.seen
  BY <1>1, <1>2 DEF Run
<1> HIDE DEF run
<1>7. /\ [a.entries EXCEPT ![c] = e] \in Entries /\ [k.entries EXCEPT ![c] = e] \in Entries
  BY <1>1, <1>3 DEF Entries
<1>8. /\ b \in App /\ b.run = run /\ b.entries = [a.entries EXCEPT ![c] = e]
      /\ b.state = a.state /\ b.edit = a.edit /\ b.writer = a.writer /\ b.phase = a.phase
  BY <1>1, <1>6, <1>7 DEF App
<1>9. /\ l \in Disk /\ l.state = k.state /\ l.entries = [k.entries EXCEPT ![c] = e]
  BY <1>1, <1>7 DEF Disk
<1> HIDE DEF b, l
<1>10. app'[d] = b /\ AppMoves(d) /\ disk'[d] = l /\ DiskMoves(d)
  BY <1>1, <1>4, <1>8, <1>9 DEF AppMoves, DiskMoves
<1>11. Applies(k, a, l, b)
  BY <1>1, <1>5, <1>6, <1>8, <1>9 DEF Applies, c, e
<1> QED
  BY <1>10, <1>11

LEMMA DropAcknowledgedMoves ==
    ASSUME IInv, NEW d \in Devices, DropAcknowledged(d)
    PROVE  AppMoves(d) /\ Drops(app[d], app'[d])
<1> DEFINE a == app[d]
           left == Unacknowledged(a.state.queue, a.run.sent)
           state == [a.state EXCEPT !.queue = left]
           run == [a.run EXCEPT !.pc = "push", !.sent = <<>>]
           b == [a EXCEPT !.state = state, !.run = run, !.writer = "run"]
<1>1. /\ app \in [Devices -> App] /\ a \in App /\ a.run \in Run /\ a.state \in SyncState
      /\ a.state.queue \in Seq(Mutation)
  BY DEF IInv, TypeOK, App, Run, SyncState
<1>2. /\ left \in Seq(Mutation)
      /\ ToSet(left) = ToSet(a.state.queue)
            \ {m \in ToSet(a.state.queue) : \E n \in ToSet(a.run.sent) : n.id = m.id}
  BY <1>1, MembersOfWithout DEF Unacknowledged
<1>3. ToSet(left) = {m \in ToSet(a.state.queue) : m.id \notin Ids(a.run.sent)}
  BY <1>2 DEF Ids
<1>4. a.run.pc = "acks" /\ a.run.todo = <<>> /\ a.writer = "none"
  BY DEF DropAcknowledged, At
<1>5. app' = [app EXCEPT ![d] = b]
  <2> DEFINE f1 == [app EXCEPT ![d].state.queue = left]
             f2 == [f1 EXCEPT ![d].run.pc = "push"]
             f3 == [f2 EXCEPT ![d].run.sent = <<>>]
             f4 == [f3 EXCEPT ![d].writer = "run"]
             b1 == [a EXCEPT !.state = [@ EXCEPT !.queue = left]]
             b2 == [b1 EXCEPT !.run = [@ EXCEPT !.pc = "push"]]
             b3 == [b2 EXCEPT !.run = [@ EXCEPT !.sent = <<>>]]
             b4 == [b3 EXCEPT !.writer = "run"]
  <2>1. app' = f4
    BY DEF DropAcknowledged
  <2> HIDE DEF left
  <2>2. f1 = [app EXCEPT ![d] = b1]
    OBVIOUS
  <2>3. b4 = b
    BY <1>1 DEF App, Run
  <2> HIDE DEF f1, b1, b
  <2>4. f2 = [app EXCEPT ![d] = b2]
    BY <2>2, <1>1, Restaged
  <2> HIDE DEF f2, b2
  <2>5. f3 = [app EXCEPT ![d] = b3]
    BY <2>4, <1>1, Restaged
  <2> HIDE DEF f3, b3
  <2>6. f4 = [app EXCEPT ![d] = b4]
    BY <2>5, <1>1, Restaged
  <2> QED
    BY <2>1, <2>3, <2>6
<1> HIDE DEF left
<1>6. /\ state \in SyncState /\ state.queue = left /\ state.migrated = a.state.migrated
      /\ state.cursor = a.state.cursor /\ state.counter = a.state.counter
  BY <1>1, <1>2 DEF SyncState
<1>7. /\ run \in Run /\ run.pc = "push" /\ run.sent = <<>> /\ run.todo = a.run.todo
      /\ run.cursor = a.run.cursor /\ run.seen = a.run.seen
  <2>1. <<>> \in Seq(Mutation)
    OBVIOUS
  <2> QED
    BY <2>1, <1>1 DEF Run
<1> HIDE DEF state, run
<1>8. /\ b \in App /\ b.state = state /\ b.run = run /\ b.writer = "run"
      /\ b.entries = a.entries /\ b.edit = a.edit /\ b.phase = a.phase
  BY <1>1, <1>6, <1>7 DEF App
<1> HIDE DEF b
<1>9. app'[d] = b /\ AppMoves(d)
  BY <1>1, <1>5, <1>8 DEF AppMoves
<1>10. Drops(a, b)
  BY <1>3, <1>4, <1>6, <1>7, <1>8 DEF Drops
<1> QED
  BY <1>9, <1>10

LEMMA ReceivePageMoves ==
    ASSUME IInv, NEW d \in Devices, ReceivePage(d)
    PROVE  AppMoves(d) /\ GetsPage(db, app[d], app'[d])
<1> DEFINE a == app[d]
           page == Pull(db, a.run.cursor, PageLimit)
           cursor == IF page = <<>> THEN a.run.cursor ELSE page[Len(page)].row.revision
           seen == a.run.seen \cup {page[i].rec : i \in 1..Len(page)}
           last == Len(page) < PageLimit
           run == [a.run EXCEPT !.pc = "rows", !.todo = page, !.cursor = cursor,
                                !.last = last, !.seen = seen, !.round = a.run.round + 1]
           b == [a EXCEPT !.run = run]
<1>1. /\ app \in [Devices -> App] /\ a \in App /\ a.run \in Run /\ a.run.cursor \in Nat
      /\ a.run.seen \in SUBSET RecordIds /\ a.run.round \in 0..MaxBatches
      /\ db \in Database /\ Sound(db)
  BY DEF IInv, TypeOK, App, Run
<1>2. PageLimit \in Nat \ {0}
  BY LimitAssumption
<1>3. page \in Seq(Received) /\ ReadUpTo(page, a.run.cursor) \in Nat
  BY <1>1, <1>2, PullReads
<1>4. app' = [app EXCEPT ![d] = b]
  BY <1>1 DEF ReceivePage
<1>5. a.run.pc = "pull" /\ a.run.round < MaxBatches
  BY DEF ReceivePage, At
<1> HIDE DEF page
<1>6. cursor = ReadUpTo(page, a.run.cursor)
  BY DEF ReadUpTo
<1>7. DOMAIN page = 1..Len(page) /\ \A i \in 1..Len(page) : page[i].rec \in RecordIds
  <2>1. DOMAIN page = 1..Len(page) /\ \A i \in 1..Len(page) : page[i] \in Received
    BY <1>3
  <2>2. \A x \in Received : x.rec \in RecordIds
    BY DEF Received
  <2> QED
    BY <2>1, <2>2
<1>8. {page[i].rec : i \in 1..Len(page)} = Records(page)
  BY <1>7 DEF Records, ToSet
<1>9. seen \in SUBSET RecordIds /\ seen = a.run.seen \cup Records(page)
  BY <1>1, <1>7, <1>8
<1>10. a.run.round + 1 \in 0..MaxBatches
  <2>1. \A i \in 0..MaxBatches : i < MaxBatches => i + 1 \in 0..MaxBatches
    BY LimitAssumption
  <2> QED
    BY <2>1, <1>1, <1>5
<1>11. last \in BOOLEAN
  OBVIOUS
<1> HIDE DEF cursor, seen, last
<1>12. /\ run \in Run /\ run.pc = "rows" /\ run.todo = page /\ run.cursor = cursor
       /\ run.seen = seen /\ run.sent = a.run.sent
  BY <1>1, <1>3, <1>6, <1>9, <1>10, <1>11 DEF Run
<1> HIDE DEF run
<1>13. /\ b \in App /\ b.run = run /\ Steady(a, b) /\ b.phase = a.phase
  BY <1>1, <1>12 DEF App, Steady
<1> HIDE DEF b
<1>14. app'[d] = b /\ AppMoves(d)
  BY <1>1, <1>4, <1>13 DEF AppMoves
<1>15. GetsPage(db, a, b)
  BY <1>5, <1>6, <1>9, <1>12, <1>13 DEF GetsPage, page
<1> QED
  BY <1>14, <1>15

LEMMA PageAppliedMoves ==
    ASSUME IInv, NEW d \in Devices, PageApplied(d)
    PROVE  AppMoves(d) /\ PageDone(app[d], app'[d])
<1> DEFINE a == app[d]
           cursor == Larger(a.state.cursor, a.run.cursor)
<1>1. /\ app \in [Devices -> App] /\ a \in App /\ a.run \in Run /\ a.state \in SyncState
      /\ a.run.cursor \in Nat /\ a.state.cursor \in Nat
  BY DEF IInv, TypeOK, App, Run, SyncState
<1>2. cursor \in Nat
  BY <1>1 DEF Larger
<1>3. a.run.pc = "rows" /\ a.run.todo = <<>>
  BY DEF PageApplied, At
<1> HIDE DEF cursor
<1>4. CASE a.state.migrated
  <2> DEFINE pc == IF a.run.last THEN "finish" ELSE "pull"
             state == [a.state EXCEPT !.cursor = cursor]
             run == [a.run EXCEPT !.pc = pc]
             b == [a EXCEPT !.state = state, !.writer = "run", !.run = run]
             f1 == [app EXCEPT ![d].state.cursor = cursor]
             f2 == [f1 EXCEPT ![d].writer = "run"]
             f3 == [f2 EXCEPT ![d].run.pc = pc]
             b1 == [a EXCEPT !.state = [@ EXCEPT !.cursor = cursor]]
             b2 == [b1 EXCEPT !.writer = "run"]
             b3 == [b2 EXCEPT !.run = [@ EXCEPT !.pc = pc]]
  <2>1. app' = f3 /\ a.writer = "none"
    BY <1>4 DEF PageApplied, cursor
  <2>2. pc \in {"finish", "pull"}
    OBVIOUS
  <2> HIDE DEF pc
  <2>3. f1 = [app EXCEPT ![d] = b1]
    OBVIOUS
  <2>4. b3 = b
    BY <1>1 DEF App
  <2>5. /\ state \in SyncState /\ state.migrated = a.state.migrated /\ state.cursor = cursor
        /\ state.counter = a.state.counter /\ state.queue = a.state.queue
    BY <1>1, <1>2 DEF SyncState
  <2>6. /\ run \in Run /\ run.pc = pc /\ run.sent = a.run.sent /\ run.todo = a.run.todo
        /\ run.cursor = a.run.cursor /\ run.seen = a.run.seen
    BY <1>1, <2>2 DEF Run
  <2> HIDE DEF state, run
  <2>7. /\ b \in App /\ b.state = state /\ b.run = run /\ b.writer = "run"
        /\ b.entries = a.entries /\ b.edit = a.edit /\ b.phase = a.phase
    BY <1>1, <2>5, <2>6 DEF App
  <2> HIDE DEF f1, b1, b
  <2>8. f2 = [app EXCEPT ![d] = b2]
    BY <2>3, <1>1, Restaged
  <2> HIDE DEF f2, b2
  <2>9. f3 = [app EXCEPT ![d] = b3]
    BY <2>8, <1>1, Restaged
  <2>10. app' = [app EXCEPT ![d] = b]
    BY <2>1, <2>4, <2>9
  <2>11. app'[d] = b /\ AppMoves(d)
    BY <1>1, <2>7, <2>10 DEF AppMoves
  <2>12. PageDone(a, b)
    BY <1>3, <1>4, <2>1, <2>2, <2>5, <2>6, <2>7 DEF PageDone, cursor
  <2> QED
    BY <2>11, <2>12
<1>5. CASE ~a.state.migrated
  <2> DEFINE pc == IF a.run.last THEN "baseline" ELSE "pull"
             run == [a.run EXCEPT !.pc = pc]
             b == [a EXCEPT !.run = run]
  <2>1. app' = [app EXCEPT ![d] = b]
    BY <1>1, <1>5 DEF PageApplied, App, Run
  <2>2. pc \in {"baseline", "pull"}
    OBVIOUS
  <2> HIDE DEF pc
  <2>3. /\ run \in Run /\ run.pc = pc /\ run.sent = a.run.sent /\ run.todo = a.run.todo
        /\ run.cursor = a.run.cursor /\ run.seen = a.run.seen
    BY <1>1, <2>2 DEF Run
  <2> HIDE DEF run
  <2>4. /\ b \in App /\ b.run = run /\ b.state = a.state /\ b.writer = a.writer
        /\ b.entries = a.entries /\ b.edit = a.edit /\ b.phase = a.phase
    BY <1>1, <2>3 DEF App
  <2> HIDE DEF b
  <2>5. app'[d] = b /\ AppMoves(d)
    BY <1>1, <2>1, <2>4 DEF AppMoves
  <2>6. PageDone(a, b)
    BY <1>3, <1>5, <2>2, <2>3, <2>4 DEF PageDone
  <2> QED
    BY <2>5, <2>6
<1> QED
  BY <1>4, <1>5

\* The mutations of the baseline.
LEMMA BaselineMembers ==
    ASSUME TypeOK, NEW d \in Devices,
           app[d].state.counter + Len(Baseline(d)) <= MaxCounter
    PROVE  LET a == app[d]
               baseline == Baseline(d)
               new == ToSet(baseline)
           IN  /\ baseline \in Seq(Mutation)
               /\ \A m \in new : /\ m.id[1] = d
                                 /\ m.id[2] > a.state.counter
                                 /\ m.id[2] <= a.state.counter + Len(baseline)
               /\ \A m, n \in new : m.id = n.id => m = n
               /\ {m.rec : m \in new} =
                     {r \in RecordIds \ a.run.seen : a.entries[CellOf[r]] # NoPayload}
<1> DEFINE a == app[d]
           counter == a.state.counter
           owned == {r \in RecordIds \ a.run.seen : a.entries[CellOf[r]] # NoPayload}
           records == SetToSeq(owned)
           entry(r) == a.entries[CellOf[r]]
           mutation(n) == [id |-> <<d, counter + n>>, rec |-> records[n],
                           payload |-> entry(records[n]), deleted |-> FALSE]
           baseline == [n \in 1..Len(records) |-> mutation(n)]
<1>1. baseline = Baseline(d)
  BY DEF Baseline, NextId
<1>2. counter \in Nat /\ \A r \in RecordIds : entry(r) \in Payload
  <2>1. a.state \in SyncState /\ a.entries \in [Cells -> Payload]
    BY DEF TypeOK, App, Entries
  <2>2. counter \in Nat
    BY <2>1, LimitAssumption DEF SyncState
  <2> QED
    BY <2>1, <2>2, CellAssumption
<1>3. IsFiniteSet(owned)
  BY RecordsAreFinite, FS_Subset
<1> HIDE DEF owned, entry
<1>4. /\ records \in Seq(owned) /\ ToSet(records) = owned
  BY <1>3, MembersOfSet
<1>5. /\ Len(records) \in Nat /\ DOMAIN records = 1..Len(records)
      /\ \A n \in 1..Len(records) : records[n] \in owned
  BY <1>4
<1>6. owned \subseteq RecordIds
  BY DEF owned
<1> HIDE DEF records
<1>7. Len(baseline) = Len(records) /\ DOMAIN baseline = 1..Len(records)
  BY <1>5
<1>8. counter + Len(records) <= MaxCounter
  BY <1>1, <1>7
<1> HIDE DEF counter
<1>9. ASSUME NEW n \in 1..Len(records)
      PROVE  /\ counter + n \in 1..MaxCounter /\ counter + n > counter
             /\ counter + n <= counter + Len(records)
  <2>1. \A c, l \in Nat : \A i \in 1..l : c + l <= MaxCounter =>
           /\ c + i \in 1..MaxCounter /\ c + i > c
           /\ c + i <= c + l
    BY LimitAssumption
  <2> QED
    BY <2>1, <1>2, <1>5, <1>8
<1>10. ASSUME NEW n \in 1..Len(records)
       PROVE  /\ mutation(n) \in Mutation /\ mutation(n).id[1] = d
              /\ mutation(n).id[2] = counter + n /\ mutation(n).rec = records[n]
  <2>1. <<d, counter + n>> \in MutationIds
    BY <1>9, IdAssumption
  <2>2. records[n] \in RecordIds /\ entry(records[n]) \in Payload
    BY <1>2, <1>5, <1>6
  <2> QED
    BY <2>1, <2>2 DEF Mutation
<1> HIDE DEF mutation
<1>11. baseline \in Seq(Mutation)
  BY <1>5, <1>10
<1>12. \A n \in 1..Len(records) : baseline[n] = mutation(n)
  OBVIOUS
<1>13. ToSet(baseline) = {mutation(n) : n \in 1..Len(records)}
  BY <1>7, <1>12 DEF ToSet
<1> HIDE DEF baseline
<1>14. \A m \in ToSet(baseline) : /\ m.id[1] = d
                                  /\ m.id[2] > counter
                                  /\ m.id[2] <= counter + Len(baseline)
  BY <1>7, <1>9, <1>10, <1>13
<1>15. \A m, n \in ToSet(baseline) : m.id = n.id => m = n
  <2>1. SUFFICES ASSUME NEW i \in 1..Len(records), NEW j \in 1..Len(records),
                        mutation(i).id = mutation(j).id
                 PROVE  i = j
    BY <1>13
  <2>2. counter + i = counter + j
    BY <1>10, <2>1
  <2> QED
    BY <2>2, <1>2, <1>5
<1>16. {m.rec : m \in ToSet(baseline)} = owned
  <2>1. {m.rec : m \in ToSet(baseline)} = {records[n] : n \in 1..Len(records)}
    BY <1>10, <1>13
  <2>2. {records[n] : n \in 1..Len(records)} = owned
    BY <1>4, <1>5 DEF ToSet
  <2> QED
    BY <2>1, <2>2
<1> QED
  BY <1>1, <1>11, <1>14, <1>15, <1>16 DEF owned, entry, counter

LEMMA MigrateMoves ==
    ASSUME IInv, NEW d \in Devices, Migrate(d)
    PROVE  AppMoves(d) /\ Migrates(d, app[d], app'[d])
<1> DEFINE a == app[d]
           baseline == Baseline(d)
           new == ToSet(baseline)
           kept == Without(a.state.queue,
                           {m \in ToSet(a.state.queue) : \E n \in new : n.rec = m.rec})
           state == [a.state EXCEPT !.migrated = TRUE,
                                    !.counter = a.state.counter + Len(baseline),
                                    !.queue = kept \o baseline]
           run == [NoRun EXCEPT !.pc = "push"]
           b == [a EXCEPT !.state = state, !.writer = "run", !.run = run]
<1>1. /\ TypeOK /\ app \in [Devices -> App] /\ a \in App /\ a.state \in SyncState
      /\ a.state.queue \in Seq(Mutation) /\ a.state.counter \in 0..MaxCounter
  BY DEF IInv, TypeOK, App, SyncState
<1>2. /\ a.run.pc = "baseline" /\ a.writer = "none"
      /\ a.state.counter + Len(baseline) <= MaxCounter
  BY DEF Migrate, At
<1>3. /\ baseline \in Seq(Mutation)
      /\ \A m \in new : /\ m.id[1] = d
                        /\ m.id[2] > a.state.counter
                        /\ m.id[2] <= a.state.counter + Len(baseline)
      /\ \A m, n \in new : m.id = n.id => m = n
      /\ {m.rec : m \in new} =
            {r \in RecordIds \ a.run.seen : a.entries[CellOf[r]] # NoPayload}
  BY <1>1, <1>2, BaselineMembers
<1>4. app' = [app EXCEPT ![d] = b]
  <2> DEFINE f1 == [app EXCEPT ![d].state = state]
             f2 == [f1 EXCEPT ![d].writer = "run"]
             f3 == [f2 EXCEPT ![d].run = run]
             b1 == [a EXCEPT !.state = state]
             b2 == [b1 EXCEPT !.writer = "run"]
             b3 == [b2 EXCEPT !.run = run]
  <2>1. app' = f3
    BY DEF Migrate
  <2> HIDE DEF baseline, kept, state, run
  <2>2. f1 = [app EXCEPT ![d] = b1]
    OBVIOUS
  <2>3. b3 = b
    BY <1>1 DEF App
  <2> HIDE DEF f1, b1, b
  <2>4. f2 = [app EXCEPT ![d] = b2]
    BY <2>2, <1>1, Restaged
  <2> HIDE DEF f2, b2
  <2>5. f3 = [app EXCEPT ![d] = b3]
    BY <2>4, <1>1, Restaged
  <2> QED
    BY <2>1, <2>3, <2>5
<1> HIDE DEF baseline
<1>5. /\ kept \in Seq(Mutation)
      /\ ToSet(kept) = ToSet(a.state.queue)
            \ {m \in ToSet(a.state.queue) : \E n \in new : n.rec = m.rec}
  BY <1>1, MembersOfWithout
<1> HIDE DEF kept
<1>6. kept \o baseline \in Seq(Mutation) /\ ToSet(kept \o baseline) = ToSet(kept) \cup new
  BY <1>3, <1>5, MembersOfConcat
<1>7. ToSet(kept \o baseline) =
         {m \in ToSet(a.state.queue) : \A n \in new : n.rec # m.rec} \cup new
  BY <1>5, <1>6
<1>8. new \in SUBSET Mutation
  BY <1>3, MembersOfEmpty
<1> HIDE DEF new
<1>9. /\ a.state.counter + Len(baseline) \in 0..MaxCounter
      /\ a.state.counter + Len(baseline) >= a.state.counter
  <2>1. Len(baseline) \in Nat
    BY <1>3
  <2>2. \A c \in 0..MaxCounter, l \in Nat : c + l <= MaxCounter =>
           c + l \in 0..MaxCounter /\ c + l >= c
    BY LimitAssumption
  <2> QED
    BY <2>1, <2>2, <1>1, <1>2
<1>10. /\ state \in SyncState /\ state.migrated /\ state.cursor = a.state.cursor
       /\ state.counter = a.state.counter + Len(baseline)
       /\ state.queue = kept \o baseline
  BY <1>1, <1>6, <1>9 DEF SyncState
<1>11. run \in Run
  BY NoRunType
<1> HIDE DEF state, run
<1>12. /\ b \in App /\ b.state = state /\ b.run = run /\ b.writer = "run"
       /\ b.entries = a.entries /\ b.edit = a.edit /\ b.phase = a.phase
  BY <1>1, <1>10, <1>11 DEF App
<1> HIDE DEF b
<1>13. app'[d] = b /\ AppMoves(d)
  BY <1>1, <1>4, <1>12 DEF AppMoves
<1>14. b.run = [NoRun EXCEPT !.pc = "push"]
  BY <1>12 DEF run
<1>15. /\ \A m \in new : /\ m.id[1] = d
                         /\ m.id[2] > a.state.counter
                         /\ m.id[2] <= b.state.counter
       /\ \A m, n \in new : m.id = n.id => m = n
       /\ {m.rec : m \in new} =
             {r \in RecordIds \ a.run.seen : a.entries[CellOf[r]] # NoPayload}
       /\ ToSet(b.state.queue) =
             {m \in ToSet(a.state.queue) : \A n \in new : n.rec # m.rec} \cup new
  BY <1>3, <1>7, <1>10, <1>12
<1>16. /\ b.state.migrated /\ b.state.cursor = a.state.cursor
       /\ b.state.counter >= a.state.counter
  BY <1>9, <1>10, <1>12
<1>17. Migrates(d, a, b)
  BY <1>2, <1>8, <1>12, <1>14, <1>15, <1>16, Zenon DEF Migrates
<1> QED
  BY <1>13, <1>17

-----------------------------------------------------------------------------
LEMMA StartedMoves ==
    ASSUME TypeOK, NEW d \in Devices, NEW k \in Disk, NEW l \in Disk,
           l = k \/ l.state = NewState,
           app' = [app EXCEPT ![d] = Started(l)]
    PROVE  AppMoves(d) /\ Restarts(k, l, app'[d])
<1> DEFINE b == Started(l)
<1>1. app \in [Devices -> App]
  BY DEF TypeOK
<1>2. l.state \in SyncState /\ l.entries \in Entries
  BY DEF Disk
<1>3. b \in App
  BY <1>2, NoRunType DEF Started, App, Phases
<1>4. /\ b.state = l.state /\ b.entries = l.entries /\ b.edit = NoEdit
      /\ b.writer = "none" /\ b.run = NoRun /\ b.phase # "synced"
  BY DEF Started
<1>5. app' = [app EXCEPT ![d] = b]
  OBVIOUS
<1> HIDE DEF b
<1>6. app'[d] = b /\ AppMoves(d)
  BY <1>1, <1>3, <1>5 DEF AppMoves
<1> QED
  BY <1>4, <1>6 DEF Restarts

LEMMA AbandonedType ==
    ASSUME TypeOK, NEW d \in Devices
    PROVE  Abandoned(d) \in [Devices -> SUBSET Seq(Mutation)]
BY DEF TypeOK, Abandoned, App, Run

LEMMA HappensType ==
    ASSUME TypeOK, NEW event \in DOMAIN Bound, Happens(event)
    PROVE  used' \in [DOMAIN Bound -> Nat]
BY DEF TypeOK, Happens

LEMMA CrashMoves ==
    ASSUME TypeOK, NEW d \in Devices, Crash(d)
    PROVE  AppMoves(d) /\ Restarts(disk[d], disk[d], app'[d])
BY StartedMoves DEF Crash, TypeOK

LEMMA EraseMoves ==
    ASSUME TypeOK, NEW d \in Devices, Erase(d)
    PROVE  AppMoves(d) /\ DiskMoves(d) /\ Restarts(disk[d], disk'[d], app'[d])
<1> DEFINE l == [state |-> NewState, entries |-> NoEntries]
<1>1. disk \in [Devices -> Disk] /\ disk[d] \in Disk
  BY DEF TypeOK
<1>2. l \in Disk /\ l.state = NewState
  BY NoRunType DEF Disk
<1>3. disk' = [disk EXCEPT ![d] = l] /\ app' = [app EXCEPT ![d] = Started(l)]
  BY DEF Erase
<1> HIDE DEF l
<1>4. disk'[d] = l /\ DiskMoves(d)
  BY <1>1, <1>2, <1>3 DEF DiskMoves
<1> QED
  BY <1>1, <1>2, <1>3, <1>4, StartedMoves

\* A late request makes the tables grow, or it is rejected.
LEMMA ServeLateGrows ==
    ASSUME IInv, NEW d \in Devices, NEW batch \in late[d], ServeLate(d, batch)
    PROVE  /\ db' \in Database /\ Sound(db') /\ Extends(db', db)
           /\ late' \in [Devices -> SUBSET Seq(Mutation)]
<1>1. /\ late \in [Devices -> SUBSET Seq(Mutation)] /\ batch \in Seq(Mutation)
      /\ db \in Database /\ Sound(db)
  BY DEF IInv, TypeOK
<1>2. Push(db, batch) \in Served /\ Progressed(db, batch, Len(batch), Push(db, batch))
  BY <1>1, PushProgresses
<1>3. late' \in [Devices -> SUBSET Seq(Mutation)]
  BY <1>1 DEF ServeLate
<1>4. db' \in {db, Push(db, batch).db}
  BY DEF ServeLate
<1>5. /\ Push(db, batch).db \in Database /\ Sound(Push(db, batch).db)
      /\ Extends(Push(db, batch).db, db)
  BY <1>2 DEF Served, Progressed
<1> QED
  BY <1>1, <1>3, <1>4, <1>5, ExtendsItself

-----------------------------------------------------------------------------
(***************************************************************************)
(* The invariant.                                                          *)
(***************************************************************************)

LEMMA InitIInv == Init => IInv
<1> SUFFICES ASSUME Init PROVE IInv
  OBVIOUS
<1>1. PICK seed \in Seeds : db = seed.db /\ disk = seed.disk
  BY DEF Init
<1>2. /\ db \in Database /\ disk \in [Devices -> Disk] /\ Sound(db) /\ Numbered(seed)
      /\ \A d \in Devices :
            LET state == disk[d].state
                entries == disk[d].entries
            IN  /\ state.cursor <= db.revision
                /\ \A m \in ToSet(state.queue) : m.id[1] = d
                /\ \A r \in RecordIds : Alone(r) => Covers(db, state, entries, r)
  BY <1>1, SeedAssumption
<1>3. \A d \in Devices : app[d] = Started(disk[d]) /\ disk[d] \in Disk
  BY <1>2 DEF Init
<1>4. \A k \in Disk : Started(k) \in App
  BY NoRunType DEF Started, App, Disk, Phases
<1>5. TypeOK
  <2>1. app \in [Devices -> App]
    BY <1>3, <1>4 DEF Init
  <2>2. late \in [Devices -> SUBSET Seq(Mutation)] /\ used \in [DOMAIN Bound -> Nat]
    BY DEF Init
  <2> QED
    BY <1>2, <2>1, <2>2 DEF TypeOK
<1>6. ASSUME NEW d \in Devices PROVE DeviceOK(db, d, disk[d], app[d])
  <2> DEFINE k == disk[d]
             a == app[d]
  <2>1. /\ k \in Disk /\ a \in App /\ a.state = k.state /\ a.entries = k.entries
        /\ a.edit = NoEdit /\ a.edit.stage = "none" /\ a.writer = "none" /\ a.run = NoRun
        /\ a.run.pc = "idle" /\ a.run.sent = <<>> /\ a.run.todo = <<>>
        /\ a.run.cursor = 0 /\ a.phase # "synced"
    <3>1. /\ k \in Disk /\ a \in App /\ a = Started(k)
      BY <1>3, <1>4
    <3>2. /\ a.state = k.state /\ a.entries = k.entries /\ a.edit = NoEdit
          /\ a.writer = "none" /\ a.run = NoRun /\ a.phase # "synced"
      <4> HIDE DEF k, a
      <4> QED
        BY <3>1 DEF Started
    <3>3. /\ NoEdit.stage = "none" /\ NoRun.pc = "idle" /\ NoRun.sent = <<>>
          /\ NoRun.todo = <<>> /\ NoRun.cursor = 0
      BY DEF NoEdit, NoRun
    <3> HIDE DEF k, a
    <3> QED
      BY <3>1, <3>2, <3>3
  <2>2. /\ k.state.cursor <= db.revision /\ k.state.cursor \in Nat /\ db.revision \in Nat
        /\ k.state.counter \in Nat
    BY <1>2, <2>1, StoresType
  <2>3. /\ \A m \in ToSet(k.state.queue) : m.id[1] = d /\ m.id[2] <= k.state.counter
        /\ \A m, n \in ToSet(k.state.queue) : m.id = n.id => m = n
    <3>1. ToSet(k.state.queue) \subseteq Seeded(seed)
      BY <1>1 DEF Seeded
    <3> QED
      BY <3>1, <1>1, <1>2 DEF Numbered
  <2>4. \A m \in ToSet(k.state.queue) : m.id[2] \in Nat
    BY <2>1, MembersType
  <2>5. \A r \in RecordIds : Alone(r) => Covers(db, k.state, k.entries, r)
    BY <1>2
  <2> HIDE DEF k, a
  <2>6. Shaped(k, a) /\ BeingPut(a) /\ Drained(a)
    BY <2>1 DEF Shaped, BeingPut, Drained
  <2>7. Orderly(d, k, a)
    BY <2>1, <2>2, <2>3, NoMembers DEF Orderly
  <2>8. Kept(db, k, a)
    BY <2>1, <2>4 DEF Kept
  <2>9. Behind(db, k, a)
    BY <2>1, <2>2 DEF Behind
  <2>10. Answered(db, a)
    BY <2>1, NoMembers DEF Answered
  <2>11. Covered(db, k, a)
    BY <2>1, <2>5 DEF Covered, Unsaved, Acknowledged, Pulled
  <2>12. DeviceOK(db, d, k, a)
    BY <2>6, <2>7, <2>8, <2>9, <2>10, <2>11 DEF DeviceOK
  <2> QED
    BY <2>12 DEF k, a
<1> QED
  BY <1>2, <1>5, <1>6 DEF IInv

\* A step of one device that leaves the tables and the disks alone, ...
LEMMA AppStep ==
    ASSUME IInv, NEW d \in Devices, AppMoves(d), UNCHANGED <<db, disk>>,
           late' \in [Devices -> SUBSET Seq(Mutation)], used' \in [DOMAIN Bound -> Nat],
           DeviceOK(db, d, disk[d], app'[d])
    PROVE  IInv'
BY DEF IInv, TypeOK, AppMoves

\* ... that leaves the tables alone, ...
LEMMA DiskStep ==
    ASSUME IInv, NEW d \in Devices, AppMoves(d), DiskMoves(d), UNCHANGED db,
           late' \in [Devices -> SUBSET Seq(Mutation)], used' \in [DOMAIN Bound -> Nat],
           DeviceOK(db, d, disk'[d], app'[d])
    PROVE  IInv'
BY DEF IInv, TypeOK, AppMoves, DiskMoves

\* ... and one that makes the tables grow.
LEMMA TablesStep ==
    ASSUME IInv, NEW d \in Devices, AppMoves(d), UNCHANGED <<disk, used>>,
           late' \in [Devices -> SUBSET Seq(Mutation)],
           db' \in Database, Sound(db'), Extends(db', db),
           DeviceOK(db', d, disk[d], app'[d])
    PROVE  IInv'
<1>1. ASSUME NEW e \in Devices \ {d} PROVE DeviceOK(db', e, disk[e], app'[e])
  <2>1. app'[e] = app[e]
    BY DEF AppMoves
  <2>2. Facing(db, e, disk[e], app[e])
    BY DEF IInv, TypeOK, Facing
  <2> QED
    BY <2>1, <2>2, GrowthOK
<1> QED
  BY <1>1 DEF IInv, TypeOK, AppMoves

LEMMA NextIInv == IInv /\ [Next]_vars => IInv'
<1> SUFFICES ASSUME IInv, [Next]_vars PROVE IInv'
  OBVIOUS
<1>1. TypeOK /\ Sound(db) /\ late \in [Devices -> SUBSET Seq(Mutation)]
      /\ used \in [DOMAIN Bound -> Nat] /\ app \in [Devices -> App]
      /\ disk \in [Devices -> Disk] /\ db \in Database
  BY DEF IInv, TypeOK
<1>2. \A d \in Devices : Facing(db, d, disk[d], app[d])
  BY <1>1 DEF IInv, Facing
<1>3. {"faults", "erasures"} \subseteq DOMAIN Bound
  BY DEF Bound
<1>4. CASE UNCHANGED vars
  BY <1>4 DEF IInv, TypeOK, vars
<1>5. ASSUME NEW d \in Devices, UserActs(d) PROVE IInv'
  <2>1. /\ AppMoves(d) /\ Publishes(app[d], app'[d]) /\ app'[d] \in App
        /\ used' \in [DOMAIN Bound -> Nat] /\ UNCHANGED <<db, late, disk>>
    BY <1>1, <1>5, UserMoves DEF AppMoves
  <2>2. DeviceOK(db, d, disk[d], app'[d])
    BY <2>1, <1>2, PublishesOK
  <2> QED
    BY <2>1, <2>2, <1>1, AppStep
<1>6. ASSUME NEW d \in Devices, AppMoves(d), Rests(app[d], app'[d]),
             UNCHANGED <<db, disk>>, late' \in [Devices -> SUBSET Seq(Mutation)],
             used' \in [DOMAIN Bound -> Nat]
      PROVE  IInv'
  <2>1. app'[d] \in App
    BY <1>6 DEF AppMoves
  <2>2. DeviceOK(db, d, disk[d], app'[d])
    BY <2>1, <1>2, <1>6, RestsOK
  <2> QED
    BY <2>2, <1>6, AppStep
<1>7. ASSUME NEW d \in Devices, Works(d) PROVE IInv'
  <2>1. CASE Enqueue(d)
    <3>1. AppMoves(d) /\ Enqueues(d, app[d], app'[d]) /\ app'[d] \in App
      BY <2>1, EnqueueMoves DEF AppMoves
    <3>2. DeviceOK(db, d, disk[d], app'[d])
      BY <3>1, <1>2, EnqueuesOK
    <3> QED
      BY <3>1, <3>2, <2>1, <1>1, AppStep DEF Enqueue
  <2>2. CASE FinishPut(d)
    <3>1. /\ AppMoves(d) /\ DiskMoves(d) /\ Puts(disk[d], app[d], disk'[d], app'[d])
          /\ app'[d] \in App /\ disk'[d] \in Disk
      BY <2>2, FinishPutMoves DEF AppMoves, DiskMoves
    <3>2. DeviceOK(db, d, disk'[d], app'[d])
      BY <3>1, <1>2, PutsOK
    <3> QED
      BY <3>1, <3>2, <2>2, <1>1, DiskStep DEF FinishPut
  <2>3. CASE SaveEntries(d)
    <3>1. /\ AppMoves(d) /\ DiskMoves(d) /\ Saves(disk[d], app[d], disk'[d], app'[d])
          /\ app'[d] \in App /\ disk'[d] \in Disk
      BY <2>3, <1>1, SaveEntriesMoves DEF AppMoves, DiskMoves
    <3>2. DeviceOK(db, d, disk'[d], app'[d])
      BY <3>1, <1>2, SavesOK
    <3> QED
      BY <3>1, <3>2, <2>3, <1>1, DiskStep DEF SaveEntries
  <2>4. CASE StartRun(d)
    BY <2>4, <1>1, <1>6, StartRunMoves DEF StartRun
  <2>5. CASE SendPush(d)
    <3>1. AppMoves(d) /\ Sends(app[d], app'[d]) /\ app'[d] \in App
      BY <2>5, <1>1, SendPushMoves DEF AppMoves
    <3>2. DeviceOK(db, d, disk[d], app'[d])
      BY <3>1, <1>2, SendsOK
    <3> QED
      BY <3>1, <3>2, <2>5, <1>1, AppStep DEF SendPush
  <2>6. CASE PushDone(d)
    <3>1. AppMoves(d) /\ StartsPull(app[d], app'[d]) /\ app'[d] \in App
      BY <2>6, <1>1, PushDoneMoves DEF AppMoves
    <3>2. DeviceOK(db, d, disk[d], app'[d])
      BY <3>1, <1>2, StartsPullOK
    <3> QED
      BY <3>1, <3>2, <2>6, <1>1, AppStep DEF PushDone
  <2>7. CASE PushExhausted(d)
    BY <2>7, <1>1, <1>6, StopsMoves DEF PushExhausted
  <2>8. CASE ReceivePush(d)
    <3>1. AppMoves(d) /\ IsAnswered(db, app[d], db', app'[d]) /\ app'[d] \in App
      BY <2>8, ReceivePushMoves DEF AppMoves
    <3>2. /\ db' \in Database /\ Sound(db') /\ Extends(db', db)
          /\ DeviceOK(db', d, disk[d], app'[d])
      BY <3>1, <1>1, <1>2, IsAnsweredOK
    <3> QED
      BY <3>1, <3>2, <2>8, <1>1, TablesStep DEF ReceivePush
  <2>9. CASE ReceiveRejection(d)
    BY <2>9, <1>1, <1>6, StopsMoves DEF ReceiveRejection
  <2>10. CASE ApplyRecord(d)
    <3>1. /\ AppMoves(d) /\ DiskMoves(d) /\ Applies(disk[d], app[d], disk'[d], app'[d])
          /\ app'[d] \in App /\ disk'[d] \in Disk
      BY <2>10, <1>1, ApplyRecordMoves DEF AppMoves, DiskMoves
    <3>2. DeviceOK(db, d, disk'[d], app'[d])
      BY <3>1, <1>2, AppliesOK
    <3> QED
      BY <3>1, <3>2, <2>10, <1>1, DiskStep DEF ApplyRecord
  <2>11. CASE DropAcknowledged(d)
    <3>1. AppMoves(d) /\ Drops(app[d], app'[d]) /\ app'[d] \in App
      BY <2>11, DropAcknowledgedMoves DEF AppMoves
    <3>2. DeviceOK(db, d, disk[d], app'[d])
      BY <3>1, <1>2, DropsOK
    <3> QED
      BY <3>1, <3>2, <2>11, <1>1, AppStep DEF DropAcknowledged
  <2>12. CASE ReceivePage(d)
    <3>1. AppMoves(d) /\ GetsPage(db, app[d], app'[d]) /\ app'[d] \in App
      BY <2>12, ReceivePageMoves DEF AppMoves
    <3>2. DeviceOK(db, d, disk[d], app'[d])
      BY <3>1, <1>1, <1>2, GetsPageOK
    <3> QED
      BY <3>1, <3>2, <2>12, <1>1, AppStep DEF ReceivePage
  <2>13. CASE PullExhausted(d)
    BY <2>13, <1>1, <1>6, StopsMoves DEF PullExhausted
  <2>14. CASE PageApplied(d)
    <3>1. AppMoves(d) /\ PageDone(app[d], app'[d]) /\ app'[d] \in App
      BY <2>14, PageAppliedMoves DEF AppMoves
    <3>2. DeviceOK(db, d, disk[d], app'[d])
      BY <3>1, <1>2, PageDoneOK
    <3> QED
      BY <3>1, <3>2, <2>14, <1>1, AppStep DEF PageApplied
  <2>15. CASE Migrate(d)
    <3>1. AppMoves(d) /\ Migrates(d, app[d], app'[d]) /\ app'[d] \in App
      BY <2>15, MigrateMoves DEF AppMoves
    <3>2. DeviceOK(db, d, disk[d], app'[d])
      BY <3>1, <1>2, MigratesOK
    <3> QED
      BY <3>1, <3>2, <2>15, <1>1, AppStep DEF Migrate
  <2>16. CASE FinishRun(d)
    BY <2>16, <1>1, <1>6, StopsMoves DEF FinishRun
  <2>17. CASE RetryTimer(d)
    BY <2>17, <1>1, <1>6, RetryTimerMoves DEF RetryTimer
  <2> QED
    BY <1>7, <2>1, <2>2, <2>3, <2>4, <2>5, <2>6, <2>7, <2>8, <2>9, <2>10, <2>11, <2>12,
       <2>13, <2>14, <2>15, <2>16, <2>17 DEF Works
<1>8. ASSUME NEW d \in Devices, Fails(d) PROVE IInv'
  <2>1. CASE RequestFails(d)
    <3>1. /\ used' \in [DOMAIN Bound -> Nat] /\ UNCHANGED <<db, disk>>
          /\ late' \in [Devices -> SUBSET Seq(Mutation)]
      BY <2>1, <1>1, <1>3, HappensType, AbandonedType DEF RequestFails
    <3> QED
      BY <3>1, <2>1, <1>1, <1>6, StopsMoves
  <2>2. CASE SessionExpires(d)
    <3>1. /\ used' \in [DOMAIN Bound -> Nat] /\ UNCHANGED <<db, disk, late>>
      BY <2>2, <1>1, <1>3, HappensType DEF SessionExpires
    <3> QED
      BY <3>1, <2>2, <1>1, <1>6, StopsMoves
  <2>3. CASE Crash(d)
    <3>1. /\ used' \in [DOMAIN Bound -> Nat] /\ UNCHANGED <<db, disk>>
          /\ late' \in [Devices -> SUBSET Seq(Mutation)]
      BY <2>3, <1>1, <1>3, HappensType, AbandonedType DEF Crash
    <3>2. /\ AppMoves(d) /\ Restarts(disk[d], disk[d], app'[d])
          /\ app'[d] \in App /\ disk[d] \in Disk
      BY <2>3, <1>1, CrashMoves DEF AppMoves
    <3>3. DeviceOK(db, d, disk[d], app'[d])
      BY <3>2, <1>2, RestartsOK
    <3> QED
      BY <3>1, <3>2, <3>3, AppStep
  <2>4. CASE Erase(d)
    <3>1. /\ used' \in [DOMAIN Bound -> Nat] /\ UNCHANGED db
          /\ late' \in [Devices -> SUBSET Seq(Mutation)]
      BY <2>4, <1>1, <1>3, HappensType, AbandonedType DEF Erase
    <3>2. /\ AppMoves(d) /\ DiskMoves(d) /\ Restarts(disk[d], disk'[d], app'[d])
          /\ app'[d] \in App /\ disk'[d] \in Disk
      BY <2>4, <1>1, EraseMoves DEF AppMoves, DiskMoves
    <3>3. DeviceOK(db, d, disk'[d], app'[d])
      BY <3>2, <1>2, RestartsOK
    <3> QED
      BY <3>1, <3>2, <3>3, DiskStep
  <2>5. CASE \E batch \in late[d] : ServeLate(d, batch)
    <3>1. /\ db' \in Database /\ Sound(db') /\ Extends(db', db)
          /\ late' \in [Devices -> SUBSET Seq(Mutation)]
      BY <2>5, ServeLateGrows
    <3>2. UNCHANGED <<disk, app, used>>
      BY <2>5 DEF ServeLate
    <3>3. AppMoves(d) /\ DeviceOK(db', d, disk[d], app'[d])
      BY <3>1, <3>2, <1>1, <1>2, GrowthOK DEF AppMoves
    <3> QED
      BY <3>1, <3>2, <3>3, TablesStep
  <2> QED
    BY <1>8, <2>1, <2>2, <2>3, <2>4, <2>5 DEF Fails
<1> QED
  BY <1>4, <1>5, <1>7, <1>8 DEF Next

\* The stores of a device, what it runs and the tables stay in this order, for
\* any number of devices, whatever times out, crashes or is erased.
THEOREM Invariance == Spec => []IInv
<1> QED
  BY InitIInv, NextIInv, PTL DEF Spec

\* Everything stays well formed, and "synced" is shown only when nothing waits to be
\* uploaded (sync_controller.dart, _runCloudSync), whatever fails in between.
THEOREM StateCorrect == Spec => []StateHolds
<1>1. IInv => StateHolds
  BY DEF IInv, StateHolds, SyncedMeansDrained, DeviceOK, Drained
<1> QED
  BY <1>1, Invariance, PTL

\* What a stored cursor has passed is in the stored library of the device or has a
\* stored change in its way (sync_controller.dart:521-522): for every size of pages
\* and batches, and whatever is lost, late or crashes, a pull has skipped nothing.
THEOREM CursorCorrect == Spec => []CursorCovers
<1>1. IInv => CursorCovers
  BY DEF IInv, CursorCovers, DeviceOK, Covered
<1> QED
  BY <1>1, Invariance, PTL

-----------------------------------------------------------------------------
(***************************************************************************)
(* The stored queue.                                                       *)
(***************************************************************************)

\* The stored sync state of a device changes when a put ends, or is erased.
LEMMA StoredStateSteps ==
    ASSUME TypeOK, [Next]_vars, NEW e \in Devices
    PROVE  \/ disk'[e].state = disk[e].state
           \/ FinishPut(e)
           \/ Erase(e)
<1>1. disk \in [Devices -> Disk]
  BY DEF TypeOK
<1>2. \A l \in Disk : \A entries : [l EXCEPT !.entries = entries].state = l.state
  BY DEF Disk
<1>3. CASE UNCHANGED vars
  BY <1>3 DEF vars
<1>4. ASSUME NEW d \in Devices, d # e, FinishPut(d) \/ Erase(d)
      PROVE  disk'[e].state = disk[e].state
  BY <1>1, <1>4 DEF FinishPut, Erase
<1>5. ASSUME NEW d \in Devices, SaveEntries(d) PROVE disk'[e].state = disk[e].state
  <2>1. disk'[e] = disk[e] \/ disk'[e] = [disk[e] EXCEPT !.entries = app[d].entries]
    BY <1>1, <1>5 DEF SaveEntries
  <2> QED
    BY <2>1, <1>1, <1>2
<1>6. ASSUME NEW d \in Devices, ApplyRecord(d) PROVE disk'[e].state = disk[e].state
  <2>1. PICK entries : disk' = [disk EXCEPT ![d].entries = entries]
    BY <1>6 DEF ApplyRecord
  <2>2. disk'[e] = disk[e] \/ disk'[e] = [disk[e] EXCEPT !.entries = entries]
    BY <2>1, <1>1
  <2> QED
    BY <2>2, <1>1, <1>2
<1>7. ASSUME NEW d \in Devices, UserActs(d) PROVE UNCHANGED disk
  BY <1>7, UserMoves
<1>8. ASSUME NEW d \in Devices, Works(d) \/ Fails(d),
             ~FinishPut(d), ~Erase(d), ~SaveEntries(d), ~ApplyRecord(d)
      PROVE  UNCHANGED disk
  BY <1>8
     DEF Works, Fails, Enqueue, StartRun, SendPush, PushDone, PushExhausted, ReceivePush,
         ReceiveRejection, DropAcknowledged, ReceivePage, PullExhausted, PageApplied,
         Migrate, FinishRun, RetryTimer, RequestFails, SessionExpires, Crash, ServeLate
<1> QED
  BY <1>3, <1>4, <1>5, <1>6, <1>7, <1>8 DEF Next

\* Nothing is erased when erasures are bounded by none.
LEMMA NothingIsErased ==
    ASSUME MaxErasures = 0, TypeOK, NEW d \in Devices
    PROVE  ~Erase(d)
<1>1. "erasures" \in DOMAIN Bound /\ Bound["erasures"] = 0
  BY DEF Bound
<1>2. used["erasures"] \in Nat
  BY <1>1 DEF TypeOK
<1> QED
  BY <1>1, <1>2 DEF Erase, Happens

LEMMA StepsKeepQueue ==
    ASSUME IInv, [Next]_vars, NEW d \in Devices, ~Erase(d),
           NEW m \in ToSet(disk[d].state.queue)
    PROVE  \/ m \in db.receipts
           \/ \E n \in ToSet(disk'[d].state.queue) :
                 n.rec = m.rec /\ n.id[2] >= m.id[2]
<1>1. m.id[2] \in Nat
  BY MembersType DEF IInv, TypeOK
<1>2. CASE disk'[d].state = disk[d].state
  BY <1>1, <1>2
<1>3. CASE FinishPut(d)
  <2>1. disk'[d].state = app[d].state
    BY <1>3, FinishPutMoves DEF Puts
  <2> QED
    BY <2>1 DEF IInv, DeviceOK, Kept
<1> QED
  BY <1>2, <1>3, StoredStateSteps DEF IInv

\* A stored mutation is replaced by a later one of its record or stays until the
\* server has its receipt (sync_controller.dart:456-507), unless the account is
\* erased from the device: timeouts, late requests and crashes lose no change.
THEOREM QueueCorrect ==
    ASSUME MaxErasures = 0
    PROVE  Spec => QueueKeepsChanges
<1>1. IInv /\ [Next]_vars =>
          [\A d \in Devices : \A m \in ToSet(disk[d].state.queue) :
              \/ m \in db.receipts
              \/ \E n \in ToSet(disk'[d].state.queue) :
                    n.rec = m.rec /\ n.id[2] >= m.id[2]]_vars
  BY StepsKeepQueue, NothingIsErased DEF IInv
<1> QED
  BY <1>1, Invariance, PTL DEF Spec, QueueKeepsChanges

-----------------------------------------------------------------------------
(***************************************************************************)
(* The kinds of steps, once more: what can happen to one device.           *)
(***************************************************************************)

\* The device d makes a step that leaves its disk alone, ...
InMemory(d) ==
    /\ disk'[d] = disk[d]
    /\ \/ Rests(app[d], app'[d])
       \/ Publishes(app[d], app'[d])
       \/ app[d].writer = "none" /\ Sends(app[d], app'[d])
       \/ StartsPull(app[d], app'[d])
       \/ IsAnswered(db, app[d], db', app'[d])
       \/ Drops(app[d], app'[d])
       \/ GetsPage(db, app[d], app'[d])
       \/ PageDone(app[d], app'[d])

\* ... gives new ids to mutations, ...
Numbers(d) ==
    /\ disk'[d] = disk[d]
    /\ Enqueues(d, app[d], app'[d]) \/ Migrates(d, app[d], app'[d])

\* ... stores something, or starts again.
Stores(d) ==
    \/ Puts(disk[d], app[d], disk'[d], app'[d])
    \/ Saves(disk[d], app[d], disk'[d], app'[d])
    \/ Applies(disk[d], app[d], disk'[d], app'[d])

StartsAgain(d) ==
    /\ Restarts(disk[d], disk'[d], app'[d])
    /\ disk'[d] # disk[d] => Erase(d)
    /\ Crash(d) \/ Erase(d)

Moves(d) == InMemory(d) \/ Numbers(d) \/ Stores(d) \/ StartsAgain(d)

Rested(d) == app'[d] = app[d] /\ disk'[d] = disk[d]

LEMMA WorksMoves ==
    ASSUME IInv, NEW d \in Devices, Works(d)
    PROVE  /\ Moves(d) /\ AppMoves(d) /\ (DiskMoves(d) \/ UNCHANGED disk)
           /\ late' = late /\ (db' = db \/ ReceivePush(d))
<1>1. TypeOK
  BY DEF IInv
<1>2. CASE Enqueue(d)
  BY <1>2, EnqueueMoves DEF Enqueue, Moves, Numbers
<1>3. CASE FinishPut(d)
  BY <1>3, FinishPutMoves DEF FinishPut, Moves, Stores
<1>4. CASE SaveEntries(d)
  BY <1>4, <1>1, SaveEntriesMoves DEF SaveEntries, Moves, Stores
<1>5. CASE StartRun(d)
  BY <1>5, StartRunMoves DEF StartRun, Moves, InMemory
<1>6. CASE SendPush(d)
  BY <1>6, <1>1, SendPushMoves DEF SendPush, Moves, InMemory
<1>7. CASE PushDone(d)
  BY <1>7, <1>1, PushDoneMoves DEF PushDone, Moves, InMemory
<1>8. CASE PushExhausted(d) \/ ReceiveRejection(d) \/ PullExhausted(d) \/ FinishRun(d)
  <2>1. AppMoves(d) /\ Rests(app[d], app'[d])
    BY <1>8, <1>1, StopsMoves
  <2>2. UNCHANGED <<db, late, disk>>
    BY <1>8 DEF PushExhausted, ReceiveRejection, PullExhausted, FinishRun
  <2> QED
    BY <2>1, <2>2 DEF Moves, InMemory
<1>9. CASE ReceivePush(d)
  BY <1>9, ReceivePushMoves DEF ReceivePush, Moves, InMemory
<1>10. CASE ApplyRecord(d)
  BY <1>10, <1>1, ApplyRecordMoves DEF ApplyRecord, Moves, Stores
<1>11. CASE DropAcknowledged(d)
  BY <1>11, DropAcknowledgedMoves DEF DropAcknowledged, Moves, InMemory
<1>12. CASE ReceivePage(d)
  BY <1>12, ReceivePageMoves DEF ReceivePage, Moves, InMemory
<1>13. CASE PageApplied(d)
  BY <1>13, PageAppliedMoves DEF PageApplied, Moves, InMemory
<1>14. CASE Migrate(d)
  BY <1>14, MigrateMoves DEF Migrate, Moves, Numbers
<1>15. CASE RetryTimer(d)
  BY <1>15, <1>1, RetryTimerMoves DEF RetryTimer, Moves, InMemory
<1> QED
  BY <1>2, <1>3, <1>4, <1>5, <1>6, <1>7, <1>8, <1>9, <1>10, <1>11, <1>12, <1>13,
     <1>14, <1>15 DEF Works

LEMMA FailsMoves ==
    ASSUME IInv, NEW d \in Devices, Fails(d)
    PROVE  \/ /\ Moves(d) /\ AppMoves(d) /\ (DiskMoves(d) \/ UNCHANGED disk)
              /\ late' \in {late, Abandoned(d)} /\ db' = db
           \/ /\ UNCHANGED <<app, disk>>
              /\ \E batch \in late[d] : ServeLate(d, batch)
<1>1. TypeOK
  BY DEF IInv
<1>2. CASE RequestFails(d) \/ SessionExpires(d)
  <2>1. AppMoves(d) /\ Rests(app[d], app'[d])
    BY <1>2, <1>1, StopsMoves
  <2>2. UNCHANGED <<db, disk>> /\ late' \in {late, Abandoned(d)}
    BY <1>2 DEF RequestFails, SessionExpires
  <2> QED
    BY <2>1, <2>2 DEF Moves, InMemory
<1>3. CASE Crash(d)
  <2>1. UNCHANGED <<db, disk>> /\ late' = Abandoned(d)
    BY <1>3 DEF Crash
  <2> QED
    BY <2>1, <1>3, <1>1, CrashMoves DEF Moves, StartsAgain
<1>4. CASE Erase(d)
  <2>1. UNCHANGED db /\ late' = Abandoned(d)
    BY <1>4 DEF Erase
  <2> QED
    BY <2>1, <1>4, <1>1, EraseMoves DEF Moves, StartsAgain
<1>5. CASE \E batch \in late[d] : ServeLate(d, batch)
  BY <1>5 DEF ServeLate
<1> QED
  BY <1>2, <1>3, <1>4, <1>5 DEF Fails

\* Whatever happens: to one device, to the requests on their way, to the receipts.
LEMMA DeviceSteps ==
    ASSUME IInv, [Next]_vars, NEW e \in Devices
    PROVE  /\ Rested(e) \/ Moves(e)
           /\ \A batch \in late'[e] : batch \in late[e] \/ batch = app[e].run.sent
           /\ \A m \in db'.receipts :
                 \/ m \in db.receipts
                 \/ \E d \in Devices : \/ m \in ToSet(app[d].run.sent)
                                       \/ \E batch \in late[d] : m \in ToSet(batch)
           /\ Extends(db', db) /\ db' \in Database
<1>1. /\ TypeOK /\ late \in [Devices -> SUBSET Seq(Mutation)] /\ db \in Database
      /\ Sound(db) /\ app \in [Devices -> App]
  BY DEF IInv, TypeOK
<1>2. CASE UNCHANGED vars
  BY <1>2, <1>1, ExtendsItself DEF vars, Rested
<1>3. ASSUME NEW d \in Devices, AppMoves(d), DiskMoves(d) \/ UNCHANGED disk, Moves(d)
      PROVE  Rested(e) \/ Moves(e)
  <2>1. CASE e = d
    BY <2>1, <1>3
  <2>2. CASE e # d
    BY <2>2, <1>3 DEF AppMoves, DiskMoves, Rested
  <2> QED
    BY <2>1, <2>2
<1>4. ASSUME NEW batch \in Seq(Mutation)
      PROVE  LET push == Push(db, batch) IN
             /\ push.db.receipts \subseteq db.receipts \cup ToSet(batch)
             /\ Extends(push.db, db) /\ push.db \in Database
  BY <1>1, PushProgresses DEF Progressed, Served
<1>5. ASSUME NEW d \in Devices, UserActs(d)
      PROVE  Rested(e) \/ Moves(e)
  <2>1. AppMoves(d) /\ Publishes(app[d], app'[d]) /\ UNCHANGED disk
    BY <1>1, <1>5, UserMoves
  <2>2. Moves(d)
    BY <2>1 DEF Moves, InMemory
  <2> QED
    BY <2>1, <2>2, <1>3
<1>6. ASSUME NEW d \in Devices, UserActs(d)
      PROVE  UNCHANGED <<db, late>>
  BY <1>1, <1>6, UserMoves
<1>7. ASSUME NEW d \in Devices, ReceivePush(d)
      PROVE  /\ \A m \in db'.receipts : m \in db.receipts \/ m \in ToSet(app[d].run.sent)
             /\ Extends(db', db) /\ db' \in Database
  <2>1. app[d].run.sent \in Seq(Mutation)
    BY <1>1 DEF App, Run
  <2> QED
    BY <2>1, <1>4, <1>7 DEF ReceivePush
<1>8. ASSUME NEW d \in Devices, NEW batch \in late[d], ServeLate(d, batch)
      PROVE  /\ \A m \in db'.receipts : m \in db.receipts \/ m \in ToSet(batch)
             /\ Extends(db', db) /\ db' \in Database
             /\ \A b \in late'[e] : b \in late[e]
  <2>1. batch \in Seq(Mutation)
    BY <1>1
  <2>2. db' = db \/ db' = Push(db, batch).db
    BY <1>8 DEF ServeLate
  <2>3. \A b \in late'[e] : b \in late[e]
    BY <1>1, <1>8 DEF ServeLate
  <2> QED
    BY <2>1, <2>2, <2>3, <1>1, <1>4, ExtendsItself
<1>9. ASSUME NEW d \in Devices, late' \in {late, Abandoned(d)}
      PROVE  \A batch \in late'[e] : batch \in late[e] \/ batch = app[e].run.sent
  BY <1>1, <1>9 DEF Abandoned
<1>10. ASSUME NEW d \in Devices, Works(d)
       PROVE  /\ Rested(e) \/ Moves(e)
              /\ late' = late /\ (db' = db \/ ReceivePush(d))
  BY <1>3, <1>10, WorksMoves
<1>11. ASSUME NEW d \in Devices, Fails(d)
       PROVE  /\ Rested(e) \/ Moves(e)
              /\ \/ late' \in {late, Abandoned(d)} /\ db' = db
                 \/ \E batch \in late[d] : ServeLate(d, batch)
  BY <1>3, <1>11, FailsMoves DEF Rested
<1>12. CASE \E d \in Devices : UserActs(d)
  BY <1>12, <1>5, <1>6, <1>1, ExtendsItself
<1>13. CASE \E d \in Devices : Works(d)
  <2>1. PICK d \in Devices : Works(d)
    BY <1>13
  <2>2. CASE db' = db
    BY <2>1, <2>2, <1>10, <1>1, ExtendsItself
  <2>3. CASE ReceivePush(d)
    BY <2>1, <2>3, <1>10, <1>7
  <2> QED
    BY <2>1, <2>2, <2>3, <1>10
<1>14. CASE \E d \in Devices : Fails(d)
  <2>1. PICK d \in Devices : Fails(d)
    BY <1>14
  <2>2. CASE late' \in {late, Abandoned(d)} /\ db' = db
    BY <2>1, <2>2, <1>9, <1>11, <1>1, ExtendsItself
  <2>3. CASE \E batch \in late[d] : ServeLate(d, batch)
    BY <2>1, <2>3, <1>11, <1>8
  <2> QED
    BY <2>1, <2>2, <2>3, <1>11
<1> QED
  BY <1>2, <1>12, <1>13, <1>14 DEF Next

-----------------------------------------------------------------------------
(***************************************************************************)
(* The ids of mutations.                                                   *)
(***************************************************************************)

\* The mutations of a device that are out of its hands or on its disk.
Issued(d) ==
    {m \in db.receipts : m.id[1] = d}
        \cup (UNION {ToSet(batch) : batch \in late[d]})
        \cup ToSet(app[d].run.sent) \cup ToSet(disk[d].state.queue)

\* No id is used twice, and the ids that a device will give are new, even if it
\* starts again.
IdsOf(d) ==
    /\ \A m \in Issued(d) : m.id[1] = d /\ m.id[2] <= disk[d].state.counter
    /\ \A m, n \in Issued(d) \cup ToSet(app[d].state.queue) : m.id = n.id => m = n

IdsOK == \A d \in Devices : IdsOf(d)

LEMMA InitIdsOK == Init => IdsOK
<1> SUFFICES ASSUME Init, NEW d \in Devices PROVE IdsOf(d)
  BY DEF IdsOK
<1>1. PICK seed \in Seeds : db = seed.db /\ disk = seed.disk
  BY DEF Init
<1>2. Numbered(seed) /\ \A m \in ToSet(disk[d].state.queue) : m.id[1] = d
  BY <1>1, SeedAssumption
<1>3. app[d].state = disk[d].state /\ app[d].run.sent = <<>> /\ late[d] = {}
  BY DEF Init, Started, NoRun
<1>4. Issued(d) = {m \in db.receipts : m.id[1] = d} \cup ToSet(disk[d].state.queue)
  BY <1>3, NoMembers DEF Issued
<1>5. \A m \in Issued(d) : m \in Seeded(seed) /\ m.id[1] = d
  BY <1>1, <1>2, <1>4 DEF Seeded
<1>6. ToSet(app[d].state.queue) \subseteq Issued(d)
  BY <1>3, <1>4
<1> QED
  BY <1>1, <1>2, <1>5, <1>6 DEF IdsOf, Numbered

\* What a device can have sent or stored after a step, it had before.
LEMMA IssuedSteps ==
    ASSUME IInv, IdsOK, [Next]_vars, NEW d \in Devices, ~Erase(d)
    PROVE  /\ Issued(d)' \subseteq Issued(d) \cup ToSet(app[d].state.queue)
           /\ \/ Issued(d)' \subseteq Issued(d) /\ disk'[d].state.counter = disk[d].state.counter
              \/ disk'[d].state.counter = app[d].state.counter
           /\ \/ ToSet(app'[d].state.queue) \subseteq Issued(d) \cup ToSet(app[d].state.queue)
              \/ Numbers(d)
<1> DEFINE k == disk[d]
           a == app[d]
           l == disk'[d]
           b == app'[d]
<1>1. /\ Rested(d) \/ Moves(d)
      /\ \A batch \in late'[d] : batch \in late[d] \/ batch = a.run.sent
      /\ \A m \in db'.receipts :
            \/ m \in db.receipts
            \/ \E e \in Devices : \/ m \in ToSet(app[e].run.sent)
                                  \/ \E batch \in late[e] : m \in ToSet(batch)
  BY DeviceSteps
<1>2. Shaped(k, a)
  BY DEF IInv, DeviceOK
<1>3. /\ ToSet(a.run.sent) \subseteq Issued(d) /\ ToSet(k.state.queue) \subseteq Issued(d)
      /\ \A batch \in late[d] : ToSet(batch) \subseteq Issued(d)
      /\ \A m \in db.receipts : m.id[1] = d => m \in Issued(d)
  BY DEF Issued
<1>4. \A m \in db'.receipts : m.id[1] = d => m \in Issued(d)
  <2> SUFFICES ASSUME NEW m \in db'.receipts, m.id[1] = d, m \notin db.receipts
               PROVE  m \in Issued(d)
    BY <1>3
  <2>1. PICK e \in Devices : \/ m \in ToSet(app[e].run.sent)
                             \/ \E batch \in late[e] : m \in ToSet(batch)
    BY <1>1
  <2>2. m \in Issued(e)
    BY <2>1 DEF Issued
  <2>3. e = d
    BY <2>2 DEF IdsOK, IdsOf
  <2> QED
    BY <2>2, <2>3
<1>5. /\ ToSet(b.run.sent) \subseteq ToSet(a.run.sent) \cup ToSet(k.state.queue)
      /\ \/ ToSet(b.state.queue) \subseteq ToSet(a.state.queue) \cup ToSet(k.state.queue)
         \/ Numbers(d)
      /\ l.state = k.state \/ l.state = a.state
  <2>1. CASE Rested(d)
    BY <2>1 DEF Rested
  <2>2. CASE InMemory(d)
    <3>1. l = k
      BY <2>2 DEF InMemory
    <3>2. CASE Rests(a, b)
      BY <3>1, <3>2, NoMembers DEF Rests, Steady, NoRun
    <3>3. CASE Publishes(a, b)
      BY <3>1, <3>3 DEF Publishes
    <3>4. CASE a.writer = "none" /\ Sends(a, b)
      BY <3>1, <3>4, <1>2 DEF Sends, Steady, Shaped
    <3>5. CASE StartsPull(a, b)
      BY <3>1, <3>5, NoMembers DEF StartsPull, Steady, NoRun
    <3>6. CASE IsAnswered(db, a, db', b)
      BY <3>1, <3>6 DEF IsAnswered, Steady
    <3>7. CASE Drops(a, b)
      BY <3>1, <3>7, NoMembers DEF Drops
    <3>8. CASE GetsPage(db, a, b)
      BY <3>1, <3>8 DEF GetsPage, Steady
    <3>9. CASE PageDone(a, b)
      BY <3>1, <3>9 DEF PageDone
    <3> QED
      BY <2>2, <3>2, <3>3, <3>4, <3>5, <3>6, <3>7, <3>8, <3>9 DEF InMemory
  <2>3. CASE Numbers(d)
    <3>1. ToSet(b.run.sent) \subseteq ToSet(a.run.sent)
      BY <2>3, NoMembers DEF Numbers, Enqueues, Migrates, NoRun
    <3> QED
      BY <2>3, <3>1 DEF Numbers
  <2>4. CASE Stores(d)
    BY <2>4 DEF Stores, Puts, Saves, Applies
  <2>5. CASE StartsAgain(d)
    BY <2>5, NoMembers DEF StartsAgain, Restarts, NoRun
  <2> QED
    BY <1>1, <2>1, <2>2, <2>3, <2>4, <2>5 DEF Moves
<1>6. Issued(d)' = {m \in db'.receipts : m.id[1] = d}
                      \cup (UNION {ToSet(batch) : batch \in late'[d]})
                      \cup ToSet(b.run.sent) \cup ToSet(l.state.queue)
  BY DEF Issued
<1>7. Issued(d)' \subseteq Issued(d) \cup ToSet(l.state.queue)
  BY <1>1, <1>3, <1>4, <1>5, <1>6
<1> QED
  BY <1>3, <1>5, <1>7

\* The new ids are above those in use.
LEMMA NumbersAreNew ==
    ASSUME IInv, NEW d \in Devices, IdsOf(d), Numbers(d)
    PROVE  \E new :
              /\ ToSet(app'[d].state.queue) \subseteq ToSet(app[d].state.queue) \cup new
              /\ \A m, n \in new : m.id = n.id => m = n
              /\ \A m \in new : \A n \in Issued(d) \cup ToSet(app[d].state.queue) :
                    m.id # n.id
<1> DEFINE k == disk[d]
           a == app[d]
           b == app'[d]
<1>1. /\ k \in Disk /\ a \in App /\ Orderly(d, k, a) /\ Shaped(k, a)
  BY DEF IInv, TypeOK, DeviceOK
<1>2. a.state.counter \in Nat /\ k.state.counter \in Nat
  BY <1>1, StoresType, EmptyDatabaseType
<1>3. a.writer = "none" /\ k.state = a.state
  BY <1>1 DEF Numbers, Enqueues, Migrates, Shaped
<1>4. \A n \in Issued(d) \cup ToSet(a.state.queue) : n.id[2] <= a.state.counter
  BY <1>1, <1>3 DEF IdsOf, Orderly
<1>5. \A n \in Issued(d) : n.id[2] \in Nat
  <2>1. \A m \in Mutation : m.id[2] \in Nat
    BY IdAssumption, LimitAssumption DEF Mutation
  <2>2. Issued(d) \subseteq Mutation
    <3>1. db.receipts \subseteq Mutation
      BY DEF IInv, TypeOK, Database
    <3>2. \A batch \in late[d] : ToSet(batch) \subseteq Mutation
      BY MembersOfEmpty DEF IInv, TypeOK
    <3>3. ToSet(a.run.sent) \subseteq Mutation /\ ToSet(k.state.queue) \subseteq Mutation
      BY <1>1, MembersType
    <3> QED
      BY <3>1, <3>2, <3>3 DEF Issued
  <2> QED
    BY <2>1, <2>2
<1>6. \A n \in ToSet(a.state.queue) : n.id[2] \in Nat
  BY <1>1, MembersType
<1>7. CASE Enqueues(d, a, b)
  <2>1. PICK new \in Mutation :
            /\ new.id = <<d, a.state.counter + 1>>
            /\ ToSet(b.state.queue) =
                  {m \in ToSet(a.state.queue) : m.rec # new.rec} \cup {new}
    BY <1>7 DEF Enqueues
  <2>2. new.id[2] = a.state.counter + 1
    BY <2>1
  <2>3. \A n \in Issued(d) \cup ToSet(a.state.queue) : new.id[2] # n.id[2]
    BY <2>2, <1>2, <1>4, <1>5, <1>6
  <2> DEFINE news == {new}
  <2>4. /\ ToSet(b.state.queue) \subseteq ToSet(a.state.queue) \cup news
        /\ \A m, n \in news : m.id = n.id => m = n
        /\ \A m \in news : \A n \in Issued(d) \cup ToSet(a.state.queue) : m.id # n.id
    BY <2>1, <2>3
  <2> HIDE DEF news
  <2> QED
    BY <2>4
<1>8. CASE Migrates(d, a, b)
  <2>1. PICK new \in SUBSET Mutation :
            /\ \A m \in new : m.id[2] > a.state.counter
            /\ \A m, n \in new : m.id = n.id => m = n
            /\ ToSet(b.state.queue) =
                  {m \in ToSet(a.state.queue) : \A n \in new : n.rec # m.rec} \cup new
    BY <1>8 DEF Migrates
  <2>2. \A m \in new : m.id[2] \in Nat
    BY IdAssumption, LimitAssumption DEF Mutation
  <2>3. \A m \in new : \A n \in Issued(d) \cup ToSet(a.state.queue) : m.id[2] # n.id[2]
    BY <2>1, <2>2, <1>2, <1>4, <1>5, <1>6
  <2> QED
    BY <2>1, <2>3
<1> QED
  BY <1>7, <1>8 DEF Numbers

LEMMA StepsKeepIds ==
    ASSUME IInv, IdsOK, [Next]_vars, NEW d \in Devices, ~Erase(d)
    PROVE  IdsOf(d)'
<1>1. /\ Issued(d)' \subseteq Issued(d) \cup ToSet(app[d].state.queue)
      /\ \/ Issued(d)' \subseteq Issued(d) /\ disk'[d].state.counter = disk[d].state.counter
         \/ disk'[d].state.counter = app[d].state.counter
      /\ \/ ToSet(app'[d].state.queue) \subseteq Issued(d) \cup ToSet(app[d].state.queue)
         \/ Numbers(d)
  BY IssuedSteps
<1>2. IdsOf(d) /\ Orderly(d, disk[d], app[d])
  BY DEF IdsOK, IInv, DeviceOK
<1>3. /\ disk[d].state.counter \in Nat /\ app[d].state.counter \in Nat
      /\ disk[d].state.counter <= app[d].state.counter
      /\ \A m \in ToSet(app[d].state.queue) : m.id[1] = d /\ m.id[2] <= app[d].state.counter
  <2>1. disk[d] \in Disk /\ app[d] \in App
    BY DEF IInv, TypeOK
  <2> QED
    BY <2>1, <1>2, StoresType, EmptyDatabaseType DEF Orderly
<1>4. \A m \in Issued(d) : m.id[2] \in Nat
  <2>1. \A m \in Mutation : m.id[2] \in Nat
    BY IdAssumption, LimitAssumption DEF Mutation
  <2>2. db.receipts \subseteq Mutation /\ \A batch \in late[d] : ToSet(batch) \subseteq Mutation
    BY MembersOfEmpty DEF IInv, TypeOK, Database
  <2>3. ToSet(app[d].run.sent) \subseteq Mutation /\ ToSet(disk[d].state.queue) \subseteq Mutation
    BY MembersType DEF IInv, TypeOK
  <2> QED
    BY <2>1, <2>2, <2>3 DEF Issued
<1>5. \A m \in Issued(d) : m.id[1] = d /\ m.id[2] <= disk[d].state.counter
                           /\ m.id[2] <= app[d].state.counter
  BY <1>2, <1>3, <1>4 DEF IdsOf
<1>6. \A m \in Issued(d)' : m.id[1] = d /\ m.id[2] <= disk'[d].state.counter
  BY <1>1, <1>3, <1>5
<1>7. \A m, n \in Issued(d)' \cup ToSet(app'[d].state.queue) : m.id = n.id => m = n
  <2>1. \A m, n \in Issued(d) \cup ToSet(app[d].state.queue) : m.id = n.id => m = n
    BY <1>2 DEF IdsOf
  <2>2. CASE ToSet(app'[d].state.queue) \subseteq Issued(d) \cup ToSet(app[d].state.queue)
    BY <2>1, <2>2, <1>1
  <2>3. CASE Numbers(d)
    <3>1. PICK new :
              /\ ToSet(app'[d].state.queue) \subseteq ToSet(app[d].state.queue) \cup new
              /\ \A m, n \in new : m.id = n.id => m = n
              /\ \A m \in new : \A n \in Issued(d) \cup ToSet(app[d].state.queue) :
                    m.id # n.id
      BY <2>3, <1>2, NumbersAreNew
    <3> QED
      BY <2>1, <3>1, <1>1
  <2> QED
    BY <1>1, <2>2, <2>3
<1> QED
  BY <1>6, <1>7 DEF IdsOf

LEMMA IdsInvariance ==
    ASSUME MaxErasures = 0
    PROVE  Spec => [](IInv /\ IdsOK)
<1>1. IInv /\ IdsOK /\ [Next]_vars => IdsOK'
  <2> SUFFICES ASSUME IInv, IdsOK, [Next]_vars, NEW d \in Devices PROVE IdsOf(d)'
    BY DEF IdsOK
  <2> QED
    BY StepsKeepIds, NothingIsErased DEF IInv
<1> QED
  BY <1>1, InitIdsOK, InitIInv, NextIInv, PTL DEF Spec

\* No two mutations have one id as long as no account is erased from a device
\* (sync_controller.dart:667-681 numbers them): a crash makes no device use an id
\* again that it has sent, however late the request arrives.
THEOREM IdsCorrect ==
    ASSUME MaxErasures = 0
    PROVE  Spec => []IdsAreUnique
<1>1. IInv /\ IdsOK => IdsAreUnique
  <2> SUFFICES ASSUME IInv, IdsOK, NEW d \in Devices, NEW m \in ToSet(app[d].state.queue),
                      NEW n \in ReceiptsOf(db, m.id)
               PROVE  n = m
    BY DEF IdsAreUnique
  <2>1. m.id[1] = d
    BY DEF IInv, DeviceOK, Orderly
  <2>2. n \in Issued(d) /\ n.id = m.id
    BY <2>1 DEF ReceiptsOf, Issued
  <2> QED
    BY <2>2 DEF IdsOK, IdsOf
<1> QED
  BY <1>1, IdsInvariance, PTL

\* A request that a device waits for is never rejected.
NeverRejected ==
    \A d \in Devices :
        app[d].run.pc = "pushWait" => ~Push(db, app[d].run.sent).rejected

\* So no device is ever stuck with a 409 (server/server/sync_service.py, push), as
\* long as no account is erased from a device.
THEOREM PushesAreAccepted ==
    ASSUME MaxErasures = 0
    PROVE  Spec => []NeverRejected
<1>1. IInv /\ IdsOK => NeverRejected
  <2> SUFFICES ASSUME IInv, IdsOK, NEW d \in Devices
               PROVE  ~Push(db, app[d].run.sent).rejected
    BY DEF NeverRejected
  <2> DEFINE sent == app[d].run.sent
  <2>1. /\ sent \in Seq(Mutation) /\ db \in Database /\ Sound(db)
        /\ db.receipts \subseteq Mutation
    BY DEF IInv, TypeOK, App, Run, Database
  <2>2. ASSUME NEW m \in ToSet(sent) \cup db.receipts
        PROVE  m.id[1] \in Devices /\ m \in Issued(m.id[1])
    <3>1. CASE m \in ToSet(sent)
      BY <3>1 DEF Issued, IdsOK, IdsOf
    <3>2. CASE m \in db.receipts
      <4>1. m.id[1] \in Devices
        BY <2>1, <3>2, IdAssumption DEF Mutation
      <4> QED
        BY <4>1, <3>2 DEF Issued
    <3> QED
      BY <2>2, <3>1, <3>2
  <2>3. Distinct(db, sent)
    BY <2>2 DEF Distinct, IdsOK, IdsOf
  <2> QED
    BY <2>1, <2>3, PushProgresses DEF Progressed
<1> QED
  BY <1>1, IdsInvariance, PTL

-----------------------------------------------------------------------------
(***************************************************************************)
(* The initial migration.                                                  *)
(***************************************************************************)

\* Every entry of a device that counts as migrated is on the server, in the queue
\* or about to be queued; what a pull has seen is on the server.
Shown(T, k, a, r) ==
    a.state.migrated /\ a.entries[CellOf[r]] # NoPayload =>
        \/ Exists(T.rows[r])
        \/ Waits(a.state.queue, r)
        \/ r \in Records(a.edit.changes) /\ k.entries[CellOf[r]] = NoPayload

Stored(T, k, a, r) ==
    k.state.migrated /\ k.entries[CellOf[r]] # NoPayload =>
        \/ Exists(T.rows[r])
        \/ Waits(k.state.queue, r)
        \/ a.entries[CellOf[r]] # k.entries[CellOf[r]]

Uploaded(T, k, a) ==
    /\ k.state.migrated => a.state.migrated
    /\ \A r \in a.run.seen : Exists(T.rows[r])
    /\ \A r \in RecordIds : Alone(r) => Shown(T, k, a, r) /\ Stored(T, k, a, r)

UploadsOK == \A d \in Devices : Uploaded(db, disk[d], app[d])

LEMMA InitUploadsOK == Init => UploadsOK
<1> SUFFICES ASSUME Init, NEW d \in Devices PROVE Uploaded(db, disk[d], app[d])
  BY DEF UploadsOK
<1>1. \A r \in RecordIds : Alone(r) =>
         (disk[d].state.migrated => Uploads(db, disk[d].state, disk[d].entries, r))
  BY SeedAssumption DEF Init
<1>2. /\ app[d].state = disk[d].state /\ app[d].entries = disk[d].entries
      /\ app[d].run.seen = {}
  BY DEF Init, Started, NoRun
<1> QED
  BY <1>1, <1>2 DEF Uploaded, Shown, Stored, Uploads

LEMMA UploadedGrows ==
    ASSUME NEW T \in Database, NEW U \in Database, Extends(U, T),
           NEW k, NEW a \in App, Uploaded(T, k, a)
    PROVE  Uploaded(U, k, a)
<1>1. \A r \in RecordIds : Exists(T.rows[r]) => Exists(U.rows[r])
  <2>1. \A r \in RecordIds : U.rows[r] # T.rows[r] => U.rows[r].revision > T.revision
    BY DEF Extends
  <2>2. T.revision \in Nat /\ \A r \in RecordIds : U.rows[r].revision \in Nat
    BY DEF Database, Row
  <2>3. \A u, v \in Nat : u > v => u # 0
    OBVIOUS
  <2> QED
    BY <2>1, <2>2, <2>3 DEF Exists
<1>2. a.run.seen \subseteq RecordIds
  BY DEF App, Run
<1> QED
  BY <1>1, <1>2 DEF Uploaded, Shown, Stored

LEMMA MovesKeepUploaded ==
    ASSUME NEW T, NEW d \in Devices, Sound(T),
           Facing(T, d, disk[d], app[d]), Facing(T, d, disk'[d], app'[d]),
           Moves(d), StartsAgain(d) => app[d].edit = NoEdit,
           Uploaded(T, disk[d], app[d])
    PROVE  Uploaded(T, disk'[d], app'[d])
<1> DEFINE k == disk[d]
           a == app[d]
           l == disk'[d]
           b == app'[d]
<1>1. /\ DeviceOK(T, d, k, a) /\ DeviceOK(T, d, l, b) /\ Uploaded(T, k, a)
      /\ T \in Database /\ k \in Disk /\ a \in App
  BY DEF Facing
<1>2. /\ Shaped(k, a) /\ Orderly(d, k, a) /\ BeingPut(a) /\ Drained(a)
      /\ Answered(T, a) /\ Answered(T, b) /\ Covered(T, k, a)
  BY <1>1 DEF DeviceOK
<1>3. Records(NoEdit.changes) = {} /\ NoRun.seen = {} /\ ~NewState.migrated
  BY NoMembers DEF NoEdit, NoRun, NewState
<1> SUFFICES /\ l.state.migrated => b.state.migrated
             /\ \A r \in b.run.seen : Exists(T.rows[r])
             /\ \A r \in RecordIds : Alone(r) => Shown(T, l, b, r) /\ Stored(T, l, b, r)
  BY DEF Uploaded
<1>4. /\ k.state.migrated => a.state.migrated
      /\ \A r \in a.run.seen : Exists(T.rows[r])
      /\ \A r \in RecordIds : Alone(r) => Shown(T, k, a, r) /\ Stored(T, k, a, r)
  BY <1>1 DEF Uploaded
<1>5. CASE l = k /\ Steady(a, b) /\ b.run.seen \subseteq a.run.seen \cup Records(b.run.todo)
  <2>1. \A r \in Records(b.run.todo) : Exists(T.rows[r])
    BY <1>2 DEF Answered, Records
  <2> QED
    BY <2>1, <1>4, <1>5 DEF Steady, Shown, Stored
<1>6. CASE InMemory(d)
  <2>1. l = k
    BY <1>6 DEF InMemory
  <2>2. CASE Rests(a, b)
    BY <2>1, <2>2, <1>3, <1>5 DEF Rests, NoRun
  <2>3. CASE Publishes(a, b)
    <3>1. /\ a.entries = k.entries /\ a.edit = NoEdit
          /\ b.state = a.state /\ b.run = a.run
          /\ \A r \in RecordIds :
                Alone(r) /\ b.entries[CellOf[r]] # a.entries[CellOf[r]]
                   => r \in Records(b.edit.changes)
      BY <2>3, <1>2 DEF Publishes, Shaped
    <3> QED
      BY <3>1, <2>1, <1>3, <1>4 DEF Shown, Stored
  <2>4. CASE Sends(a, b) \/ IsAnswered(db, a, db', b)
    BY <2>1, <2>4, <1>5 DEF Sends, IsAnswered
  <2>5. CASE StartsPull(a, b)
    BY <2>1, <2>5, <1>5 DEF StartsPull, NoRun
  <2>6. CASE Drops(a, b)
    <3>1. /\ a.run.pc = "acks" /\ b.entries = a.entries /\ b.edit = a.edit
          /\ b.state.migrated = a.state.migrated /\ b.run.seen = a.run.seen
          /\ ToSet(b.state.queue) = {m \in ToSet(a.state.queue) : m.id \notin Ids(a.run.sent)}
      BY <2>6 DEF Drops
    <3>2. ASSUME NEW r \in RecordIds, Waits(a.state.queue, r)
          PROVE  Waits(b.state.queue, r) \/ Exists(T.rows[r])
      <4>1. PICK m \in ToSet(a.state.queue) : m.rec = r
        BY <3>2 DEF Waits
      <4>2. CASE m.id \notin Ids(a.run.sent)
        BY <4>1, <4>2, <3>1 DEF Waits
      <4>3. CASE m.id \in Ids(a.run.sent)
        <5>1. PICK n \in ToSet(a.run.sent) : n.id = m.id
          BY <4>3 DEF Ids
        <5>2. n = m /\ n \in T.receipts
          BY <5>1, <3>1, <1>2 DEF Orderly, Answered
        <5> QED
          BY <5>2, <4>1 DEF Sound
      <4> QED
        BY <4>2, <4>3
    <3> QED
      BY <3>1, <3>2, <2>1, <1>4 DEF Shown, Stored
  <2>7. CASE GetsPage(db, a, b)
    BY <2>1, <2>7, <1>5 DEF GetsPage
  <2>8. CASE PageDone(a, b)
    <3>1. /\ b.entries = a.entries /\ b.edit = a.edit /\ b.run.seen = a.run.seen
          /\ b.state.migrated = a.state.migrated /\ b.state.queue = a.state.queue
      BY <2>8 DEF PageDone
    <3> QED
      BY <3>1, <2>1, <1>4 DEF Shown, Stored
  <2> QED
    BY <1>6, <2>2, <2>3, <2>4, <2>5, <2>6, <2>7, <2>8 DEF InMemory
<1>7. CASE Numbers(d)
  <2>1. l = k
    BY <1>7 DEF Numbers
  <2>2. CASE Enqueues(d, a, b)
    <3>1. PICK new \in Mutation :
              ToSet(b.state.queue) =
                 {m \in ToSet(a.state.queue) : m.rec # new.rec} \cup {new}
      BY <2>2 DEF Enqueues
    <3>2. \A r : Waits(a.state.queue, r) => Waits(b.state.queue, r)
      BY <3>1 DEF Waits
    <3>3. /\ b.entries = a.entries /\ b.edit.changes = a.edit.changes /\ b.run = a.run
          /\ b.state.migrated = a.state.migrated
      BY <2>2 DEF Enqueues
    <3> QED
      BY <3>2, <3>3, <2>1, <1>4 DEF Shown, Stored
  <2>3. CASE Migrates(d, a, b)
    <3>1. PICK new \in SUBSET Mutation :
              /\ {m.rec : m \in new} =
                    {r \in RecordIds \ a.run.seen : a.entries[CellOf[r]] # NoPayload}
              /\ ToSet(b.state.queue) =
                    {m \in ToSet(a.state.queue) : \A n \in new : n.rec # m.rec} \cup new
      BY <2>3 DEF Migrates
    <3>2. /\ a.run.pc = "baseline" /\ a.writer = "none" /\ b.state.migrated
          /\ b.entries = a.entries /\ b.run.seen = {}
      BY <2>3, <1>3 DEF Migrates, NoRun
    <3>3. ~k.state.migrated
      BY <3>2, <1>2 DEF Drained, Shaped
    <3>4. ASSUME NEW r \in RecordIds, a.entries[CellOf[r]] # NoPayload
          PROVE  Exists(T.rows[r]) \/ Waits(b.state.queue, r)
      <4>1. CASE r \in a.run.seen
        BY <4>1, <1>4
      <4>2. CASE r \notin a.run.seen
        <5>1. r \in {m.rec : m \in new}
          BY <3>1, <3>4, <4>2
        <5> QED
          BY <5>1, <3>1 DEF Waits
      <4> QED
        BY <4>1, <4>2
    <3> QED
      BY <3>2, <3>3, <3>4, <2>1 DEF Shown, Stored
  <2> QED
    BY <1>7, <2>2, <2>3 DEF Numbers
<1>8. CASE Stores(d)
  <2>1. CASE Puts(k, a, l, b)
    <3>1. /\ l.state = a.state /\ l.entries = k.entries /\ b.state = a.state
          /\ b.entries = a.entries /\ b.run = a.run
      BY <2>1 DEF Puts
    <3>2. ASSUME NEW r \in RecordIds, r \in Records(a.edit.changes)
          PROVE  r \in Records(b.edit.changes) \/ Waits(a.state.queue, r)
      <4>1. CASE a.writer = "edit"
        <5>1. a.edit.changes # <<>> /\ b.edit.changes = Tail(a.edit.changes)
          BY <2>1, <4>1, <1>2 DEF Puts, Shaped
        <5>2. Records(a.edit.changes) = {Head(a.edit.changes).rec} \cup Records(b.edit.changes)
          BY <5>1, <1>1, StoresType, RecordsOfTail
        <5>3. Waits(a.state.queue, Head(a.edit.changes).rec)
          BY <4>1, <1>2 DEF BeingPut, Shaped, Unanswered, Waits
        <5> QED
          BY <3>2, <5>2, <5>3
      <4>2. CASE a.writer # "edit"
        BY <2>1, <4>2, <3>2 DEF Puts
      <4> QED
        BY <4>1, <4>2
    <3> QED
      BY <3>1, <3>2, <1>4 DEF Shown, Stored
  <2>2. CASE Saves(k, a, l, b)
    <3>1. /\ l.state = k.state /\ l.entries = a.entries /\ b.state = a.state
          /\ b.entries = a.entries /\ b.run = a.run /\ b.edit = NoEdit
          /\ Records(a.edit.changes) = {}
      BY <2>2, <1>2, NoMembers DEF Saves, Shaped
    <3>2. \A r \in RecordIds : Alone(r) => Unsaved(k, a, r)
      BY <1>2 DEF Covered
    <3> QED
      BY <3>1, <3>2, <1>4 DEF Shown, Stored, Unsaved
  <2>3. CASE Applies(k, a, l, b)
    <3> DEFINE x == Head(a.run.todo)
    <3>1. /\ l.state = k.state /\ b.state = a.state /\ b.edit = a.edit
          /\ b.run.seen = a.run.seen /\ a.run.todo # <<>>
          /\ b.entries = [a.entries EXCEPT ![CellOf[x.rec]] = EntryOf(x.row)]
          /\ l.entries = [k.entries EXCEPT ![CellOf[x.rec]] = EntryOf(x.row)]
      BY <2>3 DEF Applies
    <3>2. /\ a.run.todo \in Seq(Received)
          /\ a.entries \in [Cells -> Payload] /\ k.entries \in [Cells -> Payload]
      BY <1>1, StoresType
    <3>3. x \in ToSet(a.run.todo) /\ x \in Received
      BY <3>1, <3>2, MembersOfTail
    <3>4. Exists(T.rows[x.rec]) /\ x.rec \in RecordIds
      BY <3>3, <1>2 DEF Answered, Received
    <3> HIDE DEF x
    <3>5. ASSUME NEW r \in RecordIds, Alone(r), r # x.rec
          PROVE  /\ b.entries[CellOf[r]] = a.entries[CellOf[r]]
                 /\ l.entries[CellOf[r]] = k.entries[CellOf[r]]
      BY <3>1, <3>2, <3>4, <3>5, CellAssumption DEF Alone
    <3>6. ASSUME NEW r \in RecordIds, Alone(r) PROVE Shown(T, l, b, r) /\ Stored(T, l, b, r)
      <4>1. CASE r = x.rec
        BY <4>1, <3>4 DEF Shown, Stored
      <4>2. CASE r # x.rec
        BY <4>2, <3>1, <3>5, <3>6, <1>4 DEF Shown, Stored
      <4> QED
        BY <4>1, <4>2
    <3> QED
      BY <3>1, <3>6, <1>4
  <2> QED
    BY <1>8, <2>1, <2>2, <2>3 DEF Stores
<1>9. CASE StartsAgain(d)
  <2>1. /\ l = k \/ l.state = NewState
        /\ b.state = l.state /\ b.entries = l.entries /\ b.run.seen = {}
        /\ a.entries = k.entries
    BY <1>9, <1>2, <1>3 DEF StartsAgain, Restarts, Shaped
  <2> QED
    BY <2>1, <1>3, <1>4 DEF Shown, Stored
<1> QED
  BY <1>6, <1>7, <1>8, <1>9 DEF Moves

\* The behaviors in which no application dies while it has a user action to save.
Calm == Next /\ \A d \in Devices : Crash(d) => app[d].edit = NoEdit

CalmSpec == Init /\ [][Calm]_vars

LEMMA StepsKeepUploads ==
    ASSUME IInv, IInv', UploadsOK, [Calm]_vars
    PROVE  UploadsOK'
<1> SUFFICES ASSUME NEW d \in Devices PROVE Uploaded(db', disk'[d], app'[d])
  BY DEF UploadsOK
<1>1. /\ db \in Database /\ app[d] \in App /\ [Next]_vars /\ Uploaded(db, disk[d], app[d])
  BY DEF IInv, TypeOK, UploadsOK, Calm
<1>2. (Rested(d) \/ Moves(d)) /\ Extends(db', db) /\ db' \in Database
  BY <1>1, DeviceSteps
<1>3. Uploaded(db', disk[d], app[d])
  BY <1>1, <1>2, UploadedGrows
<1>4. Facing(db', d, disk[d], app[d])
  <2>1. Facing(db, d, disk[d], app[d])
    BY DEF IInv, TypeOK, Facing
  <2>2. DeviceOK(db', d, disk[d], app[d])
    BY <2>1, <1>2, GrowthOK
  <2> QED
    BY <2>1, <2>2, <1>2 DEF Facing
<1>5. Facing(db', d, disk'[d], app'[d]) /\ Sound(db')
  BY DEF IInv, TypeOK, Facing
<1>6. CASE Rested(d)
  BY <1>3, <1>6 DEF Rested
<1>7. CASE Moves(d)
  <2>1. StartsAgain(d) => app[d].edit = NoEdit
    <3>1. Erase(d) => app[d].edit = NoEdit
      BY DEF Erase
    <3>2. Crash(d) => app[d].edit = NoEdit
      <4>1. CASE Calm
        BY <4>1 DEF Calm
      <4>2. CASE UNCHANGED vars
        <5>1. Crash(d) => FALSE
          <6>1. "faults" \in DOMAIN Bound /\ used \in [DOMAIN Bound -> Nat]
            BY DEF Bound, IInv, TypeOK
          <6>2. used["faults"] \in Nat
            BY <6>1
          <6>3. Crash(d) => used'["faults"] = used["faults"] + 1
            BY <6>1 DEF Crash, Happens
          <6> QED
            BY <6>2, <6>3, <4>2 DEF vars
        <5> QED
          BY <5>1
      <4> QED
        BY <4>1, <4>2
    <3> QED
      BY <3>1, <3>2 DEF StartsAgain
  <2> QED
    BY <2>1, <1>3, <1>4, <1>5, <1>7, MovesKeepUploaded
<1> QED
  BY <1>2, <1>6, <1>7

LEMMA UploadsInvariance == CalmSpec => [](IInv /\ UploadsOK)
<1>1. IInv /\ [Calm]_vars => IInv'
  BY NextIInv DEF Calm
<1>2. IInv /\ UploadsOK /\ [Calm]_vars => UploadsOK'
  BY <1>1, StepsKeepUploads
<1> QED
  BY <1>1, <1>2, InitIInv, InitUploadsOK, PTL DEF CalmSpec

\* An account counts as migrated only when every local entry is on the server or in
\* the stored queue (sync_controller.dart:386-426): wherever the initial migration
\* is interrupted, a later run uploads the rest. A crash in the middle of a user
\* action is the exception: the baseline is read from the screen, so an entry that the
\* action has removed there, and not yet on disk, is in neither place afterwards.
THEOREM MigrationCorrect == CalmSpec => []MigratedUploads
<1>1. IInv /\ UploadsOK => MigratedUploads
  <2> SUFFICES ASSUME IInv, UploadsOK, NEW d \in Devices, disk[d].state.migrated,
                      app[d].edit = NoEdit, NEW r \in RecordIds, Alone(r)
               PROVE  Uploads(db, disk[d].state, disk[d].entries, r)
    BY DEF MigratedUploads
  <2>1. app[d].entries = disk[d].entries
    BY DEF IInv, DeviceOK, Shaped
  <2>2. Stored(db, disk[d], app[d], r)
    BY DEF UploadsOK, Uploaded
  <2> QED
    BY <2>1, <2>2 DEF Stored, Uploads
<1> QED
  BY <1>1, UploadsInvariance, PTL

\* Devices that have uploaded and pulled everything show the same library, if every
\* entry is about one record, as favorites and the followed are; a history entry has
\* two, and there they may differ.
THEOREM AgreementCorrect ==
    ASSUME \A r \in RecordIds : Alone(r),
           \A c \in Cells : \E r \in RecordIds : CellOf[r] = c
    PROVE  CalmSpec => []DevicesAgree
<1> DEFINE Shows(d) ==
        \A r \in RecordIds :
            disk[d].entries[CellOf[r]] =
                IF Exists(db.rows[r]) THEN EntryOf(db.rows[r]) ELSE NoPayload
<1>1. ASSUME IInv, UploadsOK, NEW d \in Devices, Quiet(d) PROVE Shows(d)
  <2> SUFFICES ASSUME NEW r \in RecordIds
               PROVE  disk[d].entries[CellOf[r]] =
                          IF Exists(db.rows[r]) THEN EntryOf(db.rows[r]) ELSE NoPayload
    OBVIOUS
  <2>1. /\ Covers(db, disk[d].state, disk[d].entries, r)
        /\ Stored(db, disk[d], app[d], r)
        /\ app[d].edit = NoEdit => app[d].entries = disk[d].entries
    BY <1>1 DEF IInv, DeviceOK, Covered, Shaped, UploadsOK, Uploaded
  <2>2. db.rows[r].revision <= disk[d].state.cursor
    BY <1>1 DEF IInv, Sound, Quiet
  <2>3. ~Waits(disk[d].state.queue, r)
    BY <1>1, NoMembers DEF Quiet, Waits
  <2> QED
    BY <1>1, <2>1, <2>2, <2>3 DEF Covers, Stored, Quiet
<1>2. ASSUME IInv, NEW d \in Devices, NEW e \in Devices, Shows(d), Shows(e)
      PROVE  disk[d].entries = disk[e].entries
  <2>1. disk[d].entries \in [Cells -> Payload] /\ disk[e].entries \in [Cells -> Payload]
    BY <1>2 DEF IInv, TypeOK, Disk, Entries
  <2>2. \A c \in Cells : disk[d].entries[c] = disk[e].entries[c]
    BY <1>2
  <2> QED
    BY <2>1, <2>2
<1>3. IInv /\ UploadsOK => DevicesAgree
  BY <1>1, <1>2 DEF DevicesAgree
<1> QED
  BY <1>3, UploadsInvariance, PTL
=============================================================================
