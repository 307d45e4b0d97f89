----------------------- MODULE SubtitleLibraryProofs -----------------------
(***************************************************************************)
(* Theorems about SubtitleLibrary, for every set of entries, any number of *)
(* requests, every size of the cache and any number of mishaps.            *)
(***************************************************************************)
EXTENDS SubtitleLibrary, TLAPS, FiniteSetTheorems

-----------------------------------------------------------------------------
(***************************************************************************)
(* The invariant                                                           *)
(***************************************************************************)
Answered == [step : {"idle", "stored", "failed", "whole", "unavailable"}]
Importing == [step : {"put", "upload", "insert"}, entry : Entries, digest : Digests, id : Nat]
Short == [step : {"lock", "read", "open", "fetch", "write", "list"}, digest : Digests]

\* A task in each of its steps.
Shape(k) ==
    \/ k \in Answered
    \/ /\ k \in Importing /\ k.digest = k.entry.digest
       /\ k.step = "insert" \/ k.id = 0
    \/ k \in Short
    \/ /\ k = [step |-> "evict", digest |-> k.digest, size |-> k.size, others |-> k.others]
       /\ k.digest \in Digests

TypeOK ==
    /\ remote \in BOOLEAN /\ private \in BOOLEAN
    /\ object \in [Digests -> {"none", "whole", "damaged"}]
    /\ drive \subseteq [id : Nat \ {0}, digest : Digests, whole : BOOLEAN]
    /\ uploads \in Nat /\ late \subseteq Digests /\ index \subseteq Entries
    /\ remoteId \in [Digests -> Nat] /\ mishaps \in Nat
    /\ DOMAIN task = Tasks /\ task = [t \in Tasks |-> task[t]]
    /\ \A t \in Tasks : Shape(task[t])

\* The lock of _read_blob.
OneReader ==
    \A q, r \in Readers :
        task[q].step \in Reading /\ task[r].step \in Reading /\ Digest(q) = Digest(r) =>
            q = r

\* The file is put somewhere before the row is inserted.
PutFirst ==
    /\ \A e \in index : object[e.digest] # "none" \/ remoteId[e.digest] # 0
    /\ task[Importer].step = "insert" =>
          task[Importer].id # 0 \/ object[Digest(Importer)] # "none"

\* Where the file of a digest is, with its name in Drive.
Kept(d, id) ==
    IF remote THEN \E f \in drive : f.digest = d /\ f.id = id ELSE object[d] = "whole"

\* As long as nothing has gone wrong.
Calm ==
    mishaps = 0 =>
        /\ private /\ late = {}
        /\ \A d \in Digests : object[d] # "damaged"
        /\ \A f \in drive : f.whole
        /\ \A f, g \in drive : f.digest = g.digest => f = g
        /\ task[Importer].step = "upload" => remote /\ Copies(Digest(Importer)) = {}
        /\ task[Importer].step = "insert" =>
              /\ Kept(Digest(Importer), task[Importer].id)
              /\ ~remote => task[Importer].id = 0
        /\ \A e \in index : Kept(e.digest, remoteId[e.digest])

IInv == TypeOK /\ OneReader /\ PutFirst /\ Calm

-----------------------------------------------------------------------------
LEMMA InitHolds ==
    ASSUME Init
    PROVE  IInv
<1>1. /\ DOMAIN task = Tasks /\ task = [t \in Tasks |-> task[t]]
      /\ \A t \in Tasks : task[t].step = "idle" /\ task[t] \in Answered
  BY DEF Init, Resting, Answered
<1>2. TypeOK
  BY <1>1 DEF Init, TypeOK, Shape
<1>3. Importer \in Tasks /\ Readers \subseteq Tasks
  BY DEF Tasks
<1>4. OneReader /\ PutFirst
  BY <1>1, <1>3 DEF Init, OneReader, PutFirst, Reading
<1>5. Calm
  BY <1>1, <1>3 DEF Init, Calm
<1> QED
  BY <1>2, <1>4, <1>5 DEF IInv

-----------------------------------------------------------------------------
(***************************************************************************)
(* What a step does to one task                                            *)
(***************************************************************************)
Steps == {"lock", "read", "open", "fetch", "write", "list"}
Answers == {"idle", "stored", "failed", "whole", "unavailable"}
ImportSteps == {"put", "upload", "insert"}

TaskTypes ==
    /\ DOMAIN task = Tasks /\ task = [u \in Tasks |-> task[u]]
    /\ \A u \in Tasks : Shape(task[u])

OthersStay(t) == \A u \in Tasks \ {t} : task'[u] = task[u]

LEMMA Steps1 ==
    ASSUME TypeOK, NEW t \in Tasks
    PROVE  /\ task[t].step \in Steps => task[t] \in Short
           /\ task[t].step \in ImportSteps =>
                 /\ task[t] \in Importing /\ task[t].digest = task[t].entry.digest
                 /\ task[t].step = "insert" \/ task[t].id = 0
           /\ task[t].step = "evict" =>
                 /\ task[t] = [step |-> "evict", digest |-> task[t].digest,
                               size |-> task[t].size, others |-> task[t].others]
                 /\ task[t].digest \in Digests
BY DEF TypeOK, Shape, Steps, ImportSteps, Short, Importing, Answered

LEMMA NewTask ==
    ASSUME TypeOK, NEW t \in Tasks, NEW k, Shape(k), task' = [task EXCEPT ![t] = k]
    PROVE  TaskTypes' /\ task'[t] = k /\ OthersStay(t)
BY DEF TypeOK, TaskTypes, OthersStay

LEMMA GoesOn ==
    ASSUME TypeOK, NEW t \in Tasks, NEW s \in Steps, task[t].step \in Steps, Goes(t, s)
    PROVE  /\ TaskTypes' /\ OthersStay(t)
           /\ task'[t].step = s /\ task'[t].digest = task[t].digest
<1> DEFINE k == [task[t] EXCEPT !.step = s]
<1>1. task[t] \in Short
  BY Steps1
<1>2. k \in Short /\ k.step = s /\ k.digest = task[t].digest
  BY <1>1 DEF Short, Steps
<1>3. task' = [task EXCEPT ![t] = k]
  BY DEF Goes
<1> HIDE DEF k
<1> QED
  BY <1>2, <1>3, NewTask DEF Shape

LEMMA AnswersTask ==
    ASSUME TypeOK, NEW t \in Tasks, NEW s \in Answers, Ends(t, s)
    PROVE  TaskTypes' /\ OthersStay(t) /\ task'[t].step = s
<1> DEFINE k == [step |-> s]
<1>1. k \in Answered /\ k.step = s
  BY DEF Answers, Answered
<1>2. task' = [task EXCEPT ![t] = k]
  BY DEF Ends
<1> HIDE DEF k
<1> QED
  BY <1>1, <1>2, NewTask DEF Shape

LEMMA ImportGoesOn ==
    ASSUME TypeOK, NEW s \in ImportSteps, NEW id \in Nat,
           task[Importer].step \in ImportSteps \ {"insert"},
           \/ Goes(Importer, s) /\ id = task[Importer].id
           \/ s = "insert" /\ HasId(id)
    PROVE  /\ TaskTypes' /\ OthersStay(Importer)
           /\ task'[Importer].step = s /\ task'[Importer].id = id
           /\ task'[Importer].digest = task[Importer].digest
           /\ task'[Importer].entry = task[Importer].entry
<1> DEFINE j == task[Importer]
<1> DEFINE k == [step |-> s, entry |-> j.entry, digest |-> j.digest, id |-> id]
<1>0. Importer \in Tasks
  BY DEF Tasks
<1>1. j \in Importing /\ j.digest = j.entry.digest /\ j.id = 0
  BY <1>0, Steps1
<1>2. k \in Importing /\ k.digest = k.entry.digest /\ (k.step = "insert" \/ k.id = 0)
  BY <1>1 DEF Importing, ImportSteps
<1>3. task' = [task EXCEPT ![Importer] = k]
  <2>1. CASE Goes(Importer, s) /\ id = j.id
    <3>1. [j EXCEPT !.step = s] = k
      BY <1>1, <2>1 DEF Importing
    <3> QED
      BY <2>1, <3>1 DEF Goes
  <2>2. CASE s = "insert" /\ HasId(id)
    <3> DEFINE i == [step |-> s, entry |-> j.entry, digest |-> j.digest, id |-> j.id]
    <3>0. [j EXCEPT !.step = s] = i
      BY <1>1 DEF Importing
    <3>1. [i EXCEPT !.id = id] = k
      OBVIOUS
    <3>2. task' = [task EXCEPT ![Importer].step = s, ![Importer].id = id]
      BY <2>2 DEF HasId
    <3>3. task' = [task EXCEPT ![Importer] = [[j EXCEPT !.step = s] EXCEPT !.id = id]]
      BY <1>0, <3>2 DEF TypeOK
    <3> QED
      BY <3>0, <3>1, <3>3
  <2> QED
    BY <2>1, <2>2
<1>4. TaskTypes' /\ task'[Importer] = k /\ OthersStay(Importer)
  <2> HIDE DEF k
  <2> QED
    BY <1>0, <1>2, <1>3, NewTask DEF Shape
<1> QED
  BY <1>4

\* A step of one task keeps the lock of the others, unless it enters.
LEMMA LockStays ==
    ASSUME TypeOK, OneReader, NEW t \in Tasks, OthersStay(t),
           t \in Readers /\ task'[t].step \in Reading =>
               task[t].step \in Reading /\ task'[t].digest = task[t].digest
    PROVE  OneReader'
BY DEF OneReader, OthersStay, Digest, Tasks

Storage == <<remote, object, drive, private, late, index, remoteId>>

\* So does one that changes no file and brings the command to no new file.
LEMMA StorageStays ==
    ASSUME PutFirst, Calm, UNCHANGED Storage, mishaps' = 0 => mishaps = 0,
           task'[Importer].step \in {"upload", "insert"} => task'[Importer] = task[Importer]
    PROVE  PutFirst' /\ Calm'
<1>1. PutFirst'
  BY DEF PutFirst, Storage, Digest
<1>2. Calm'
  <2> USE DEF Storage
  <2>1. \A d, id : Kept(d, id)' <=> Kept(d, id)
    BY DEF Kept
  <2>2. \A d : Copies(d)' = Copies(d)
    BY DEF Copies
  <2> QED
    BY <2>1, <2>2 DEF Calm, Digest
<1> QED
  BY <1>1, <1>2

\* A step of one task that neither takes a lock nor names a file.
LEMMA TaskStep ==
    ASSUME IInv, NEW t \in Tasks, TaskTypes', OthersStay(t),
           UNCHANGED <<Storage, uploads, mishaps>>,
           t \in Readers /\ task'[t].step \in Reading =>
               task[t].step \in Reading /\ task'[t].digest = task[t].digest,
           t = Importer => task'[t].step \notin {"upload", "insert"}
    PROVE  IInv'
<1>0. Importer \in Tasks
  BY DEF Tasks
<1>1. TypeOK'
  BY DEF IInv, TypeOK, TaskTypes, Storage
<1>2. OneReader'
  BY LockStays DEF IInv
<1>3. task'[Importer].step \in {"upload", "insert"} => task'[Importer] = task[Importer]
  BY <1>0 DEF OthersStay
<1>4. PutFirst' /\ Calm'
  BY <1>3, StorageStays DEF IInv
<1> QED
  BY <1>1, <1>2, <1>4 DEF IInv

LEMMA AnswerStep ==
    ASSUME IInv, NEW t \in Tasks, NEW s \in Answers, Ends(t, s),
           UNCHANGED <<Storage, uploads, mishaps>>
    PROVE  IInv'
<1>1. TaskTypes' /\ OthersStay(t) /\ task'[t].step = s
  BY AnswersTask DEF IInv
<1>2. s \notin Reading /\ s \notin {"upload", "insert"}
  BY DEF Answers, Reading
<1> QED
  BY <1>1, <1>2, TaskStep

\* A step of a request or of the cache that goes on with the same file.
LEMMA FileStep ==
    ASSUME IInv, NEW t \in Tasks, NEW s \in Steps, task[t].step \in Steps \ {"lock"},
           Goes(t, s), UNCHANGED <<Storage, uploads, mishaps>>
    PROVE  IInv'
<1>1. /\ TaskTypes' /\ OthersStay(t)
      /\ task'[t].step = s /\ task'[t].digest = task[t].digest
  BY GoesOn DEF IInv
<1>2. task[t].step \in Reading /\ s \notin {"upload", "insert"}
  BY DEF Steps, Reading
<1> QED
  BY <1>1, <1>2, TaskStep

-----------------------------------------------------------------------------
(***************************************************************************)
(* The cache and the requests                                              *)
(***************************************************************************)
LEMMA DoneStep ==
    ASSUME IInv, NEW t \in Tasks, Done(t), UNCHANGED <<Storage, uploads, mishaps>>
    PROVE  IInv'
BY AnswerStep DEF Done, Answers

LEMMA RefusedStep ==
    ASSUME IInv, NEW t \in Tasks, Refused(t), UNCHANGED <<Storage, uploads, mishaps>>
    PROVE  IInv'
BY AnswerStep DEF Refused, Answers

LEMMA WriteCacheKeeps ==
    ASSUME IInv, NEW t \in Tasks, WriteCache(t)
    PROVE  IInv'
<1>1. UNCHANGED <<Storage, uploads, mishaps>> /\ task[t].step = "write"
  BY DEF WriteCache, Storage
<1>2. CASE Done(t)
  BY <1>1, <1>2, DoneStep
<1>3. CASE Goes(t, "list")
  BY <1>1, <1>3, FileStep DEF Steps
<1> QED
  BY <1>2, <1>3 DEF WriteCache

LEMMA ListCacheKeeps ==
    ASSUME IInv, NEW t \in Tasks, ListCache(t)
    PROVE  IInv'
<1>1. UNCHANGED <<Storage, uploads, mishaps>> /\ task[t].step = "list"
  BY DEF ListCache, Storage, Files
<1>2. CASE Done(t)
  BY <1>1, <1>2, DoneStep
<1>3. CASE ~Done(t)
  <2>1. PICK n, o : task' = [task EXCEPT ![t] =
            [step |-> "evict", digest |-> task[t].digest, size |-> n, others |-> o]]
    BY <1>3 DEF ListCache, IInv, TypeOK
  <2> DEFINE k == [step |-> "evict", digest |-> task[t].digest, size |-> n, others |-> o]
  <2>2. k.digest \in Digests
    BY <1>1, Steps1 DEF IInv, Steps, Short
  <2>3. /\ k = [step |-> "evict", digest |-> k.digest, size |-> k.size, others |-> k.others]
        /\ k.step = "evict" /\ k.digest = task[t].digest
    OBVIOUS
  <2>4. Shape(k)
    BY <2>2, <2>3 DEF Shape
  <2> HIDE DEF k
  <2>5. TaskTypes' /\ OthersStay(t) /\ task'[t] = k
    BY <2>1, <2>4, NewTask DEF IInv, k
  <2> QED
    BY <1>1, <2>3, <2>5, TaskStep DEF Reading
<1> QED
  BY <1>2, <1>3

LEMMA EvictKeeps ==
    ASSUME IInv, NEW t \in Tasks, Evict(t)
    PROVE  IInv'
<1>1. UNCHANGED <<Storage, uploads, mishaps>> /\ task[t].step = "evict"
  BY DEF Evict, Storage
<1>2. CASE Done(t)
  BY <1>1, <1>2, DoneStep
<1>3. CASE ~Done(t)
  <2> DEFINE j == task[t]
  <2> DEFINE k == [step |-> "evict", digest |-> j.digest, size |-> j.size - 1,
                   others |-> Tail(j.others)]
  <2>1. /\ j = [step |-> "evict", digest |-> j.digest, size |-> j.size, others |-> j.others]
        /\ j.digest \in Digests
    BY <1>1, Steps1 DEF IInv
  <2>4. task' = [task EXCEPT ![t] = k]
    BY <1>3 DEF Evict
  <2>5. /\ k = [step |-> "evict", digest |-> k.digest, size |-> k.size, others |-> k.others]
        /\ k.step = "evict" /\ k.digest = j.digest
    OBVIOUS
  <2>6. Shape(k)
    BY <2>1, <2>5 DEF Shape
  <2> HIDE DEF k
  <2>7. TaskTypes' /\ OthersStay(t) /\ task'[t] = k
    BY <2>4, <2>6, NewTask DEF IInv
  <2> QED
    BY <1>1, <2>5, <2>7, TaskStep DEF Reading
<1> QED
  BY <1>2, <1>3

LEMMA ContentKeeps ==
    ASSUME IInv, NEW r \in Readers, NEW d \in Digests, Content(r, d)
    PROVE  IInv'
<1> DEFINE k == [step |-> "lock", digest |-> d]
<1>1. UNCHANGED <<Storage, uploads, mishaps>> /\ r \in Tasks
  BY DEF Content, Storage, Files, Tasks
<1>2. k \in Short /\ k.step = "lock"
  BY DEF Short
<1>3. task' = [task EXCEPT ![r] = k]
  BY DEF Content
<1> HIDE DEF k
<1>4. TaskTypes' /\ OthersStay(r) /\ task'[r] = k
  BY <1>1, <1>2, <1>3, NewTask DEF IInv, Shape
<1> QED
  BY <1>1, <1>2, <1>4, TaskStep DEF Reading

LEMMA TakeLockKeeps ==
    ASSUME IInv, NEW r \in Readers, TakeLock(r)
    PROVE  IInv'
<1>1. UNCHANGED <<Storage, uploads, mishaps>> /\ r \in Tasks
  BY DEF TakeLock, Storage, Files, Tasks
<1>2. /\ TaskTypes' /\ OthersStay(r)
      /\ task'[r].step = "read" /\ task'[r].digest = task[r].digest
  BY <1>1, GoesOn DEF IInv, TakeLock, Steps
<1>3. TypeOK'
  BY <1>1, <1>2 DEF IInv, TypeOK, TaskTypes, Storage
<1>4. OneReader'
  <2>1. \A q \in Readers \ {r} :
            task'[q] = task[q] /\ (task[q].step \in Reading => task[q].digest # task[r].digest)
    BY <1>2 DEF TakeLock, OthersStay, Tasks, Digest
  <2> QED
    BY <1>2, <2>1 DEF IInv, OneReader, Digest
<1>5. task'[Importer].step \in {"upload", "insert"} => task'[Importer] = task[Importer]
  BY <1>2 DEF OthersStay, Tasks
<1>6. PutFirst' /\ Calm'
  BY <1>1, <1>5, StorageStays DEF IInv
<1> QED
  BY <1>3, <1>4, <1>6 DEF IInv

LEMMA ReadObjectKeeps ==
    ASSUME IInv, NEW r \in Readers, ReadObject(r)
    PROVE  IInv'
<1>1. UNCHANGED <<Storage, uploads, mishaps>> /\ r \in Tasks /\ task[r].step = "read"
  BY DEF ReadObject, Storage, Files, Tasks
<1>2. CASE \E s \in {"whole", "unavailable"} : Ends(r, s)
  BY <1>1, <1>2, AnswerStep DEF Answers
<1>3. CASE \E s \in {"open", "fetch"} : Goes(r, s)
  BY <1>1, <1>3, FileStep DEF Steps
<1>4. \/ \E s \in {"whole", "unavailable"} : Ends(r, s)
      \/ \E s \in {"open", "fetch"} : Goes(r, s)
  <2> DEFINE o == object[Digest(r)]
  <2>1. \/ o = "whole" /\ Ends(r, "whole")
        \/ o = "damaged" /\ Ends(r, "unavailable")
        \/ o # "whole" /\ o # "damaged" /\ Goes(r, IF InCache(Digest(r)) THEN "open" ELSE "fetch")
    BY DEF ReadObject
  <2> QED
    BY <2>1
<1> QED
  BY <1>2, <1>3, <1>4

LEMMA OpenKeeps ==
    ASSUME IInv, NEW r \in Readers, Open(r)
    PROVE  IInv'
<1>1. UNCHANGED <<Storage, uploads, mishaps>> /\ r \in Tasks /\ task[r].step = "open"
  BY DEF Open, Storage, Tasks
<1>2. CASE \E s \in {"whole", "unavailable"} : Ends(r, s)
  BY <1>1, <1>2, AnswerStep DEF Answers
<1>3. CASE Goes(r, "fetch")
  BY <1>1, <1>3, FileStep DEF Steps
<1> QED
  BY <1>2, <1>3 DEF Open

LEMMA FetchKeeps ==
    ASSUME IInv, NEW r \in Readers, Fetch(r)
    PROVE  IInv'
<1>1. UNCHANGED <<Storage, uploads, mishaps>> /\ r \in Tasks /\ task[r].step = "fetch"
  BY DEF Fetch, Storage, Files, Tasks
<1>2. CASE Refused(r)
  BY <1>1, <1>2, RefusedStep
<1>3. CASE Goes(r, "write")
  BY <1>1, <1>3, FileStep DEF Steps
<1> QED
  BY <1>2, <1>3 DEF Fetch

-----------------------------------------------------------------------------
(***************************************************************************)
(* The rest of the world                                                   *)
(***************************************************************************)

LEMMA DieKeeps ==
    ASSUME IInv, Die
    PROVE  IInv'
<1>0. UNCHANGED <<Storage, uploads, mishaps>> /\ Importer \in Tasks /\ Readers \subseteq Tasks
  BY DEF Die, Storage, Files, Tasks
<1>1. CASE task' = [task EXCEPT ![Importer] = Resting]
  BY <1>0, <1>1, AnswerStep DEF Ends, Answers, Resting
<1>2. CASE task' = [t \in Tasks |-> IF t = Importer THEN task[t] ELSE Resting]
  <2>1. \A t \in Tasks : task'[t] = IF t = Importer THEN task[t] ELSE Resting
    BY <1>2
  <2>2. Resting \in Answered /\ Resting.step = "idle"
    BY DEF Resting, Answered
  <2>3. TypeOK'
    BY <1>0, <1>2, <2>1, <2>2 DEF IInv, TypeOK, Shape, Storage
  <2>4. OneReader'
    BY <1>0, <2>1, <2>2 DEF IInv, OneReader, Reading, Digest
  <2>5. task'[Importer] = task[Importer]
    BY <1>0, <2>1
  <2>6. PutFirst' /\ Calm'
    BY <1>0, <2>5, StorageStays DEF IInv
  <2> QED
    BY <2>3, <2>4, <2>6 DEF IInv
<1> QED
  BY <1>1, <1>2 DEF Die

\* After a mishap only the rows of the index matter, and that their files were put.
LEMMA AfterMishap ==
    ASSUME IInv, Mishap, TypeOK', OneReader', UNCHANGED <<index, remoteId>>,
           \A d \in Digests : object[d] # "none" => object'[d] # "none",
           task'[Importer].step = "insert" => task'[Importer] = task[Importer]
    PROVE  IInv'
<1>1. mishaps' # 0
  BY DEF IInv, TypeOK, Mishap
<1>2. \A e \in index : e.digest \in Digests
  BY DEF IInv, TypeOK, Digests
<1>3. task[Importer].step = "insert" => task[Importer].digest \in Digests
  BY Steps1 DEF IInv, Tasks, Importing, ImportSteps
<1>4. PutFirst'
  BY <1>2, <1>3 DEF IInv, PutFirst, Digest
<1> QED
  BY <1>1, <1>4 DEF IInv, Calm

LEMMA DamageKeeps ==
    ASSUME IInv, Damage
    PROVE  IInv'
<1>1. /\ UNCHANGED <<remote, uploads, late, task, index, remoteId>>
      /\ Mishap /\ mishaps' \in Nat
  BY DEF Damage, Mishap, IInv, TypeOK
<1>2. /\ private' \in BOOLEAN
      /\ object' \in [Digests -> {"none", "whole", "damaged"}]
      /\ \A d \in Digests : object[d] # "none" => object'[d] # "none"
      /\ drive' \subseteq [id : Nat \ {0}, digest : Digests, whole : BOOLEAN]
  <2> USE DEF IInv, TypeOK
  <2>1. CASE /\ \E d \in Digests :
                 object[d] = "whole" /\ object' = [object EXCEPT ![d] = "damaged"]
             /\ UNCHANGED <<cached, drive, private>>
    BY <2>1
  <2>2. CASE UNCHANGED <<object, drive, private>>
    BY <2>2
  <2>3. CASE /\ \E f \in drive :
                 \/ drive' = drive \ {f}
                 \/ drive' = (drive \ {f}) \cup {[f EXCEPT !.whole = FALSE]}
             /\ UNCHANGED <<object, cached, private>>
    BY <2>3
  <2>4. CASE private' = ~private /\ UNCHANGED <<object, cached, drive>>
    BY <2>4
  <2> QED
    BY <2>1, <2>2, <2>3, <2>4 DEF Damage
<1>3. TypeOK'
  BY <1>1, <1>2 DEF IInv, TypeOK
<1>4. OneReader'
  BY <1>1 DEF IInv, OneReader, Digest
<1> QED
  BY <1>1, <1>2, <1>3, <1>4, AfterMishap

LEMMA TimeOutKeeps ==
    ASSUME IInv, TimeOut
    PROVE  IInv'
<1>0. Importer \in Tasks
  BY DEF Tasks
<1>1. /\ UNCHANGED <<remote, object, drive, uploads, private, index, remoteId>>
      /\ Mishap /\ mishaps' \in Nat /\ Ends(Importer, "failed")
  BY DEF TimeOut, Mishap, IInv, TypeOK
<1>2. TaskTypes' /\ OthersStay(Importer) /\ task'[Importer].step = "failed"
  BY <1>0, <1>1, AnswersTask DEF IInv, Answers
<1>3. late' \subseteq Digests
  BY <1>0, Steps1 DEF IInv, TypeOK, TimeOut, Digest, Importing, ImportSteps
<1>4. TypeOK'
  BY <1>1, <1>2, <1>3 DEF IInv, TypeOK, TaskTypes
<1>5. OneReader'
  BY <1>0, <1>2, LockStays DEF IInv, Reading
<1> QED
  BY <1>1, <1>2, <1>4, <1>5, AfterMishap

LEMMA ReconfigureKeeps ==
    ASSUME IInv, Reconfigure
    PROVE  IInv'
<1>1. /\ UNCHANGED <<Files, task, index, remoteId>> /\ remote' \in BOOLEAN
      /\ Mishap /\ mishaps' \in Nat
  BY DEF Reconfigure, Mishap, IInv, TypeOK
<1>2. TypeOK'
  BY <1>1 DEF IInv, TypeOK, Files
<1>3. OneReader'
  BY <1>1 DEF IInv, OneReader, Digest
<1> QED
  BY <1>1, <1>2, <1>3, AfterMishap DEF Files

-----------------------------------------------------------------------------
(***************************************************************************)
(* Import                                                                  *)
(***************************************************************************)

LEMMA ImportKeeps ==
    ASSUME IInv, NEW e \in Entries, Import(e)
    PROVE  IInv'
<1> DEFINE k == Row("put", e)
<1>1. UNCHANGED <<Storage, uploads, mishaps>> /\ Importer \in Tasks
  BY DEF Import, Storage, Files, Tasks
<1>2. k \in Importing /\ k.step = "put" /\ k.digest = k.entry.digest /\ k.id = 0
  BY DEF Row, Importing, Digests
<1>3. task' = [task EXCEPT ![Importer] = k]
  BY DEF Import
<1> HIDE DEF k
<1>4. TaskTypes' /\ OthersStay(Importer) /\ task'[Importer] = k
  BY <1>1, <1>2, <1>3, NewTask DEF IInv, Shape
<1> QED
  BY <1>1, <1>2, <1>4, TaskStep DEF Reading

\* The command where it has the file of the entry at hand.
LEMMA ImportTyped ==
    ASSUME IInv, task[Importer].step \in ImportSteps
    PROVE  /\ Importer \in Tasks /\ task[Importer].entry \in Entries
           /\ task[Importer].digest = task[Importer].entry.digest
           /\ task[Importer].digest \in Digests /\ task[Importer].id \in Nat
           /\ task[Importer].step = "insert" \/ task[Importer].id = 0
BY Steps1 DEF IInv, Tasks, Importing

LEMMA PutObjectKeeps ==
    ASSUME IInv, PutObject
    PROVE  IInv'
<1> DEFINE d == Digest(Importer)
<1>1. /\ UNCHANGED <<remote, drive, uploads, private, late, index, remoteId, mishaps>>
      /\ task[Importer].step = "put" /\ ~remote
  BY DEF PutObject
<1>2. /\ Importer \in Tasks /\ d \in Digests /\ task[Importer].id = 0
  BY <1>1, ImportTyped DEF Digest, ImportSteps
<1>3. CASE Ends(Importer, "failed") /\ UNCHANGED object
  BY <1>1, <1>2, <1>3, AnswerStep DEF Answers, Storage
<1>4. CASE Goes(Importer, "insert") /\ object' = [object EXCEPT ![d] = "whole"]
  <2>1. /\ TaskTypes' /\ OthersStay(Importer)
        /\ task'[Importer].step = "insert" /\ task'[Importer].id = 0
        /\ task'[Importer].digest = d
    BY <1>1, <1>2, <1>4, ImportGoesOn DEF IInv, ImportSteps, Digest
  <2>2. /\ object' \in [Digests -> {"none", "whole", "damaged"}] /\ object'[d] = "whole"
        /\ \A c \in Digests \ {d} : object'[c] = object[c]
    BY <1>2, <1>4 DEF IInv, TypeOK
  <2>3. TypeOK'
    BY <1>1, <2>1, <2>2 DEF IInv, TypeOK, TaskTypes
  <2>4. OneReader'
    BY <1>2, <2>1, LockStays DEF IInv, Reading
  <2>5. \A e \in index : e.digest \in Digests
    BY DEF IInv, TypeOK, Digests
  <2>6. PutFirst'
    BY <1>1, <2>1, <2>2, <2>5 DEF IInv, PutFirst, Digest
  <2>7. Calm'
    BY <1>1, <2>1, <2>2, <2>5 DEF IInv, Calm, Kept, Digest
  <2> QED
    BY <2>3, <2>4, <2>6, <2>7 DEF IInv
<1> QED
  BY <1>3, <1>4 DEF PutObject

\* The file of the row is found or stored: the command inserts the row next.
LEMMA NamedStep ==
    ASSUME IInv, NEW id \in Nat \ {0}, HasId(id), TypeOK', Calm',
           task[Importer].step \in {"put", "upload"}, UNCHANGED <<index, object, remoteId>>
    PROVE  IInv'
<1>1. Importer \in Tasks
  BY DEF Tasks
<1>2. /\ OthersStay(Importer)
      /\ task'[Importer].step = "insert" /\ task'[Importer].id = id
  BY ImportGoesOn DEF IInv, ImportSteps
<1>3. OneReader'
  BY <1>1, <1>2, LockStays DEF IInv, Reading
<1>4. PutFirst'
  BY <1>2 DEF IInv, PutFirst
<1> QED
  BY <1>3, <1>4 DEF IInv

LEMMA FindCopyKeeps ==
    ASSUME IInv, FindCopy
    PROVE  IInv'
<1> DEFINE d == Digest(Importer)
<1>1. /\ UNCHANGED <<Storage, uploads, mishaps>>
      /\ task[Importer].step = "put" /\ remote
  BY DEF FindCopy, Storage, Files
<1>2. Importer \in Tasks /\ d \in Digests
  BY <1>1, ImportTyped DEF Digest, ImportSteps
<1>3. CASE Refused(Importer)
  BY <1>1, <1>2, <1>3, RefusedStep
<1>4. CASE Copies(d) = {} /\ Goes(Importer, "upload")
  <2>1. /\ TaskTypes' /\ OthersStay(Importer)
        /\ task'[Importer].step = "upload" /\ task'[Importer].digest = d
    BY <1>1, <1>2, <1>4, ImportTyped, ImportGoesOn DEF IInv, ImportSteps, Digest
  <2>2. TypeOK'
    BY <1>1, <2>1 DEF IInv, TypeOK, TaskTypes, Storage
  <2>3. OneReader'
    BY <1>2, <2>1, LockStays DEF IInv, Reading
  <2>4. PutFirst'
    BY <1>1, <2>1 DEF IInv, PutFirst, Storage
  <2>5. Calm'
    BY <1>1, <1>4, <2>1 DEF IInv, Calm, Storage, Kept, Copies, Digest
  <2> QED
    BY <2>2, <2>3, <2>4, <2>5 DEF IInv
<1>5. ASSUME NEW f \in Copies(d), HasId(f.id)
      PROVE  IInv'
  <2>1. f \in drive /\ f.digest = d /\ f.id \in Nat \ {0}
    BY <1>5 DEF Copies, IInv, TypeOK
  <2>2. /\ TaskTypes' /\ OthersStay(Importer)
        /\ task'[Importer].step = "insert" /\ task'[Importer].id = f.id
        /\ task'[Importer].digest = d
    BY <1>1, <1>5, <2>1, ImportGoesOn DEF IInv, ImportSteps, Digest
  <2>3. TypeOK'
    BY <1>1, <2>2 DEF IInv, TypeOK, TaskTypes, Storage
  <2>4. Calm'
    BY <1>1, <2>1, <2>2 DEF IInv, Calm, Storage, Kept, Copies, Digest
  <2> QED
    BY <1>1, <1>5, <2>1, <2>3, <2>4, NamedStep DEF Storage
<1> QED
  BY <1>3, <1>4, <1>5 DEF FindCopy

\* A file more in the folder, where there was none of its digest if nothing has
\* gone wrong.
LEMMA StoresKeeps ==
    ASSUME IInv, NEW d \in Digests, Stores(d), UNCHANGED <<remote, object>>,
           mishaps = 0 => Copies(d) = {}
    PROVE  /\ drive' \subseteq [id : Nat \ {0}, digest : Digests, whole : BOOLEAN]
           /\ uploads' \in Nat /\ uploads + 1 \in Nat \ {0}
           /\ \A c, id : Kept(c, id) => Kept(c, id)'
           /\ \A id : remote /\ id = uploads + 1 => Kept(d, id)'
           /\ mishaps = 0 =>
                 /\ \A f \in drive' : f.whole
                 /\ \A f, g \in drive' : f.digest = g.digest => f = g
<1> DEFINE n == NewFile(d)
<1>1. /\ n \in [id : Nat \ {0}, digest : Digests, whole : BOOLEAN]
      /\ n.digest = d /\ n.id = uploads + 1 /\ n.whole
      /\ uploads \in Nat /\ uploads + 1 \in Nat \ {0}
  BY DEF IInv, TypeOK, NewFile
<1>2. drive' = drive \cup {n} /\ uploads' = uploads + 1
  BY DEF Stores
<1> HIDE DEF n
<1>3. mishaps = 0 =>
          /\ \A f \in drive' : f.whole
          /\ \A f, g \in drive' : f.digest = g.digest => f = g
  BY <1>1, <1>2 DEF IInv, Calm, Copies
<1>4. /\ \A c, id : Kept(c, id) => Kept(c, id)'
      /\ \A id : remote /\ id = uploads + 1 => Kept(d, id)'
  BY <1>1, <1>2 DEF Kept
<1>5. drive' \subseteq [id : Nat \ {0}, digest : Digests, whole : BOOLEAN]
  BY <1>1, <1>2 DEF IInv, TypeOK
<1> QED
  BY <1>1, <1>2, <1>3, <1>4, <1>5

LEMMA UploadKeeps ==
    ASSUME IInv, Upload
    PROVE  IInv'
<1>0. PICK d, new : d = Digest(Importer) /\ new = uploads + 1
  OBVIOUS
<1>1. /\ UNCHANGED <<remote, object, private, late, index, remoteId, mishaps>>
      /\ task[Importer].step = "upload"
  BY DEF Upload
<1>2. Importer \in Tasks /\ d \in Digests
  BY <1>0, <1>1, ImportTyped DEF Digest, ImportSteps
<1>3. mishaps = 0 => Copies(d) = {} /\ remote
  BY <1>0, <1>1 DEF IInv, Calm
<1>4. CASE UNCHANGED <<drive, uploads>> /\ Refused(Importer)
  BY <1>1, <1>2, <1>4, RefusedStep DEF Storage
<1>5. CASE Stores(d) /\ Refused(Importer)
  <2>1. /\ TaskTypes' /\ OthersStay(Importer) /\ task'[Importer].step = "failed"
    BY <1>2, <1>5, AnswersTask DEF Refused, Answers, IInv
  <2>2. /\ drive' \subseteq [id : Nat \ {0}, digest : Digests, whole : BOOLEAN]
        /\ uploads' \in Nat
        /\ \A c, id : Kept(c, id) => Kept(c, id)'
        /\ mishaps = 0 =>
              /\ \A f \in drive' : f.whole
              /\ \A f, g \in drive' : f.digest = g.digest => f = g
    BY <1>1, <1>2, <1>3, <1>5, StoresKeeps
  <2>3. TypeOK'
    BY <1>1, <2>1, <2>2 DEF IInv, TypeOK, TaskTypes
  <2>4. OneReader'
    BY <1>2, <2>1, LockStays DEF IInv, Reading
  <2>5. PutFirst'
    BY <1>1, <2>1 DEF IInv, PutFirst
  <2>6. Calm'
    BY <1>1, <2>1, <2>2 DEF IInv, Calm
  <2> QED
    BY <2>3, <2>4, <2>5, <2>6 DEF IInv
<1>6. CASE Stores(d) /\ HasId(new)
  <2>1. /\ drive' \subseteq [id : Nat \ {0}, digest : Digests, whole : BOOLEAN]
        /\ uploads' \in Nat /\ new \in Nat \ {0}
        /\ \A c, id : Kept(c, id) => Kept(c, id)'
        /\ remote => Kept(d, new)'
        /\ mishaps = 0 =>
              /\ \A f \in drive' : f.whole
              /\ \A f, g \in drive' : f.digest = g.digest => f = g
    BY <1>0, <1>1, <1>2, <1>3, <1>6, StoresKeeps
  <2>2. /\ TaskTypes'
        /\ task'[Importer].step = "insert" /\ task'[Importer].id = new
        /\ task'[Importer].digest = d
    BY <1>0, <1>1, <1>6, <2>1, ImportGoesOn DEF IInv, ImportSteps, Digest
  <2>3. TypeOK'
    BY <1>1, <2>1, <2>2 DEF IInv, TypeOK, TaskTypes
  <2>4. Calm'
    BY <1>1, <1>3, <2>1, <2>2 DEF IInv, Calm, Digest, Kept
  <2> QED
    BY <1>1, <1>6, <2>1, <2>3, <2>4, NamedStep
<1> QED
  BY <1>0, <1>4, <1>5, <1>6 DEF Upload

LEMMA ArriveLateKeeps ==
    ASSUME IInv, NEW d \in Digests, ArriveLate(d)
    PROVE  IInv'
<1>1. /\ UNCHANGED <<remote, object, private, index, remoteId, task, mishaps>>
      /\ Stores(d) /\ late' \subseteq late /\ mishaps # 0
  BY DEF ArriveLate, IInv, Calm
<1>2. /\ drive' \subseteq [id : Nat \ {0}, digest : Digests, whole : BOOLEAN]
      /\ uploads' \in Nat
  BY <1>1, StoresKeeps
<1>3. TypeOK'
  BY <1>1, <1>2 DEF IInv, TypeOK
<1>4. OneReader' /\ PutFirst'
  BY <1>1 DEF IInv, OneReader, PutFirst, Digest
<1>5. Calm'
  BY <1>1 DEF Calm
<1> QED
  BY <1>3, <1>4, <1>5 DEF IInv

LEMMA InsertKeeps ==
    ASSUME IInv, Insert, Importer \notin Readers
    PROVE  IInv'
<1> DEFINE j == task[Importer]
<1>1. /\ UNCHANGED <<remote, object, drive, uploads, private, late, mishaps>>
      /\ j.step = "insert" /\ index' = index \cup {j.entry}
  BY DEF Insert, Files
<1>2. /\ Importer \in Tasks /\ j.entry \in Entries
      /\ j.digest = j.entry.digest /\ j.digest \in Digests /\ j.id \in Nat
  BY <1>1, ImportTyped DEF ImportSteps
<1>3. /\ TaskTypes' /\ OthersStay(Importer)
      /\ task'[Importer].step \in {"write", "stored"}
  <2>1. CASE task' = [task EXCEPT ![Importer] = [step |-> "write", digest |-> j.digest]]
    <3> DEFINE k == [step |-> "write", digest |-> j.digest]
    <3>1. k \in Short /\ k.step = "write"
      BY <1>2 DEF Short
    <3> HIDE DEF k
    <3> QED
      BY <1>2, <2>1, <3>1, NewTask DEF IInv, Shape, k
  <2>2. CASE Ends(Importer, "stored")
    BY <1>2, <2>2, AnswersTask DEF IInv, Answers
  <2> QED
    BY <2>1, <2>2 DEF Insert
<1>4. /\ remoteId' \in [Digests -> Nat]
      /\ \A d \in Digests \ {j.digest} : remoteId'[d] = remoteId[d]
      /\ remoteId'[j.digest] = IF j.id # 0 THEN j.id ELSE remoteId[j.digest]
  BY <1>2 DEF Insert, IInv, TypeOK
<1>5. TypeOK'
  BY <1>1, <1>2, <1>3, <1>4 DEF IInv, TypeOK, TaskTypes
<1>6. OneReader'
  BY <1>2, <1>3, LockStays DEF IInv
<1>7. \A e \in index : e.digest \in Digests
  BY DEF IInv, TypeOK, Digests
<1>8. PutFirst'
  <2>1. j.id # 0 \/ object[j.digest] # "none"
    BY <1>1 DEF IInv, PutFirst, Digest
  <2>2. \A e \in index' : object'[e.digest] # "none" \/ remoteId'[e.digest] # 0
    BY <1>1, <1>2, <1>4, <1>7, <2>1 DEF IInv, PutFirst
  <2> QED
    BY <1>3, <2>2 DEF PutFirst
<1>9. Calm'
  <2> SUFFICES ASSUME mishaps = 0
               PROVE  \A e \in index' : Kept(e.digest, remoteId[e.digest])'
    BY <1>1, <1>3 DEF IInv, Calm
  <2>1. Kept(j.digest, j.id)
    BY <1>1 DEF IInv, Calm, Digest
  <2>3. Kept(j.digest, remoteId'[j.digest])
    <3>1. CASE remote
      <4>1. \A f \in drive : f.id # 0
        BY DEF IInv, TypeOK
      <4>2. j.id # 0
        BY <2>1, <3>1, <4>1 DEF Kept
      <4> QED
        BY <1>4, <2>1, <4>2
    <3>2. CASE ~remote
      BY <2>1, <3>2 DEF Kept
    <3> QED
      BY <3>1, <3>2
  <2>4. \A e \in index : Kept(e.digest, remoteId'[e.digest])
    BY <1>4, <1>7, <2>3 DEF IInv, Calm
  <2> QED
    BY <1>1, <1>2, <2>3, <2>4 DEF Kept
<1> QED
  BY <1>5, <1>6, <1>8, <1>9 DEF IInv

-----------------------------------------------------------------------------
LEMMA NextKeeps ==
    ASSUME Importer \notin Readers, IInv, [Next]_libraryVars
    PROVE  IInv'
<1> Readers \subseteq Tasks
  BY DEF Tasks
<1>1. CASE UNCHANGED libraryVars
  BY <1>1 DEF libraryVars, IInv, TypeOK, OneReader, PutFirst, Calm, Kept, Copies, Digest
<1>2. CASE Next
  BY <1>2, ImportKeeps, PutObjectKeeps, FindCopyKeeps, UploadKeeps, InsertKeeps,
     WriteCacheKeeps, ListCacheKeeps, EvictKeeps, TakeLockKeeps, ReadObjectKeeps,
     OpenKeeps, FetchKeeps, ContentKeeps, DieKeeps, DamageKeeps, TimeOutKeeps,
     ReconfigureKeeps, ArriveLateKeeps DEF Next
<1> QED
  BY <1>1, <1>2

-----------------------------------------------------------------------------
(***************************************************************************)
(* What the invariant says                                                 *)
(***************************************************************************)

\* A row has its file, which can be read now and is listed.
LEMMA RowsAreReadable ==
    ASSUME IInv, mishaps = 0
    PROVE  \A e \in index : Readable(e.digest) /\ Found(e.episode)
<1>1. ASSUME NEW e \in index
      PROVE  Readable(e.digest) /\ (object[e.digest] # "none" \/ HasRemote(e.digest))
  <2>1. Kept(e.digest, remoteId[e.digest])
    BY DEF IInv, Calm
  <2>2. CASE remote
    <3>1. PICK f \in drive : f.digest = e.digest /\ f.id = remoteId[e.digest]
      BY <2>1, <2>2 DEF Kept
    <3>2. f.id # 0 /\ f.whole /\ private
      BY DEF IInv, TypeOK, Calm
    <3>3. f \in Copies(e.digest) /\ Gets(f)
      BY <3>1, <3>2 DEF Copies, Gets, CheckFolder, ValidateFile
    <3> QED
      BY <2>2, <3>1, <3>2, <3>3 DEF Readable, HasRemote
  <2>3. CASE ~remote
    BY <2>1, <2>3 DEF Kept, Readable
  <2> QED
    BY <2>2, <2>3
<1> QED
  BY <1>1 DEF Found

LEMMA OneCopy ==
    ASSUME IInv, mishaps = 0, NEW d \in Digests
    PROVE  Cardinality(Copies(d)) <= 1
<1>1. \A f, g \in Copies(d) : f = g
  BY DEF IInv, Calm, Copies
<1>2. CASE Copies(d) = {}
  BY <1>2, FS_EmptySet
<1>3. CASE Copies(d) # {}
  <2>1. PICK f \in Copies(d) : Copies(d) = {f}
    BY <1>1, <1>3
  <2> QED
    BY <2>1, FS_Singleton, 1 <= 1
<1> QED
  BY <1>2, <1>3

LEMMA CompleteIsReadable ==
    ASSUME IInv, mishaps = 0, Coverage = "complete_for_known_episodes", NEW n \in 1..Total
    PROVE  \E e \in index : e.reviewed /\ e.episode = n /\ Readable(e.digest)
<1> DEFINE matching == CoveredEpisodes \cap (1..Total)
<1>1. matching = 1..Total
  <2>1. CASE Total = 0
    BY <2>1 DEF Coverage
  <2>2. CASE Total # 0 /\ matching # 1..Total
    BY <2>2 DEF Coverage
  <2> QED
    BY <2>1, <2>2
<1>2. PICK e \in index : e.reviewed /\ e.episode = n
  BY <1>1 DEF CoveredEpisodes
<1> QED
  BY <1>2, RowsAreReadable

LEMMA ReadsFollow ==
    ASSUME IInv
    PROVE  ReadsAreTrue
<1>1. \A r \in Readers : task[r].step # "damaged"
  <2> SUFFICES ASSUME NEW r \in Readers PROVE task[r].step # "damaged"
    OBVIOUS
  <2>1. Shape(task[r])
    BY DEF IInv, TypeOK, Tasks
  <2>2. CASE task[r] \in Answered \/ task[r] \in Importing \/ task[r] \in Short
    BY <2>2 DEF Answered, Importing, Short
  <2>3. CASE task[r] = [step |-> "evict", digest |-> task[r].digest,
                        size |-> task[r].size, others |-> task[r].others]
    BY <2>3
  <2> QED
    BY <2>1, <2>2, <2>3 DEF Shape
<1>2. \A e \in index : object[e.digest] # "none" \/ remoteId[e.digest] # 0
  BY DEF IInv, PutFirst
<1>3. \A q, r \in Readers :
          task[q].step = "fetch" /\ task[r].step = "fetch" /\ Digest(q) = Digest(r) => q = r
  BY DEF IInv, OneReader, Reading
<1> QED
  BY <1>1, <1>2, <1>3 DEF ReadsAreTrue

-----------------------------------------------------------------------------
LEMMA Invariance ==
    ASSUME Importer \notin Readers
    PROVE  Spec => []IInv
<1>1. Init => IInv
  BY InitHolds
<1>2. IInv /\ [Next]_libraryVars => IInv'
  BY NextKeeps
<1> QED
  BY <1>1, <1>2, PTL DEF Spec

\* For every manifest, cache and number of requests: while no file is damaged,
\* lost or late and the storage stays, a row of the index has its file, the folder
\* one copy of it, and a complete title all its files (the order of ingest and of
\* GoogleDriveBlobs.put).
THEOREM StoredCorrect ==
    ASSUME Importer \notin Readers
    PROVE  Spec => []StoredIsReadable
<1>1. IInv => StoredIsReadable
  BY RowsAreReadable, OneCopy, CompleteIsReadable DEF StoredIsReadable
<1> QED
  BY <1>1, Invariance, PTL

\* For every number of mishaps as well: no request is given what is not its file,
\* and one request at a time downloads a file (_read_blob).
THEOREM ReadsCorrect ==
    ASSUME Importer \notin Readers
    PROVE  Spec => []ReadsAreTrue
<1>1. IInv => ReadsAreTrue
  BY ReadsFollow
<1> QED
  BY <1>1, Invariance, PTL
=============================================================================
