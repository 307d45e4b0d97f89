-------------------------- MODULE SubtitleLibrary --------------------------
(***************************************************************************)
(* The subtitles that the server keeps: server/server/subtitle_library.py, *)
(* an index in SQLite of files named by their SHA-256, which are objects   *)
(* on the disk or files of a private folder of Google Drive                *)
(* (subtitle_google_drive.py) with a bounded cache.  Only a command of the *)
(* operator writes (tools/subtitle_library.py, one command at a time); the *)
(* threads of the server read.                                             *)
(***************************************************************************)
EXTENDS Naturals, Sequences, FiniteSets

CONSTANTS
    Entries,        \* rows of manifests: [digest, episode, reviewed, allowed, cues]
    Importer,       \* the command
    Readers,        \* requests at a time
    CacheSize,      \* SUBTITLE_CACHE_MAX_MB, in files
    MaxCues,        \* 50000
    Total,          \* total_episodes of the title
    MaxMishaps      \* bound: what goes wrong with files, folder and configuration

VARIABLES
    remote,     \* SUBTITLE_BLOB_STORAGE is google_drive
    object,     \* objects/, by digest
    cached,     \* cache/, the least recently used first
    drive,      \* the files of the folder: [id, digest, whole]
    uploads,    \* how many files the folder has ever had
    private,    \* whether the folder is not shared
    late,       \* digests of uploads that timed out and are not stored yet
    index,      \* subtitles
    remoteId,   \* remote_blobs, 0 for no row
    task,       \* what the command and each request are doing
    mishaps     \* how much went wrong

libraryVars ==
    <<remote, object, cached, drive, uploads, private, late, index, remoteId, task, mishaps>>

Digests == {e.digest : e \in Entries}
Tasks == {Importer} \cup Readers

Resting == [step |-> "idle"]

Init ==
    /\ remote \in BOOLEAN /\ private = TRUE
    /\ object = [d \in Digests |-> "none"] /\ cached = <<>>
    /\ drive = {} /\ uploads = 0 /\ late = {} /\ index = {}
    /\ remoteId = [d \in Digests |-> 0]
    /\ task = [t \in Tasks |-> Resting] /\ mishaps = 0

Digest(t) == task[t].digest

\* The task goes on, or ends with an answer and may be given another one.
Goes(t, step) == task' = [task EXCEPT ![t].step = step]
Ends(t, answer) == task' = [task EXCEPT ![t] = [step |-> answer]]
Free(t) ==
    task[t].step \in {"idle", "stored", "failed", "whole", "damaged", "unavailable"}

\* Drive refuses: no token, no permission, no quota, no network, or an answer that
\* is not what it should be.
Refused(t) == Ends(t, IF t = Importer THEN "failed" ELSE "unavailable")

Files == <<object, cached, drive, uploads, private, late>>

-----------------------------------------------------------------------------
(***************************************************************************)
(* Import                                                                  *)
(***************************************************************************)

\* LibraryEntry and validate_subtitle_bytes.
Accepts(e) == e.allowed /\ e.cues \in 1..MaxCues

Row(step, e) == [step |-> step, entry |-> e, digest |-> e.digest, id |-> 0]

\* Mutant: the row is inserted before the file is stored.
MutantImport(e) ==
    /\ Free(Importer) /\ Accepts(e)
    /\ task' = [task EXCEPT ![Importer] = Row("put", e)]
    /\ index' = index \cup {e}
    /\ UNCHANGED <<remote, Files, remoteId, mishaps>>

\* import_manifest, one row of it, with --apply.
Import(e) ==
    /\ Free(Importer) /\ Accepts(e)
    /\ task' = [task EXCEPT ![Importer] = Row("put", e)]
    /\ UNCHANGED <<remote, Files, index, remoteId, mishaps>>

\* ingest without Drive: an object that is there is read again, or it is written
\* in one step (_atomic_blob).
PutObject ==
    LET d == Digest(Importer) IN
    /\ task[Importer].step = "put" /\ ~remote
    /\ IF object[d] = "damaged"
         THEN Ends(Importer, "failed") /\ UNCHANGED object
         ELSE Goes(Importer, "insert") /\ object' = [object EXCEPT ![d] = "whole"]
    /\ UNCHANGED <<remote, cached, drive, uploads, private, late, index, remoteId, mishaps>>

HasId(id) == task' = [task EXCEPT ![Importer].step = "insert", ![Importer].id = id]

Copies(d) == {f \in drive : f.digest = d}

\* Each request checks that the folder is private, and the file with it.
CheckFolder == private
ValidateFile(f) == private /\ f \in drive

\* GoogleDriveBlobs.get: the folder, the file, then its bytes.
Gets(f) == CheckFolder /\ ValidateFile(f) /\ f.whole

\* Mutant: put does not look for the file before it uploads one.
MutantFindCopy ==
    /\ task[Importer].step = "put" /\ remote
    /\ Goes(Importer, "upload")
    /\ UNCHANGED <<remote, Files, index, remoteId, mishaps>>

\* GoogleDriveBlobs.put asks for files of this digest: one is read again, none is
\* uploaded, two are an error.
FindCopy ==
    LET copies == Copies(Digest(Importer)) IN
    /\ task[Importer].step = "put" /\ remote
    /\ \/ Refused(Importer)
       \/ CheckFolder /\ copies = {} /\ Goes(Importer, "upload")
       \/ /\ Cardinality(copies) = 1
          /\ \E f \in copies : Gets(f) /\ HasId(f.id)
    /\ UNCHANGED <<remote, Files, index, remoteId, mishaps>>

NewFile(d) == [id |-> uploads + 1, digest |-> d, whole |-> TRUE]
Stores(d) == drive' = drive \cup {NewFile(d)} /\ uploads' = uploads + 1

\* The upload and the check of what was uploaded (_validate_file): it may not
\* arrive, arrive without an answer to the command, or be in a folder that has
\* been shared in the meantime.
Upload ==
    /\ task[Importer].step = "upload"
    /\ \/ UNCHANGED <<drive, uploads>> /\ Refused(Importer)
       \/ Stores(Digest(Importer)) /\ Refused(Importer)
       \/ Stores(Digest(Importer)) /\ private /\ HasId(uploads + 1)
    /\ UNCHANGED <<remote, object, cached, private, late, index, remoteId, mishaps>>

\* One transaction: INSERT OR IGNORE of the row, INSERT OR REPLACE of the file.
Insert ==
    LET t == task[Importer] IN
    /\ t.step = "insert"
    /\ index' = index \cup {t.entry}
    /\ IF t.id # 0
         THEN /\ remoteId' = [remoteId EXCEPT ![t.digest] = t.id]
              /\ task' = [task EXCEPT ![Importer] =
                    [step |-> "write", digest |-> t.digest]]
         ELSE UNCHANGED remoteId /\ Ends(Importer, "stored")
    /\ UNCHANGED <<remote, Files, mishaps>>

-----------------------------------------------------------------------------
(***************************************************************************)
(* The cache, which the command and the server share without a lock        *)
(***************************************************************************)
InCache(d) == \E i \in DOMAIN cached : cached[i].digest = d
WithoutCopy(d) == SelectSeq(cached, LAMBDA c : c.digest # d)

Copy(d) == [digest |-> d, whole |-> TRUE]

\* What a task has when it is done with the cache, or the cache has failed.
Done(t) == Ends(t, IF t = Importer THEN "stored" ELSE "whole")

\* _cache_blob: the file first; a disk that is full is no failure.
WriteCache(t) ==
    /\ task[t].step = "write"
    /\ \/ Done(t) /\ UNCHANGED cached
       \/ /\ CacheSize > 0
          /\ cached' = Append(WithoutCopy(Digest(t)), Copy(Digest(t)))
          /\ Goes(t, "list")
    /\ UNCHANGED <<remote, object, drive, uploads, private, late, index, remoteId, mishaps>>

\* Then the others are listed; one that is gone before its time is read ends it.
ListCache(t) ==
    /\ task[t].step = "list"
    /\ \/ task' = [task EXCEPT ![t] =
             [step |-> "evict", digest |-> @.digest, size |-> Len(cached),
              others |-> [i \in DOMAIN WithoutCopy(@.digest) |->
                             WithoutCopy(@.digest)[i].digest]]]
       \/ (\E u \in Tasks \ {t} : task[u].step = "evict") /\ Done(t)
    /\ UNCHANGED <<remote, Files, index, remoteId, mishaps>>

\* And the oldest are removed until the rest fits; one that another has removed
\* ends it as well.
Evict(t) ==
    LET k == task[t] IN
    /\ k.step = "evict"
    /\ IF k.size <= CacheSize \/ k.others = <<>> \/ ~InCache(Head(k.others))
         THEN Done(t) /\ UNCHANGED cached
         ELSE /\ cached' = WithoutCopy(Head(k.others))
              /\ task' = [task EXCEPT ![t] = [step |-> "evict", digest |-> k.digest,
                             size |-> k.size - 1, others |-> Tail(k.others)]]
    /\ UNCHANGED <<remote, object, drive, uploads, private, late, index, remoteId, mishaps>>

-----------------------------------------------------------------------------
(***************************************************************************)
(* Reading                                                                 *)
(***************************************************************************)

\* content: the file of an entry that the index has.
Content(r, d) ==
    /\ Free(r) /\ \E e \in index : e.digest = d
    /\ task' = [task EXCEPT ![r] = [step |-> "lock", digest |-> d]]
    /\ UNCHANGED <<remote, Files, index, remoteId, mishaps>>

Reading == {"read", "open", "fetch", "write", "list", "evict"}

\* Mutant: every request reads for itself.
MutantTakeLock(r) ==
    /\ task[r].step = "lock" /\ Goes(r, "read")
    /\ UNCHANGED <<remote, Files, index, remoteId, mishaps>>

\* _read_blob: one reader for each digest.
TakeLock(r) ==
    /\ task[r].step = "lock"
    /\ \A q \in Readers : task[q].step \in Reading => Digest(q) # Digest(r)
    /\ Goes(r, "read")
    /\ UNCHANGED <<remote, Files, index, remoteId, mishaps>>

\* An object that does not have its digest is an error; without one, the cache.
ReadObject(r) ==
    LET d == Digest(r) IN
    /\ task[r].step = "read"
    /\ CASE object[d] = "whole" -> Ends(r, "whole")
         [] object[d] = "damaged" -> Ends(r, "unavailable")
         [] OTHER -> Goes(r, IF InCache(d) THEN "open" ELSE "fetch")
    /\ UNCHANGED <<remote, Files, index, remoteId, mishaps>>

\* Mutant: what is in the cache is given as it is.
MutantOpen(r) ==
    LET d == Digest(r) IN
    /\ task[r].step = "open" /\ InCache(d)
    /\ \E i \in DOMAIN cached :
          /\ cached[i].digest = d
          /\ Ends(r, IF cached[i].whole THEN "whole" ELSE "damaged")
          /\ cached' = Append(WithoutCopy(d), cached[i])
    /\ UNCHANGED <<remote, object, drive, uploads, private, late, index, remoteId, mishaps>>

\* The file of the cache, if it is still there; it counts as used now, unless it
\* does not have its digest.
Open(r) ==
    LET d == Digest(r) IN
    /\ task[r].step = "open"
    /\ \/ ~InCache(d) /\ Ends(r, "unavailable") /\ UNCHANGED cached
       \/ \E i \in DOMAIN cached :
             /\ cached[i].digest = d
             /\ IF cached[i].whole
                  THEN Ends(r, "whole") /\ cached' = Append(WithoutCopy(d), cached[i])
                  ELSE Goes(r, "fetch") /\ UNCHANGED cached
    /\ UNCHANGED <<remote, object, drive, uploads, private, late, index, remoteId, mishaps>>

HasRemote(d) == remote /\ remoteId[d] # 0

\* The file of Drive that the index names, if Drive gives it.
Fetch(r) ==
    LET d == Digest(r) IN
    /\ task[r].step = "fetch"
    /\ \/ Refused(r)
       \/ /\ HasRemote(d)
          /\ \E f \in Copies(d) : f.id = remoteId[d] /\ Gets(f)
          /\ Goes(r, "write")
    /\ UNCHANGED <<remote, Files, index, remoteId, mishaps>>

-----------------------------------------------------------------------------
(***************************************************************************)
(* The rest of the world                                                   *)
(***************************************************************************)

\* The command or the server dies; what it wrote stays.
Die ==
    /\ \/ ~Free(Importer) /\ task' = [task EXCEPT ![Importer] = Resting]
       \/ /\ \E r \in Readers : ~Free(r)
          /\ task' = [t \in Tasks |-> IF t = Importer THEN task[t] ELSE Resting]
    /\ UNCHANGED <<remote, Files, index, remoteId, mishaps>>

Mishap == mishaps < MaxMishaps /\ mishaps' = mishaps + 1 /\ UNCHANGED <<index, remoteId>>

\* A file is damaged, trashed or altered, or the folder is shared and not shared
\* any more.
Damage ==
    /\ Mishap /\ UNCHANGED <<remote, uploads, late, task>>
    /\ \/ /\ \E d \in Digests :
                object[d] = "whole" /\ object' = [object EXCEPT ![d] = "damaged"]
          /\ UNCHANGED <<cached, drive, private>>
       \/ /\ \E i \in DOMAIN cached : cached' = [cached EXCEPT ![i].whole = FALSE]
          /\ UNCHANGED <<object, drive, private>>
       \/ /\ \E f \in drive :
                \/ drive' = drive \ {f}
                \/ drive' = (drive \ {f}) \cup {[f EXCEPT !.whole = FALSE]}
          /\ UNCHANGED <<object, cached, private>>
       \/ private' = ~private /\ UNCHANGED <<object, cached, drive>>

\* An upload times out and is stored later.
TimeOut ==
    /\ Mishap /\ task[Importer].step = "upload" /\ Ends(Importer, "failed")
    /\ late' = late \cup {Digest(Importer)}
    /\ UNCHANGED <<remote, object, cached, drive, uploads, private>>

ArriveLate(d) ==
    /\ d \in late /\ late' = late \ {d} /\ Stores(d)
    /\ UNCHANGED <<remote, object, cached, private, index, remoteId, task, mishaps>>

\* Everything is started again with the other kind of storage.
Reconfigure ==
    /\ Mishap /\ \A t \in Tasks : Free(t)
    /\ remote' = ~remote
    /\ UNCHANGED <<Files, task>>

Next ==
    \/ \E e \in Entries : Import(e)
    \/ PutObject \/ FindCopy \/ Upload \/ Insert
    \/ \E t \in Tasks : WriteCache(t) \/ ListCache(t) \/ Evict(t)
    \/ \E r \in Readers :
          \/ TakeLock(r) \/ ReadObject(r) \/ Open(r) \/ Fetch(r)
          \/ \E d \in Digests : Content(r, d)
    \/ Die \/ Damage \/ TimeOut \/ Reconfigure
    \/ \E d \in Digests : ArriveLate(d)

Spec == Init /\ [][Next]_libraryVars

-----------------------------------------------------------------------------
(***************************************************************************)
(* What is found and reported                                              *)
(***************************************************************************)

\* find: one file that is not to be had refuses the whole list.
Found(n) ==
    \A e \in index : e.episode = n =>
        object[e.digest] # "none" \/ HasRemote(e.digest)

CoveredEpisodes == {e.episode : e \in {x \in index : x.reviewed}}

\* catalogue_coverage, for a title that needs subtitles.
Coverage ==
    LET matching == CoveredEpisodes \cap (1..Total)
    IN  IF Total = 0 THEN "episode_count_unknown"
        ELSE IF matching = 1..Total THEN "complete_for_known_episodes"
        ELSE IF matching # {} THEN "partial" ELSE "missing"

-----------------------------------------------------------------------------
\* The bytes of a file are stored somewhere from which they can be read now.
Readable(d) ==
    \/ object[d] = "whole"
    \/ remote /\ \E f \in Copies(d) : f.id = remoteId[d] /\ Gets(f)

\* However the command and the server are cut short, and whatever Drive refuses:
\* a row of the index has its file, which find lists and content can read, an
\* import can be repeated without a second copy in the folder (which would be
\* refused for ever), and a title is complete only with a file for each episode.
\* Only files that are damaged, trashed or late, a shared folder or another
\* storage end that.
StoredIsReadable ==
    mishaps = 0 =>
        /\ \A e \in index : Readable(e.digest) /\ Found(e.episode)
        /\ \A d \in Digests : Cardinality(Copies(d)) <= 1
        /\ Coverage = "complete_for_known_episodes" =>
              \A n \in 1..Total : \E e \in index :
                  e.reviewed /\ e.episode = n /\ Readable(e.digest)

\* Even then nothing is given that does not have its digest, an entry has a place
\* where its file was, and those who ask for one file wait for one download.
ReadsAreTrue ==
    /\ \A r \in Readers : task[r].step # "damaged"
    /\ \A e \in index : object[e.digest] # "none" \/ remoteId[e.digest] # 0
    /\ \A q, r \in Readers :
          task[q].step = "fetch" /\ task[r].step = "fetch" /\ Digest(q) = Digest(r) =>
              q = r

LibraryHolds == StoredIsReadable /\ ReadsAreTrue
=============================================================================
