----------------------------- MODULE CloudSync ------------------------------
(***************************************************************************)
(* The devices of one account and the server between them:                 *)
(* lib/src/sync/sync_controller.dart (the durable queue and the network    *)
(* run) with lib/src/library/library_controller.dart (the local library).  *)
(*                                                                         *)
(* Three chains of futures interleave on a device: the library's mutation  *)
(* queue, which user actions and remote records share; the write queue,    *)
(* which changes the sync state in memory and then on disk; and the        *)
(* network queue, which runs push and pull.  The requests of a device may  *)
(* time out at the client and still reach the server later, and the        *)
(* application may die between any two steps.                              *)
(***************************************************************************)
EXTENDS SyncRequests

CONSTANTS
    Devices,
    Cells,          \* the local entries
    CellOf,         \* the local entry that a record is about
    Progress,       \* the positions a player may report
    Seeds,          \* tables and disks that the devices may start with
    BatchLimit,     \* mutations per push (100 in the code)
    PageLimit,      \* records per pull (200)
    MaxBatches,     \* requests per loop (20)
    MaxCounter,     \* bound on the ids of a device
    MaxEdits,       \* bound on user actions
    MaxFaults,      \* bound on failed requests, expired sessions and crashes
    MaxErasures     \* bound on erasures of the account from a device

ASSUME CellAssumption == CellOf \in [RecordIds -> Cells]
ASSUME IdAssumption == MutationIds = Devices \X (1..MaxCounter)
ASSUME LimitAssumption ==
    /\ {BatchLimit, PageLimit, MaxBatches} \subseteq Nat \ {0}
    /\ {MaxCounter, MaxEdits, MaxFaults, MaxErasures} \subseteq Nat
ASSUME ProgressAssumption == Progress \subseteq Nat

VARIABLES
    db,         \* the tables of the account
    late,       \* push requests a device has given up on, still on their way
    disk,       \* what the device has stored
    app,        \* the running application
    used        \* how often each bounded event has happened

vars == <<db, late, disk, app, used>>

(***************************************************************************)
(* _PersistentSyncState without the receipts and lastSyncedAt, which       *)
(* nothing reads, and the device id, which is the device itself.           *)
(***************************************************************************)
SyncState == [migrated : BOOLEAN, cursor : Nat, counter : 0..MaxCounter,
              queue : Seq(Mutation)]

NewState == [migrated |-> FALSE, cursor |-> 0, counter |-> 0, queue |-> <<>>]

\* The library: an entry that does not exist has NoPayload.
Entries == [Cells -> Payload]
NoEntries == [c \in Cells |-> NoPayload]

Disk == [state : SyncState, entries : Entries]

-----------------------------------------------------------------------------
(***************************************************************************)
(* What the stores of a device and the tables have to do with each other.  *)
(***************************************************************************)

\* applyRemoteRecord: the entry that a row leaves in the library.
EntryOf(row) ==
    IF row.deleted
    THEN NoPayload
    ELSE [row.payload EXCEPT !.completed = @ /\ row.payload.progress = 0]

\* Nobody shares the entry of r.
Alone(r) == \A s \in RecordIds : CellOf[s] = CellOf[r] => s = r

\* A change of r has yet to be uploaded.
Waits(queue, r) == \E m \in ToSet(queue) : m.rec = r

\* The cursor has passed the row of r only if the library shows it, or has a
\* change of its own waiting.
Covers(tables, state, entries, r) ==
    Exists(tables.rows[r]) /\ tables.rows[r].revision <= state.cursor =>
        \/ entries[CellOf[r]] = EntryOf(tables.rows[r])
        \/ Waits(state.queue, r)

\* The entry of r, if there is one, is on the server or waits to be uploaded.
Uploads(tables, state, entries, r) ==
    entries[CellOf[r]] # NoPayload =>
        Exists(tables.rows[r]) \/ Waits(state.queue, r)

\* The mutations that the devices of a seed have made: no two have one id, and
\* no id is above the counter of its device.
Seeded(seed) ==
    seed.db.receipts \cup
        UNION {ToSet(seed.disk[d].state.queue) : d \in Devices}

Numbered(seed) ==
    /\ \A m, n \in Seeded(seed) : m.id = n.id => m = n
    /\ \A m \in Seeded(seed) : m.id[2] <= seed.disk[m.id[1]].state.counter

(***************************************************************************)
(* A seed is what an account and its devices may look like while nothing   *)
(* happens; an account that nobody has synchronized and a device with any  *)
(* library of its own are one.                                             *)
(***************************************************************************)
ASSUME SeedAssumption ==
    /\ Seeds \subseteq [db : Database, disk : [Devices -> Disk]]
    /\ \A seed \in Seeds :
          /\ Sound(seed.db)
          /\ Numbered(seed)
          /\ \A d \in Devices :
                LET state == seed.disk[d].state
                    entries == seed.disk[d].entries
                IN  /\ state.cursor <= seed.db.revision
                    /\ \A m \in ToSet(state.queue) : m.id[1] = d
                    /\ \A m, n \in ToSet(state.queue) : m.rec = n.rec => m = n
                    /\ \A r \in RecordIds : Alone(r) =>
                          /\ Covers(seed.db, state, entries, r)
                          /\ state.migrated => Uploads(seed.db, state, entries, r)

-----------------------------------------------------------------------------
\* A user action between its publication and its snapshot on disk.
Change == [rec : RecordIds, payload : Payload, deleted : BOOLEAN]
NoEdit == [stage |-> "none", changes |-> <<>>]
Edit == [stage : {"none", "queue", "put", "save"}, changes : Seq(Change)]

\* _runCloudSync: where it is, and its local variables.
Run == [pc     : {"idle", "push", "pushWait", "acks", "pull", "rows",
                  "baseline", "finish"},
        sent   : Seq(Mutation),             \* pending of _pushPending
        todo   : Seq(Received),      \* records not applied yet
        cursor : Nat,                       \* cursor of _pullPages
        last   : BOOLEAN,                   \* the page was not a full one
        seen   : SUBSET RecordIds,          \* identities
        round  : 0..MaxBatches]             \* batch

NoRun == [pc |-> "idle", sent |-> <<>>, todo |-> <<>>, cursor |-> 0,
          last |-> FALSE, seen |-> {}, round |-> 0]

Phases == {"checking", "pending", "synced", "offline", "expired", "error"}

App == [state   : SyncState,    \* _persistentState in memory
        entries : Entries,      \* the library snapshot on screen
        edit    : Edit,
        writer  : {"none", "edit", "run"},  \* whose put is under way
        run     : Run,
        wanted  : BOOLEAN,      \* another run is chained to _networkQueue
        phase   : Phases,
        expired : BOOLEAN,      \* _authExpired
        timer   : BOOLEAN]      \* _retryTimer

\* loadForAccount, on the state and the library found on disk.
Started(stored) ==
    [state |-> stored.state, entries |-> stored.entries, edit |-> NoEdit,
     writer |-> "none", run |-> NoRun, wanted |-> TRUE,
     phase |-> IF stored.state.queue = <<>> THEN "checking" ELSE "pending",
     expired |-> FALSE, timer |-> FALSE]

Bound == [edits |-> MaxEdits, faults |-> MaxFaults, erasures |-> MaxErasures]

Happens(event) ==
    /\ used[event] < Bound[event]
    /\ used' = [used EXCEPT ![event] = @ + 1]

Init ==
    /\ \E seed \in Seeds : db = seed.db /\ disk = seed.disk
    /\ late = [d \in Devices |-> {}]
    /\ app = [d \in Devices |-> Started(disk[d])]
    /\ used = [event \in DOMAIN Bound |-> 0]

-----------------------------------------------------------------------------
(***************************************************************************)
(* The library.                                                            *)
(***************************************************************************)

\* The timestamp of the action: devices agree on the time.
Now == used.edits + 1

\* A user action changes the snapshot on screen first; its mutations follow.
Publish(d, entries, changes) ==
    /\ app[d].edit = NoEdit
    /\ Happens("edits")
    /\ app' = [app EXCEPT
          ![d].entries = entries,
          ![d].edit = [stage |-> "queue", changes |-> changes]]
    /\ UNCHANGED <<db, late, disk>>

\* The record r is set to a new payload, or its entry removed.
SetEntry(d, r, payload) ==
    Publish(d, [app[d].entries EXCEPT ![CellOf[r]] = payload],
            <<[rec |-> r, payload |-> payload, deleted |-> FALSE]>>)

RemoveEntries(d, records) ==
    LET removal(r) == [rec |-> r, payload |-> app[d].entries[CellOf[r]],
                       deleted |-> TRUE]
        removed == {c \in Cells : \E r \in records : CellOf[r] = c}
    IN  Publish(d, [c \in Cells |->
                      IF c \in removed THEN NoPayload ELSE app[d].entries[c]],
                SetToSeq({removal(r) : r \in records}))

HasEntry(d, r) == app[d].entries[CellOf[r]] # NoPayload

(***************************************************************************)
(* toggleFavorite and toggleFollowing.                                     *)
(***************************************************************************)
Toggle(d, r) ==
    /\ KindOf[r] = "register"
    /\ IF HasEntry(d, r)
       THEN RemoveEntries(d, {r})
       ELSE SetEntry(d, r, [at |-> Now, progress |-> 0, completed |-> FALSE])

(***************************************************************************)
(* addHistory, of the episode that the entry has: the progress stays.      *)
(***************************************************************************)
AddHistory(d, r) ==
    /\ KindOf[r] = "history"
    /\ SetEntry(d, r, [app[d].entries[CellOf[r]] EXCEPT !.at = Now])

(***************************************************************************)
(* updatePlaybackProgress.  An episode that is almost over counts as       *)
(* completed and its position as 0.                                        *)
(***************************************************************************)
UpdateProgress(d, r, progress) ==
    /\ KindOf[r] = "position"
    /\ HasEntry(d, r)
    /\ SetEntry(d, r, [at |-> Now, progress |-> progress,
                  completed |-> progress = 0])

(***************************************************************************)
(* clear('history').                                                       *)
(***************************************************************************)
ClearHistory(d) ==
    LET viewed == {r \in RecordIds : KindOf[r] = "history" /\ HasEntry(d, r)}
    IN  viewed # {} /\ RemoveEntries(d, viewed)

(***************************************************************************)
(* The action has its mutation; it stores its list and makes room for the  *)
(* next one in the mutation queue.                                         *)
(***************************************************************************)
SaveEntries(d) ==
    /\ app[d].edit.stage = "save"
    /\ disk' = [disk EXCEPT ![d].entries = app[d].entries]
    /\ app' = [app EXCEPT ![d].edit = NoEdit]
    /\ UNCHANGED <<db, late, used>>

-----------------------------------------------------------------------------
(***************************************************************************)
(* The write queue.                                                        *)
(***************************************************************************)

\* Mutant: mutations are numbered by their place in the queue.
MutantNextId(d, state, n) == <<d, Len(state.queue) + n>>

\* The id of the n-th mutation that follows a state (_nextMutationIdSync).
NextId(d, state, n) == <<d, state.counter + n>>

\* A queue without some of its mutations.
Without(queue, gone) ==
    LET kept[n \in 0..Len(queue)] ==
            IF n = 0 THEN <<>>
            ELSE IF queue[n] \in gone THEN kept[n - 1]
                 ELSE Append(kept[n - 1], queue[n])
    IN  kept[Len(queue)]

\* Only the latest mutation of a record stays in the queue.
Compacted(queue, rec) == Without(queue, {m \in ToSet(queue) : m.rec = rec})

(***************************************************************************)
(* _enqueueCloudMutation, up to the put.                                   *)
(***************************************************************************)
Enqueue(d) ==
    LET state == app[d].state
        change == Head(app[d].edit.changes)
        mutation == [id |-> NextId(d, state, 1), rec |-> change.rec,
                     payload |-> change.payload, deleted |-> change.deleted]
    IN  /\ app[d].edit.stage = "queue"
        /\ app[d].writer = "none"
        /\ state.counter < MaxCounter
        /\ app' = [app EXCEPT
              ![d].state.counter = @ + 1,
              ![d].state.queue = Append(Compacted(@, change.rec), mutation),
              ![d].edit.stage = "put",
              ![d].writer = "edit"]
        /\ UNCHANGED <<db, late, disk, used>>

(***************************************************************************)
(* The put of _persistState.  For a user action the rest of the enqueue    *)
(* follows at once: the status, and a run unless the session has expired.  *)
(***************************************************************************)
FinishPut(d) ==
    /\ app[d].writer # "none"
    /\ disk' = [disk EXCEPT ![d].state = app[d].state]
    /\ IF app[d].writer = "edit"
       THEN app' = [app EXCEPT
              ![d].writer = "none",
              ![d].edit.changes = Tail(@),
              ![d].edit.stage = IF Len(app[d].edit.changes) > 1 THEN "queue"
                                                                ELSE "save",
              ![d].phase = IF app[d].expired THEN "expired" ELSE "pending",
              ![d].wanted = @ \/ ~app[d].expired]
       ELSE app' = [app EXCEPT ![d].writer = "none"]
    /\ UNCHANGED <<db, late, used>>

-----------------------------------------------------------------------------
(***************************************************************************)
(* The network run.                                                        *)
(***************************************************************************)

\* The run goes on when what it has put is on disk.
At(d, pc) == app[d].run.pc = pc /\ app[d].writer # "run"

\* Mutant: nothing tries again when the server cannot be reached.
MutantStop(d, phase) ==
    app' = [app EXCEPT
        ![d].run = NoRun,
        ![d].phase = phase,
        ![d].expired = @ \/ phase = "expired"]

\* The run ends with a status; _markOffline starts the retry timer.
Stop(d, phase) ==
    app' = [app EXCEPT
        ![d].run = NoRun,
        ![d].phase = phase,
        ![d].expired = @ \/ phase = "expired",
        ![d].timer = phase = "offline"]

(***************************************************************************)
(* _runCloudSync starts.  _scheduleCloudSync chains no run after the       *)
(* session has expired, and one that waits then does nothing.              *)
(***************************************************************************)
StartRun(d) ==
    /\ At(d, "idle")
    /\ app[d].wanted
    /\ app' = [app EXCEPT
          ![d].wanted = FALSE,
          ![d].timer = @ /\ app[d].expired,
          ![d].run.pc = IF app[d].expired THEN "idle" ELSE "push"]
    /\ UNCHANGED <<db, late, disk, used>>

(***************************************************************************)
(* _pushPending: the head of the queue is read between two writes of the   *)
(* write queue, so what is sent is on disk.                                *)
(***************************************************************************)
SendPush(d) ==
    LET queue == app[d].state.queue IN
    /\ At(d, "push")
    /\ app[d].writer = "none"
    /\ queue # <<>>
    /\ app[d].run.round < MaxBatches
    /\ app' = [app EXCEPT
          ![d].run.pc = "pushWait",
          ![d].run.round = @ + 1,
          ![d].run.sent = SubSeq(queue, 1, Smaller(BatchLimit, Len(queue)))]
    /\ UNCHANGED <<db, late, disk, used>>

\* Nothing is left to push: the initial pull, or the ordinary one.
PushDone(d) ==
    /\ At(d, "push")
    /\ app[d].writer = "none"
    /\ app[d].state.queue = <<>>
    /\ app' = [app EXCEPT
          ![d].run = [NoRun EXCEPT
              !.pc = "pull",
              !.cursor = IF app[d].state.migrated
                         THEN app[d].state.cursor ELSE 0]]
    /\ UNCHANGED <<db, late, disk, used>>

\* More is left after the last round: CloudSyncProtocolException.
PushExhausted(d) ==
    /\ At(d, "push")
    /\ app[d].run.round = MaxBatches
    /\ app[d].state.queue # <<>>
    /\ Stop(d, "error")
    /\ UNCHANGED <<db, late, disk, used>>

(***************************************************************************)
(* The server takes the request and the device gets the answer.            *)
(***************************************************************************)
ReceivePush(d) ==
    LET push == Push(db, app[d].run.sent) IN
    /\ At(d, "pushWait")
    /\ ~push.rejected
    /\ db' = push.db
    /\ app' = [app EXCEPT ![d].run.pc = "acks", ![d].run.todo = push.acks]
    /\ UNCHANGED <<late, disk, used>>

\* 409: CloudSyncProtocolException.
ReceiveRejection(d) ==
    /\ At(d, "pushWait")
    /\ Push(db, app[d].run.sent).rejected
    /\ Stop(d, "error")
    /\ UNCHANGED <<db, late, disk, used>>

\* Mutant: an entry that was changed later than the record is kept.
MutantApplyRecord(d) ==
    LET received == Head(app[d].run.todo)
        cell == CellOf[received.rec]
        entry == IF app[d].entries[cell].at > received.row.payload.at
                 THEN app[d].entries[cell] ELSE EntryOf(received.row)
    IN  /\ At(d, "acks") \/ At(d, "rows")
        /\ app[d].run.todo # <<>>
        /\ app[d].edit = NoEdit
        /\ app' = [app EXCEPT
              ![d].entries[cell] = entry,
              ![d].run.todo = Tail(@)]
        /\ disk' = [disk EXCEPT ![d].entries[cell] = entry]
        /\ UNCHANGED <<db, late, used>>

(***************************************************************************)
(* One record is applied, when no user action holds the mutation queue:    *)
(* it replaces the entry on screen and on disk.                            *)
(***************************************************************************)
ApplyRecord(d) ==
    LET received == Head(app[d].run.todo)
        cell == CellOf[received.rec]
    IN  /\ At(d, "acks") \/ At(d, "rows")
        /\ app[d].run.todo # <<>>
        /\ app[d].edit = NoEdit
        /\ app' = [app EXCEPT
              ![d].entries[cell] = EntryOf(received.row),
              ![d].run.todo = Tail(@)]
        /\ disk' = [disk EXCEPT ![d].entries[cell] = EntryOf(received.row)]
        /\ UNCHANGED <<db, late, used>>

\* Mutant: what was acknowledged is removed by record and not by id.
MutantUnacknowledged(queue, sent) ==
    Without(queue, {m \in ToSet(queue) : \E n \in ToSet(sent) : n.rec = m.rec})

\* What an acknowledged push leaves in the queue.
Unacknowledged(queue, sent) ==
    Without(queue, {m \in ToSet(queue) : \E n \in ToSet(sent) : n.id = m.id})

\* Mutant: an acknowledgement moves the cursor to its revision.
MutantDropAcknowledged(d) ==
    /\ At(d, "acks")
    /\ app[d].run.todo = <<>>
    /\ app[d].writer = "none"
    /\ app' = [app EXCEPT
          ![d].state.queue = Unacknowledged(@, app[d].run.sent),
          ![d].state.cursor =
              IF \A m \in ToSet(app[d].run.sent) : m \in db.receipts
              THEN Larger(@, db.rows[app[d].run.sent[1].rec].revision) ELSE @,
          ![d].run.pc = "push",
          ![d].run.sent = <<>>,
          ![d].writer = "run"]
    /\ UNCHANGED <<db, late, disk, used>>

(***************************************************************************)
(* The acknowledged mutations leave the queue.                             *)
(***************************************************************************)
DropAcknowledged(d) ==
    /\ At(d, "acks")
    /\ app[d].run.todo = <<>>
    /\ app[d].writer = "none"
    /\ app' = [app EXCEPT
          ![d].state.queue = Unacknowledged(@, app[d].run.sent),
          ![d].run.pc = "push",
          ![d].run.sent = <<>>,
          ![d].writer = "run"]
    /\ UNCHANGED <<db, late, disk, used>>

(***************************************************************************)
(* _pullPages: a page arrives.                                             *)
(***************************************************************************)
ReceivePage(d) ==
    LET run == app[d].run
        page == Pull(db, run.cursor, PageLimit)
    IN  /\ At(d, "pull")
        /\ run.round < MaxBatches
        /\ app' = [app EXCEPT ![d].run =
              [run EXCEPT !.pc = "rows",
                          !.todo = page,
                          !.cursor = IF page = <<>> THEN run.cursor
                                     ELSE page[Len(page)].row.revision,
                          !.last = Len(page) < PageLimit,
                          !.seen = run.seen \cup {page[i].rec : i \in 1..Len(page)},
                          !.round = run.round + 1]]
        /\ UNCHANGED <<db, late, disk, used>>

PullExhausted(d) ==
    /\ At(d, "pull")
    /\ app[d].run.round = MaxBatches
    /\ Stop(d, "error")
    /\ UNCHANGED <<db, late, disk, used>>

\* Mutant: the account counts as migrated before the baseline is queued.
MutantMarkMigrated(d) ==
    /\ At(d, "rows")
    /\ app[d].run.todo = <<>>
    /\ app[d].writer = "none"
    /\ app' = [app EXCEPT
          ![d].state.cursor = Larger(@, app[d].run.cursor),
          ![d].state.migrated = TRUE,
          ![d].writer = "run",
          ![d].run.pc = IF ~app[d].run.last THEN "pull"
                        ELSE IF app[d].state.migrated THEN "finish"
                        ELSE "baseline"]
    /\ UNCHANGED <<db, late, disk, used>>

(***************************************************************************)
(* The page has been applied.  Only then, and not during the initial pull, *)
(* the cursor moves.                                                       *)
(***************************************************************************)
PageApplied(d) ==
    /\ At(d, "rows")
    /\ app[d].run.todo = <<>>
    /\ IF app[d].state.migrated
       THEN /\ app[d].writer = "none"
            /\ app' = [app EXCEPT
                  ![d].state.cursor = Larger(@, app[d].run.cursor),
                  ![d].writer = "run",
                  ![d].run.pc = IF app[d].run.last THEN "finish" ELSE "pull"]
       ELSE app' = [app EXCEPT
                  ![d].run.pc = IF app[d].run.last THEN "baseline"
                                                   ELSE "pull"]
    /\ UNCHANGED <<db, late, disk, used>>

(***************************************************************************)
(* _buildMigrationMutations: what is on screen and was not on the server,  *)
(* a position for every history entry.                                     *)
(***************************************************************************)
Baseline(d) ==
    LET state == app[d].state
        records == SetToSeq({r \in RecordIds \ app[d].run.seen :
                                app[d].entries[CellOf[r]] # NoPayload})
    IN  [n \in 1..Len(records) |->
            [id |-> NextId(d, state, n), rec |-> records[n],
             payload |-> app[d].entries[CellOf[records[n]]],
             deleted |-> FALSE]]

(***************************************************************************)
(* The initial migration: the baseline replaces what the queue holds of    *)
(* the same records.                                                       *)
(***************************************************************************)
Migrate(d) ==
    LET state == app[d].state
        baseline == Baseline(d)
        kept == Without(state.queue,
                        {m \in ToSet(state.queue) :
                            \E n \in ToSet(baseline) : n.rec = m.rec})
    IN  /\ At(d, "baseline")
        /\ app[d].writer = "none"
        /\ state.counter + Len(baseline) <= MaxCounter
        /\ app' = [app EXCEPT
              ![d].state = [state EXCEPT !.migrated = TRUE,
                                         !.counter = state.counter + Len(baseline),
                                         !.queue = kept \o baseline],
              ![d].writer = "run",
              ![d].run = [NoRun EXCEPT !.pc = "push"]]
        /\ UNCHANGED <<db, late, disk, used>>

\* Mutant: a run always ends as synced.
MutantFinishRun(d) ==
    /\ At(d, "finish")
    /\ Stop(d, "synced")
    /\ UNCHANGED <<db, late, disk, used>>

(***************************************************************************)
(* The run ends; the put of lastSyncedAt changes nothing else.             *)
(***************************************************************************)
FinishRun(d) ==
    /\ At(d, "finish")
    /\ Stop(d, IF app[d].state.queue = <<>> THEN "synced" ELSE "pending")
    /\ UNCHANGED <<db, late, disk, used>>

(***************************************************************************)
(* A request fails: it timed out, could not be sent, or was answered with  *)
(* 408, 429 or 5xx.  A push may reach the server all the same, even later. *)
(***************************************************************************)
Abandoned(d) ==
    IF app[d].run.pc = "pushWait"
    THEN [late EXCEPT ![d] = @ \cup {app[d].run.sent}]
    ELSE late

RequestFails(d) ==
    /\ At(d, "pushWait") \/ At(d, "pull")
    /\ Happens("faults")
    /\ late' = Abandoned(d)
    /\ Stop(d, "offline")
    /\ UNCHANGED <<db, disk>>

\* 401: retries stop until the account is loaded again.
SessionExpires(d) ==
    /\ At(d, "pushWait") \/ At(d, "pull")
    /\ Happens("faults")
    /\ Stop(d, "expired")
    /\ UNCHANGED <<db, late, disk>>

RetryTimer(d) ==
    /\ app[d].timer
    /\ app' = [app EXCEPT ![d].timer = FALSE,
                          ![d].wanted = @ \/ ~app[d].expired]
    /\ UNCHANGED <<db, late, disk, used>>

-----------------------------------------------------------------------------
(***************************************************************************)
(* Faults.                                                                 *)
(***************************************************************************)

\* A request that its device no longer waits for takes effect.
ServeLate(d, batch) ==
    /\ batch \in late[d]
    /\ late' = [late EXCEPT ![d] = @ \ {batch}]
    /\ db' = IF Push(db, batch).rejected THEN db
                                                ELSE Push(db, batch).db
    /\ UNCHANGED <<disk, app, used>>

\* The application dies and starts again with what is on disk.
Crash(d) ==
    /\ Happens("faults")
    /\ late' = Abandoned(d)
    /\ app' = [app EXCEPT ![d] = Started(disk[d])]
    /\ UNCHANGED <<db, disk>>

\* deleteCurrent erases the account on the device, and the user signs in to
\* it again: the library and the sync state are gone, the device id is kept.
Erase(d) ==
    /\ app[d].edit = NoEdit
    /\ app[d].writer = "none"
    /\ Happens("erasures")
    /\ late' = Abandoned(d)
    /\ disk' = [disk EXCEPT ![d] = [state |-> NewState, entries |-> NoEntries]]
    /\ app' = [app EXCEPT ![d] =
                  Started([state |-> NewState, entries |-> NoEntries])]
    /\ UNCHANGED db

-----------------------------------------------------------------------------
UserActs(d) ==
    \/ \E r \in RecordIds :
          \/ Toggle(d, r)
          \/ AddHistory(d, r)
          \/ \E progress \in Progress : UpdateProgress(d, r, progress)
    \/ ClearHistory(d)

\* What the event loop of the application does by itself.
Works(d) ==
    \/ Enqueue(d) \/ FinishPut(d) \/ SaveEntries(d)
    \/ StartRun(d)
    \/ SendPush(d) \/ PushDone(d) \/ PushExhausted(d)
    \/ ReceivePush(d) \/ ReceiveRejection(d)
    \/ ApplyRecord(d) \/ DropAcknowledged(d)
    \/ ReceivePage(d) \/ PullExhausted(d) \/ PageApplied(d)
    \/ Migrate(d) \/ FinishRun(d)
    \/ RetryTimer(d)

Fails(d) ==
    \/ RequestFails(d) \/ SessionExpires(d)
    \/ Crash(d) \/ Erase(d)
    \/ \E batch \in late[d] : ServeLate(d, batch)

Next == \E d \in Devices : UserActs(d) \/ Works(d) \/ Fails(d)

Spec == Init /\ [][Next]_vars

(***************************************************************************)
(* The event loop of every device goes on: futures complete, a request is  *)
(* answered unless it fails, and timers fire.                              *)
(***************************************************************************)
Fairness ==
    \A d \in Devices :
        /\ WF_vars(Enqueue(d) \/ FinishPut(d) \/ SaveEntries(d))
        /\ WF_vars(Works(d))

FairSpec == Spec /\ Fairness

-----------------------------------------------------------------------------
(***************************************************************************)
(* Correctness.                                                            *)
(***************************************************************************)

\* The type invariant.
TypeOK ==
    /\ db \in Database
    /\ late \in [Devices -> SUBSET Seq(Mutation)]
    /\ disk \in [Devices -> Disk]
    /\ app \in [Devices -> App]
    /\ used \in [DOMAIN Bound -> Nat]

\* A mutation leaves the stored queue only when the server has a receipt of
\* it or a later mutation of the same record takes its place: a change that
\* was queued is never lost, whatever times out or crashes.
QueueKeepsChanges ==
    [][\A d \in Devices : \A m \in ToSet(disk[d].state.queue) :
          \/ m \in db.receipts
          \/ \E n \in ToSet(disk'[d].state.queue) :
                n.rec = m.rec /\ n.id[2] >= m.id[2]]_vars

\* What the cursor of a device has passed is in its stored library, unless
\* the device has a change of that record waiting: the next pull, after any
\* crash, will not bring it again (sync_controller.dart:521-522).
CursorCovers ==
    \A d \in Devices, r \in RecordIds :
        Alone(r) => Covers(db, disk[d].state, disk[d].entries, r)

\* Two different changes never carry one mutation id, so the server never
\* answers 409 and the queue is never stuck.
IdsAreUnique ==
    \A d \in Devices : \A m \in ToSet(app[d].state.queue) :
        \A n \in ReceiptsOf(db, m.id) : n = m

\* "Synced" is shown only when nothing waits to be uploaded.
SyncedMeansDrained ==
    \A d \in Devices :
        (app[d].phase = "synced" /\ app[d].writer = "none")
            => app[d].state.queue = <<>>

\* The stores and the runs are well formed, and "synced" is shown only when
\* nothing waits to be uploaded (sync_controller.dart, _runCloudSync).
StateHolds == TypeOK /\ SyncedMeansDrained

\* An account counts as migrated only when every local entry is on the server
\* or in the stored queue, unless the user is changing it: a crash in the middle
\* of the initial migration does not leave entries that no later run would upload.
MigratedUploads ==
    \A d \in Devices :
        disk[d].state.migrated /\ app[d].edit = NoEdit =>
            \A r \in RecordIds :
                Alone(r) => Uploads(db, disk[d].state, disk[d].entries, r)

\* Devices that have nothing to upload and have pulled everything show the
\* same library.
Quiet(d) ==
    /\ app[d].edit = NoEdit /\ app[d].run = NoRun
    /\ disk[d].state.queue = <<>> /\ app[d].state.queue = <<>>
    /\ disk[d].state.migrated
    /\ disk[d].state.cursor = db.revision

DevicesAgree ==
    \A d, e \in Devices :
        Quiet(d) /\ Quiet(e) => disk[d].entries = disk[e].entries

\* In the end every change has been uploaded and the device says so, unless
\* its session has expired or it says that synchronization is stuck: it never
\* waits for a server that is there again.
Settles ==
    \A d \in Devices : <>[](\/ app[d].expired
                            \/ app[d].phase = "error"
                            \/ app[d].phase = "synced" /\ app[d].edit = NoEdit
                               /\ disk[d].state.queue = <<>>)
=============================================================================
