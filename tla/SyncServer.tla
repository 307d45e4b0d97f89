----------------------------- MODULE SyncServer -----------------------------
(***************************************************************************)
(* The push endpoint of the synchronization server, one account, with      *)
(* several requests in progress at once: server/server/routers/sync.py     *)
(* (push_sync), sync_service.py (SyncService.push) and sync_repository.py. *)
(*                                                                         *)
(* The database is SQLite in WAL mode driven through pysqlite's implicit   *)
(* transactions: a SELECT made before the first INSERT or UPDATE of a      *)
(* session runs on its own and sees the last committed state; the first    *)
(* INSERT takes the only write lock, which the session keeps until it      *)
(* commits or rolls back.  What a session has read before that moment is   *)
(* not read again.                                                         *)
(***************************************************************************)
EXTENDS SyncData, Sequences

CONSTANTS
    Handlers,       \* request handlers that may run at the same time
    NoHandler,      \* the write lock is free
    Batches         \* the mutation lists that clients submit

ASSUME HandlerAssumption == NoHandler \notin Handlers

(***************************************************************************)
(* SyncPushRequest: a list without two mutations of one id.  No client     *)
(* lists a record twice either, since its queue holds one mutation of each *)
(* record at most (sync_controller.dart:356-364, 405-413).                 *)
(***************************************************************************)
ASSUME BatchAssumption ==
    Batches \subseteq
        {b \in Seq(Mutation) :
            /\ b # <<>>
            /\ \A i, j \in 1..Len(b) :
                  i # j => b[i].id # b[j].id /\ b[i].rec # b[j].rec}

VARIABLES
    db,         \* the committed tables
    lock,       \* the session that holds SQLite's write lock
    tx,         \* the tables as the lock holder sees them
    handler     \* what each request handler is doing

vars == <<db, lock, tx, handler>>

\* One acknowledgement: the mutation and the record that answers it.
Ack == [mutation : Mutation, row : Row]

Outcomes == {"none", "ok", "conflict", "unavailable"}

Handler ==
    [pc      : {"idle", "receipt", "replay", "record", "write",
                "commit", "done"},
     batch   : Batches \cup {<<>>},  \* the request's mutations
     todo    : Seq(Mutation),        \* those the loop has not finished
     loaded  : Row,                  \* `existing` of the current mutation
     acks    : SUBSET Ack,           \* `results`
     attempt : {1, 2},               \* second one after an IntegrityError
     outcome : Outcomes]             \* the HTTP answer

Idle == [pc |-> "idle", batch |-> <<>>, todo |-> <<>>, loaded |-> NoRow,
         acks |-> {}, attempt |-> 1, outcome |-> "none"]

Init ==
    /\ db = EmptyDatabase
    /\ lock = NoHandler
    /\ tx = EmptyDatabase
    /\ handler = [h \in Handlers |-> Idle]

-----------------------------------------------------------------------------
\* What a SELECT of handler h sees.
View(h) == IF lock = h THEN tx ELSE db

Current(h) == Head(handler[h].todo)

\* Mutant: only the last acknowledgement is returned.
MutantAcknowledge(h, row) ==
    LET rest == Tail(handler[h].todo) IN
    handler' = [handler EXCEPT
        ![h].pc   = IF rest = <<>> THEN "commit" ELSE "receipt",
        ![h].todo = rest,
        ![h].acks = {[mutation |-> Current(h), row |-> row]}]

\* The loop goes on to the next mutation, or to the commit after the last.
Acknowledge(h, row) ==
    LET rest == Tail(handler[h].todo) IN
    handler' = [handler EXCEPT
        ![h].pc   = IF rest = <<>> THEN "commit" ELSE "receipt",
        ![h].todo = rest,
        ![h].acks = @ \cup {[mutation |-> Current(h), row |-> row]}]

\* session.rollback(): the working copy and the lock are gone.
EndTransaction(h) ==
    /\ lock' = IF lock = h THEN NoHandler ELSE lock
    /\ tx' = IF lock = h THEN EmptyDatabase ELSE tx

Rollback(h) == EndTransaction(h) /\ UNCHANGED db

Answer(h, outcome) ==
    handler' = [handler EXCEPT
        ![h].pc = "done", ![h].todo = <<>>, ![h].outcome = outcome]

-----------------------------------------------------------------------------
(***************************************************************************)
(* A request arrives.                                                      *)
(***************************************************************************)
Accept(h, batch) ==
    /\ handler[h].pc = "idle"
    /\ handler' = [handler EXCEPT ![h] =
          [Idle EXCEPT !.pc = "receipt", !.batch = batch, !.todo = batch]]
    /\ UNCHANGED <<db, lock, tx>>

(***************************************************************************)
(* get_mutation finds no receipt: the mutation is new.                     *)
(***************************************************************************)
LookupMisses(h) ==
    /\ handler[h].pc = "receipt"
    /\ ReceiptsOf(View(h), Current(h).id) = {}
    /\ handler' = [handler EXCEPT ![h].pc = "record"]
    /\ UNCHANGED <<db, lock, tx>>

(***************************************************************************)
(* The receipt of the same content: a replay, acknowledged with the record *)
(* as a second SELECT finds it.                                            *)
(***************************************************************************)
LookupFindsReplay(h) ==
    /\ handler[h].pc = "receipt"
    /\ Current(h) \in View(h).receipts
    /\ handler' = [handler EXCEPT ![h].pc = "replay"]
    /\ UNCHANGED <<db, lock, tx>>

AcknowledgeReplay(h) ==
    /\ handler[h].pc = "replay"
    /\ Acknowledge(h, View(h).rows[Current(h).rec])
    /\ UNCHANGED <<db, lock, tx>>

(***************************************************************************)
(* The receipt of other content: SyncMutationConflict, 409.                *)
(***************************************************************************)
LookupFindsConflict(h) ==
    /\ handler[h].pc = "receipt"
    /\ ReceiptsOf(View(h), Current(h).id) # {}
    /\ Current(h) \notin View(h).receipts
    /\ Answer(h, "conflict")
    /\ Rollback(h)

(***************************************************************************)
(* get_record.                                                             *)
(***************************************************************************)
LoadRecord(h) ==
    /\ handler[h].pc = "record"
    /\ handler' = [handler EXCEPT
          ![h].pc = "write",
          ![h].loaded = View(h).rows[Current(h).rec]]
    /\ UNCHANGED <<db, lock, tx>>

\* The first INSERT waits for the lock; it starts from the committed tables.
CanWrite(h) == handler[h].pc = "write" /\ lock \in {NoHandler, h}

\* Mutant: every mutation is committed on its own.
MutantWriteMutation(h) ==
    /\ CanWrite(h)
    /\ ~ViolatesUniqueness(View(h), handler[h].loaded, Current(h))
    /\ db' = WithMutation(View(h), handler[h].loaded, Current(h))
    /\ Acknowledge(h, AcknowledgedRow(View(h), handler[h].loaded, Current(h)))
    /\ UNCHANGED <<lock, tx>>

(***************************************************************************)
(* allocate_revision, save_record, add_mutation_receipt: three flushes     *)
(* under the write lock, which nobody else observes half done.             *)
(***************************************************************************)
WriteMutation(h) ==
    /\ CanWrite(h)
    /\ ~ViolatesUniqueness(View(h), handler[h].loaded, Current(h))
    /\ tx' = WithMutation(View(h), handler[h].loaded, Current(h))
    /\ lock' = h
    /\ Acknowledge(h, AcknowledgedRow(View(h), handler[h].loaded, Current(h)))
    /\ UNCHANGED db

(***************************************************************************)
(* IntegrityError: the router rolls back and runs the whole push once      *)
(* more; a second one is answered with 409.                                *)
(***************************************************************************)
RetryPush(h) ==
    /\ CanWrite(h)
    /\ ViolatesUniqueness(View(h), handler[h].loaded, Current(h))
    /\ handler[h].attempt = 1
    /\ handler' = [handler EXCEPT ![h] =
          [Idle EXCEPT !.pc = "receipt", !.batch = handler[h].batch,
                       !.todo = handler[h].batch, !.attempt = 2]]
    /\ Rollback(h)

GiveUpPush(h) ==
    /\ CanWrite(h)
    /\ ViolatesUniqueness(View(h), handler[h].loaded, Current(h))
    /\ handler[h].attempt = 2
    /\ Answer(h, "conflict")
    /\ Rollback(h)

(***************************************************************************)
(* An exception the router does not catch: 500, the session is rolled back.*)
(* SQLite reports "database is locked" when the busy timeout ends before   *)
(* the lock holder does (also from the commit), and the second run of the  *)
(* push reads account[0].id from an object that the rollback has expired.  *)
(***************************************************************************)
Fail(h) ==
    /\ handler[h].pc \in {"receipt", "replay", "record", "write", "commit"}
    /\ Answer(h, "unavailable")
    /\ Rollback(h)

(***************************************************************************)
(* session.commit(), after which the acknowledgements are returned.  A     *)
(* batch of replays has written nothing and holds no lock.                 *)
(***************************************************************************)
Commit(h) ==
    /\ handler[h].pc = "commit"
    /\ db' = View(h)
    /\ EndTransaction(h)
    /\ Answer(h, "ok")

(***************************************************************************)
(* The answer leaves the server, whether or not the client is still there. *)
(***************************************************************************)
Respond(h) ==
    /\ handler[h].pc = "done"
    /\ handler' = [handler EXCEPT ![h] = Idle]
    /\ UNCHANGED <<db, lock, tx>>

(***************************************************************************)
(* The server process dies and restarts: no session survives.              *)
(***************************************************************************)
Restart ==
    /\ handler' = [h \in Handlers |-> Idle]
    /\ lock' = NoHandler
    /\ tx' = EmptyDatabase
    /\ UNCHANGED db

Next ==
    \/ \E h \in Handlers :
          \/ \E batch \in Batches : Accept(h, batch)
          \/ LookupMisses(h)
          \/ LookupFindsReplay(h)
          \/ AcknowledgeReplay(h)
          \/ LookupFindsConflict(h)
          \/ LoadRecord(h)
          \/ WriteMutation(h)
          \/ RetryPush(h)
          \/ GiveUpPush(h)
          \/ Fail(h)
          \/ Commit(h)
          \/ Respond(h)
    \/ Restart

Spec == Init /\ [][Next]_vars

-----------------------------------------------------------------------------
(***************************************************************************)
(* Correctness.                                                            *)
(***************************************************************************)

\* The type invariant.
TypeOK ==
    /\ db \in Database
    /\ lock \in Handlers \cup {NoHandler}
    /\ tx \in Database
    /\ handler \in [Handlers -> Handler]

\* A receipt always has its record, so the service never raises "sync mutation
\* receipt has no record" (sync_service.py:58-59), in the committed tables and
\* in those of the transaction in progress.
ReceiptHasRecord ==
    \A h \in Handlers : \A m \in View(h).receipts : Exists(View(h).rows[m.rec])

\* No two rows share a revision: pull_records pages by revision alone, and
\* would lose one of two rows with the same number at a page boundary.
RevisionsIdentifyRows ==
    \A r, s \in RecordIds :
        /\ db.rows[r].revision <= db.revision
        /\ Exists(db.rows[r]) /\ db.rows[r].revision = db.rows[s].revision
              => r = s

\* An answer 200 means that every mutation of the request has a committed
\* receipt and an acknowledgement: the client drops them from its queue.
AcknowledgedIsDurable ==
    \A h \in Handlers : handler[h].outcome = "ok" =>
        \A i \in 1..Len(handler[h].batch) :
            /\ handler[h].batch[i] \in db.receipts
            /\ \E a \in handler[h].acks : a.mutation = handler[h].batch[i]

\* A request is accepted whole or not at all, whatever fails in the middle of
\* it: a mutation that only one request carries is never there alone.
BatchIsAtomic ==
    \A b \in Batches : \A i, j \in 1..Len(b) :
        (/\ b[i] \in db.receipts
         /\ \A c \in Batches \ {b} : \A k \in 1..Len(c) : c[k] # b[i])
        => ReceiptsOf(db, b[j].id) # {}

\* Whatever a commit changes gets a revision above every revision visible
\* before it.  A device that has pulled up to a cursor therefore misses
\* nothing that is committed later, although revisions are allocated before
\* the commit.
CommitsAdvance ==
    [][\A r \in RecordIds :
          db'.rows[r] # db.rows[r] => db'.rows[r].revision > db.revision]_vars

\* A mutation is applied at most once: a commit never makes a row the work of
\* a mutation that already had a receipt, whatever requests were replayed or
\* ran at the same time.
AppliedOnce ==
    [][\A r \in RecordIds :
          db'.rows[r].revision # db.rows[r].revision
            => ReceiptsOf(db, db'.rows[r].last) = {}]_vars

-----------------------------------------------------------------------------
(***************************************************************************)
(* Why the properties above hold: an inductive invariant.                  *)
(***************************************************************************)

\* What a handler has read stays true until it acts on it: the receipt that
\* it found, and that there is a row.
ReadsStay(h) ==
    /\ handler[h].pc = "replay" => Current(h) \in View(h).receipts
    /\ handler[h].pc = "write" /\ Exists(handler[h].loaded)
          => Exists(View(h).rows[Current(h).rec])

\* A mutation of the request has yet to be looked at, or the tables that the
\* handler sees have its receipt and it has been acknowledged.
Accounted(h, m, tables) ==
    /\ m \in tables.receipts
    /\ \E a \in handler[h].acks : a.mutation = m

LoopAccounts(h) ==
    handler[h].pc \in {"receipt", "replay", "record", "write", "commit"} =>
        \A i \in 1..Len(handler[h].batch) :
            \/ \E j \in 1..Len(handler[h].todo) :
                  handler[h].todo[j] = handler[h].batch[i]
            \/ Accounted(h, handler[h].batch[i], View(h))

AnswerAccounts(h) ==
    handler[h].outcome = "ok" =>
        /\ handler[h].pc = "done"
        /\ \A i \in 1..Len(handler[h].batch) :
              Accounted(h, handler[h].batch[i], db)

\* The inductive invariant, next to the types: the committed tables and those
\* of the transaction in progress are sound, the transaction only adds to
\* what is committed, and no handler loses sight of a mutation.
Inductive ==
    /\ Sound(db)
    /\ lock # NoHandler => Sound(tx) /\ Extends(tx, db)
    /\ \A h \in Handlers :
          /\ ReadsStay(h)
          /\ LoopAccounts(h)
          /\ handler[h].pc = "commit" => handler[h].todo = <<>>
          /\ AnswerAccounts(h)

-----------------------------------------------------------------------------
\* One request at a time, the push endpoint is the atomic store that the model
\* of the devices relies on: whatever fails, a request takes effect as a whole
\* and as the rules say, or not at all.
Store == INSTANCE SyncStore
ServesStore == Store!Spec

-----------------------------------------------------------------------------
(***************************************************************************)
(* What the design log promises of conflicting changes.  They hold as long *)
(* as requests run one after the other; see the README for what happens    *)
(* when two overlap.                                                       *)
(***************************************************************************)

Live(row) == Exists(row) /\ ~row.deleted

\* "playback position uses the latest client timestamp, completed wins an
\* equal timestamp" (docs/engineering-goal-progress.md:1368).
PositionKeepsLatest ==
    [][\A r \in RecordIds :
          (KindOf[r] = "position" /\ Live(db.rows[r]) /\ Live(db'.rows[r])) =>
              LET old == db.rows[r].payload
                  new == db'.rows[r].payload
              IN  /\ new.at >= old.at
                  /\ new.at = old.at /\ old.completed => new.completed]_vars

\* "history keeps the latest metadata and maximum progress ...
\* favorite/following/settings use the latest accepted action" (the same
\* line): progress and time of a history record never go back, and a register
\* is exactly what the mutation it names asked for.
RulesStand ==
    [][\A r \in RecordIds :
          /\ (KindOf[r] = "history" /\ Live(db.rows[r]) /\ Live(db'.rows[r])) =>
                /\ db'.rows[r].payload.progress >= db.rows[r].payload.progress
                /\ db'.rows[r].payload.at >= db.rows[r].payload.at
          /\ (KindOf[r] = "register" /\ Exists(db'.rows[r])) =>
                \E m \in db'.receipts :
                    /\ m.id = db'.rows[r].last
                    /\ m.payload = db'.rows[r].payload
                    /\ m.deleted = db'.rows[r].deleted]_vars
=============================================================================
