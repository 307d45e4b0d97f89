------------------------------ MODULE SyncData ------------------------------
(***************************************************************************)
(* The data of cloud synchronization that client and server share: the     *)
(* mutations a device uploads, the rows the account database keeps, and    *)
(* the pure rules of server/server/sync_service.py that decide what a      *)
(* mutation makes of the row it meets.                                     *)
(*                                                                         *)
(* Everything here belongs to ONE account; rows of different accounts      *)
(* never meet because every query is filtered by user_id.                  *)
(***************************************************************************)
EXTENDS Naturals

CONSTANTS
    RecordIds,      \* the (record_type, record_id) pairs in use
    KindOf,         \* the conflict rule each of them is subject to
    MutationIds,    \* the client's idempotency keys
    NoMutation      \* last_mutation_id of a row that does not exist

Kinds == {"register",   \* favorite, following and the two settings records
          "history",    \* history
          "position"}   \* playback_position

ASSUME KindAssumption == KindOf \in [RecordIds -> Kinds]
ASSUME NoMutationAssumption == NoMutation \notin MutationIds

(***************************************************************************)
(* A payload keeps what the rules look at: the client timestamp updatedAt  *)
(* (which also tells the contents of register records apart), the progress *)
(* (position and duration are merged alike) and the completed flag.        *)
(***************************************************************************)
Payload == [at : Nat, progress : Nat, completed : BOOLEAN]

NoPayload == [at |-> 0, progress |-> 0, completed |-> FALSE]

(***************************************************************************)
(* One SyncMutationRequest.  payload_hash covers the whole request, so two *)
(* mutations have the same hash exactly when they are equal, and a row of  *)
(* sync_mutations (a receipt) is the mutation it was written for.          *)
(***************************************************************************)
Mutation == [id : MutationIds, rec : RecordIds,
             payload : Payload, deleted : BOOLEAN]

(***************************************************************************)
(* A row of sync_records.  Revisions start at 1: revision 0 stands for the *)
(* row that does not exist (existing is None).                             *)
(***************************************************************************)
Row == [payload : Payload, deleted : BOOLEAN,
        last : MutationIds \cup {NoMutation}, revision : Nat]

NoRow == [payload |-> NoPayload, deleted |-> FALSE,
          last |-> NoMutation, revision |-> 0]

Exists(row) == row.revision # 0

(***************************************************************************)
(* The three tables of an account: the rows, the receipts and the highest  *)
(* revision of sync_revisions.                                             *)
(***************************************************************************)
Database == [rows : [RecordIds -> Row], receipts : SUBSET Mutation,
             revision : Nat]

EmptyDatabase == [rows |-> [r \in RecordIds |-> NoRow],
                  receipts |-> {}, revision |-> 0]

ReceiptsOf(db, id) == {m \in db.receipts : m.id = id}

Larger(m, n) == IF m < n THEN n ELSE m
Smaller(m, n) == IF m < n THEN m ELSE n

-----------------------------------------------------------------------------
(***************************************************************************)
(* _resolve: what an accepted mutation m leaves in the row it loaded.      *)
(***************************************************************************)

\* Mutant: the progress follows the metadata instead of growing.
MutantMergeHistory(current, incoming) ==
    IF current.at > incoming.at THEN current ELSE incoming

\* History keeps the latest metadata and the furthest progress.
MergeHistory(current, incoming) ==
    [IF current.at > incoming.at THEN current ELSE incoming
        EXCEPT !.progress = Larger(current.progress, incoming.progress)]

\* Mutant: a completed position is not protected at an equal timestamp.
MutantPositionIsStale(current, incoming) == incoming.at < current.at

\* A playback position that is older, or as old but not completed while the
\* current one is, leaves the row alone.
PositionIsStale(current, incoming) ==
    \/ incoming.at < current.at
    \/ /\ incoming.at = current.at
       /\ current.completed /\ ~incoming.completed

MergePosition(current, incoming) ==
    IF incoming.at = current.at /\ incoming.completed = current.completed
    THEN [incoming EXCEPT !.progress =
              Larger(current.progress, incoming.progress)]
    ELSE incoming

\* The branch every rule starts with: no row, or a tombstone on either side.
TakesIncoming(row, m) == ~Exists(row) \/ m.deleted \/ row.deleted

Changes(row, m) ==
    \/ TakesIncoming(row, m)
    \/ KindOf[m.rec] # "position"
    \/ ~PositionIsStale(row.payload, m.payload)

ResolvedPayload(row, m) ==
    CASE TakesIncoming(row, m) -> m.payload
      [] ~TakesIncoming(row, m) /\ KindOf[m.rec] = "history" ->
            MergeHistory(row.payload, m.payload)
      [] ~TakesIncoming(row, m) /\ KindOf[m.rec] = "position" ->
            MergePosition(row.payload, m.payload)
      [] OTHER -> m.payload

-----------------------------------------------------------------------------
(***************************************************************************)
(* allocate_revision, save_record and add_mutation_receipt.                *)
(***************************************************************************)

\* The row object the service holds after save_record, and acknowledges.
SavedObject(row, m, revision) ==
    [payload  |-> ResolvedPayload(row, m),
     deleted  |-> m.deleted,
     last     |-> m.id,
     revision |-> revision]

\* What the flush stores.  SQLAlchemy's UPDATE names only the columns whose
\* new value differs from the value LOADED, so a column that the mutation
\* leaves as it was loaded keeps whatever the table holds by then.
FlushedRow(stored, loaded, object) ==
    IF ~Exists(loaded)
    THEN object
    ELSE [object EXCEPT
            !.payload = IF @ = loaded.payload THEN stored.payload ELSE @,
            !.deleted = IF @ = loaded.deleted THEN stored.deleted ELSE @]

\* Mutant: the update of an existing row leaves its revision alone.
MutantKeepsRevision(db, loaded, m) ==
    LET object == SavedObject(loaded, m, db.revision + 1) IN
    [rows |-> [db.rows EXCEPT ![m.rec] =
                  IF Exists(@) THEN [object EXCEPT !.revision = loaded.revision]
                               ELSE object],
     receipts |-> db.receipts \cup {m},
     revision |-> db.revision + 1]

\* Mutant: a mutation that changes nothing leaves no receipt.
MutantForgetsUnchanged(db, loaded, m) ==
    IF Changes(loaded, m)
    THEN [rows |-> [db.rows EXCEPT ![m.rec] =
                      SavedObject(loaded, m, db.revision + 1)],
          receipts |-> db.receipts \cup {m},
          revision |-> db.revision + 1]
    ELSE db

\* The database after mutation m, whose row was loaded as `loaded`, is written.
WithMutation(db, loaded, m) ==
    IF Changes(loaded, m)
    THEN [rows |-> [db.rows EXCEPT ![m.rec] =
                      FlushedRow(@, loaded,
                                 SavedObject(loaded, m, db.revision + 1))],
          receipts |-> db.receipts \cup {m},
          revision |-> db.revision + 1]
    ELSE [db EXCEPT !.receipts = @ \cup {m}]

\* The record the service returns for m: the object it saved, or the row as
\* loaded when the mutation changed nothing.
AcknowledgedRow(db, loaded, m) ==
    IF Changes(loaded, m) THEN SavedObject(loaded, m, db.revision + 1)
                          ELSE loaded

\* Mutant: there is no uq_sync_mutation_owner_id.
MutantViolatesUniqueness(db, loaded, m) ==
    ~Exists(loaded) /\ Exists(db.rows[m.rec])

\* The flush fails on uq_sync_record_owner_type_id (the row was inserted since
\* it was looked up) or on uq_sync_mutation_owner_id.
ViolatesUniqueness(db, loaded, m) ==
    \/ ~Exists(loaded) /\ Exists(db.rows[m.rec])
    \/ ReceiptsOf(db, m.id) # {}

-----------------------------------------------------------------------------
(***************************************************************************)
(* What keeps tables in order.                                             *)
(***************************************************************************)

\* What every version of the tables satisfies, committed or not.
Sound(tables) ==
    /\ \A m \in tables.receipts : Exists(tables.rows[m.rec])
    /\ \A r \in RecordIds : tables.rows[r].revision <= tables.revision
    /\ \A r, s \in RecordIds :
          (/\ Exists(tables.rows[r])
           /\ tables.rows[r].revision = tables.rows[s].revision) => r = s

\* The tables `later` contain the tables `earlier`, and every row that differs
\* is newer than all of them and the work of a mutation new to them.
Extends(later, earlier) ==
    /\ earlier.receipts \subseteq later.receipts
    /\ earlier.revision <= later.revision
    /\ \A r \in RecordIds : later.rows[r] # earlier.rows[r] =>
          /\ later.rows[r].revision > earlier.revision
          /\ ReceiptsOf(earlier, later.rows[r].last) = {}
=============================================================================
