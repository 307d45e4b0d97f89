----------------------------- MODULE SyncStore ------------------------------
(***************************************************************************)
(* What the synchronization server promises a client that has it for       *)
(* itself: a push request takes effect in one step, as a whole or not at   *)
(* all.  SyncServer, where a push is a sequence of statements, is shown to *)
(* implement Spec for one request at a time.                               *)
(***************************************************************************)
EXTENDS SyncRequests

CONSTANT Batches    \* the mutation lists that clients submit

VARIABLE db         \* the committed tables

-----------------------------------------------------------------------------
Init == db = EmptyDatabase

Serve(batch) ==
    /\ ~Push(db, batch).rejected
    /\ db' = Push(db, batch).db

Next == \E batch \in Batches : Serve(batch)

Spec == Init /\ [][Next]_db
=============================================================================
