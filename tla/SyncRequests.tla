---------------------------- MODULE SyncRequests ----------------------------
(***************************************************************************)
(* The two requests of a synchronizing device, push and pull, as what they *)
(* do to the tables and what they answer when nobody else is served in     *)
(* between.  SyncStore is the specification made of them; the devices of   *)
(* CloudSync rely on it, and SyncServer, where a push is a sequence of     *)
(* statements, is shown to implement it for one request at a time.         *)
(***************************************************************************)
EXTENDS SyncData, SequencesExt, FiniteSetsExt

ASSUME RecordsAreFinite == IsFiniteSet(RecordIds)

\* A record as the server returns it, for an acknowledgement or on a page.
Received == [rec : RecordIds, row : Row]

-----------------------------------------------------------------------------
(***************************************************************************)
(* SyncService.push: every mutation in turn, until one has an id that was  *)
(* used for other content, which rejects the request.                      *)
(***************************************************************************)
PushOne(push, m) ==
    LET row == push.db.rows[m.rec]
        known == ReceiptsOf(push.db, m.id)
    IN  IF push.rejected \/ (known # {} /\ m \notin known)
        THEN [push EXCEPT !.rejected = TRUE]
        ELSE IF known # {}
        THEN [push EXCEPT !.acks = Append(@, [rec |-> m.rec, row |-> row])]
        ELSE [push EXCEPT
                !.db = WithMutation(@, row, m),
                !.acks = Append(@, [rec |-> m.rec,
                                    row |-> AcknowledgedRow(push.db, row, m)])]

Push(tables, batch) ==
    LET after[n \in 0..Len(batch)] ==
            IF n = 0 THEN [db |-> tables, acks |-> <<>>, rejected |-> FALSE]
                     ELSE PushOne(after[n - 1], batch[n])
    IN  after[Len(batch)]

(***************************************************************************)
(* SyncRepository.pull_records: the rows after a revision, oldest first.   *)
(* Revisions are unique, so the i-th of them has i - 1 older ones.         *)
(***************************************************************************)
Newer(tables, after) == {r \in RecordIds : tables.rows[r].revision > after}

Nth(tables, records, i) ==
    CHOOSE r \in records :
        Cardinality({s \in records :
            tables.rows[s].revision < tables.rows[r].revision}) = i - 1

Pull(tables, after, limit) ==
    LET newer == Newer(tables, after)
        record(i) == Nth(tables, newer, i)
    IN  [i \in 1..Smaller(limit, Cardinality(newer)) |->
            [rec |-> record(i), row |-> tables.rows[record(i)]]]
=============================================================================
