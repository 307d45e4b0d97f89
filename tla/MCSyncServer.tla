---------------------------- MODULE MCSyncServer ----------------------------
(***************************************************************************)
(* Instances of SyncServer for TLC: one favorite, one history entry and    *)
(* one playback position that two devices change.                          *)
(***************************************************************************)
EXTENDS SyncServer, TLC

CONSTANTS fav, his, pos, m1, m2, m3, m4, m5, m6, m7, m8, m9

MCRecordIds == {fav, his, pos}
MCKindOf == fav :> "register" @@ his :> "history" @@ pos :> "position"
MCMutationIds == {m1, m2, m3, m4, m5, m6, m7, m8, m9}

Change(id, rec, at, progress, completed, deleted) ==
    [id |-> id, rec |-> rec, deleted |-> deleted,
     payload |-> [at |-> at, progress |-> progress, completed |-> completed]]

\* Two devices: favorite and position, in opposite orders.  The first device
\* adds the favorite and finishes the episode; the second has an older
\* position of it and removes the favorite.
AddFavorite    == Change(m1, fav, 1, 0, FALSE, FALSE)
Finish         == Change(m2, pos, 2, 0, TRUE, FALSE)
OlderPosition  == Change(m3, pos, 1, 3, FALSE, FALSE)
RemoveFavorite == Change(m4, fav, 1, 0, FALSE, TRUE)

\* An id that a client reuses for other content.
ReusedId == Change(m1, fav, 3, 0, FALSE, FALSE)

\* Requests that overlap, repeat and contradict each other.
MCBatches == {<<AddFavorite, Finish>>, <<OlderPosition, RemoveFavorite>>,
              <<ReusedId>>}

\* Three versions of each record, for the conflict rules.
HistoryBatches == {<<Change(m5, his, 1, 2, FALSE, FALSE)>>,
                   <<Change(m6, his, 3, 1, FALSE, FALSE)>>,
                   <<Change(m7, his, 2, 3, FALSE, FALSE)>>}

PositionBatches == {<<Finish>>, <<OlderPosition>>,
                    <<Change(m8, pos, 2, 5, FALSE, FALSE)>>}

\* Three positions of three times.  The uniqueness of rows refuses the second
\* of two first requests: it takes a row that both have loaded for an older
\* position to replace a newer one.
LaterPosition == Change(m9, pos, 3, 5, FALSE, FALSE)
RaceBatches   == {<<OlderPosition>>, <<Finish>>, <<LaterPosition>>}

\* One request at a time; the favorite is added by a request of two mutations.
SerialBatches == HistoryBatches \cup PositionBatches
                   \cup {<<AddFavorite, Finish>>, <<RemoveFavorite>>}
=============================================================================
