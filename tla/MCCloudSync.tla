---------------------------- MODULE MCCloudSync -----------------------------
(***************************************************************************)
(* Instances of CloudSync for TLC.                                         *)
(***************************************************************************)
EXTENDS CloudSync, TLC

CONSTANTS d1, d2, fav, fol, his, pos, favEntry, folEntry, hisEntry

MCMutationIds == Devices \X (1..MaxCounter)

\* One favorite.
OneRecord == {fav}
OneKind == fav :> "register"
OneCell == fav :> favEntry

\* A history entry, which has two records.
HistoryRecords == {his, pos}
HistoryKinds == his :> "history" @@ pos :> "position"
HistoryCell == his :> hisEntry @@ pos :> hisEntry

\* Two records that do not share an entry.
TwoRecords == {fav, fol}
TwoKinds == fav :> "register" @@ fol :> "register"
TwoCells == fav :> favEntry @@ fol :> folEntry

Symmetry == Permutations(Devices)

\* An entry older than every user action.
Old == [at |-> 0, progress |-> 1, completed |-> FALSE]
OldEntries == [c \in Cells |-> Old]

\* An account whose devices have all been synchronized: d1 has uploaded its
\* history entry and its position.
OldRow(id, revision) ==
    [payload |-> Old, deleted |-> FALSE, last |-> id, revision |-> revision]
OldMutation(r, id) ==
    [id |-> id, rec |-> r, payload |-> Old, deleted |-> FALSE]
Synced ==
    [db |-> [rows |-> his :> OldRow(<<d1, 1>>, 1) @@ pos :> OldRow(<<d1, 2>>, 2),
             receipts |-> {OldMutation(his, <<d1, 1>>),
                           OldMutation(pos, <<d1, 2>>)},
             revision |-> 2],
     disk |-> [d \in Devices |->
                [state |-> [NewState EXCEPT
                              !.migrated = TRUE, !.cursor = 2,
                              !.counter = IF d = d1 THEN 2 ELSE 0],
                 entries |-> OldEntries]]]

\* An account that was never synchronized; some devices were used before.
PartlyOld(devices) ==
    [db |-> EmptyDatabase,
     disk |-> [d \in Devices |->
                [state |-> NewState,
                 entries |-> IF d \in devices THEN OldEntries ELSE NoEntries]]]

Empty == {PartlyOld({})}
SomeOld == {PartlyOld(devices) : devices \in SUBSET Devices}
SyncedHistory == {Synced}

\* The behaviors in which nobody clears the history.
NeverCleared ==
    Init /\ [][/\ Next
              /\ \A d \in Devices, c \in Cells :
                    app'[d].entries[c] # NoPayload]_vars
=============================================================================
