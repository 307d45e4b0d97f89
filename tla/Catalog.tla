------------------------------ MODULE Catalog ------------------------------
(***************************************************************************)
(* The catalog: server/server/catalog.py and repositories/catalog.py.      *)
(* Titles of one type are shown on the home page in an order that a shared *)
(* refresh computes from the provider's lists; searches and details store  *)
(* what they find in the same rows.                                        *)
(*                                                                         *)
(* The order itself is the subject of Ranking, and how a provider is asked *)
(* of ProviderGate: here it has an answer at some time, or none.           *)
(***************************************************************************)
EXTENDS Naturals, FiniteSets

CONSTANTS
    Titles,         \* stable ids
    Refreshes,      \* names for refresh tasks
    Readers,        \* requests at the same time
    Nobody,         \* no task, no title
    Fresh, Stale,   \* _HOME_RANKING_FRESH_SECONDS, _HOME_RANKING_STALE_SECONDS
    Keep,           \* CATALOG_CACHE_HOURS
    Enough,         \* _HOME_FRESH_MIN_ITEMS
    Ticks           \* bound: how long a behaviour lasts

VARIABLES
    now,        \* the clock
    row,        \* catalog_subjects
    refresh,    \* the tasks
    current,    \* _home_refreshes, at this type
    reader,     \* what each request is doing
    closed      \* has aclose been called

vars == <<now, row, refresh, current, reader, closed>>

\* The clock is so far from zero that no title without a rank is a stale one.
Beginning == Stale + 1
Time == 0..(Beginning + Ticks)

Row == [known : BOOLEAN,        \* there is a row
        complete : BOOLEAN,     \* detail_complete
        updated : Time, ranked : Time]
NoRow == [known |-> FALSE, complete |-> FALSE, updated |-> 0, ranked |-> 0]

\* What an earlier run of the server has left.
Earlier == [known |-> TRUE, complete |-> TRUE,
            updated |-> Beginning - Keep, ranked |-> Beginning - Stale]

\* _persist_many: the items, the first one and its row as it was read.
NoWrite == [items |-> {}, first |-> Nobody, old |-> NoRow, stamp |-> 0]

NoRefresh == [step |-> "none", begun |-> 0, write |-> NoWrite]

\* `title`: of a detail; `task`: the refresh it waits for.
NoReader == [step |-> "idle", title |-> Nobody, task |-> Nobody, write |-> NoWrite]

Init ==
    /\ now = Beginning
    /\ row \in [Titles -> {NoRow, Earlier}]
    /\ refresh = [r \in Refreshes |-> NoRefresh]
    /\ current = Nobody
    /\ reader = [c \in Readers |-> NoReader]
    /\ closed = FALSE

Tick ==
    /\ now < Beginning + Ticks
    /\ now' = now + 1
    /\ UNCHANGED <<row, refresh, current, reader, closed>>

-----------------------------------------------------------------------------
(***************************************************************************)
(* What is stored: _persist_many and SqlCatalogRepository.persist_many.    *)
(* The row of the first item is read before the write lock is taken, by    *)
(* the flush before the second; the UPDATE names the columns that differ   *)
(* from what was read.                                                     *)
(***************************************************************************)
\* Only a refresh brings a rank (0: it has none); only a detail is complete.
Entry(before, detail, stamp, rank) ==
    [known |-> TRUE, complete |-> detail, updated |-> stamp,
     ranked |-> IF rank > 0 THEN rank ELSE before.ranked]

\* What an UPDATE from `old` to `new` makes of a row.
Updated(before, old, new) ==
    [column \in DOMAIN new |->
        IF new[column] # old[column] THEN new[column] ELSE before[column]]

\* The statements after the first flush run under the lock, with the commit.
Stored(w, detail, rank) ==
    [t \in Titles |->
        CASE t \notin w.items -> row[t]
          [] t \in w.items /\ t = w.first ->
                Updated(row[t], w.old, Entry(w.old, detail, w.stamp, rank))
          [] OTHER -> Entry(row[t], detail, w.stamp, rank)]

\* Which of the items is the first is a matter of their order.
Loaded == UNION {{[items |-> items, first |-> t, old |-> row[t], stamp |-> now] :
                     t \in items} : items \in SUBSET Titles}

\* Another writer has added the title in the meantime: IntegrityError.
Collides(w) == ~w.old.known /\ row[w.first].known

-----------------------------------------------------------------------------
(***************************************************************************)
(* The refresh of the home page                                            *)
(***************************************************************************)
\* A name is free when nobody waits for the task that had it.
Free(r) == refresh[r].step = "none" /\ \A c \in Readers : reader[c].task # r

\* create_task: the clock is read and the lists are asked.
Begin(r) ==
    /\ current' = r
    /\ refresh' = [refresh EXCEPT ![r] = [NoRefresh EXCEPT !.step = "asking", !.begun = now]]

\* Mutant: every request that finds nothing fresh begins a refresh.
MutantEnsure(c, next) ==
    \E r \in Refreshes :
       /\ Free(r) /\ Begin(r)
       /\ reader' = [reader EXCEPT ![c] = [NoReader EXCEPT !.step = next,
                                             !.task = IF next = "waiting" THEN r ELSE Nobody]]

\* _ensure_home_refresh, for a request that goes on to `next`.
Ensure(c, next) ==
    LET joined(r) == [NoReader EXCEPT !.step = next,
                                      !.task = IF next = "waiting" THEN r ELSE Nobody] IN
    IF current # Nobody
      THEN /\ reader' = [reader EXCEPT ![c] = joined(current)]
           /\ UNCHANGED <<refresh, current>>
      ELSE LET r == CHOOSE x \in Refreshes : Free(x) IN
           Begin(r) /\ reader' = [reader EXCEPT ![c] = joined(r)]

\* What has been heard is stored, beginning with a look at the first row; with
\* nothing there is nothing to store.  A list that failed counts as empty, and
\* an item with no id or no title is left out.
Gather(r) ==
    /\ refresh[r].step = "asking"
    /\ \/ refresh' = [refresh EXCEPT ![r].step = "done"]
       \/ /\ ~closed
          /\ \E w \in Loaded :
                refresh' = [refresh EXCEPT ![r].step = "storing", ![r].write = w]
    /\ UNCHANGED <<now, row, current, reader, closed>>

StoreRanked(r) ==
    /\ refresh[r].step = "storing" /\ ~Collides(refresh[r].write)
    /\ row' = Stored(refresh[r].write, FALSE, refresh[r].begun)
    /\ refresh' = [refresh EXCEPT ![r].step = "done"]
    /\ UNCHANGED <<now, current, reader, closed>>

\* A collision, or a lock that is held for too long.
StoresNothing(r) ==
    /\ refresh[r].step = "storing"
    /\ refresh' = [refresh EXCEPT ![r].step = "done"]
    /\ UNCHANGED <<now, row, current, reader, closed>>

\* The callback of a task that is done.
Remove(r) ==
    /\ refresh[r].step = "done"
    /\ refresh' = [refresh EXCEPT ![r] = NoRefresh]
    /\ current' = IF current = r THEN Nobody ELSE current
    /\ UNCHANGED <<now, row, reader, closed>>

\* aclose: the tasks are cancelled and those who wait for them with them.  A
\* commit under way may be the last step before.
Close ==
    /\ ~closed
    /\ closed' = TRUE
    /\ current' = Nobody
    /\ refresh' = [r \in Refreshes |-> NoRefresh]
    /\ reader' = [c \in Readers |->
          IF reader[c].step = "waiting" THEN NoReader ELSE reader[c]]
    /\ UNCHANGED <<now, row>>

-----------------------------------------------------------------------------
(***************************************************************************)
(* Requests                                                                *)
(***************************************************************************)
RankedSince(span) == {t \in Titles : row[t].ranked + span >= now}

\* home: if not enough titles were ranked a short time ago it answers with
\* older ones and leaves the refresh to itself, or it waits for the refresh.
Home(c) ==
    /\ reader[c].step = "idle"
    /\ Cardinality(RankedSince(Fresh)) < Enough
    /\ Ensure(c, IF RankedSince(Stale) # {} THEN "idle" ELSE "waiting")
    /\ UNCHANGED <<now, row, closed>>

RefreshEnded(c) ==
    /\ reader[c].step = "waiting"
    /\ refresh[reader[c].task].step \in {"done", "none"}
    /\ reader' = [reader EXCEPT ![c] = NoReader]
    /\ UNCHANGED <<now, row, refresh, current, closed>>

Asks(c, title) ==
    /\ reader[c].step = "idle"
    /\ reader' = [reader EXCEPT ![c] = [NoReader EXCEPT !.step = "asking", !.title = title]]
    /\ UNCHANGED <<now, row, refresh, current, closed>>

\* search: too few stored titles have the word in their names.
Search(c) == Asks(c, Nobody)

\* get_subject: it is not stored, not complete or too old.
Detail(c, t) ==
    /\ ~(row[t].known /\ row[t].complete /\ row[t].updated + Keep >= now)
    /\ Asks(c, t)

\* A detail has one title or none.
Heard(c) ==
    /\ reader[c].step = "asking"
    /\ \/ reader' = [reader EXCEPT ![c] = NoReader]
       \/ /\ ~closed
          /\ \E w \in Loaded :
                /\ reader[c].title \in Titles => w.items = {reader[c].title}
                /\ reader' = [reader EXCEPT ![c].step = "storing", ![c].write = w]
    /\ UNCHANGED <<now, row, refresh, current, closed>>

StoreFound(c) ==
    /\ reader[c].step = "storing" /\ ~Collides(reader[c].write)
    /\ row' = Stored(reader[c].write, reader[c].title # Nobody, 0)
    /\ reader' = [reader EXCEPT ![c] = NoReader]
    /\ UNCHANGED <<now, refresh, current, closed>>

\* The request fails.
FindsNothing(c) ==
    /\ reader[c].step = "storing"
    /\ reader' = [reader EXCEPT ![c] = NoReader]
    /\ UNCHANGED <<now, row, refresh, current, closed>>

Next ==
    \/ Tick \/ Close
    \/ \E r \in Refreshes :
          Gather(r) \/ StoreRanked(r) \/ StoresNothing(r) \/ Remove(r)
    \/ \E c \in Readers :
          \/ Home(c) \/ RefreshEnded(c) \/ Search(c)
          \/ Heard(c) \/ StoreFound(c) \/ FindsNothing(c)
          \/ \E t \in Titles : Detail(c, t)

-----------------------------------------------------------------------------
(***************************************************************************)
(* Properties                                                              *)
(***************************************************************************)
\* A search or a detail may improve a title but never makes it look like a
\* title with a fresh rank, and no refresh puts a rank back to an older one,
\* however many readers find the ranks too old at once.
RankingMovesForward ==
    [][\A t \in Titles :
          \/ row'[t].ranked = row[t].ranked
          \/ /\ row'[t].ranked > row[t].ranked
             /\ \E r \in Refreshes :
                   t \in refresh[r].write.items /\ row'[t].ranked = refresh[r].begun]_vars
=============================================================================
