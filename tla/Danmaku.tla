------------------------------ MODULE Danmaku ------------------------------
(***************************************************************************)
(* The comments of an episode: server/server/routers/danmaku.py for those  *)
(* of the accounts, which a player reads page by page, and server/server/  *)
(* dandanplay.py for those of another network, which are asked for once    *)
(* for all players and kept for a while.                                   *)
(***************************************************************************)
EXTENDS Naturals, Sequences, FiniteSetsExt

CONSTANTS
    Accounts,
    Anonymous,      \* the owner of what an erased account wrote
    Players,        \* requests at a time
    Episodes,       \* titles and numbers asked for in the other network
    PageSize,       \* limit
    Patience,       \* _DANDANPLAY_TOTAL_TIMEOUT_SECONDS
    Keep,           \* DANDANPLAY_CACHE_SECONDS
    KeepNothing,    \* DANDANPLAY_EMPTY_CACHE_SECONDS
    Capacity,       \* DANDANPLAY_CACHE_MAX_ENTRIES
    MaxPosts,       \* bound: comments ever written
    Ticks           \* bound: how long a behaviour lasts

VARIABLES
    tick,       \* the clock
    comment,    \* community_danmaku, of one episode
    posted,     \* how many comments were written
    view,       \* what each player has read
    kept,       \* _cache, in the order in which it was filled
    flight,     \* _in_flight
    player      \* what each request is doing

vars == <<tick, comment, posted, view, kept, flight, player>>

\* `all`: the comments that have been there since the player began.
NoView == [at |-> 0, shown |-> <<>>, all |-> {}, over |-> TRUE]

Resting == [step |-> "idle"]

\* `asked`: when the other network was asked.
NoFlight == [step |-> "none", asked |-> 0]

Init ==
    /\ tick = 1 /\ comment = {} /\ posted = 0
    /\ view = [p \in Players |-> NoView]
    /\ kept = <<>>
    /\ flight = [e \in Episodes |-> NoFlight]
    /\ player = [p \in Players |-> Resting]

Tick ==
    /\ tick < Ticks /\ tick' = tick + 1
    /\ UNCHANGED <<comment, posted, view, kept, flight, player>>

\* The numbers of a set, the least first.
InOrder(numbers) ==
    [n \in 1..Cardinality(numbers) |->
        CHOOSE i \in numbers : Cardinality({j \in numbers : j <= i}) = n]

-----------------------------------------------------------------------------
(***************************************************************************)
(* Comments of the accounts                                                *)
(***************************************************************************)

\* SQLite gives the number after the greatest in the table.
NextId == Max({0} \cup {c.id : c \in comment}) + 1

\* `name`: which comment it is, for the properties.
CreateDanmaku(a) ==
    /\ posted < MaxPosts
    /\ posted' = posted + 1
    /\ comment' = comment \cup {[id |-> NextId, owner |-> a, name |-> posted + 1]}
    /\ UNCHANGED <<tick, view, kept, flight, player>>

\* An account deletes its own; a comment that is deleted is not one that was
\* there all along.
DeleteDanmaku(a, c) ==
    /\ c.owner = a
    /\ comment' = comment \ {c}
    /\ view' = [p \in Players |-> [view[p] EXCEPT !.all = @ \ {c}]]
    /\ UNCHANGED <<tick, posted, kept, flight, player>>

\* The account is erased: its comments stay, without a name.
EraseAccount(a) ==
    /\ \E c \in comment : c.owner = a
    /\ LET unnamed(c) == IF c.owner = a THEN [c EXCEPT !.owner = Anonymous] ELSE c IN
       /\ comment' = {unnamed(c) : c \in comment}
       /\ view' = [p \in Players |->
             [view[p] EXCEPT !.all = {unnamed(c) : c \in @},
                             !.shown = [i \in DOMAIN @ |-> unnamed(@[i])]]]
    /\ UNCHANGED <<tick, posted, kept, flight, player>>

Numbered(id) == CHOOSE c \in comment : c.id = id

\* Mutant: what comes after the greatest number of the table, page by page.
MutantPage(after) ==
    LET beyond == InOrder({c.id : c \in {d \in comment : d.id >= after}}) IN
    [rows |-> [n \in 1..Min({PageSize, Len(beyond)}) |-> Numbered(beyond[n])],
     more |-> Len(beyond) > PageSize]

\* _list_rows: one more than is asked for tells whether there is a next page.
Page(after) ==
    LET beyond == InOrder({c.id : c \in {d \in comment : d.id > after}}) IN
    [rows |-> [n \in 1..Min({PageSize, Len(beyond)}) |-> Numbered(beyond[n])],
     more |-> Len(beyond) > PageSize]

Reads(p, after, shown, all) ==
    LET page == Page(after) IN
    /\ view' = [view EXCEPT ![p] =
          [at |-> IF page.more THEN page.rows[Len(page.rows)].id ELSE 0,
           shown |-> shown \o page.rows, all |-> all, over |-> ~page.more]]
    /\ UNCHANGED <<tick, comment, posted, kept, flight, player>>

FirstPage(p) == view[p].over /\ Reads(p, 0, <<>>, comment)
NextPage(p) == ~view[p].over /\ Reads(p, view[p].at, view[p].shown, view[p].all)

-----------------------------------------------------------------------------
(***************************************************************************)
(* Comments of the other network                                           *)
(***************************************************************************)
FreshEntry(e) == {i \in DOMAIN kept : kept[i].episode = e /\ kept[i].until > tick}
Keeping(places) ==
    LET order == InOrder(places) IN [n \in 1..Len(order) |-> kept[order[n]]]
Without(e) == Keeping({i \in DOMAIN kept : kept[i].episode # e})

\* Mutant: a task that is under way is not looked for.
MutantAsk(p, e) ==
    /\ player[p].step = "idle" /\ FreshEntry(e) = {}
    /\ player' = [player EXCEPT ![p] =
          [step |-> "waiting", episode |-> e, until |-> tick + Patience]]
    /\ flight' = [flight EXCEPT ![e] = [step |-> "guarded", asked |-> 0]]
    /\ kept' = Without(e)
    /\ UNCHANGED <<tick, comment, posted, view>>

\* comments_for_episode: what is kept, a task that is under way, or a new one,
\* whose first step is to ask whether this player asks too often.
Ask(p, e) ==
    /\ player[p].step = "idle" /\ FreshEntry(e) = {}
    /\ player' = [player EXCEPT ![p] =
          [step |-> "waiting", episode |-> e, until |-> tick + Patience]]
    /\ flight' = [flight EXCEPT ![e] =
          IF @.step = "none" THEN [step |-> "guarded", asked |-> 0] ELSE @]
    /\ kept' = Without(e)
    /\ UNCHANGED <<tick, comment, posted, view>>

AskKept(p, e) ==
    /\ player[p].step = "idle"
    /\ \E i \in FreshEntry(e) :
          player' = [player EXCEPT ![p] =
             [step |-> "answered", episode |-> e, answer |-> kept[i].value]]
    /\ UNCHANGED <<tick, comment, posted, view, kept, flight>>

Flies(e, from, to) ==
    /\ flight[e].step = from /\ flight' = [flight EXCEPT ![e] = to]
    /\ UNCHANGED <<tick, comment, posted, view, player>>

\* The network is asked, unless the player whose task this is may not.
Guard(e) ==
    /\ Flies(e, "guarded", [step |-> "asking", asked |-> tick])
    /\ UNCHANGED kept

Fail(e) ==
    /\ \/ Flies(e, "guarded", [step |-> "failed", asked |-> 0])
       \/ Flies(e, "asking", [step |-> "failed", asked |-> 0])
    /\ UNCHANGED kept

\* _store_cache: what has expired is dropped, then what was kept the longest.
StoreCache(e, value) ==
    LET alive == Keeping({i \in DOMAIN kept : kept[i].episode # e /\ kept[i].until > tick})
        room == IF Len(alive) < Capacity THEN alive
                ELSE SubSeq(alive, Len(alive) - Capacity + 2, Len(alive))
    IN  Append(room, [episode |-> e, value |-> value,
                      until |-> tick + (IF value = "some" THEN Keep ELSE KeepNothing)])

\* An answer with comments or without; no match is kept as well.
Load(e, value) ==
    /\ Flies(e, "asking", [step |-> value, asked |-> 0])
    /\ kept' = StoreCache(e, value)

Ended(e) == flight[e].step \in {"some", "nothing", "failed"}

\* The callback of the task, and those who wait, also those who came between its
\* end and the callback.
Land(e) ==
    /\ Ended(e)
    /\ flight' = [flight EXCEPT ![e] = NoFlight]
    /\ player' = [p \in Players |->
          IF player[p].step = "waiting" /\ player[p].episode = e
            THEN [step |-> "answered", episode |-> e, answer |-> flight[e].step]
            ELSE player[p]]
    /\ UNCHANGED <<tick, comment, posted, view, kept>>

\* asyncio.timeout: the task goes on without the player.
GiveUp(p) ==
    /\ player[p].step = "waiting" /\ tick >= player[p].until
    /\ player' = [player EXCEPT ![p] =
          [step |-> "answered", episode |-> player[p].episode, answer |-> "late"]]
    /\ UNCHANGED <<tick, comment, posted, view, kept, flight>>

Rest(p) ==
    /\ player[p].step # "idle"
    /\ player' = [player EXCEPT ![p] = Resting]
    /\ UNCHANGED <<tick, comment, posted, view, kept, flight>>

\* What the players do with the comments of the accounts.
Community ==
    \/ \E a \in Accounts :
          CreateDanmaku(a) \/ EraseAccount(a) \/ \E c \in comment : DeleteDanmaku(a, c)
    \/ \E p \in Players : FirstPage(p) \/ NextPage(p)

Network ==
    \/ Tick
    \/ \E p \in Players :
          GiveUp(p) \/ Rest(p) \/ \E e \in Episodes : Ask(p, e) \/ AskKept(p, e)
    \/ \E e \in Episodes :
          \/ Guard(e) \/ Fail(e) \/ Land(e)
          \/ \E value \in {"some", "nothing"} : Load(e, value)

-----------------------------------------------------------------------------
\* A player who has read the last page has seen every comment that was there
\* all the time, in order and none twice, whatever was written and deleted
\* between the pages, although numbers are given again.
PagesCover ==
    \A p \in Players :
        LET shown == view[p].shown IN
        /\ view[p].over => view[p].all \subseteq Range(shown)
        /\ \A i, j \in DOMAIN shown : i < j => shown[i].id < shown[j].id

\* No more is kept than there is room for, and one thing for an episode.
CacheIsBounded ==
    /\ Len(kept) <= Capacity
    /\ \A i, j \in DOMAIN kept : kept[i].episode = kept[j].episode => i = j

\* The other network is asked for an episode only if nothing fresh is kept and
\* by one task at a time, which goes on when the one who began it has left: no
\* step makes a task forget that it has asked.
AskedOnce ==
    [][\A e \in Episodes :
          /\ flight[e].asked # 0 /\ flight'[e].asked # flight[e].asked =>
                flight'[e].asked = 0 /\ flight'[e].step \in {"some", "nothing", "failed"}
          /\ flight'[e].step = "guarded" /\ flight[e].step # "guarded" =>
                FreshEntry(e) = {} /\ flight[e].step = "none"]_vars
=============================================================================
