----------------------------- MODULE Community -----------------------------
(***************************************************************************)
(* What the older clients do together: likes and collections               *)
(* (routers/legacy_comments.py, legacy_community.py, legacy_library.py),   *)
(* and the lists of comments they read by offset.                          *)
(*                                                                         *)
(* A mark is a row of one account for one target.  No constraint of the    *)
(* database keeps it single: the handler looks first and inserts then.     *)
(***************************************************************************)
EXTENDS Naturals, Sequences, FiniteSets, Functions

CONSTANTS
    Users, Targets,
    KindOf,         \* of a target: "counted" (likes of a comment), "plain"
                    \* (likes and collections of threads), "typed" (of titles)
    Types,          \* collection_type, and of the other kinds the only one
    Requests,       \* marks at the same time
    MaxMarks,       \* bound: rows ever inserted
    PageSize,       \* of a list of comments
    MaxComments     \* bound: comments

VARIABLES
    mark,       \* rows of comment_likes, thread_likes, thread_collections and
                \* bangumi_collections
    inserted,   \* how many rows were ever inserted
    likes,      \* like_count, collect_count
    request,    \* what each request has seen
    erased,     \* accounts that are no more
    overlapped, \* which accounts have had two requests for a target at a time
    thread,     \* comments in the order of their created_at
    visitor     \* what a client has read

vars == <<mark, inserted, likes, request, erased, overlapped, thread, visitor>>
readerVars == <<thread, visitor>>
markVars == <<mark, inserted, likes, request, erased, overlapped>>

Idle == [user |-> "none", target |-> "none", seen |-> 0, type |-> "none"]
Unread == [shown |-> {}, all |-> {}, skip |-> 0, newest |-> TRUE, over |-> TRUE]

Init ==
    /\ mark = {} /\ inserted = 0
    /\ likes = [t \in Targets |-> 0]
    /\ request = [r \in Requests |-> Idle]
    /\ erased = {} /\ overlapped = {}
    /\ thread = <<>> /\ visitor = Unread

-----------------------------------------------------------------------------
(***************************************************************************)
(* Marks                                                                   *)
(***************************************************************************)
On(t) == {m \in mark : m.target = t}
Of(u, t) == {m \in On(t) : m.user = u}
\* The status routes and the lists that show it (scalar_one_or_none).
StatusCanBeRead(u, t) == Cardinality(Of(u, t)) <= 1

Meets(u, t) == \E r \in Requests : request[r].user = u /\ request[r].target = t

Begins(r, u, t, type, seen) ==
    /\ request[r] = Idle /\ u \notin erased
    /\ request' = [request EXCEPT ![r] =
          [user |-> u, target |-> t, type |-> type, seen |-> seen]]
    /\ overlapped' = IF Meets(u, t) THEN overlapped \cup {<<u, t>>} ELSE overlapped
    /\ UNCHANGED <<mark, inserted, likes, erased, readerVars>>

\* Mutant: the row is inserted without a look.
MutantLook(r, u, t, type) == Begins(r, u, t, type, 0)

\* like_comment, thread_like, thread_collect and change_collect begin with a
\* look (scalar_one_or_none).  A mark that is there is left alone, or given
\* another type; if there are two the request fails, as does one that asks for
\* the status.
Look(r, u, t, type) ==
    \/ Of(u, t) = {} /\ Begins(r, u, t, type, 0)
    \/ /\ Cardinality(Of(u, t)) = 1 /\ KindOf[t] = "typed"
       /\ \E m \in Of(u, t) : Begins(r, u, t, type, m.id)

Ends(r) ==
    /\ request' = [request EXCEPT ![r] = Idle]
    /\ UNCHANGED <<erased, overlapped, readerVars>>

\* The INSERT takes the write lock before like_count is read.
Insert(r) ==
    LET q == request[r] IN
    /\ q # Idle /\ q.seen = 0 /\ q.user \notin erased /\ inserted < MaxMarks
    /\ inserted' = inserted + 1
    /\ mark' = mark \cup
          {[id |-> inserted + 1, user |-> q.user, target |-> q.target, type |-> q.type]}
    /\ likes' = [likes EXCEPT ![q.target] = IF KindOf[q.target] = "counted" THEN @ + 1 ELSE @]
    /\ Ends(r)

\* An UPDATE by id; if the row is gone the request fails.
Retype(r) ==
    LET q == request[r]
        row == {m \in mark : m.id = q.seen} IN
    /\ q.seen # 0
    /\ mark' = (mark \ row) \cup {[m EXCEPT !.type = q.type] : m \in row}
    /\ UNCHANGED <<inserted, likes>> /\ Ends(r)

\* An error, a lock that is held for too long, an account that is gone.
GiveUp(r) == request[r] # Idle /\ UNCHANGED <<mark, inserted, likes>> /\ Ends(r)

\* The cancels: one transaction, that takes all rows of the account away and
\* counts one like less, whether there was one or not.
Cancel(u, t) ==
    /\ u \notin erased
    /\ mark' = mark \ Of(u, t)
    /\ likes' = [likes EXCEPT ![t] = IF KindOf[t] = "counted" /\ @ > 0 THEN @ - 1 ELSE @]
    /\ UNCHANGED <<inserted, request, erased, overlapped, readerVars>>

\* privacy.py: an account is erased, and what it had marked is counted again.
EraseAccount(u) ==
    /\ u \notin erased /\ erased' = erased \cup {u}
    /\ mark' = {m \in mark : m.user # u}
    /\ likes' = [t \in Targets |->
          IF KindOf[t] # "typed" /\ Of(u, t) # {} THEN Cardinality(On(t) \ Of(u, t))
                                                  ELSE likes[t]]
    /\ UNCHANGED <<inserted, request, overlapped, readerVars>>

Marks ==
    \/ \E u \in Users :
          \/ EraseAccount(u)
          \/ \E t \in Targets :
                \/ Cancel(u, t)
                \/ \E r \in Requests, type \in Types : Look(r, u, t, type)
    \/ \E r \in Requests : Insert(r) \/ Retype(r) \/ GiveUp(r)

-----------------------------------------------------------------------------
(***************************************************************************)
(* Lists                                                                   *)
(***************************************************************************)
\* A comment is stamped before it is committed, and one with an earlier stamp
\* may be committed later.  Comments are never deleted.
PostComment ==
    /\ Len(thread) < MaxComments
    /\ \E place \in 1..(Len(thread) + 1) :
          thread' = SubSeq(thread, 1, place - 1) \o <<Len(thread) + 1>>
                       \o SubSeq(thread, place, Len(thread))
    /\ UNCHANGED <<visitor, markVars>>

\* get_comments: the newest first; comment_replies and get_danmaku: the oldest.
Listed(newest) ==
    IF newest THEN [i \in 1..Len(thread) |-> thread[Len(thread) - i + 1]] ELSE thread
PlaceOf(c, newest) == CHOOSE i \in DOMAIN thread : Listed(newest)[i] = c

\* Mutant: the offset counts pages.
MutantPage(newest, skip) ==
    {c \in Range(thread) :
        PlaceOf(c, newest) \in (skip * PageSize + 1)..(skip * PageSize + PageSize)}

Page(newest, skip) ==
    {c \in Range(thread) : PlaceOf(c, newest) \in (skip + 1)..(skip + PageSize)}

Reads(newest, skip, shown, all) ==
    LET page == Page(newest, skip) IN
    /\ visitor' = [shown |-> shown \cup page, all |-> all, newest |-> newest,
                   skip |-> skip + Cardinality(page), over |-> page = {}]
    /\ UNCHANGED <<thread, markVars>>

FirstPage == \E newest \in BOOLEAN : visitor.over /\ Reads(newest, 0, {}, Range(thread))
NextPage ==
    ~visitor.over /\ Reads(visitor.newest, visitor.skip, visitor.shown, visitor.all)

Lists == PostComment \/ FirstPage \/ NextPage

-----------------------------------------------------------------------------
\* An account has two marks on one target only if two of its requests met, and
\* without such a meeting a comment shows no more likes than it has: a later
\* look fails for two marks, and a cancel that takes both counts one.
MarksAreSingle ==
    /\ \A u \in Users, t \in Targets : ~StatusCanBeRead(u, t) => <<u, t>> \in overlapped
    /\ \A t \in Targets :
          KindOf[t] = "counted" /\ likes[t] > Cardinality(On(t)) =>
              \E u \in Users : <<u, t>> \in overlapped

\* A client that skips as many comments as it has been given misses none that
\* was there when it began, whatever is written between the pages.
PagesSkipNothing == visitor.over => visitor.all \subseteq visitor.shown
=============================================================================
