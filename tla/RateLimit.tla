----------------------------- MODULE RateLimit -----------------------------
(***************************************************************************)
(* How many attempts a client has: server/server/rate_limit.py, with one   *)
(* table in the process or one in Redis, and how many passwords are hashed *)
(* at a time: run_password_work of server/server/auth.py.                  *)
(***************************************************************************)
EXTENDS Naturals, Sequences, FiniteSetsExt

CONSTANTS
    Keys,           \* of clients and accounts, with the endpoint
    Allowed,        \* limit of an endpoint
    Window,         \* window_seconds
    MaxKeys,        \* of the table in the process
    Workers,        \* _PASSWORD_WORKERS
    Jobs,           \* requests that hash a password
    Ticks           \* bound: how long a behaviour lasts

VARIABLES
    instant,    \* the clock
    shared,     \* is the limiter the one with Redis
    bucket,     \* events of each key; Redis: how many, and until when
    granted,    \* when a key was granted an attempt, in the last window
    refused,    \* the last attempt: was it refused, and what was there
    slots,      \* free places of the semaphore
    work        \* what each request and its hash are doing

vars == <<instant, shared, bucket, granted, refused, slots, work>>
limiterVars == <<instant, shared, bucket, granted, refused>>
poolVars == <<slots, work>>

\* Idle: not in the table, or no such key in Redis.
Idle == [events |-> <<>>, count |-> 0, until |-> 0]
NoRefusal == [key |-> "none", full |-> FALSE]

Init ==
    /\ instant = Window /\ shared \in BOOLEAN
    /\ bucket = [k \in Keys |-> Idle]
    /\ granted = [k \in Keys |-> <<>>]
    /\ refused = NoRefusal
    /\ slots = Workers
    /\ work = [j \in Jobs |-> "none"]

-----------------------------------------------------------------------------
(***************************************************************************)
(* The limiter                                                             *)
(***************************************************************************)
\* What is a window old is taken from the front until an event is younger.
Since(events, moment) ==
    LET young == {i \in DOMAIN events : events[i] + Window > moment} IN
    IF young = {} THEN <<>> ELSE SubSeq(events, Min(young), Len(events))

Recent(events) == Since(events, instant)

\* The clock; what has ended in Redis is gone.
Tick ==
    /\ instant < Window + Ticks
    /\ instant' = instant + 1
    /\ granted' = [k \in Keys |-> Since(granted[k], instant')]
    /\ bucket' = [k \in Keys |->
          IF shared /\ bucket[k].until <= instant' THEN Idle ELSE bucket[k]]
    /\ refused' = NoRefusal
    /\ UNCHANGED <<shared, poolVars>>

Grant(k) == granted' = [granted EXCEPT ![k] = Append(@, instant)] /\ refused' = NoRefusal
Refuse(k, full) == refused' = [key |-> k, full |-> full] /\ UNCHANGED granted

InTable == {k \in Keys : bucket[k].events # <<>>}

\* _purge_expired: before a key is added to a table that is full.
Purged(k) ==
    IF k \notin InTable /\ Cardinality(InTable) >= MaxKeys
      THEN [q \in Keys |-> [bucket[q] EXCEPT !.events = Recent(@)]] ELSE bucket

\* Mutant: the key that makes room is the one that was there first, its events
\* with it.
MutantCheck(k) ==
    /\ ~shared
    /\ LET victims == IF k \notin InTable /\ Cardinality(InTable) >= MaxKeys THEN InTable ELSE {}
           events == Recent(bucket[k].events) IN
       IF Len(events) >= Allowed
         THEN Refuse(k, FALSE) /\ bucket' = [bucket EXCEPT ![k].events = events]
         ELSE \E room \in SUBSET victims :
                Grant(k) /\ bucket' = [q \in Keys |->
                    IF q = k THEN [Idle EXCEPT !.events = Append(events, instant)]
                    ELSE IF q \in room THEN Idle ELSE bucket[q]]
    /\ UNCHANGED <<instant, shared, poolVars>>

\* InMemoryRateLimiter.check, under its lock: a new key is refused if all keys of
\* the table have recent events.
Check(k) ==
    /\ ~shared
    /\ LET table == Purged(k)
           full == /\ k \notin InTable
                   /\ Cardinality({q \in Keys : table[q].events # <<>>}) >= MaxKeys
           events == Recent(table[k].events) IN
       IF full THEN Refuse(k, TRUE) /\ bucket' = table
       ELSE IF Len(events) >= Allowed
         THEN Refuse(k, FALSE) /\ bucket' = [table EXCEPT ![k].events = events]
         ELSE Grant(k) /\ bucket' = [table EXCEPT ![k].events = Append(events, instant)]
    /\ UNCHANGED <<instant, shared, poolVars>>

\* RedisRateLimiter.check: the first of a window begins it.
CheckShared(k) ==
    /\ shared /\ bucket[k].count <= Allowed
    /\ bucket' = [bucket EXCEPT ![k] =
          [bucket[k] EXCEPT !.count = @ + 1, !.until = IF bucket[k].count = 0 THEN instant + Window ELSE @]]
    /\ IF bucket[k].count < Allowed THEN Grant(k) ELSE Refuse(k, FALSE)
    /\ UNCHANGED <<instant, shared, poolVars>>

\* Redis cannot be asked: the request is refused.
Unavailable(k) ==
    /\ shared /\ Refuse(k, TRUE)
    /\ UNCHANGED <<instant, shared, bucket, poolVars>>

\* clear
Clear ==
    /\ ~shared /\ bucket' = [k \in Keys |-> Idle] /\ granted' = [k \in Keys |-> <<>>]
    /\ refused' = NoRefusal
    /\ UNCHANGED <<instant, shared, poolVars>>

LimitAttempts ==
    \/ Tick \/ Clear
    \/ \E k \in Keys : Check(k) \/ CheckShared(k) \/ Unavailable(k)

-----------------------------------------------------------------------------
(***************************************************************************)
(* The hashes of passwords                                                 *)
(***************************************************************************)
Moves(j, from, to, change) ==
    /\ work[j] \in from /\ work' = [work EXCEPT ![j] = to]
    /\ slots' = change
    /\ UNCHANGED limiterVars

\* slots.acquire: a place at once or later.
Enter(j) == Moves(j, {"none"}, "queued", slots)
Acquire(j) == slots > 0 /\ Moves(j, {"queued"}, "hashing", slots - 1)

\* Nobody waits for it any more: "Canceling an asyncio waiter cannot stop a
\* running bcrypt call."
Leave(j) == Moves(j, {"queued"}, "none", slots)

\* Mutant: the place is free as soon as nobody waits.
MutantAbandon(j) == Moves(j, {"hashing"}, "abandoned", slots + 1)

Abandon(j) == Moves(j, {"hashing"}, "abandoned", slots)

\* The thread is done; the loop is told to release the place.
Hashed(j) == Moves(j, {"hashing", "abandoned"}, "released", slots)
Release(j) == Moves(j, {"released"}, "none", slots + 1)

Hash ==
    \E j \in Jobs :
        Enter(j) \/ Acquire(j) \/ Leave(j) \/ Abandon(j) \/ Hashed(j) \/ Release(j)

-----------------------------------------------------------------------------
\* No client has more attempts in the time of a window than the limit (with
\* Redis, whose windows are fixed: than two), whatever other clients do to the
\* table; one is refused only for its own attempts, or if the table is full of
\* clients with recent ones; and no more passwords are hashed at a time than
\* there are threads, although those who asked may leave.
LimitsHold ==
    /\ \A k \in Keys : Len(granted[k]) <= (IF shared THEN 2 * Allowed ELSE Allowed)
    /\ refused.key \in Keys /\ ~refused.full =>
          Len(granted[refused.key]) >= (IF shared THEN 1 ELSE Allowed)
    /\ refused.key \in Keys /\ refused.full /\ ~shared =>
          Cardinality({k \in Keys : granted[k] # <<>>}) >= MaxKeys
    /\ Cardinality({j \in Jobs : work[j] \in {"hashing", "abandoned"}}) <= Workers
    /\ slots + Cardinality({j \in Jobs : work[j] \in {"hashing", "abandoned", "released"}}) = Workers
=============================================================================
