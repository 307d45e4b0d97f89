---------------------------- MODULE AliasSearch ----------------------------
(***************************************************************************)
(* progressive_alias_search of playback_discovery/strategy.py, under the   *)
(* collector of the full scan (aggregator.py): the MacCMS sites are asked  *)
(* for the aliases of a title, several at a time and within one budget.    *)
(*                                                                         *)
(* The event loop is the queue `loop` of the tasks that can go on; a task  *)
(* runs from the head of it to its next await, in one step.  The semaphore *)
(* is asyncio's: a place that comes free is handed to the first waiter,    *)
(* which is then in the loop and still among the waiters.                  *)
(***************************************************************************)
EXTENDS Naturals, Sequences, FiniteSets, SequencesExt

CONSTANTS
    OrderedSources,     \* the sites, sorted as the strategy sorts them
    Preferred,          \* the sites that need not wait for the fallback wave
    Collector,          \* the task that iterates
    AliasCount,         \* how many names the title has
    QueryBudget, MaxConcurrency

AllSources == ToSet(OrderedSources)

VARIABLES
    loop,       \* tasks that can go on, in order
    search,     \* the worker of each site
    gate,       \* the semaphore and the budget
    wave,       \* the timer of the fallback wave
    results,    \* the queue between workers and collector
    collector,  \* what the collector is doing
    status      \* SourceDiscoveryDiagnostic.status of each site

vars == <<loop, search, gate, wave, results, collector, status>>

Completed == [source |-> Collector, outcome |-> "completed"]

Init ==
    /\ loop = OrderedSources
    /\ search = [s \in AllSources |-> [at |-> "start", tried |-> 0, answered |-> 0]]
    /\ gate = [waiters |-> <<>>, free |-> MaxConcurrency, budget |-> QueryBudget]
    /\ wave \in {"none", "sleeping"}
    /\ results = <<>>
    /\ collector = "reading"
    /\ status = [s \in AllSources |-> "unqueried"]

-----------------------------------------------------------------------------
\* A cancelled or failed search, and a site that was matched, ends the names.
Terminal == {"match", "failure"}
StatusOf == [match |-> "matched", miss |-> "miss", failure |-> "failed"]

InLoop(ready, t) == \E i \in DOMAIN ready : ready[i] = t
Woken(ready, t) == IF InLoop(ready, t) THEN ready ELSE Append(ready, t)

\* A free place goes to the first waiter that has not been given one.
WakeUpNext(g, ready) ==
    LET asleep == {i \in DOMAIN g.waiters : ~InLoop(ready, g.waiters[i])} IN
        IF asleep = {} THEN [gate |-> g, ready |-> ready]
        ELSE [gate |-> [g EXCEPT !.free = @ - 1],
              ready |-> Append(ready, g.waiters[Min(asleep)])]

\* Mutant: the place is given back and nobody is told.
MutantRelease(g, ready) == [gate |-> [g EXCEPT !.free = @ + 1], ready |-> ready]

Release(g, ready) == WakeUpNext([g EXCEPT !.free = @ + 1], ready)

\* Mutant: a worker goes on to its next name at once.
MutantYield(s, ready) == <<s>> \o ready

Yield(s, ready) == Append(ready, s)

\* The site has answered: the place is given back, then the result is put.
Answered(s, tried, outcome, g, ready) ==
    LET left == Release(g, ready)
        told == IF outcome = "exception" THEN left.ready ELSE Woken(left.ready, Collector)
        ends == outcome \in Terminal \cup {"exception"}
    IN  /\ gate' = left.gate
        /\ results' = IF outcome = "exception" THEN results
                      ELSE Append(results, [source |-> s, outcome |-> outcome])
        /\ search' = [search EXCEPT ![s].at = IF ends THEN "done" ELSE "pause",
                                    ![s].tried = tried,
                                    ![s].answered = IF outcome = "exception" THEN @ ELSE @ + 1]
        /\ loop' = IF ends THEN told ELSE Yield(s, told)

\* Inside the semaphore: one unit of the budget, then the query, which may
\* or may not give the loop away.
Query(s, g, ready) ==
    IF g.budget = 0
    THEN LET left == Release(g, ready) IN
            /\ gate' = left.gate /\ loop' = left.ready
            /\ search' = [search EXCEPT ![s].at = "done"]
            /\ UNCHANGED <<results, status>>
    ELSE LET spent == [g EXCEPT !.budget = @ - 1] IN
            /\ status' = [status EXCEPT ![s] = "searching"]
            /\ \/ /\ gate' = spent /\ loop' = ready
                  /\ search' = [search EXCEPT ![s].at = "query", ![s].tried = @ + 1]
                  /\ UNCHANGED results
               \/ \E outcome \in {"match", "miss", "failure", "exception"} :
                     Answered(s, search[s].tried + 1, outcome, spent, ready)

\* `async with semaphore`.
Acquire(s) ==
    IF gate.free > 0 /\ gate.waiters = <<>>
    THEN Query(s, [gate EXCEPT !.free = @ - 1], Tail(loop))
    ELSE /\ gate' = [gate EXCEPT !.waiters = Append(@, s)]
         /\ search' = [search EXCEPT ![s].at = "semaphore"]
         /\ loop' = Tail(loop)
         /\ UNCHANGED <<results, status>>

Runs(s, at) ==
    /\ loop # <<>> /\ Head(loop) = s /\ search[s].at = at /\ collector = "reading"
    /\ UNCHANGED <<wave, collector>>

Start(s) ==
    /\ Runs(s, "start")
    /\ IF s \notin Preferred /\ wave = "sleeping"
       THEN /\ search' = [search EXCEPT ![s].at = "wave"]
            /\ loop' = Tail(loop)
            /\ UNCHANGED <<gate, results, status>>
       ELSE Acquire(s)

JoinWave(s) == Runs(s, "wave") /\ Acquire(s)

\* The worker has been handed a place; if another one is free, so is the next.
Enter(s) ==
    /\ Runs(s, "semaphore")
    /\ LET mine == [gate EXCEPT !.waiters = RemoveFirst(@, s)]
           next == IF mine.free > 0 THEN WakeUpNext(mine, Tail(loop))
                   ELSE [gate |-> mine, ready |-> Tail(loop)]
       IN  Query(s, next.gate, next.ready)

TakeAnswer(s) ==
    /\ Runs(s, "query")
    /\ \E outcome \in {"match", "miss", "failure", "exception"} :
          Answered(s, search[s].tried, outcome, gate, Tail(loop))
    /\ UNCHANGED status

NextAlias(s) ==
    /\ Runs(s, "pause")
    /\ IF search[s].tried < AliasCount THEN Acquire(s)
       ELSE /\ search' = [search EXCEPT ![s].at = "done"]
            /\ loop' = Tail(loop)
            /\ UNCHANGED <<gate, results, status>>

\* The event loop learns of an answer or of the end of the delay.
Respond(s) ==
    /\ search[s].at = "query" /\ ~InLoop(loop, s)
    /\ loop' = Append(loop, s)
    /\ UNCHANGED <<search, gate, wave, results, collector, status>>

\* Some of the sites, in the order of the strategy.
Place(s) == CHOOSE i \in DOMAIN OrderedSources : OrderedSources[i] = s
InOrder(some) ==
    {q \in [1..Cardinality(some) -> some] :
        /\ ToSet(q) = some
        /\ \A i, j \in DOMAIN q : i < j => Place(q[i]) < Place(q[j])}

\* Mutant: each worker has a timer of its own.
MutantWaveEnds ==
    \E s \in AllSources :
        /\ search[s].at = "wave" /\ ~InLoop(loop, s)
        /\ loop' = Append(loop, s)
        /\ UNCHANGED <<search, gate, wave, results, collector, status>>

WaveEnds ==
    /\ wave = "sleeping" /\ wave' = "over"
    /\ \E waiting \in InOrder({s \in AllSources : search[s].at = "wave"}) :
          loop' = loop \o waiting
    /\ UNCHANGED <<search, gate, results, collector, status>>

-----------------------------------------------------------------------------
Done == \A s \in AllSources : search[s].at = "done"

\* finish_workers
Finish ==
    /\ collector = "reading" /\ Done
    /\ ~\E i \in DOMAIN results : results[i] = Completed
    /\ results' = Append(results, Completed)
    /\ loop' = Woken(loop, Collector)
    /\ UNCHANGED <<search, gate, wave, collector, status>>

\* The collector takes what is in the queue; nothing in it awaits.
Collect ==
    /\ loop # <<>> /\ Head(loop) = Collector /\ collector = "reading"
    /\ LET last(s) == {i \in DOMAIN results : results[i].source = s
                          /\ \A j \in DOMAIN results : results[j].source = s => j <= i}
       IN  status' = [s \in AllSources |->
                        IF last(s) = {} THEN status[s]
                        ELSE StatusOf[results[CHOOSE i \in last(s) : TRUE].outcome]]
    /\ collector' = IF \E i \in DOMAIN results : results[i] = Completed
                    THEN "ended" ELSE "reading"
    /\ results' = <<>>
    /\ loop' = Tail(loop)
    /\ UNCHANGED <<search, gate, wave>>

\* The time of the scan is up, or the iterator is closed: every task that has
\* not ended is cancelled and awaited.
Close ==
    /\ collector = "reading"
    /\ collector' = "closing"
    /\ loop' \in InOrder({s \in AllSources : search[s].at # "done"})
    /\ UNCHANGED <<search, gate, wave, results, status>>

Cancelled(s) ==
    /\ collector = "closing" /\ loop # <<>> /\ Head(loop) = s
    /\ search' = [search EXCEPT ![s].at = "done"]
    /\ loop' = Tail(loop)
    /\ UNCHANGED <<gate, wave, results, collector, status>>

\* The full scan then counts what was still being searched as timed out.
Closed ==
    /\ collector = "closing" /\ Done
    /\ collector' = "closed"
    /\ status' = [s \in AllSources |->
                    IF status[s] = "searching" THEN "timeout" ELSE status[s]]
    /\ UNCHANGED <<loop, search, gate, wave, results>>

-----------------------------------------------------------------------------
Work(s) == Start(s) \/ JoinWave(s) \/ Enter(s) \/ TakeAnswer(s) \/ NextAlias(s) \/ Cancelled(s)

Run == (\E s \in AllSources : Work(s)) \/ Finish \/ Collect \/ Closed

Next == Run \/ (\E s \in AllSources : Respond(s)) \/ WaveEnds \/ Close

\* The loop runs what can go on, sites answer or time out, the timer fires.
Progress == Run \/ (\E s \in AllSources : Respond(s)) \/ WaveEnds

Spec == Init /\ [][Next]_vars /\ WF_vars(Progress)

-----------------------------------------------------------------------------
\* The tasks and the semaphore; a unit of the budget has been taken for each
\* query, and nothing runs once the iterator is closed or at its end.
TypeOK ==
    /\ search \in [AllSources ->
          [at : {"start", "wave", "semaphore", "query", "pause", "done"},
           tried : 0..AliasCount, answered : 0..AliasCount]]
    /\ gate.free \in 0..MaxConcurrency /\ gate.budget \in 0..QueryBudget
    /\ FoldLeft(LAMBDA n, s : n + search[s].tried, gate.budget, OrderedSources) = QueryBudget
    /\ collector \in {"reading", "closing", "closed", "ended"}
    /\ collector \in {"closed", "ended"} => Done

SameWave(s, t) == wave = "none" \/ (s \in Preferred <=> t \in Preferred)

\* No site is asked for a second name before every site that started with it
\* has been asked for the first: one site cannot use the budget up, however
\* fast it answers (strategy.py:91-94).
FirstAliasForAll ==
    \A s, t \in AllSources :
        SameWave(s, t) /\ search[s].tried > 1 => search[t].tried > 0

\* What a scan says of a site is about its last query, even though the worker
\* and the collector both write it: a site counts as one without the title
\* only when all its queries were answered, and as not asked only when it was
\* not.  A full scan keeps "no line" for hours on this evidence.
StatusIsTrue ==
    \A s \in AllSources :
        /\ status[s] = "miss" => search[s].answered = search[s].tried
        /\ status[s] = "unqueried" <=> search[s].tried = 0

\* The iteration ends.
Ends == <>(collector \in {"ended", "closed"})
=============================================================================
