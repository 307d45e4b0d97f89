------------------------------ MODULE Playback ------------------------------
(***************************************************************************)
(* The playback lines of one episode: server/server/playback.py, with what *)
(* it uses of aggregator.py, repositories/playback.py and database.py.     *)
(*                                                                         *)
(* The service runs in one event loop: code between two awaits is one      *)
(* step.  A full refresh asks every source; a quick one stops at the first *)
(* lines and is followed by a full one.  Each is a task that callers share *)
(* and that outlives them, and both store what they find in the one cache  *)
(* row of the episode.                                                     *)
(*                                                                         *)
(* Source health and bindings are shared with every other title, so a scan *)
(* finds any bindings and any open circuits.  Time is the moment when the  *)
(* cache row changes its state.                                            *)
(***************************************************************************)
EXTENDS Naturals

CONSTANTS
    Sources,        \* source_inventory
    Callers,        \* requests for the episode at the same time
    FullTasks,      \* names for full refreshes
    QuickTasks,     \* names for quick refreshes
    NoTask,
    Slots,          \* of each of the two semaphores
    Attempts        \* of a quick write (3 in the code)

ASSUME TaskAssumption ==
    FullTasks \cap QuickTasks = {} /\ NoTask \notin FullTasks \cup QuickTasks
ASSUME LimitAssumption == Slots \in Nat \ {0} /\ Attempts \in Nat \ {0}

Tasks == FullTasks \cup QuickTasks
Kinds == {"full", "quick"}
KindOf(t) == IF t \in FullTasks THEN "full" ELSE "quick"

-----------------------------------------------------------------------------
(***************************************************************************)
(* What a scan learns of one source.                                       *)
(***************************************************************************)
\* The search ("skipped": not in the query budget, or not for this type),
\* and what became of the match, if there was one to resolve.
Outcome ==
    {o \in [search : {"skipped", "none", "hit", "failed"},
            bound  : BOOLEAN,       \* a binding of an earlier scan was loaded
            barred : BOOLEAN,       \* its circuit is open, the match too weak
            route  : {"none", "line", "no", "down"}] :
        /\ o.barred => o.search = "hit"
        /\ o.route = "none" <=> ~o.bound /\ (o.search # "hit" \/ o.barred)}

Scan == [Sources -> Outcome]

Unasked == [search |-> "skipped", bound |-> FALSE,
            barred |-> FALSE, route |-> "none"]
QuickLine == [Unasked EXCEPT !.bound = TRUE, !.route = "line"]

\* _complete_site_inventory: `diagnostic_status` and `queried` of the source.
\* What a resolution says overwrites what the search has said.
DiagnosticStatus(o) ==
    IF o.route # "none" THEN o.route
    ELSE IF o.barred THEN "suppressed" ELSE o.search
Queried(o) == o.search # "skipped"

HasUsableRoute(scan) == \E s \in Sources : DiagnosticStatus(scan[s]) = "line"

\* Mutant: a source counts as asked when there was something to resolve.
MutantNegativeIsConfirmed(scan) ==
    \A s \in Sources : DiagnosticStatus(scan[s]) \in {"none", "no"}

\* _full_negative_cache_is_confirmed
NegativeIsConfirmed(scan) ==
    \A s \in Sources :
        Queried(scan[s]) /\ DiagnosticStatus(scan[s]) \in {"none", "no"}

ShouldStoreFullResult(scan) ==
    /\ \A s \in Sources : DiagnosticStatus(scan[s]) # "skipped"
    /\ HasUsableRoute(scan) \/ NegativeIsConfirmed(scan)

\* A quick refresh keeps what it has resolved, and no search diagnostics.
QuickScan ==
    {scan \in [Sources -> {Unasked, QuickLine}] : HasUsableRoute(scan)}

\* Whatever the code makes of it: every source has been asked or resolved,
\* and if there is no line every one was searched and has definitely none.
Whole(scan) ==
    /\ \A s \in Sources : scan[s].search # "skipped" \/ scan[s].bound
    /\ \/ \E s \in Sources : scan[s].route = "line"
       \/ \A s \in Sources :
             /\ scan[s].search # "skipped"
             /\ \/ scan[s].route = "no"
                \/ scan[s].route = "none" /\ scan[s].search = "none"

\* What the row keeps of a scan: has it lines, and is it whole.
Kept(scan) == [lines |-> HasUsableRoute(scan), whole |-> Whole(scan)]
FullResults == {Kept(scan) : scan \in {z \in Scan : ShouldStoreFullResult(z)}}
QuickResults == {Kept(scan) : scan \in QuickScan}

-----------------------------------------------------------------------------
VARIABLES
    row,        \* the row of `playback_cache`
    age,        \* what _cache_state_and_items says of it
    task,       \* how far each task is
    current,    \* _refresh_tasks and _quick_tasks, at this episode
    free,       \* free places of the two semaphores
    write,      \* of a quick task: its attempts, and is the row as it read it
    caller,     \* what each request is doing
    service     \* `_closing`, and has aclose returned

cacheVars == <<row, age, write>>
taskVars == <<task, current, free>>
vars == <<cacheVars, taskVars, caller, service>>

NoRow == [scope |-> "none", kept |-> [lines |-> FALSE, whole |-> FALSE]]

\* A request has seen a stale row, or needs a refresh, full or quick.
Caller ==
    [step : {"idle", "stale", "full", "quick", "waiting"},
     task : Tasks \cup {NoTask}]
Idle == [step |-> "idle", task |-> NoTask]

Init ==
    /\ row = NoRow /\ age = "miss"
    /\ task = [t \in Tasks |-> "gone"]
    /\ current = [k \in Kinds |-> NoTask]
    /\ free = [k \in Kinds |-> Slots]
    /\ write = [t \in QuickTasks |-> [tries |-> 0, intact |-> FALSE]]
    /\ caller = [c \in Callers |-> Idle]
    /\ service = "open"

-----------------------------------------------------------------------------
(***************************************************************************)
(* Tasks.  A task that is "done" has its callbacks to come.                *)
(***************************************************************************)
Active(t) == t # NoTask /\ task[t] \notin {"done", "gone"}

\* _start_full_refresh, _start_quick_refresh: the task that runs, or a new
\* one under a name that is free.
CanObtain(kind) ==
    Active(current[kind]) \/ \E t \in Tasks : KindOf(t) = kind /\ task[t] = "gone"
Obtained(kind) ==
    IF Active(current[kind]) THEN current[kind]
    ELSE CHOOSE t \in Tasks : KindOf(t) = kind /\ task[t] = "gone"

Started(tasks, t) == IF Active(t) THEN tasks ELSE [tasks EXCEPT ![t] = "queued"]

\* Whoever waits for the task has its result.
Wake(t) ==
    caller' = [c \in Callers |-> IF caller[c].task = t THEN Idle ELSE caller[c]]

\* Mutant: the callback removes whatever is there.
MutantRemove(t) ==
    /\ task[t] = "done"
    /\ task' = [task EXCEPT ![t] = "gone"]
    /\ current' = [current EXCEPT ![KindOf(t)] = NoTask]
    /\ Wake(t)
    /\ UNCHANGED <<cacheVars, free, service>>

\* The callbacks of a task, in the order in which they were added: `remove`,
\* then those of the requests.
Remove(t) ==
    /\ task[t] = "done"
    /\ task' = [task EXCEPT ![t] = "gone"]
    /\ current' = [current EXCEPT ![KindOf(t)] = IF @ = t THEN NoTask ELSE @]
    /\ Wake(t)
    /\ UNCHANGED <<cacheVars, free, service>>

\* The loop is first in, first out: the callback of the task before comes
\* before the first step of a new one.
Enter(t) ==
    /\ service = "open"
    /\ task[t] = "queued" /\ free[KindOf(t)] > 0
    /\ \A u \in Tasks : KindOf(u) = KindOf(t) => task[u] # "done"
    /\ task' = [task EXCEPT ![t] = "running"]
    /\ free' = [free EXCEPT ![KindOf(t)] = @ - 1]
    /\ UNCHANGED <<cacheVars, current, caller, service>>

\* Mutant: the place in the semaphore is lost.
MutantFinish(t, step) ==
    /\ task' = [task EXCEPT ![t] = step]
    /\ UNCHANGED <<free, current, caller, service>>

\* The task leaves the semaphore; a quick one has its `finally` to come.
Finish(t, step) ==
    /\ task' = [task EXCEPT ![t] = step]
    /\ free' = [free EXCEPT ![KindOf(t)] = @ + 1]
    /\ UNCHANGED <<current, caller, service>>

-----------------------------------------------------------------------------
(***************************************************************************)
(* The cache row.                                                          *)
(***************************************************************************)
Store(scope, results) ==
    /\ \E kept \in results : row' = [scope |-> scope, kept |-> kept]
    /\ age' = "fresh"

\* Its TTL is over, then the time it may be served stale; or its routes have
\* expired.  A row without lines is never stale.
Age ==
    /\ row.scope # "none"
    /\ \/ age = "fresh" /\ row.kept.lines /\ age' = "stale"
       \/ age # "miss" /\ age' = "miss"
    /\ UNCHANGED <<row, write, taskVars, caller, service>>

\* _cache_lookup: for a full answer the row of a quick scan is a miss.
Lookup(kind) ==
    IF kind = "force" \/ (kind = "lines" /\ row.scope = "quick")
      THEN "miss" ELSE age

\* _quick_cache_can_replace
QuickCacheCanReplace == row.scope # "full" \/ age = "miss"

\* upsert_playback_cache, by a full refresh: an INSERT that loses against
\* another is repeated as an UPDATE, so the row is always written.
RefreshFull(t) ==
    /\ service = "open"
    /\ t \in FullTasks /\ task[t] = "running"
    /\ Store("full", FullResults)
    /\ write' = [q \in QuickTasks |-> [write[q] EXCEPT !.intact = FALSE]]
    /\ Finish(t, "done")

\* The result is not to be stored, or the refresh fails.
RefreshFullStoresNothing(t) ==
    /\ service = "open"
    /\ t \in FullTasks /\ task[t] = "running"
    /\ Finish(t, "done")
    /\ UNCHANGED cacheVars

\* A quick write reads the row, decides ...
QuickQualify(t) ==
    /\ service = "open"
    /\ t \in QuickTasks /\ task[t] = "running"
    /\ write[t].tries < Attempts
    /\ QuickCacheCanReplace
    /\ task' = [task EXCEPT ![t] = "storing"]
    /\ write' = [write EXCEPT ![t] = [tries |-> @.tries + 1, intact |-> TRUE]]
    /\ UNCHANGED <<row, age, current, free, caller, service>>

\* Mutant: the UPDATE names the row by its id alone.
MutantStillAsRead(t) == row.scope # "none"

\* The WHERE clause of the UPDATE compares every field it has read; the
\* INSERT fails when there is a row by now.
StillAsRead(t) == write[t].intact

\* ... and writes only if the row is still what it has read.
QuickSwap(t) ==
    /\ service = "open"
    /\ t \in QuickTasks /\ task[t] = "storing"
    /\ StillAsRead(t)
    /\ Store("quick", QuickResults)
    /\ write' = [q \in QuickTasks |-> [tries |-> 0, intact |-> FALSE]]
    /\ Finish(t, "ending")

QuickContended(t) ==
    /\ service = "open"
    /\ t \in QuickTasks /\ task[t] = "storing"
    /\ ~StillAsRead(t)
    /\ task' = [task EXCEPT ![t] = "running"]
    /\ UNCHANGED <<cacheVars, current, free, caller, service>>

\* Nothing found, nothing to replace, the attempts used up, the deadline.
QuickEnd(t) ==
    /\ service = "open"
    /\ t \in QuickTasks /\ task[t] \in {"running", "storing"}
    /\ write' = [write EXCEPT ![t] = [tries |-> 0, intact |-> FALSE]]
    /\ Finish(t, "ending")
    /\ UNCHANGED <<row, age>>

\* The `finally` of _run_quick_refresh: a full refresh follows.
QuickFinally(t) ==
    /\ t \in QuickTasks /\ task[t] = "ending"
    /\ IF service = "open"
         THEN /\ CanObtain("full")
              /\ task' = [Started(task, Obtained("full")) EXCEPT ![t] = "done"]
              /\ current' = [current EXCEPT !["full"] = Obtained("full")]
         ELSE task' = [task EXCEPT ![t] = "done"] /\ UNCHANGED current
    /\ UNCHANGED <<cacheVars, free, caller, service>>

-----------------------------------------------------------------------------
(***************************************************************************)
(* Requests.                                                               *)
(***************************************************************************)
\* lines, quick_lines: the cache is read; a fresh answer is given at once.
Ask(c, kind) ==
    /\ service = "open"
    /\ caller[c].step = "idle"
    /\ Lookup(kind) # "fresh"
    /\ caller' = [caller EXCEPT ![c].step =
           IF Lookup(kind) = "stale" THEN "stale"
           ELSE IF kind = "quick" THEN "quick" ELSE "full"]
    /\ UNCHANGED <<cacheVars, taskVars, service>>

Answered(c) == caller' = [caller EXCEPT ![c] = Idle]

Starts(kind) ==
    /\ CanObtain(kind)
    /\ task' = Started(task, Obtained(kind))
    /\ current' = [current EXCEPT ![kind] = Obtained(kind)]
    /\ UNCHANGED <<cacheVars, free, service>>

\* A stale answer starts a full refresh ...
AnswerStale(c) ==
    /\ caller[c].step = "stale"
    /\ Starts("full")
    /\ Answered(c)

\* ... and without an answer the request waits for a refresh ...
AwaitTask(c) ==
    LET kind == caller[c].step IN
    /\ kind \in Kinds
    /\ Starts(kind)
    /\ caller' = [caller EXCEPT ![c] =
                     [step |-> "waiting", task |-> Obtained(kind)]]

\* ... unless a quick one has managed lines to give.
AnswerManaged(c) ==
    /\ caller[c].step = "quick"
    /\ Starts("quick")
    /\ Answered(c)

\* A client disconnects; the refresh is shielded from that.
HangUp(c) ==
    /\ caller[c].step # "idle"
    /\ Answered(c)
    /\ UNCHANGED <<cacheVars, taskVars, service>>

-----------------------------------------------------------------------------
(***************************************************************************)
(* aclose.  The requests and the scheduler have ended by then (main.py,    *)
(* lifespan); what they have started has not.                              *)
(***************************************************************************)
Close ==
    /\ service = "open"
    /\ \A c \in Callers : caller[c].step = "idle"
    /\ service' = "closing"
    /\ UNCHANGED <<cacheVars, taskVars, caller>>

\* A cancelled task ends at its next await; a quick one by its `finally`.
Cancelled(t) ==
    /\ service = "closing"
    /\ \E k \in Kinds : current[k] = t
    /\ task[t] \in {"queued", "running", "storing"}
    /\ task' = [task EXCEPT ![t] = IF t \in QuickTasks THEN "ending" ELSE "done"]
    /\ free' = IF task[t] = "queued" THEN free
                                    ELSE [free EXCEPT ![KindOf(t)] = @ + 1]
    /\ UNCHANGED <<cacheVars, current, caller, service>>

Closed ==
    /\ service = "closing"
    /\ \A k \in Kinds : ~Active(current[k])
    /\ service' = "closed"
    /\ current' = [k \in Kinds |-> NoTask]
    /\ UNCHANGED <<cacheVars, task, free, caller>>

-----------------------------------------------------------------------------
Run(t) ==
    \/ Enter(t) \/ RefreshFull(t) \/ RefreshFullStoresNothing(t)
    \/ QuickQualify(t) \/ QuickSwap(t) \/ QuickContended(t) \/ QuickEnd(t)
    \/ QuickFinally(t) \/ Cancelled(t) \/ Remove(t)

Serve(c) == AnswerStale(c) \/ AwaitTask(c) \/ AnswerManaged(c)

Next ==
    \/ Age
    \/ \E t \in Tasks : Run(t)
    \/ \E c \in Callers :
          Serve(c) \/ HangUp(c) \/ \E kind \in {"lines", "force", "quick"} : Ask(c, kind)
    \/ Close \/ Closed

\* The event loop runs what is ready, and every await of a refresh has a
\* timeout: a place in the semaphore comes free again.
Fairness ==
    /\ \A t \in Tasks : WF_vars(Run(t))
    /\ \A c \in Callers : WF_vars(Serve(c))

Spec == Init /\ [][Next]_vars /\ Fairness

-----------------------------------------------------------------------------
(***************************************************************************)
(* Properties                                                              *)
(***************************************************************************)
\* The row and the tasks.  A row that counts as full is whole: nothing that
\* was not asked, timed out or was barred is stored as an answer for good.
TypeOK ==
    /\ row \in [scope : {"none", "quick", "full"},
               kept  : [lines : BOOLEAN, whole : BOOLEAN]]
    /\ row.scope = "full" => row.kept.whole
    /\ age \in {"fresh", "stale", "miss"}
    /\ task \in [Tasks -> {"queued", "running", "storing", "ending", "done", "gone"}]
    /\ \A k \in Kinds : current[k] = NoTask \/ KindOf(current[k]) = k
    /\ free \in [Kinds -> 0..Slots]
    /\ write \in [QuickTasks -> [tries : 0..Attempts, intact : BOOLEAN]]
    /\ caller \in [Callers -> Caller]
    /\ service \in {"open", "closing", "closed"}

\* A task that has not ended is the one that the next caller joins and that
\* aclose cancels: there are never two of a kind, whatever the order of the
\* callbacks, and none is left when aclose has returned.
RunningIsTracked ==
    \A t \in Tasks : Active(t) => current[KindOf(t)] = t

\* A quick refresh, however long ago it read the cache, never replaces an
\* answer of a full one that can still be served.
FullStands ==
    [][row.scope = "full" /\ age # "miss" => row'.scope = "full"]_vars

\* Whoever waits for a refresh is answered.
EveryoneIsAnswered ==
    \A c \in Callers : caller[c].step = "waiting" ~> caller[c].step = "idle"

=============================================================================
