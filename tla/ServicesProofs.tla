--------------------------- MODULE ServicesProofs ---------------------------
(***************************************************************************)
(* Theorems about what the server does in the background: the refresh      *)
(* tasks of Playback, for every set of tasks and callers, and what the     *)
(* parts of MCServices promise together: the codes and their mail          *)
(* (VerificationProofs), the search of a full scan and the loop of a quick *)
(* one.                                                                    *)
(***************************************************************************)
EXTENDS MCServices, TLAPS, FiniteSetTheorems, WellFoundedInduction
-----------------------------------------------------------------------------
(***************************************************************************)
(* What is stored of a full scan                                           *)
(***************************************************************************)

\* A status tells what a scan has learned: none of its values has two meanings.
LEMMA StatusMeans ==
    ASSUME NEW o \in Outcome
    PROVE  /\ DiagnosticStatus(o) # "skipped" => o.search # "skipped" \/ o.bound
           /\ DiagnosticStatus(o) = "line" => o.route = "line"
           /\ DiagnosticStatus(o) \in {"none", "no"} =>
                 o.route = "no" \/ (o.route = "none" /\ o.search = "none")
<1>1. /\ o.search \in {"skipped", "none", "hit", "failed"} /\ o.bound \in BOOLEAN
      /\ o.route \in {"none", "line", "no", "down"}
      /\ o.barred => o.search = "hit"
      /\ o.route = "none" <=> ~o.bound /\ (o.search # "hit" \/ o.barred)
  BY DEF Outcome
<1>2. CASE o.route # "none"
  BY <1>1, <1>2 DEF DiagnosticStatus
<1>3. CASE o.route = "none" /\ o.barred
  BY <1>1, <1>3 DEF DiagnosticStatus
<1>4. CASE o.route = "none" /\ ~o.barred
  BY <1>1, <1>4 DEF DiagnosticStatus
<1> QED
  BY <1>2, <1>3, <1>4

LEMMA FullResultsAreWhole ==
    ASSUME NEW kept \in FullResults
    PROVE  kept.whole /\ kept.lines \in BOOLEAN /\ kept.whole \in BOOLEAN
<1>1. PICK scan \in Scan : ShouldStoreFullResult(scan) /\ kept = Kept(scan)
  BY DEF FullResults
<1>2. \A s \in Sources : scan[s] \in Outcome
  BY DEF Scan
<1>3. \A s \in Sources : scan[s].search # "skipped" \/ scan[s].bound
  BY <1>1, <1>2, StatusMeans DEF ShouldStoreFullResult
<1>4. HasUsableRoute(scan) => \E s \in Sources : scan[s].route = "line"
  BY <1>2, StatusMeans DEF HasUsableRoute
<1>5. NegativeIsConfirmed(scan) =>
        \A s \in Sources :
           /\ scan[s].search # "skipped"
           /\ scan[s].route = "no" \/ (scan[s].route = "none" /\ scan[s].search = "none")
  BY <1>2, StatusMeans DEF NegativeIsConfirmed, Queried
<1>6. Whole(scan)
  BY <1>1, <1>3, <1>4, <1>5 DEF ShouldStoreFullResult, Whole
<1> QED
  BY <1>1, <1>6 DEF Kept, HasUsableRoute, Whole

-----------------------------------------------------------------------------
(***************************************************************************)
(* The invariant                                                           *)
(***************************************************************************)
Typed ==
    /\ row.scope \in {"none", "quick", "full"}
    /\ DOMAIN task = Tasks /\ task = [t \in Tasks |-> task[t]]
    /\ DOMAIN current = Kinds /\ current = [k \in Kinds |-> current[k]]
    /\ \A k \in Kinds : current[k] = NoTask \/ (current[k] \in Tasks /\ KindOf(current[k]) = k)
    /\ write \in [QuickTasks -> [tries : Nat, intact : BOOLEAN]]

FullIsWhole == row.scope = "full" => row.kept.whole

\* While the row is as a quick refresh has read it, it may be replaced.
IntactMayGo ==
    \A t \in QuickTasks : write[t].intact => row.scope # "full" \/ age = "miss"

IInv == Typed /\ FullIsWhole /\ IntactMayGo /\ RunningIsTracked

LEMMA InitHolds ==
    ASSUME Init
    PROVE  IInv
BY DEF Init, IInv, Typed, FullIsWhole, IntactMayGo, RunningIsTracked, NoRow, Active, KindOf,
   Kinds

\* A task is started only when none of its kind has yet to end.
LEMMA StartTracks ==
    ASSUME Typed, RunningIsTracked, NEW kind \in Kinds, CanObtain(kind),
           task' = Started(task, Obtained(kind)),
           current' = [current EXCEPT ![kind] = Obtained(kind)]
    PROVE  /\ RunningIsTracked'
           /\ DOMAIN task' = Tasks /\ task' = [t \in Tasks |-> task'[t]]
           /\ DOMAIN current' = Kinds /\ current' = [k \in Kinds |-> current'[k]]
           /\ \A k \in Kinds : current'[k] = NoTask
                               \/ (current'[k] \in Tasks /\ KindOf(current'[k]) = k)
<1> DEFINE t == Obtained(kind)
<1>1. CASE Active(current[kind])
  <2>1. t = current[kind] /\ task' = task /\ current' = current
    BY <1>1 DEF Obtained, Started, Typed
  <2> QED
    BY <2>1 DEF Typed, RunningIsTracked, Active
<1>2. CASE ~Active(current[kind])
  <2>1. t \in Tasks /\ KindOf(t) = kind /\ task[t] = "gone"
    BY <1>2 DEF CanObtain, Obtained
  <2>2. \A u \in Tasks : Active(u) => KindOf(u) # kind
    BY <1>2 DEF RunningIsTracked
  <2> HIDE DEF t
  <2>3. task' = [task EXCEPT ![t] = "queued"] /\ current' = [current EXCEPT ![kind] = t]
    BY <2>1 DEF Started, Active, t
  <2>4. /\ task'[t] = "queued" /\ current'[kind] = t
        /\ \A u \in Tasks \ {t} : task'[u] = task[u]
        /\ \A k \in Kinds \ {kind} : current'[k] = current[k]
    BY <2>1, <2>3 DEF Typed
  <2>5. RunningIsTracked'
    <3> SUFFICES ASSUME NEW u \in Tasks, Active(u)'
                 PROVE  current'[KindOf(u)] = u
      BY DEF RunningIsTracked
    <3>1. KindOf(u) \in Kinds
      BY DEF KindOf, Kinds
    <3> QED
      BY <2>1, <2>2, <2>4, <3>1 DEF RunningIsTracked, Active
  <2> QED
    BY <2>1, <2>3, <2>4, <2>5 DEF Typed
<1> QED
  BY <1>1, <1>2

\* A task goes on, or ends.
LEMMA TaskTracks ==
    ASSUME Typed, RunningIsTracked, NEW t \in Tasks, NEW step,
           task' = [task EXCEPT ![t] = step], UNCHANGED current,
           Active(t) \/ step \in {"done", "gone"}
    PROVE  /\ RunningIsTracked'
           /\ DOMAIN task' = Tasks /\ task' = [u \in Tasks |-> task'[u]]
<1>1. task'[t] = step /\ \A u \in Tasks \ {t} : task'[u] = task[u]
  BY DEF Typed
<1> QED
  BY <1>1 DEF Typed, RunningIsTracked, Active

\* A step that writes neither the row nor what a quick refresh has read of it.
LEMMA RowStays ==
    ASSUME IInv, UNCHANGED cacheVars, RunningIsTracked',
           DOMAIN task' = Tasks /\ task' = [t \in Tasks |-> task'[t]],
           DOMAIN current' = Kinds /\ current' = [k \in Kinds |-> current'[k]],
           \A k \in Kinds : current'[k] = NoTask
                            \/ (current'[k] \in Tasks /\ KindOf(current'[k]) = k)
    PROVE  IInv'
BY DEF IInv, Typed, FullIsWhole, IntactMayGo, cacheVars

-----------------------------------------------------------------------------
LEMMA AgeKeeps ==
    ASSUME IInv, Age
    PROVE  IInv'
<1>1. UNCHANGED <<row, write, task, current>> /\ (age = "miss" => age' = "miss")
  BY DEF Age, taskVars
<1> QED
  BY <1>1 DEF IInv, Typed, FullIsWhole, IntactMayGo, RunningIsTracked, Active

LEMMA RefreshFullKeeps ==
    ASSUME IInv, NEW t \in Tasks, RefreshFull(t) \/ RefreshFullStoresNothing(t)
    PROVE  IInv'
<1>1. /\ task' = [task EXCEPT ![t] = "done"] /\ UNCHANGED current
  BY DEF RefreshFull, RefreshFullStoresNothing, Finish
<1>2. /\ RunningIsTracked'
      /\ DOMAIN task' = Tasks /\ task' = [u \in Tasks |-> task'[u]]
  BY <1>1, TaskTracks DEF IInv
<1>3. CASE RefreshFullStoresNothing(t)
  BY <1>1, <1>2, <1>3, RowStays DEF RefreshFullStoresNothing, IInv, Typed
<1>4. CASE RefreshFull(t)
  <2>1. PICK kept \in FullResults : row' = [scope |-> "full", kept |-> kept]
    BY <1>4 DEF RefreshFull, Store
  <2>2. row'.scope = "full" /\ row'.kept.whole
    BY <2>1, FullResultsAreWhole
  <2>3. /\ write' \in [QuickTasks -> [tries : Nat, intact : BOOLEAN]]
        /\ \A q \in QuickTasks : ~write'[q].intact
    BY <1>4 DEF RefreshFull, IInv, Typed
  <2> QED
    BY <1>1, <1>2, <2>2, <2>3 DEF IInv, Typed, FullIsWhole, IntactMayGo
<1> QED
  BY <1>3, <1>4

LEMMA QuickKeeps ==
    ASSUME IInv, NEW t \in Tasks,
           QuickQualify(t) \/ QuickSwap(t) \/ QuickContended(t) \/ QuickEnd(t)
    PROVE  IInv'
<1>0. t \in QuickTasks
  BY DEF QuickQualify, QuickSwap, QuickContended, QuickEnd
<1>1. PICK step : task' = [task EXCEPT ![t] = step] /\ UNCHANGED current
  BY DEF QuickQualify, QuickSwap, QuickContended, QuickEnd, Finish
<1>2. Active(t)
  BY TaskAssumption DEF Tasks, Active, QuickQualify, QuickSwap, QuickContended, QuickEnd
<1>3. /\ RunningIsTracked'
      /\ DOMAIN task' = Tasks /\ task' = [u \in Tasks |-> task'[u]]
  BY <1>1, <1>2, TaskTracks DEF IInv
<1>4. CASE QuickQualify(t)
  <2>1. /\ write' \in [QuickTasks -> [tries : Nat, intact : BOOLEAN]]
        /\ \A q \in QuickTasks \ {t} : write'[q] = write[q]
    BY <1>0, <1>4 DEF QuickQualify, IInv, Typed
  <2> QED
    BY <1>1, <1>3, <1>4, <2>1 DEF QuickQualify, QuickCacheCanReplace, IInv, Typed, FullIsWhole,
       IntactMayGo
<1>5. CASE QuickSwap(t)
  <2>1. row'.scope = "quick"
    BY <1>5 DEF QuickSwap, Store
  <2>2. /\ write' \in [QuickTasks -> [tries : Nat, intact : BOOLEAN]]
    BY <1>5 DEF QuickSwap
  <2> QED
    BY <1>1, <1>3, <2>1, <2>2 DEF IInv, Typed, FullIsWhole, IntactMayGo
<1>6. CASE QuickContended(t)
  BY <1>1, <1>3, <1>6, RowStays DEF QuickContended, IInv, Typed
<1>7. CASE QuickEnd(t)
  <2>1. /\ write' \in [QuickTasks -> [tries : Nat, intact : BOOLEAN]]
        /\ \A q \in QuickTasks : write'[q].intact => write[q].intact
    BY <1>0, <1>7 DEF QuickEnd, IInv, Typed
  <2> QED
    BY <1>1, <1>3, <1>7, <2>1 DEF QuickEnd, IInv, Typed, FullIsWhole, IntactMayGo
<1> QED
  BY <1>4, <1>5, <1>6, <1>7

LEMMA EnterKeeps ==
    ASSUME IInv, NEW t \in Tasks, Enter(t)
    PROVE  IInv'
<1>1. /\ task' = [task EXCEPT ![t] = "running"] /\ UNCHANGED <<current, cacheVars>>
  BY DEF Enter
<1>2. Active(t)
  BY TaskAssumption DEF Enter, Active, Tasks
<1>3. /\ RunningIsTracked'
      /\ DOMAIN task' = Tasks /\ task' = [u \in Tasks |-> task'[u]]
  BY <1>1, <1>2, TaskTracks DEF IInv
<1> QED
  BY <1>1, <1>3, RowStays DEF IInv, Typed

LEMMA CancelledKeeps ==
    ASSUME IInv, NEW t \in Tasks, Cancelled(t)
    PROVE  IInv'
<1>1. PICK step : task' = [task EXCEPT ![t] = step]
  BY DEF Cancelled
<1>2. UNCHANGED <<current, cacheVars>> /\ Active(t)
  BY TaskAssumption DEF Cancelled, Active, Tasks
<1>3. /\ RunningIsTracked'
      /\ DOMAIN task' = Tasks /\ task' = [u \in Tasks |-> task'[u]]
  BY <1>1, <1>2, TaskTracks DEF IInv
<1> QED
  BY <1>2, <1>3, RowStays DEF IInv, Typed

\* The callback of a task that has ended removes no other: the entry may be that of
\* its successor.
LEMMA RemoveKeeps ==
    ASSUME IInv, NEW t \in Tasks, Remove(t)
    PROVE  IInv'
<1> DEFINE k == KindOf(t)
<1>1. /\ task[t] = "done" /\ task' = [task EXCEPT ![t] = "gone"] /\ UNCHANGED cacheVars
      /\ current' = [current EXCEPT ![k] = IF @ = t THEN NoTask ELSE @]
  BY DEF Remove
<1>2. k \in Kinds
  BY DEF KindOf, Kinds
<1>3. /\ DOMAIN task' = Tasks /\ task' = [u \in Tasks |-> task'[u]]
      /\ task'[t] = "gone" /\ \A u \in Tasks \ {t} : task'[u] = task[u]
  BY <1>1 DEF IInv, Typed
<1>4. /\ DOMAIN current' = Kinds /\ current' = [j \in Kinds |-> current'[j]]
      /\ current'[k] = IF current[k] = t THEN NoTask ELSE current[k]
      /\ \A j \in Kinds \ {k} : current'[j] = current[j]
  BY <1>1, <1>2 DEF IInv, Typed
<1>5. RunningIsTracked'
  <2> SUFFICES ASSUME NEW u \in Tasks, Active(u)'
               PROVE  current'[KindOf(u)] = u
    BY DEF RunningIsTracked
  <2>1. u # t /\ Active(u)
    BY <1>3 DEF Active
  <2>2. current[KindOf(u)] = u /\ KindOf(u) \in Kinds
    BY <2>1 DEF IInv, RunningIsTracked, KindOf, Kinds
  <2> QED
    BY <1>4, <2>1, <2>2
<1> QED
  BY <1>1, <1>2, <1>3, <1>4, <1>5, RowStays DEF IInv, Typed

LEMMA StartsKeeps ==
    ASSUME IInv, NEW kind \in Kinds, Starts(kind)
    PROVE  IInv'
<1>1. /\ RunningIsTracked'
      /\ DOMAIN task' = Tasks /\ task' = [t \in Tasks |-> task'[t]]
      /\ DOMAIN current' = Kinds /\ current' = [k \in Kinds |-> current'[k]]
      /\ \A k \in Kinds : current'[k] = NoTask
                          \/ (current'[k] \in Tasks /\ KindOf(current'[k]) = k)
  BY StartTracks DEF Starts, IInv
<1> QED
  BY <1>1, RowStays DEF Starts

\* A quick task starts a full one, or joins it, and ends.
LEMMA QuickFinallyKeeps ==
    ASSUME IInv, NEW t \in Tasks, QuickFinally(t)
    PROVE  IInv'
<1>0. UNCHANGED cacheVars
  BY DEF QuickFinally
<1>1. CASE service = "open"
  <2> DEFINE n == Obtained("full")
  <2>1. /\ CanObtain("full") /\ "full" \in Kinds
        /\ task' = [Started(task, n) EXCEPT ![t] = "done"]
        /\ current' = [current EXCEPT !["full"] = n]
    BY <1>1 DEF QuickFinally, Kinds
  <2>2. t \in QuickTasks /\ task[t] = "ending" /\ Active(t)
    BY TaskAssumption DEF QuickFinally, Active, Tasks
  <2>3. n \in Tasks /\ KindOf(n) = "full" /\ (Active(n) \/ task[n] = "gone")
        /\ (Active(n) => current["full"] = n)
    <3>1. CASE Active(current["full"])
      <4>1. n = current["full"]
        BY <3>1 DEF Obtained
      <4> QED
        BY <3>1, <4>1 DEF IInv, Typed, Active, Kinds
    <3>2. CASE ~Active(current["full"])
      <4>1. n \in Tasks /\ KindOf(n) = "full" /\ task[n] = "gone"
        BY <2>1, <3>2 DEF CanObtain, Obtained
      <4> QED
        BY <4>1 DEF Active
    <3> QED
      BY <3>1, <3>2
  <2>4. ~Active(n) => \A u \in Tasks : Active(u) => KindOf(u) # "full"
    <3>1. ASSUME ~Active(n), NEW u \in Tasks, Active(u), KindOf(u) = "full"
          PROVE  FALSE
      <4>1. current["full"] = u
        BY <3>1 DEF IInv, RunningIsTracked
      <4>2. n = u
        BY <3>1, <4>1 DEF Obtained
      <4> QED
        BY <3>1, <4>2
    <3> QED
      BY <3>1
  <2> HIDE DEF n
  <2>5. KindOf(t) = "quick" /\ n # t
    BY <2>2, <2>3, TaskAssumption DEF KindOf
  <2>6. /\ DOMAIN task' = Tasks /\ task' = [u \in Tasks |-> task'[u]]
        /\ task'[t] = "done"
        /\ \A u \in Tasks \ {t, n} : task'[u] = task[u]
    BY <2>1, <2>3 DEF IInv, Typed, Started
  <2>7. /\ DOMAIN current' = Kinds /\ current' = [k \in Kinds |-> current'[k]]
        /\ current'["full"] = n
        /\ \A k \in Kinds \ {"full"} : current'[k] = current[k]
    BY <2>1 DEF IInv, Typed
  <2>8. RunningIsTracked'
    <3> SUFFICES ASSUME NEW u \in Tasks, Active(u)'
                 PROVE  current'[KindOf(u)] = u
      BY DEF RunningIsTracked
    <3>1. CASE u = n
      BY <2>3, <2>7, <3>1
    <3>2. CASE u # n
      <4>1. u # t
        BY <2>6 DEF Active
      <4>2. Active(u)
        BY <2>6, <3>2, <4>1 DEF Active
      <4>3. current[KindOf(u)] = u /\ KindOf(u) \in Kinds
        BY <4>2 DEF IInv, RunningIsTracked, KindOf, Kinds
      <4>4. KindOf(u) # "full"
        BY <2>3, <2>4, <3>2, <4>2, <4>3
      <4> QED
        BY <2>7, <4>3, <4>4
    <3> QED
      BY <3>1, <3>2
  <2> QED
    BY <1>0, <2>3, <2>6, <2>7, <2>8, RowStays DEF IInv, Typed
<1>2. CASE service # "open"
  <2>1. task' = [task EXCEPT ![t] = "done"] /\ UNCHANGED current
    BY <1>2 DEF QuickFinally
  <2>2. /\ RunningIsTracked'
        /\ DOMAIN task' = Tasks /\ task' = [u \in Tasks |-> task'[u]]
    BY <2>1, TaskTracks DEF IInv
  <2> QED
    BY <1>0, <2>1, <2>2, RowStays DEF IInv, Typed
<1> QED
  BY <1>1, <1>2

LEMMA ClosedKeeps ==
    ASSUME IInv, Closed
    PROVE  IInv'
<1>1. /\ UNCHANGED <<cacheVars, task>> /\ current' = [k \in Kinds |-> NoTask]
      /\ \A k \in Kinds : ~Active(current[k])
  BY DEF Closed
<1>2. \A t \in Tasks : ~Active(t)
  <2>1. \A t \in Tasks : KindOf(t) \in Kinds
    BY DEF KindOf, Kinds
  <2> QED
    BY <1>1, <2>1 DEF IInv, RunningIsTracked
<1>3. RunningIsTracked'
  BY <1>1, <1>2 DEF RunningIsTracked, Active
<1> QED
  BY <1>1, <1>3, RowStays DEF IInv, Typed

\* Steps of the requests that start nothing, and the beginning of aclose.
LEMMA NothingStarts ==
    ASSUME IInv, UNCHANGED <<cacheVars, taskVars>>
    PROVE  IInv'
BY DEF IInv, Typed, FullIsWhole, IntactMayGo, RunningIsTracked, Active, cacheVars, taskVars

LEMMA NextKeeps ==
    ASSUME IInv, [Next]_vars
    PROVE  IInv'
<1>1. ASSUME NEW t \in Tasks, Run(t)
      PROVE  IInv'
  BY <1>1, EnterKeeps, RefreshFullKeeps, QuickKeeps, QuickFinallyKeeps, CancelledKeeps,
     RemoveKeeps DEF Run
<1>2. ASSUME NEW c \in Callers, Serve(c)
      PROVE  IInv'
  <2>1. \E kind \in Kinds : Starts(kind)
    BY <1>2 DEF Serve, AnswerStale, AwaitTask, AnswerManaged, Kinds
  <2> QED
    BY <2>1, StartsKeeps
<1>3. ASSUME NEW c \in Callers, NEW kind, HangUp(c) \/ Ask(c, kind)
      PROVE  IInv'
  BY <1>3, NothingStarts DEF HangUp, Ask
<1>4. CASE Close \/ UNCHANGED vars
  BY <1>4, NothingStarts DEF Close, vars
<1> QED
  BY <1>1, <1>2, <1>3, <1>4, AgeKeeps, ClosedKeeps DEF Next

LEMMA Invariance == Spec => []IInv
<1>1. Init => IInv
  BY InitHolds
<1>2. IInv /\ [Next]_vars => IInv'
  BY NextKeeps
<1> QED
  BY <1>1, <1>2, PTL DEF Spec

\* What writes the row.
LEMMA FullStep ==
    ASSUME IInv, [Next]_vars, row.scope = "full", age # "miss"
    PROVE  row'.scope = "full"
<1>1. ASSUME NEW t \in Tasks, Run(t)
      PROVE  row'.scope = "full"
  <2>1. CASE RefreshFull(t)
    BY <2>1 DEF RefreshFull, Store
  <2>2. CASE QuickSwap(t)
    BY <2>2 DEF QuickSwap, StillAsRead, IInv, IntactMayGo
  <2>3. CASE row' = row
    BY <2>3
  <2>4. RefreshFull(t) \/ QuickSwap(t) \/ row' = row
    BY <1>1 DEF Run, Enter, RefreshFullStoresNothing, QuickQualify, QuickContended, QuickEnd,
       QuickFinally, Cancelled, Remove, cacheVars
  <2> QED
    BY <2>1, <2>2, <2>3, <2>4
<1>2. ASSUME NEW c \in Callers, NEW kind, Serve(c) \/ HangUp(c) \/ Ask(c, kind)
      PROVE  row' = row
  BY <1>2 DEF Serve, AnswerStale, AwaitTask, AnswerManaged, Starts, HangUp, Ask, cacheVars
<1>3. CASE Age \/ Close \/ Closed \/ UNCHANGED vars
  BY <1>3 DEF Age, Close, Closed, vars, cacheVars
<1> QED
  BY <1>1, <1>2, <1>3 DEF Next

-----------------------------------------------------------------------------
\* There are never two refreshes of a kind, in whatever order tasks end, callbacks
\* run and callers come, and none is left when aclose has returned
\* (_start_full_refresh, _start_quick_refresh, aclose).
THEOREM TrackedCorrect == Spec => []RunningIsTracked
<1>1. IInv => RunningIsTracked
  BY DEF IInv
<1> QED
  BY <1>1, Invariance, PTL

\* A row that counts as full was stored of a scan in which every source was asked or
\* resolved, and if it has no line, of one in which each definitely has none
\* (_should_store_full_result).
THEOREM WholeCorrect == Spec => []FullIsWhole
<1>1. IInv => FullIsWhole
  BY DEF IInv
<1> QED
  BY <1>1, Invariance, PTL

\* A quick refresh that read the row before a full one wrote it does not replace the
\* full answer while that can be served (the conditional UPDATE of a quick write).
THEOREM FullCorrect == Spec => FullStands
<1>1. IInv /\ [Next]_vars =>
        [row.scope = "full" /\ age # "miss" => row'.scope = "full"]_vars
  BY FullStep
<1> QED
  BY <1>1, Invariance, PTL DEF Spec, FullStands
-----------------------------------------------------------------------------
(***************************************************************************)
(* The parts together                                                      *)
(***************************************************************************)

\* A step of a part is a step of its module, and none of the others.
LEMMA StepOfPart ==
    ASSUME [Step]_<<part, vars, otherVars>>
    PROVE  /\ [Next]_vars
           /\ [Alias!Next]_(Alias!vars)
           /\ [Quick!Next]_(Quick!vars)
           /\ [Mail!Next]_(Mail!vars)
<1>1. CASE part = "playback" /\ Next /\ UNCHANGED <<part, otherVars>>
  BY <1>1 DEF otherVars, aliasVars, quickVars, mailVars, Alias!vars, Quick!vars, Mail!vars,
     Mail!codeVars, Mail!mailVars
<1>2. CASE part = "alias" /\ Alias!Next /\ UNCHANGED <<part, vars, quickVars, mailVars>>
  BY <1>2 DEF quickVars, mailVars, Quick!vars, Mail!vars, Mail!codeVars, Mail!mailVars
<1>3. CASE part = "quick" /\ Quick!Next /\ UNCHANGED <<part, vars, aliasVars, mailVars>>
  BY <1>3 DEF aliasVars, mailVars, Alias!vars, Mail!vars, Mail!codeVars, Mail!mailVars
<1>4. CASE UNCHANGED <<part, vars, aliasVars, quickVars>>
           /\ (Mail!RequestCode \/ Mail!TryCode \/ Mail!SendMail)
  BY <1>4 DEF aliasVars, quickVars, Alias!vars, Quick!vars, Mail!Next
<1>5. CASE UNCHANGED <<part, vars, otherVars>>
  BY <1>5 DEF otherVars, aliasVars, quickVars, mailVars, Alias!vars, Quick!vars, Mail!vars,
     Mail!codeVars, Mail!mailVars
<1> QED
  BY <1>1, <1>2, <1>3, <1>4, <1>5 DEF Step

-----------------------------------------------------------------------------
(***************************************************************************)
(* The loop of a quick scan                                                *)
(***************************************************************************)

\* A candidate is started once, so what it has found is never lost, and of a
\* site the scan remembers the result of one of its matches.
QuickInv ==
    /\ candidate = [m \in Matches |-> candidate[m]]
    /\ \A m \in Matches :
          /\ candidate[m] = [at |-> candidate[m].at, result |-> candidate[m].result]
          /\ m \in attempted <=> candidate[m].at # "none"
          /\ candidate[m].at \in {"none", "runs", "cancelled"} => candidate[m].result = "none"
    /\ seen \in [Sites -> Quick!Results \cup {"none"}]
    /\ \A s \in Sites : seen[s] # "none" =>
          \E m \in Matches : SiteOf[m] = s /\ candidate[m].result = seen[s]

LEMMA QuickInit ==
    ASSUME Quick!Init
    PROVE  QuickInv
BY DEF Quick!Init, QuickInv, Quick!Results

LEMMA Starters ==
    ASSUME NEW spare, NEW m \in Quick!Started(spare)
    PROVE  m \notin attempted
BY DEF Quick!Started, Quick!Turns, Quick!Waiting

LEMMA RememberedIsFound ==
    ASSUME QuickInv, NEW ms \in SUBSET Matches, NEW after \in Quick!Remembered(ms)
    PROVE  /\ after \in [Sites -> Quick!Results \cup {"none"}]
           /\ \A s \in Sites : after[s] # "none" =>
                 \E m \in Matches : SiteOf[m] = s /\ candidate[m].result = after[s]
<1>1. after \in [Sites -> Quick!Results \cup {"none"}]
  BY DEF Quick!Remembered
<1>2. ASSUME NEW s \in Sites, after[s] # "none"
      PROVE  \E m \in Matches : SiteOf[m] = s /\ candidate[m].result = after[s]
  <2> DEFINE mine == {m \in ms : SiteOf[m] = s}
  <2>1. IF mine = {} THEN after[s] = seen[s]
        ELSE \E m \in mine : after[s] = candidate[m].result
    BY DEF Quick!Remembered
  <2> QED
    BY <1>2, <2>1 DEF QuickInv
<1> QED
  BY <1>1, <1>2

\* Whatever becomes of the tasks, results stay.
LEMMA ResultsStay ==
    ASSUME QuickInv, candidate' = [m \in Matches |-> candidate'[m]],
           \A m \in Matches : candidate[m].result # "none" =>
                candidate'[m].result = candidate[m].result,
           \A m \in Matches :
              /\ candidate'[m] = [at |-> candidate'[m].at, result |-> candidate'[m].result]
              /\ m \in attempted' <=> candidate'[m].at # "none"
              /\ candidate'[m].at \in {"none", "runs", "cancelled"} =>
                    candidate'[m].result = "none",
           \/ seen' = seen
           \/ \E ms \in SUBSET Matches : seen' \in Quick!Remembered(ms)
    PROVE  QuickInv'
<1>1. /\ seen' \in [Sites -> Quick!Results \cup {"none"}]
      /\ \A s \in Sites : seen'[s] # "none" =>
            \E m \in Matches : SiteOf[m] = s /\ candidate[m].result = seen'[s]
  BY RememberedIsFound DEF QuickInv
<1>2. \A s \in Sites : seen'[s] # "none" =>
            \E m \in Matches : SiteOf[m] = s /\ candidate'[m].result = seen'[s]
  BY <1>1
<1> QED
  BY <1>1, <1>2 DEF QuickInv

LEMMA PassKeeps ==
    ASSUME QuickInv, Quick!Pass
    PROVE  QuickInv'
<1>1. PICK starts :
        /\ \A m \in starts : m \notin attempted
        /\ candidate' = [m \in Matches |->
              IF m \in Quick!At({"called"}) THEN [candidate[m] EXCEPT !.at = "counted"]
              ELSE IF m \in starts THEN [candidate[m] EXCEPT !.at = "runs"]
              ELSE candidate[m]]
        /\ attempted' = attempted \cup starts
  BY Starters DEF Quick!Pass
<1>2. seen' \in Quick!Remembered(Quick!At({"called"})) /\ Quick!At({"called"}) \in SUBSET Matches
  BY DEF Quick!Pass, Quick!At
<1>3. \A m \in Matches : m \in Quick!At({"called"}) <=> candidate[m].at = "called"
  BY DEF Quick!At
<1>4. ASSUME NEW m \in Matches
      PROVE  /\ candidate'[m] = [at |-> candidate'[m].at, result |-> candidate[m].result]
             /\ m \in attempted' <=> candidate'[m].at # "none"
             /\ candidate'[m].at \in {"none", "runs", "cancelled"} =>
                   candidate'[m].result = "none"
  BY <1>1, <1>3 DEF QuickInv
<1> QED
  BY <1>1, <1>2, <1>4, ResultsStay

LEMMA QuickKeepsResults ==
    ASSUME QuickInv, [Quick!Next]_(Quick!vars)
    PROVE  QuickInv'
<1>1. CASE Quick!Pass
  BY <1>1, PassKeeps
<1>2. CASE UNCHANGED <<candidate, attempted, seen>>
  BY <1>2 DEF QuickInv
<1>3. ASSUME NEW m \in Matches, Quick!Resolve(m) \/ Quick!CallBack(m) \/ Quick!Cancel(m)
      PROVE  QuickInv'
  <2>1. /\ UNCHANGED <<attempted, seen>>
        /\ \/ \E result \in Quick!Results : candidate[m].at = "runs" /\
                 candidate' = [candidate EXCEPT ![m] = [at |-> "ended", result |-> result]]
           \/ candidate[m].at = "ended" /\ candidate' = [candidate EXCEPT ![m].at = "called"]
           \/ candidate[m].at = "runs" /\ candidate' = [candidate EXCEPT ![m].at = "cancelled"]
    BY <1>3 DEF Quick!Resolve, Quick!CallBack, Quick!Cancel
  <2>2. candidate' = [n \in Matches |-> candidate'[n]]
    BY <2>1 DEF QuickInv
  <2>3. ASSUME NEW n \in Matches
        PROVE  /\ candidate'[n] = [at |-> candidate'[n].at, result |-> candidate'[n].result]
               /\ candidate[n].result # "none" => candidate'[n].result = candidate[n].result
               /\ n \in attempted' <=> candidate'[n].at # "none"
               /\ candidate'[n].at \in {"none", "runs", "cancelled"} =>
                     candidate'[n].result = "none"
    <3>1. CASE n # m
      BY <2>1, <3>1 DEF QuickInv
    <3>2. CASE n = m
      <4>1. ASSUME NEW result \in Quick!Results, candidate[m].at = "runs",
                   candidate' = [candidate EXCEPT ![m] = [at |-> "ended", result |-> result]]
            PROVE  /\ candidate'[m] = [at |-> "ended", result |-> result]
                   /\ candidate[m].result = "none"
        BY <4>1 DEF QuickInv
      <4>2. ASSUME NEW step, candidate' = [candidate EXCEPT ![m].at = step]
            PROVE  candidate'[m] = [at |-> step, result |-> candidate[m].result]
        <5> DEFINE was == [at |-> candidate[m].at, result |-> candidate[m].result]
        <5>1. candidate'[m] = [candidate[m] EXCEPT !.at = step]
          BY <4>2 DEF QuickInv
        <5>2. candidate[m] = was
          BY DEF QuickInv
        <5> QED
          BY <5>1, <5>2
      <4> QED
        BY <2>1, <3>2, <4>1, <4>2 DEF QuickInv
    <3> QED
      BY <3>1, <3>2
  <2> QED
    BY <2>1, <2>2, <2>3, ResultsStay
<1>4. CASE Quick!Gathered
  <2>1. /\ candidate' = [m \in Matches |-> IF m \in Quick!LeftOver
                            THEN [candidate[m] EXCEPT !.at = "counted"] ELSE candidate[m]]
        /\ seen' \in Quick!Remembered(Quick!LeftOver) /\ UNCHANGED attempted
        /\ Quick!LeftOver \in SUBSET Matches
        /\ \A m \in Matches : m \in Quick!LeftOver <=> candidate[m].at \in {"ended", "called"}
    BY <1>4 DEF Quick!Gathered, Quick!LeftOver, Quick!At
  <2>2. ASSUME NEW m \in Matches
        PROVE  /\ candidate'[m] = [at |-> candidate'[m].at, result |-> candidate[m].result]
               /\ m \in attempted' <=> candidate'[m].at # "none"
               /\ candidate'[m].at \in {"none", "runs", "cancelled"} =>
                     candidate'[m].result = "none"
    BY <2>1 DEF QuickInv
  <2> QED
    BY <2>1, <2>2, ResultsStay
<1>5. Quick!Deadline \/ Quick!Record \/ Quick!Find
        \/ (\E p \in Producers : Quick!Produce(p) \/ Quick!ProducerEnds(p))
      => UNCHANGED <<candidate, attempted, seen>>
  BY DEF Quick!Deadline, Quick!Record, Quick!Find, Quick!Produce, Quick!ProducerEnds
<1>6. UNCHANGED Quick!vars => UNCHANGED <<candidate, attempted, seen>>
  BY DEF Quick!vars
<1> QED
  BY <1>1, <1>2, <1>3, <1>4, <1>5, <1>6 DEF Quick!Next, Quick!Run
\* A circuit that opens opens on a result of the source.
LEMMA CircuitStep ==
    ASSUME QuickInv, [Quick!Next]_(Quick!vars), NEW s \in Sites,
           Quick!IsOpen(health'[s]), ~Quick!IsOpen(health[s])
    PROVE  \E m \in Matches : SiteOf[m] = s /\ candidate[m].result = "source"
<1>1. Quick!Record
  BY DEF Quick!Next, Quick!Run, Quick!Pass, Quick!Deadline, Quick!Gathered, Quick!Find,
     Quick!Cancel, Quick!Produce, Quick!ProducerEnds, Quick!Resolve, Quick!CallBack,
     Quick!vars
<1>2. health'[s] \in Quick!Observed(health[s], seen[s])
  BY <1>1 DEF Quick!Record
<1>3. seen[s] \in {"none", "lines", "route", "source"}
  BY DEF QuickInv, Quick!Results
<1>4. seen[s] \notin {"none", "route"}
  BY <1>2 DEF Quick!Observed
<1>5. seen[s] # "lines"
  BY <1>2 DEF Quick!Observed, Quick!IsOpen
<1> QED
  BY <1>3, <1>4, <1>5 DEF QuickInv

LEMMA QuickInvariance == AllParts => []QuickInv
<1>1. Start => QuickInv
  BY QuickInit DEF Start
<1>2. QuickInv /\ [Step]_<<part, vars, otherVars>> => QuickInv'
  BY StepOfPart, QuickKeepsResults
<1> QED
  BY <1>1, <1>2, PTL DEF AllParts

-----------------------------------------------------------------------------
(***************************************************************************)
(* Codes and mail                                                          *)
(***************************************************************************)
MailProofs == INSTANCE VerificationProofs

LEMMA SameNumber ==
    ASSUME NEW S
    PROVE  Mail!Cardinality(S) = MailProofs!Cardinality(S)
BY DEF Mail!Cardinality, MailProofs!Cardinality

LEMMA MailStep ==
    ASSUME [Mail!Next]_(Mail!vars)
    PROVE  [MailProofs!Next]_(MailProofs!vars)
<1>1. Mail!RequestCode => MailProofs!RequestCode
  BY DEF Mail!RequestCode, MailProofs!RequestCode, Mail!NoCode, MailProofs!NoCode,
     Mail!NewMail, MailProofs!NewMail, Mail!NoMail, MailProofs!NoMail
<1>2. Mail!TryCode => MailProofs!TryCode
  BY DEF Mail!TryCode, MailProofs!TryCode, Mail!PurgeCode, MailProofs!PurgeCode,
     Mail!ReadCode, MailProofs!ReadCode, Mail!AcceptCode, MailProofs!AcceptCode,
     Mail!WrongCode, MailProofs!WrongCode, Mail!RejectCode, MailProofs!RejectCode,
     Mail!Answer, MailProofs!Answer, Mail!StillThere, MailProofs!StillThere,
     Mail!MeetsRow, MailProofs!MeetsRow,
     Mail!NoCode, MailProofs!NoCode, Mail!mailVars, MailProofs!mailVars
<1>3. ASSUME NEW w \in Workers, Mail!Run(w) \/ Mail!Crash(w)
      PROVE  MailProofs!Run(w) \/ MailProofs!Crash(w)
  <2>1. ASSUME NEW m
        PROVE  /\ Mail!Claim(w, m) => MailProofs!Claim(w, m)
               /\ Mail!Deliver(w, m) => MailProofs!Deliver(w, m)
    <3>1. Mail!Eligible(m) <=> MailProofs!Eligible(m)
      BY DEF Mail!Eligible, MailProofs!Eligible
    <3>2. Mail!Claim(w, m) => MailProofs!Claim(w, m)
      BY <3>1, SameNumber DEF Mail!Claim, MailProofs!Claim, Mail!codeVars, MailProofs!codeVars
    <3>3. /\ Mail!Delivered(mail[m]) = MailProofs!Delivered(mail[m])
          /\ Mail!Undelivered(mail[m]) = MailProofs!Undelivered(mail[m])
          /\ Mail!HoldsClaim(w, m) <=> MailProofs!HoldsClaim(w, m)
          /\ Mail!Resting = MailProofs!Resting
      BY DEF Mail!Delivered, MailProofs!Delivered, Mail!Undelivered,
       MailProofs!Undelivered, Mail!HoldsClaim, MailProofs!HoldsClaim,
       Mail!Resting, MailProofs!Resting
    <3>4. Mail!Deliver(w, m) => MailProofs!Deliver(w, m)
      BY <3>3 DEF Mail!Deliver, MailProofs!Deliver, Mail!codeVars, MailProofs!codeVars
    <3> QED
      BY <3>2, <3>4
  <2>2. Mail!StartDelivery(w) => MailProofs!StartDelivery(w)
    BY SameNumber DEF Mail!StartDelivery, MailProofs!StartDelivery, Mail!Eligible,
       MailProofs!Eligible, Mail!Codes, MailProofs!Codes, Mail!codeVars,
       MailProofs!codeVars
  <2>3. Mail!Crash(w) => MailProofs!Crash(w)
    BY DEF Mail!Crash, MailProofs!Crash, Mail!Resting, MailProofs!Resting,
       Mail!codeVars, MailProofs!codeVars
  <2> QED
    BY <1>3, <2>1, <2>2, <2>3 DEF Mail!Run, MailProofs!Run, Mail!Codes, MailProofs!Codes
<1>4. ASSUME NEW m \in Mail!Codes, Mail!RetryTime(m) \/ Mail!LeaseEnds(m)
      PROVE  m \in MailProofs!Codes /\ (MailProofs!RetryTime(m) \/ MailProofs!LeaseEnds(m))
  BY <1>4 DEF Mail!RetryTime, MailProofs!RetryTime, Mail!LeaseEnds, MailProofs!LeaseEnds,
     Mail!AtWork, MailProofs!AtWork, Mail!Codes, MailProofs!Codes, Mail!codeVars,
     MailProofs!codeVars
<1>5. UNCHANGED Mail!vars => UNCHANGED MailProofs!vars
  BY DEF Mail!vars, MailProofs!vars, Mail!codeVars, MailProofs!codeVars, Mail!mailVars,
     MailProofs!mailVars
<1> QED
  BY <1>1, <1>2, <1>3, <1>4, <1>5 DEF Mail!Next, MailProofs!Next, Mail!SendMail,
     MailProofs!SendMail

LEMMA MailInvariance ==
    ASSUME MailProofs!Limits
    PROVE  AllParts => []MailProofs!IInv
<1>1. Start => MailProofs!IInv
  <2>1. Mail!Init => MailProofs!Init
    BY DEF Mail!Init, MailProofs!Init, Mail!NoCode, MailProofs!NoCode, Mail!NoMail,
       MailProofs!NoMail, Mail!Resting, MailProofs!Resting, Mail!Codes, MailProofs!Codes
  <2> QED
    BY <2>1, MailProofs!InitHolds DEF Start
<1>2. MailProofs!IInv /\ [Step]_<<part, vars, otherVars>> => MailProofs!IInv'
  BY StepOfPart, MailStep, MailProofs!NextKeeps
<1> QED
  BY <1>1, <1>2, PTL DEF AllParts

LEMMA FullInvariance == AllParts => []IInv
<1>1. Start => IInv
  BY InitHolds DEF Start
<1>2. IInv /\ [Step]_<<part, vars, otherVars>> => IInv'
  BY StepOfPart, NextKeeps
<1> QED
  BY <1>1, <1>2, PTL DEF AllParts

-----------------------------------------------------------------------------
\* However many requests try a code, at most one succeeds (_consume_code), and two
\* workers send one message at a time only if a lease was too short (_claim_one),
\* whatever else the server does meanwhile.
THEOREM CodesCorrect ==
    ASSUME MailProofs!Limits
    PROVE  AllParts => []CodesAreSafe
<1>1. MailProofs!IInv => CodesAreSafe
  <2> SUFFICES ASSUME MailProofs!IInv
               PROVE  Mail!CodeWorksOnce /\ Mail!OneSender
    BY DEF CodesAreSafe
  <2>1. Mail!CodeWorksOnce
    BY DEF MailProofs!IInv, MailProofs!Unused, MailProofs!Codes, Mail!Codes, Mail!CodeWorksOnce
  <2>2. faults.slow \in Nat
    BY DEF MailProofs!IInv, MailProofs!TypeOK
  <2>3. Mail!OneSender
    BY <2>2 DEF MailProofs!IInv, MailProofs!Own, Mail!OneSender
  <2> QED
    BY <2>1, <2>3
<1> QED
  BY <1>1, MailInvariance, PTL

\* A full answer that can be served is not replaced by a quick one (the conditional
\* UPDATE of a quick write), and a message that has been delivered or given up keeps
\* its status (_claim_one, _deliver).
THEOREM DoneStands ==
    ASSUME MailProofs!Limits
    PROVE  AllParts => WhatIsDoneStands
<1>1. IInv /\ [Step]_<<part, vars, otherVars>> =>
        [row.scope = "full" /\ age # "miss" => row'.scope = "full"]_vars
  BY StepOfPart, FullStep
<1>2. MailProofs!IInv /\ [Step]_<<part, vars, otherVars>> =>
        [\A m \in Mail!Codes : mail[m].status \in Mail!Terminal =>
            mail'[m].status = mail[m].status]_(Mail!vars)
  BY StepOfPart, MailStep, MailProofs!EndStep
     DEF Mail!Codes, MailProofs!Codes, Mail!Terminal, MailProofs!Terminal
<1> QED
  BY <1>1, <1>2, FullInvariance, MailInvariance, PTL
     DEF AllParts, WhatIsDoneStands, FullStands, Mail!EndStands

\* The circuit of a source opens only on a scan one of whose matches of that source
\* could not be asked: a route of one work that fails never closes the source to the
\* others (remember_result, record_health).
THEOREM CircuitCorrect == AllParts => CircuitIsProviders
<1>1. QuickInv /\ [Step]_<<part, vars, otherVars>> =>
        [\A s \in Sites : Quick!IsOpen(health'[s]) /\ ~Quick!IsOpen(health[s]) =>
            \E m \in Matches : SiteOf[m] = s /\ candidate[m].result = "source"]_(Quick!vars)
  BY StepOfPart, CircuitStep
<1> QED
  BY <1>1, QuickInvariance, PTL DEF AllParts, CircuitIsProviders, Quick!CircuitIsProviders

-----------------------------------------------------------------------------
(***************************************************************************)
(* Counting                                                                *)
(***************************************************************************)
LEMMA LeastMember ==
    ASSUME NEW S \in SUBSET Nat, S # {}
    PROVE  \E n \in S : \A m \in S : n <= m
<1> DEFINE less == OpToRel(<, Nat)
<1>1. IsWellFoundedOn(less, Nat)
  BY NatLessThanWellFounded
<1>2. PICK n \in S : \A m \in S : <<m, n>> \notin less
  <2> HIDE DEF less
  <2> QED
    BY <1>1, WFMin
<1>3. \A m \in S : ~(m < n)
  BY <1>2 DEF OpToRel
<1> HIDE DEF less
<1> QED
  BY <1>2, <1>3

LEMMA GreatestMember ==
    ASSUME NEW n \in Nat, NEW S \in SUBSET (1..n), S # {}
    PROVE  \E k \in S : \A j \in S : j <= k
<1> DEFINE R == {n - k : k \in S}
<1>0. \A k \in S : n - k \in Nat
  OBVIOUS
<1>1. R \in SUBSET Nat /\ R # {}
  BY <1>0
<1>2. PICK r \in R : \A q \in R : r <= q
  BY <1>1, LeastMember
<1>3. PICK k \in S : r = n - k
  BY <1>2
<1>4. ASSUME NEW j \in S
      PROVE  j <= k
  <2>1. n - j \in R
    OBVIOUS
  <2>2. n - k <= n - j /\ j \in 1..n /\ k \in 1..n
    BY <1>2, <1>3, <2>1
  <2> QED
    BY <2>2
<1> QED
  BY <1>3, <1>4

\* Of a set of numbers, those with fewer than `limit` smaller ones are `limit`,
\* or all.
LEMMA SmallestOnes ==
    ASSUME NEW n \in Nat, NEW F \in SUBSET (1..n), NEW limit \in Nat,
           NEW K, K = {k \in F : Cardinality({j \in F : j < k}) < limit}
    PROVE  /\ IsFiniteSet(K) /\ Cardinality(K) <= limit
           /\ K = F \/ Cardinality(K) = limit
<1> DEFINE Before(k) == {j \in F : j < k}
<1>0. F \subseteq Nat
  OBVIOUS
<1>1. \A S \in SUBSET F : IsFiniteSet(S) /\ Cardinality(S) \in Nat
  <2>1. IsFiniteSet(1..n)
    BY FS_Interval
  <2>2. IsFiniteSet(F)
    BY <2>1, FS_Subset
  <2> QED
    BY <2>2, FS_Subset, FS_CardinalityType
<1>2. /\ \A k \in F : Before(k) \in SUBSET F /\ Cardinality(Before(k)) \in Nat
      /\ K = {k \in F : Cardinality(Before(k)) < limit}
  BY <1>1
<1>3. ASSUME NEW k \in F, NEW l \in F, k <= l
      PROVE  Cardinality(Before(k)) <= Cardinality(Before(l))
  <2>0. \A j \in F : j < k => j < l
    BY <1>0, <1>3
  <2>1. Before(k) \in SUBSET Before(l)
    BY <2>0
  <2> QED
    BY <1>1, <1>2, <2>1, FS_Subset
<1>4. Cardinality(K) <= limit
  <2>1. CASE K = {}
    <3>1. Cardinality(K) = 0
      BY <2>1, FS_EmptySet
    <3> QED
      BY <3>1
  <2>2. CASE K # {}
    <3>1. PICK k \in K : \A j \in K : j <= k
      BY <2>2, GreatestMember
    <3>2. K = Before(k) \cup {k} /\ k \notin Before(k)
      <4>1. k \in F /\ Cardinality(Before(k)) < limit
        BY <1>2, <3>1
      <4>2. \A j \in F : (j <= k => j < k \/ j = k) /\ (j < k => j <= k) /\ ~(k < k)
        BY <1>0, <4>1
      <4>3. ASSUME NEW j \in F, j < k
            PROVE  j \in K
        <5>1. Cardinality(Before(j)) <= Cardinality(Before(k))
          BY <1>3, <4>1, <4>2, <4>3
        <5> QED
          BY <1>2, <4>1, <5>1
      <4>4. K \subseteq F
        BY <1>2
      <4> QED
        BY <3>1, <4>1, <4>2, <4>3, <4>4
    <3>3. Cardinality(K) = Cardinality(Before(k)) + 1
      BY <1>1, <1>2, <3>1, <3>2, FS_AddElement
    <3> QED
      BY <1>2, <3>1, <3>3
  <2> QED
    BY <2>1, <2>2
<1>5. ASSUME K # F
      PROVE  Cardinality(K) = limit
  <2>1. PICK k \in F \ K : \A j \in F \ K : k <= j
    <3>1. F \ K \in SUBSET Nat /\ F \ K # {}
      BY <1>0, <1>2, <1>5
    <3> QED
      BY <3>1, LeastMember
  <2>2. Before(k) \in SUBSET K
    <3>1. \A j \in F : j < k => ~(k <= j)
      BY <1>0, <2>1
    <3> QED
      BY <2>1, <3>1
  <2>3. Cardinality(Before(k)) <= Cardinality(K) /\ ~(Cardinality(Before(k)) < limit)
    <3>1. K \in SUBSET F /\ ~(Cardinality(Before(k)) < limit)
      BY <1>2, <2>1
    <3>2. IsFiniteSet(K)
      BY <1>1, <3>1
    <3> QED
      BY <2>2, <3>1, <3>2, FS_Subset
  <2>4. Cardinality(K) \in Nat /\ Cardinality(Before(k)) \in Nat
    BY <1>1, <1>2, <2>1
  <2> QED
    BY <1>4, <2>3, <2>4
<1>6. K \in SUBSET F
  OBVIOUS
<1> QED
  BY <1>1, <1>4, <1>5, <1>6

LEMMA SameCount ==
    ASSUME NEW S
    PROVE  Quick!Cardinality(S) = Cardinality(S)
BY DEF Quick!Cardinality, Cardinality
-----------------------------------------------------------------------------
(***************************************************************************)
(* The sleep of the loop, and its end                                      *)
(***************************************************************************)
QuickLimits ==
    /\ IsFiniteSet(Matches) /\ IsFiniteSet(Producers) /\ Matches \cap Producers = {}
    /\ Finds \in [Producers -> SUBSET Matches] /\ BoundMatches \in Seq(Matches)
    /\ MaxInFlight \in Nat \ {0}

\* The variables of a quick scan.
QuickTypes ==
    /\ wake \in BOOLEAN
    /\ found \in Seq(Matches) /\ queue \in Seq(Matches \cup Producers)
    /\ producer \in [Producers -> [found : SUBSET Matches, runs : BOOLEAN]]
    /\ finder = [left |-> finder.left, sites |-> finder.sites] /\ finder.left \in Nat
    /\ quick \in [at : {"loop", "closing", "gathered", "over"},
                 reason : {"none", "enough", "exhausted", "deadline"}]
    /\ \A m \in Matches : candidate[m].at \in
          {"none", "runs", "ended", "called", "counted", "cancelled"}

\* The limit; the health that says what may be bound changes at the very end.
Working == Quick!At({"runs", "ended", "called"})
WithinLimit == Cardinality(Working) <= MaxInFlight

MayBind ==
    quick.at # "over" =>
        existing = {m \in Quick!ToSet(BoundMatches) : Quick!CanBind(m)}

Discovered == UNION {producer[p].found : p \in Producers}

\* Of each site one match was yielded, and it is tried if it may be.
SitesSeen ==
    quick.at # "over" =>
        \A site \in finder.sites : \E n \in Discovered :
            SiteOf[n] = site /\ (Quick!CanProbe(n) => n \in Quick!ToSet(found))

Queued == \A i \in DOMAIN queue : queue[i] \in Producers \cup Discovered

\* A search that has not been seen to end: what it has found is before the mark
\* of its end.
Searching == {p \in Producers : producer[p].runs \/ \E i \in DOMAIN queue : queue[i] = p}

InOrder ==
    quick.at = "loop" =>
        /\ finder.left = Cardinality(Searching)
        /\ \A p \in Producers : \A i, j \in DOMAIN queue :
              queue[i] = p => ~producer[p].runs /\ (queue[j] = p => i = j)
        /\ \A p \in Producers : \A m \in producer[p].found :
              \/ SiteOf[m] \in finder.sites
              \/ /\ p \in Searching
                 /\ \E i \in DOMAIN queue : queue[i] = m
                       /\ \A j \in DOMAIN queue : queue[j] = p => i < j

TriedAll ==
    quick.reason = "exhausted" =>
        /\ quick.at # "loop" /\ Quick!Waiting = {}
        /\ \A m \in Discovered : SiteOf[m] \in finder.sites

AllCounted ==
    quick.at \in {"gathered", "over"} => Working = {}

LoopInv ==
    /\ QuickInv /\ QuickTypes /\ WithinLimit /\ MayBind /\ SitesSeen /\ Queued
    /\ InOrder /\ TriedAll /\ AllCounted /\ Quick!NoLostWakeUp

\* As many matches are started as there are places, or all that wait.
LEMMA PlacesAreUsed ==
    ASSUME QuickLimits, found \in Seq(Matches), existing \subseteq Quick!ToSet(BoundMatches),
           NEW places \in Nat,
           NEW starts, starts = Quick!Started(places)
    PROVE  /\ starts \subseteq Quick!Waiting /\ IsFiniteSet(starts)
           /\ Cardinality(starts) <= places
           /\ starts = Quick!Waiting \/ Cardinality(starts) = places
<1> DEFINE line == found \o BoundMatches
<1> DEFINE n == Len(line)
<1> DEFINE turns == {i \in 1..n : line[i] \in Quick!Waiting
                                    /\ \A j \in 1..(i - 1) : line[j] # line[i]}
<1> DEFINE K == {k \in turns : Cardinality({j \in turns : j < k}) < places}
<1>1. line \in Seq(Matches) /\ n \in Nat /\ DOMAIN line = 1..n
  BY DEF QuickLimits
<1>2. turns = Quick!Turns
  BY <1>1 DEF Quick!Turns, Quick!Line
<1>3. starts = {line[i] : i \in K}
  BY <1>2, SameCount DEF Quick!Started, Quick!Line
<1> HIDE DEF line, n
<1>4. turns \in SUBSET (1..n)
  OBVIOUS
<1>5. /\ IsFiniteSet(K) /\ Cardinality(K) <= places
      /\ K = turns \/ Cardinality(K) = places
  <2> HIDE DEF turns
  <2> QED
    BY <1>1, <1>4, SmallestOnes
<1>6. ASSUME NEW i \in turns, NEW j \in turns, line[i] = line[j]
      PROVE  i = j
  <2>1. i \in Nat /\ j \in Nat /\ 1 <= i /\ 1 <= j
    BY <1>1
  <2>2. ~(i < j) /\ ~(j < i)
    <3>1. i < j => i \in 1..(j - 1)
      BY <2>1
    <3>2. j < i => j \in 1..(i - 1)
      BY <2>1
    <3> QED
      BY <1>6, <3>1, <3>2
  <2> QED
    BY <2>1, <2>2
<1> DEFINE f == [i \in K |-> line[i]]
<1>7. IsFiniteSet(starts) /\ Cardinality(starts) = Cardinality(K)
  <2>1. f \in Bijection(K, starts)
    <3>1. f \in [K -> starts] /\ \A x \in starts : \E i \in K : f[i] = x
      BY <1>3
    <3>2. \A i, j \in K : f[i] = f[j] => i = j
      BY <1>6
    <3> QED
      BY <3>1, <3>2 DEF Bijection, Injection, Surjection, IsInjective
  <2> QED
    BY <1>5, <2>1, FS_Bijection DEF ExistsBijection
<1>8. starts \subseteq Quick!Waiting
  BY <1>3
<1>9. ASSUME K = turns, NEW m \in Quick!Waiting
      PROVE  m \in starts
  <2>1. \E i \in 1..n : line[i] = m
    <3>1. CASE m \in Quick!ToSet(found)
      <4>1. PICK i \in 1..Len(found) : found[i] = m
        BY <3>1 DEF Quick!ToSet
      <4> QED
        BY <4>1, <1>1 DEF line, n, QuickLimits
    <3>2. CASE m \in Quick!ToSet(BoundMatches)
      <4>1. PICK i \in 1..Len(BoundMatches) : BoundMatches[i] = m
        BY <3>2 DEF Quick!ToSet, QuickLimits
      <4>2. Len(found) + i \in 1..n /\ line[Len(found) + i] = m
        BY <4>1, <1>1 DEF line, n, QuickLimits
      <4> QED
        BY <4>2
    <3> QED
      BY <3>1, <3>2 DEF Quick!Waiting
  <2> DEFINE P == {i \in 1..n : line[i] = m}
  <2>2. P \in SUBSET Nat /\ P # {}
    BY <1>1, <2>1
  <2>3. PICK i \in P : \A j \in P : i <= j
    BY <2>2, LeastMember
  <2>4. i \in 1..n /\ line[i] = m
    BY <2>3
  <2>5. ASSUME NEW j \in 1..(i - 1)
        PROVE  line[j] # line[i]
    <3>1. j \in 1..n /\ ~(i <= j)
      BY <1>1, <2>4
    <3> QED
      BY <2>3, <2>4, <3>1
  <2>6. i \in turns
    BY <1>9, <2>4, <2>5
  <2> QED
    BY <1>3, <1>9, <2>4, <2>6
<1> QED
  BY <1>5, <1>7, <1>8, <1>9
LEMMA LoopInit ==
    ASSUME QuickLimits, Quick!Init
    PROVE  LoopInv
<1>1. QuickInv
  BY QuickInit
<1>2. /\ found = <<>> /\ queue = <<>> /\ finder.sites = {} /\ wake = TRUE
      /\ finder.left = Cardinality(Producers) /\ finder = [left |-> finder.left, sites |-> {}]
      /\ producer = [p \in Producers |-> [found |-> {}, runs |-> TRUE]]
      /\ quick = [at |-> "loop", reason |-> "none"]
      /\ existing = {m \in Quick!ToSet(BoundMatches) : Quick!CanBind(m)}
      /\ \A m \in Matches : candidate[m].at = "none"
  BY SameCount DEF Quick!Init
<1>3. Cardinality(Producers) \in Nat
  BY FS_CardinalityType DEF QuickLimits
<1>4. QuickTypes
  BY <1>2, <1>3 DEF QuickTypes
<1>5. Working = {}
  BY <1>2 DEF Working, Quick!At
<1>6. WithinLimit /\ AllCounted
  BY <1>5, FS_EmptySet DEF WithinLimit, AllCounted, QuickLimits
<1>7. MayBind /\ SitesSeen /\ Queued /\ TriedAll /\ Quick!NoLostWakeUp
  BY <1>2 DEF MayBind, SitesSeen, Queued, TriedAll, Quick!NoLostWakeUp
<1>8. Searching = Producers
  BY <1>2 DEF Searching
<1>9. InOrder
  BY <1>2, <1>8 DEF InOrder
<1> QED
  BY <1>1, <1>4, <1>6, <1>7, <1>9 DEF LoopInv

LEMMA ProduceKeeps ==
    ASSUME QuickLimits, LoopInv, NEW p \in Producers, Quick!Produce(p)
    PROVE  LoopInv'
<1>1. PICK m \in Finds[p] \ producer[p].found :
          /\ producer' = [producer EXCEPT ![p].found = @ \cup {m}]
          /\ queue' = Append(queue, m)
  BY DEF Quick!Produce
<1>2. /\ producer[p].runs /\ quick.at = "loop"
      /\ UNCHANGED <<health, evidence, trusted, finder, found, existing, attempted, candidate,
                     seen, wake, quick>>
  BY DEF Quick!Produce
<1>3. m \in Matches /\ m \notin Producers
  BY DEF QuickLimits
<1>4. /\ producer' \in [Producers -> [found : SUBSET Matches, runs : BOOLEAN]]
      /\ \A q \in Producers : producer'[q].runs = producer[q].runs
      /\ producer'[p].found = producer[p].found \cup {m}
      /\ \A q \in Producers \ {p} : producer'[q] = producer[q]
  BY <1>1, <1>3 DEF LoopInv, QuickTypes
<1>5. /\ queue' \in Seq(Matches \cup Producers) /\ queue \in Seq(Matches \cup Producers)
      /\ DOMAIN queue = 1..Len(queue) /\ DOMAIN queue' = 1..(Len(queue) + 1)
      /\ queue'[Len(queue) + 1] = m /\ Len(queue) \in Nat
      /\ \A i \in DOMAIN queue : i \in DOMAIN queue' /\ queue'[i] = queue[i]
      /\ \A i \in DOMAIN queue' : i \in DOMAIN queue \/ i = Len(queue) + 1
  BY <1>1, <1>3 DEF LoopInv, QuickTypes
<1>6. Discovered \subseteq Discovered' /\ m \in Discovered'
  BY <1>4 DEF Discovered
<1>7. QuickInv' /\ WithinLimit' /\ MayBind' /\ AllCounted' /\ Quick!NoLostWakeUp'
  BY <1>2 DEF LoopInv, QuickInv, WithinLimit, Working, MayBind, AllCounted, Quick!NoLostWakeUp,
     Quick!CanBind, Quick!At, Quick!Waiting, Quick!InFlight, Quick!Finding
<1>8. QuickTypes' /\ TriedAll'
  BY <1>2, <1>4, <1>5 DEF LoopInv, QuickTypes, TriedAll
<1>9. SitesSeen'
  BY <1>2, <1>6 DEF LoopInv, SitesSeen, Quick!CanProbe
<1>10. Queued'
  BY <1>5, <1>6 DEF LoopInv, Queued
<1>11. \A q \in Producers : \A i \in DOMAIN queue' :
          queue'[i] = q => i \in DOMAIN queue /\ queue[i] = q
  BY <1>3, <1>5
<1>12. Searching' = Searching
  BY <1>4, <1>5, <1>11 DEF Searching
<1>13. InOrder'
  <2>1. finder'.left = Cardinality(Searching')
    BY <1>2, <1>12 DEF LoopInv, InOrder
  <2>2. \A q \in Producers : \A i, j \in DOMAIN queue' :
            queue'[i] = q => ~producer'[q].runs /\ (queue'[j] = q => i = j)
    BY <1>2, <1>4, <1>11 DEF LoopInv, InOrder
  <2>3. ASSUME NEW q \in Producers, NEW n \in producer'[q].found
        PROVE  \/ SiteOf[n] \in finder'.sites
               \/ /\ q \in Searching'
                  /\ \E i \in DOMAIN queue' : queue'[i] = n
                        /\ \A j \in DOMAIN queue' : queue'[j] = q => i < j
    <3>1. CASE n \in producer[q].found
      BY <1>2, <1>5, <1>11, <1>12, <3>1 DEF LoopInv, InOrder
    <3>2. CASE n \notin producer[q].found
      <4>1. q = p /\ n = m
        BY <1>4, <3>2
      <4>2. p \in Searching'
        BY <1>2, <1>4 DEF Searching
      <4>3. \A j \in DOMAIN queue' : queue'[j] # p
        BY <1>2, <1>11 DEF LoopInv, InOrder
      <4> QED
        BY <1>5, <4>1, <4>2, <4>3
    <3> QED
      BY <3>1, <3>2
  <2> QED
    BY <2>1, <2>2, <2>3 DEF InOrder
<1> QED
  BY <1>7, <1>8, <1>9, <1>10, <1>13 DEF LoopInv

LEMMA ProducerEndsKeeps ==
    ASSUME QuickLimits, LoopInv, NEW p \in Producers, Quick!ProducerEnds(p)
    PROVE  LoopInv'
<1>1. /\ producer' = [producer EXCEPT ![p].runs = FALSE] /\ producer[p].runs
      /\ queue' = IF quick.at = "loop" THEN Append(queue, p) ELSE queue
      /\ UNCHANGED <<health, evidence, trusted, finder, found, existing, attempted, candidate,
                     seen, wake, quick>>
  BY DEF Quick!ProducerEnds
<1>2. /\ producer' \in [Producers -> [found : SUBSET Matches, runs : BOOLEAN]]
      /\ \A q \in Producers : producer'[q].found = producer[q].found
      /\ ~producer'[p].runs
      /\ \A q \in Producers \ {p} : producer'[q] = producer[q]
  BY <1>1 DEF LoopInv, QuickTypes
<1>3. Discovered' = Discovered
  BY <1>2 DEF Discovered
<1>4. QuickInv' /\ WithinLimit' /\ MayBind' /\ AllCounted' /\ Quick!NoLostWakeUp'
  BY <1>1 DEF LoopInv, QuickInv, WithinLimit, Working, MayBind, AllCounted, Quick!NoLostWakeUp,
     Quick!CanBind, Quick!At, Quick!Waiting, Quick!InFlight, Quick!Finding
<1>5. SitesSeen'
  BY <1>1, <1>3 DEF LoopInv, SitesSeen, Quick!CanProbe
<1>6. TriedAll'
  BY <1>1, <1>3 DEF LoopInv, TriedAll, Quick!Waiting
<1>7. CASE quick.at # "loop"
  <2>1. queue' = queue
    BY <1>1, <1>7
  <2>2. QuickTypes' /\ Queued' /\ InOrder'
    BY <1>1, <1>2, <1>3, <1>7, <2>1 DEF LoopInv, QuickTypes, Queued, InOrder
  <2> QED
    BY <1>4, <1>5, <1>6, <2>2 DEF LoopInv
<1>8. CASE quick.at = "loop"
  <2>1. /\ queue' \in Seq(Matches \cup Producers) /\ queue \in Seq(Matches \cup Producers)
        /\ DOMAIN queue = 1..Len(queue) /\ DOMAIN queue' = 1..(Len(queue) + 1)
        /\ queue'[Len(queue) + 1] = p /\ Len(queue) \in Nat
        /\ \A i \in DOMAIN queue : i \in DOMAIN queue' /\ queue'[i] = queue[i]
        /\ \A i \in DOMAIN queue' : i \in DOMAIN queue \/ i = Len(queue) + 1
    BY <1>1, <1>8 DEF LoopInv, QuickTypes
  <2>2. QuickTypes' /\ Queued'
    BY <1>1, <1>2, <1>3, <2>1 DEF LoopInv, QuickTypes, Queued
  <2>3. \A i \in DOMAIN queue : queue[i] # p
    BY <1>1, <1>8 DEF LoopInv, InOrder
  <2>4. Searching' = Searching
    BY <1>1, <1>2, <2>1 DEF Searching
  <2>5. finder'.left = Cardinality(Searching')
    BY <1>1, <1>8, <2>4 DEF LoopInv, InOrder
  <2>6. \A q \in Producers : \A i, j \in DOMAIN queue' :
            queue'[i] = q => ~producer'[q].runs /\ (queue'[j] = q => i = j)
    BY <1>2, <1>8, <2>1, <2>3 DEF LoopInv, InOrder
  <2>7. ASSUME NEW q \in Producers, NEW n \in producer'[q].found
        PROVE  \/ SiteOf[n] \in finder'.sites
               \/ /\ q \in Searching'
                  /\ \E i \in DOMAIN queue' : queue'[i] = n
                        /\ \A j \in DOMAIN queue' : queue'[j] = q => i < j
    <3>1. CASE SiteOf[n] \in finder.sites
      BY <1>1, <3>1
    <3>2. CASE SiteOf[n] \notin finder.sites
      <4>1. PICK i \in DOMAIN queue : queue[i] = n /\ \A j \in DOMAIN queue : queue[j] = q => i < j
        BY <1>2, <1>8, <3>2 DEF LoopInv, InOrder
      <4>2. \A j \in DOMAIN queue' : queue'[j] = q => i < j
        BY <2>1, <4>1
      <4>3. q \in Searching'
        BY <1>2, <1>8, <2>4, <3>2 DEF LoopInv, InOrder
      <4> QED
        BY <2>1, <4>1, <4>2, <4>3
    <3> QED
      BY <3>1, <3>2
  <2>8. InOrder'
    BY <2>5, <2>6, <2>7 DEF InOrder
  <2> QED
    BY <1>4, <1>5, <1>6, <2>2, <2>8 DEF LoopInv
<1> QED
  BY <1>7, <1>8
\* What follows the head of a sequence.
LEMMA Shifted ==
    ASSUME NEW S, NEW s \in Seq(S), s # <<>>
    PROVE  /\ Tail(s) \in Seq(S) /\ Head(s) = s[1] /\ Head(s) \in S /\ 1 \in DOMAIN s
           /\ \A i \in DOMAIN Tail(s) : i + 1 \in DOMAIN s /\ Tail(s)[i] = s[i + 1]
           /\ \A i \in DOMAIN s : i \in Nat /\ i >= 1
           /\ \A i \in DOMAIN s : i # 1 => i - 1 \in DOMAIN Tail(s) /\ Tail(s)[i - 1] = s[i]
<1>1. Len(s) \in Nat /\ Len(s) # 0 /\ DOMAIN s = 1..Len(s)
  OBVIOUS
<1>2. Tail(s) \in Seq(S) /\ Len(Tail(s)) = Len(s) - 1 /\ DOMAIN Tail(s) = 1..(Len(s) - 1)
  BY <1>1
<1>3. \A i \in 1..(Len(s) - 1) : Tail(s)[i] = s[i + 1]
  BY <1>1
<1>4. Head(s) = s[1] /\ 1 \in DOMAIN s
  BY <1>1
<1> QED
  BY <1>1, <1>2, <1>3, <1>4

LEMMA FindKeeps ==
    ASSUME QuickLimits, LoopInv, Quick!Find
    PROVE  LoopInv'
<1> DEFINE m == Head(queue)
<1>1. /\ quick.at = "loop" /\ finder.left > 0 /\ queue # <<>> /\ queue' = Tail(queue)
      /\ UNCHANGED <<health, evidence, trusted, producer, existing, attempted, candidate, seen,
                     quick>>
  BY DEF Quick!Find
<1>2. /\ queue \in Seq(Matches \cup Producers) /\ found \in Seq(Matches) /\ finder.left \in Nat
      /\ finder = [left |-> finder.left, sites |-> finder.sites]
  BY DEF LoopInv, QuickTypes
<1>3. /\ queue' \in Seq(Matches \cup Producers) /\ m = queue[1] /\ 1 \in DOMAIN queue
      /\ m \in Matches \cup Producers
      /\ \A i \in DOMAIN queue' : i + 1 \in DOMAIN queue /\ queue'[i] = queue[i + 1]
      /\ \A i \in DOMAIN queue : i \in Nat /\ i >= 1
      /\ \A i \in DOMAIN queue : i # 1 => i - 1 \in DOMAIN queue' /\ queue'[i - 1] = queue[i]
  BY <1>1, <1>2, Shifted
<1>4. \A i \in DOMAIN queue' : i \in Nat /\ i >= 1
  BY <1>3
<1>5. CASE m \in Producers
  <2>1. /\ finder' = [finder EXCEPT !.left = @ - 1]
        /\ wake' = (wake \/ finder.left = 1) /\ UNCHANGED found
    BY <1>5 DEF Quick!Find
  <2>2. /\ finder'.left = finder.left - 1 /\ finder'.left \in Nat
        /\ finder'.sites = finder.sites
        /\ finder' = [left |-> finder'.left, sites |-> finder'.sites]
    <3> DEFINE l == finder.left
    <3> DEFINE sites == finder.sites
    <3>1. finder = [left |-> l, sites |-> sites]
      BY <1>2
    <3>2. l - 1 \in Nat
      BY <1>1, <1>2
    <3> HIDE DEF l, sites
    <3> QED
      BY <2>1, <3>1, <3>2
  <2>3. QuickInv' /\ WithinLimit' /\ MayBind' /\ AllCounted' /\ TriedAll'
    BY <1>1, <2>1, <2>2 DEF LoopInv, QuickInv, WithinLimit, Working, MayBind, AllCounted,
       TriedAll, Discovered, Quick!CanBind, Quick!At
  <2>4. QuickTypes' /\ SitesSeen'
    BY <1>1, <1>3, <2>1, <2>2 DEF LoopInv, QuickTypes, SitesSeen, Discovered, Quick!CanProbe
  <2>5. Queued'
    BY <1>1, <1>3 DEF LoopInv, Queued, Discovered
  <2>6. Quick!NoLostWakeUp'
    <3> SUFFICES ASSUME ~wake'
                 PROVE  /\ Quick!At({"called"})' = {}
                        /\ Quick!Waiting' = {} \/ Quick!Cardinality(Quick!InFlight') = MaxInFlight
                        /\ Quick!Finding' \/ Quick!InFlight' # {}
      BY DEF Quick!NoLostWakeUp
    <3>1. ~wake /\ finder'.left > 0
      <4>1. ~wake /\ finder.left # 1
        BY <2>1
      <4> QED
        BY <1>1, <1>2, <2>2, <4>1
    <3>2. /\ Quick!At({"called"}) = {}
          /\ Quick!Waiting = {} \/ Quick!Cardinality(Quick!InFlight) = MaxInFlight
      BY <1>1, <3>1 DEF LoopInv, Quick!NoLostWakeUp
    <3>3. Quick!At({"called"})' = Quick!At({"called"}) /\ Quick!Waiting' = Quick!Waiting
          /\ Quick!InFlight' = Quick!InFlight
      BY <1>1, <2>1 DEF Quick!At, Quick!Waiting, Quick!InFlight
    <3> QED
      BY <3>1, <3>2, <3>3 DEF Quick!Finding
  <2>7. \A i \in DOMAIN queue : queue[i] = m => i = 1
    BY <1>1, <1>3, <1>5 DEF LoopInv, InOrder
  <2>8. Searching' = Searching \ {m}
    <3>1. ~producer[m].runs
      BY <1>1, <1>3, <1>5 DEF LoopInv, InOrder
    <3>2. \A i \in DOMAIN queue' : queue'[i] # m
      BY <1>3, <1>4, <2>7
    <3>3. \A p \in Producers \ {m} :
             (\E i \in DOMAIN queue : queue[i] = p) <=> (\E i \in DOMAIN queue' : queue'[i] = p)
      BY <1>3
    <3> QED
      BY <1>1, <3>1, <3>2, <3>3 DEF Searching
  <2>9. m \in Searching /\ IsFiniteSet(Searching)
    BY <1>3, <1>5, FS_Subset DEF Searching, QuickLimits
  <2>10. finder'.left = Cardinality(Searching')
    BY <1>1, <2>2, <2>8, <2>9, FS_RemoveElement DEF LoopInv, InOrder
  <2>11. ASSUME NEW q \in Producers, NEW n \in producer'[q].found
         PROVE  \/ SiteOf[n] \in finder'.sites
                \/ /\ q \in Searching'
                   /\ \E i \in DOMAIN queue' : queue'[i] = n
                         /\ \A j \in DOMAIN queue' : queue'[j] = q => i < j
    <3>1. CASE SiteOf[n] \in finder.sites
      BY <2>2, <3>1
    <3>2. CASE SiteOf[n] \notin finder.sites
      <4>1. PICK i \in DOMAIN queue : queue[i] = n /\ \A j \in DOMAIN queue : queue[j] = q => i < j
        BY <1>1, <3>2 DEF LoopInv, InOrder
      <4>2. q \in Searching
        BY <1>1, <3>2 DEF LoopInv, InOrder
      <4>3. n \in Matches /\ n # m
        BY <1>1, <1>5 DEF LoopInv, QuickTypes, QuickLimits
      <4>4. i # 1
        BY <1>3, <4>1, <4>3
      <4>5. q # m
        BY <1>3, <4>1
      <4>6. \A j \in DOMAIN queue' : queue'[j] = q => i - 1 < j
        BY <1>3, <1>4, <4>1
      <4>7. i - 1 \in DOMAIN queue' /\ queue'[i - 1] = n
        BY <1>3, <4>1, <4>4
      <4> QED
        BY <2>8, <4>2, <4>5, <4>6, <4>7
    <3> QED
      BY <3>1, <3>2
  <2>12. \A q \in Producers : \A i, j \in DOMAIN queue' :
            queue'[i] = q => ~producer'[q].runs /\ (queue'[j] = q => i = j)
    <3> SUFFICES ASSUME NEW q \in Producers, NEW i \in DOMAIN queue', NEW j \in DOMAIN queue',
                        queue'[i] = q
                 PROVE  ~producer'[q].runs /\ (queue'[j] = q => i = j)
      OBVIOUS
    <3>1. ~producer[q].runs /\ (queue[j + 1] = q => i + 1 = j + 1)
      BY <1>1, <1>3 DEF LoopInv, InOrder
    <3> QED
      BY <1>1, <1>3, <1>4, <3>1
  <2>13. InOrder'
    BY <2>10, <2>11, <2>12 DEF InOrder
  <2> QED
    BY <2>3, <2>4, <2>5, <2>6, <2>13 DEF LoopInv
<1>6. CASE m \notin Producers
  <2>1. /\ finder' = [finder EXCEPT !.sites = @ \cup {SiteOf[m]}]
        /\ IF SiteOf[m] \in finder.sites \/ ~Quick!CanProbe(m)
           THEN UNCHANGED <<found, wake>>
           ELSE found' = Append(found, m) /\ wake' = TRUE
    BY <1>6 DEF Quick!Find
  <2>2. /\ finder'.left = finder.left /\ finder'.sites = finder.sites \cup {SiteOf[m]}
        /\ finder' = [left |-> finder'.left, sites |-> finder'.sites]
    <3> DEFINE l == finder.left
    <3> DEFINE sites == finder.sites
    <3>1. finder = [left |-> l, sites |-> sites]
      BY <1>2
    <3> HIDE DEF l, sites
    <3> QED
      BY <2>1, <3>1
  <2>3. m \in Matches /\ m \in Discovered
    BY <1>3, <1>6 DEF LoopInv, Queued
  <2>4. /\ found' \in Seq(Matches)
        /\ \A n \in Quick!ToSet(found) : n \in Quick!ToSet(found')
        /\ \/ SiteOf[m] \in finder.sites
           \/ ~Quick!CanProbe(m)
           \/ m \in Quick!ToSet(found')
    <3>1. CASE found' = found
      BY <1>2, <2>1, <3>1
    <3>2. CASE found' = Append(found, m)
      <4>1. /\ found' \in Seq(Matches) /\ DOMAIN found = 1..Len(found)
            /\ DOMAIN found' = 1..(Len(found) + 1) /\ found'[Len(found) + 1] = m
            /\ Len(found) \in Nat /\ \A i \in DOMAIN found : found'[i] = found[i]
        BY <1>2, <2>3, <3>2
      <4> QED
        BY <4>1 DEF Quick!ToSet
    <3> QED
      BY <2>1, <3>1, <3>2
  <2>5. QuickInv' /\ WithinLimit' /\ MayBind' /\ AllCounted' /\ TriedAll'
    BY <1>1 DEF LoopInv, QuickInv, WithinLimit, Working, MayBind, AllCounted, TriedAll,
       Quick!CanBind, Quick!At
  <2>6. QuickTypes'
    BY <1>1, <1>2, <1>3, <2>1, <2>2, <2>4 DEF LoopInv, QuickTypes
  <2>7. Queued'
    BY <1>1, <1>3 DEF LoopInv, Queued, Discovered
  <2>8. SitesSeen'
    <3>1. Discovered' = Discovered /\ \A n : Quick!CanProbe(n)' = Quick!CanProbe(n)
      BY <1>1 DEF Discovered, Quick!CanProbe
    <3>2. ASSUME NEW site \in finder.sites
          PROVE  \E n \in Discovered :
                    SiteOf[n] = site /\ (Quick!CanProbe(n) => n \in Quick!ToSet(found'))
      BY <1>1, <2>4 DEF LoopInv, SitesSeen
    <3>3. \E n \in Discovered :
             SiteOf[n] = SiteOf[m] /\ (Quick!CanProbe(n) => n \in Quick!ToSet(found'))
      BY <2>3, <2>4, <3>2
    <3> QED
      BY <2>2, <3>1, <3>2, <3>3 DEF SitesSeen, Quick!ToSet, Quick!CanProbe
  <2>9. Quick!NoLostWakeUp'
    <3>1. CASE wake'
      BY <3>1 DEF Quick!NoLostWakeUp
    <3>2. CASE ~wake'
      BY <1>1, <2>1, <2>2, <3>2 DEF LoopInv, Quick!NoLostWakeUp, Quick!At, Quick!Waiting,
         Quick!InFlight, Quick!Finding
    <3> QED
      BY <3>1, <3>2
  <2>10. Searching' = Searching
    <3>1. \A p \in Producers :
             (\E i \in DOMAIN queue : queue[i] = p) <=> (\E i \in DOMAIN queue' : queue'[i] = p)
      BY <1>3, <1>6
    <3> QED
      BY <1>1, <3>1 DEF Searching
  <2>11. ASSUME NEW q \in Producers, NEW n \in producer'[q].found
         PROVE  \/ SiteOf[n] \in finder'.sites
                \/ /\ q \in Searching'
                   /\ \E i \in DOMAIN queue' : queue'[i] = n
                         /\ \A j \in DOMAIN queue' : queue'[j] = q => i < j
    <3>1. CASE SiteOf[n] \in finder.sites \/ n = m
      BY <2>2, <3>1
    <3>2. CASE SiteOf[n] \notin finder.sites /\ n # m
      <4>1. PICK i \in DOMAIN queue : queue[i] = n /\ \A j \in DOMAIN queue : queue[j] = q => i < j
        BY <1>1, <3>2 DEF LoopInv, InOrder
      <4>2. q \in Searching
        BY <1>1, <3>2 DEF LoopInv, InOrder
      <4>3. i # 1
        BY <1>3, <3>2, <4>1
      <4>4. \A j \in DOMAIN queue' : queue'[j] = q => i - 1 < j
        BY <1>3, <1>4, <4>1
      <4>5. i - 1 \in DOMAIN queue' /\ queue'[i - 1] = n
        BY <1>3, <4>1, <4>3
      <4> QED
        BY <2>10, <4>2, <4>4, <4>5
    <3> QED
      BY <3>1, <3>2
  <2>12. \A q \in Producers : \A i, j \in DOMAIN queue' :
            queue'[i] = q => ~producer'[q].runs /\ (queue'[j] = q => i = j)
    <3> SUFFICES ASSUME NEW q \in Producers, NEW i \in DOMAIN queue', NEW j \in DOMAIN queue',
                        queue'[i] = q
                 PROVE  ~producer'[q].runs /\ (queue'[j] = q => i = j)
      OBVIOUS
    <3>1. ~producer[q].runs /\ (queue[j + 1] = q => i + 1 = j + 1)
      BY <1>1, <1>3 DEF LoopInv, InOrder
    <3> QED
      BY <1>1, <1>3, <1>4, <3>1
  <2>13. finder'.left = Cardinality(Searching')
    BY <1>1, <2>2, <2>10 DEF LoopInv, InOrder
  <2>14. InOrder'
    BY <2>11, <2>12, <2>13 DEF InOrder
  <2> QED
    BY <2>5, <2>6, <2>7, <2>8, <2>9, <2>14 DEF LoopInv
<1> QED
  BY <1>5, <1>6
\* The tasks of a set of steps, when one candidate goes on.
LEMMA OneCandidate ==
    ASSUME LoopInv, NEW m \in Matches, NEW after,
           candidate' = [candidate EXCEPT ![m] = after], NEW steps
    PROVE  Quick!At(steps)' = (Quick!At(steps) \ {m})
                                 \cup (IF after.at \in steps THEN {m} ELSE {})
<1>1. candidate'[m] = after /\ \A n \in Matches \ {m} : candidate'[n] = candidate[n]
  BY DEF LoopInv, QuickInv
<1> QED
  BY <1>1 DEF Quick!At

LEMMA CandidateKeeps ==
    ASSUME QuickLimits, LoopInv, NEW m \in Matches,
           Quick!Resolve(m) \/ Quick!CallBack(m) \/ Quick!Cancel(m)
    PROVE  LoopInv'
<1>1. PICK after :
        /\ candidate' = [candidate EXCEPT ![m] = after]
        /\ \/ /\ candidate[m].at = "runs" /\ after.at = "ended" /\ quick.at = "loop"
              /\ wake' = wake
           \/ /\ candidate[m].at = "ended" /\ after.at = "called" /\ quick.at = "loop"
              /\ wake' = TRUE
           \/ /\ candidate[m].at = "runs" /\ after.at = "cancelled" /\ quick.at = "closing"
              /\ wake' = wake
  <2>1. candidate[m] = [at |-> candidate[m].at, result |-> candidate[m].result]
    BY DEF LoopInv, QuickInv
  <2>2. CASE Quick!Resolve(m)
    <3>1. PICK result \in Quick!Results :
              candidate' = [candidate EXCEPT ![m] = [at |-> "ended", result |-> result]]
      BY <2>2 DEF Quick!Resolve
    <3> DEFINE after == [at |-> "ended", result |-> result]
    <3>2. after.at = "ended" /\ candidate' = [candidate EXCEPT ![m] = after]
      BY <3>1
    <3> HIDE DEF after
    <3> QED
      BY <2>2, <3>2 DEF Quick!Resolve
  <2>3. ASSUME NEW step
        PROVE  [candidate[m] EXCEPT !.at = step].at = step
    <3> DEFINE was == candidate[m].result
    <3> DEFINE at == candidate[m].at
    <3>1. candidate[m] = [at |-> at, result |-> was]
      BY <2>1
    <3> HIDE DEF was, at
    <3> QED
      BY <3>1
  <2>4. CASE Quick!CallBack(m)
    <3> DEFINE after == [candidate[m] EXCEPT !.at = "called"]
    <3>1. candidate' = [candidate EXCEPT ![m] = after]
      BY <2>4 DEF Quick!CallBack, LoopInv, QuickInv
    <3>2. after.at = "called"
      BY <2>3
    <3> HIDE DEF after
    <3> QED
      BY <2>4, <3>1, <3>2 DEF Quick!CallBack
  <2>5. CASE Quick!Cancel(m)
    <3> DEFINE after == [candidate[m] EXCEPT !.at = "cancelled"]
    <3>1. candidate' = [candidate EXCEPT ![m] = after]
      BY <2>5 DEF Quick!Cancel, LoopInv, QuickInv
    <3>2. after.at = "cancelled"
      BY <2>3
    <3> HIDE DEF after
    <3> QED
      BY <2>5, <3>1, <3>2 DEF Quick!Cancel
  <2> QED
    BY <2>2, <2>4, <2>5
<1>2. UNCHANGED <<health, evidence, trusted, producer, queue, finder, found, existing, attempted,
                  seen, quick>>
  BY DEF Quick!Resolve, Quick!CallBack, Quick!Cancel
<1>3. QuickInv'
  BY QuickKeepsResults DEF LoopInv, Quick!Next, Quick!Run
<1>4. QuickTypes'
  <2>1. \A n \in Matches : candidate'[n].at \in
            {"none", "runs", "ended", "called", "counted", "cancelled"}
    BY <1>1 DEF LoopInv, QuickTypes, QuickInv
  <2> QED
    BY <1>1, <1>2, <2>1 DEF LoopInv, QuickTypes
<1>5. Working' \subseteq Working
  BY <1>1, OneCandidate DEF Working, Quick!At
<1>6. WithinLimit'
  <2>1. IsFiniteSet(Working)
    BY FS_Subset DEF QuickLimits, Working, Quick!At
  <2>2. Cardinality(Working) \in Nat /\ Cardinality(Working') \in Nat
        /\ Cardinality(Working') <= Cardinality(Working)
    BY <1>5, <2>1, FS_Subset, FS_CardinalityType
  <2> QED
    BY <2>2 DEF LoopInv, WithinLimit, QuickLimits
<1>7. MayBind' /\ SitesSeen' /\ Queued' /\ InOrder' /\ TriedAll'
  BY <1>2 DEF LoopInv, MayBind, SitesSeen, Queued, InOrder, TriedAll, Quick!CanBind,
     Quick!CanProbe, Quick!Waiting, Discovered, Searching
<1>8. AllCounted'
  BY <1>1, <1>2 DEF AllCounted
<1>9. Quick!NoLostWakeUp'
  <2>1. CASE quick.at # "loop" \/ wake'
    BY <1>2, <2>1 DEF Quick!NoLostWakeUp
  <2>2. CASE quick.at = "loop" /\ ~wake'
    <3>1. candidate[m].at = "runs" /\ after.at = "ended" /\ wake' = wake
      BY <1>1, <2>2
    <3>2. Quick!At({"called"})' = Quick!At({"called"})
      BY <1>1, <3>1, OneCandidate DEF Quick!At
    <3>3. Quick!InFlight' = Quick!InFlight
      BY <1>1, <3>1, OneCandidate DEF Quick!At, Quick!InFlight
    <3> QED
      BY <1>2, <2>2, <3>1, <3>2, <3>3 DEF LoopInv, Quick!NoLostWakeUp, Quick!Waiting,
         Quick!Finding
  <2> QED
    BY <2>1, <2>2
<1> QED
  BY <1>3, <1>4, <1>6, <1>7, <1>8, <1>9 DEF LoopInv

LEMMA LoopEndsKeeps ==
    ASSUME QuickLimits, LoopInv, Quick!Deadline \/ Quick!Gathered \/ Quick!Record
    PROVE  LoopInv'
<1>1. /\ quick' \in [at : {"loop", "closing", "gathered", "over"},
                     reason : {"none", "enough", "exhausted", "deadline"}]
      /\ quick'.at # "loop" /\ (quick'.at # "over" => quick.at # "over")
      /\ \/ quick'.reason # "exhausted"
         \/ quick.reason = "exhausted" /\ quick'.reason = quick.reason
  <2>1. quick \in [at : {"loop", "closing", "gathered", "over"},
                   reason : {"none", "enough", "exhausted", "deadline"}]
    BY DEF LoopInv, QuickTypes
  <2>2. CASE Quick!Deadline
    BY <2>1, <2>2 DEF Quick!Deadline
  <2>3. CASE Quick!Gathered
    BY <2>1, <2>3 DEF Quick!Gathered
  <2>4. CASE Quick!Record
    BY <2>1, <2>4 DEF Quick!Record
  <2> QED
    BY <2>2, <2>3, <2>4
<1>2. /\ UNCHANGED <<evidence, trusted, producer, queue, finder, found, existing, attempted, wake>>
      /\ quick'.at # "over" => UNCHANGED health
  BY DEF Quick!Deadline, Quick!Gathered, Quick!Record, LoopInv, QuickTypes
<1>3. QuickInv'
  BY QuickKeepsResults DEF LoopInv, Quick!Next, Quick!Run
<1>4. /\ \A m \in Matches : candidate'[m].at \in
            {"none", "runs", "ended", "called", "counted", "cancelled"}
      /\ Working' \subseteq Working
      /\ quick'.at \in {"gathered", "over"} => Working' = {}
  <2>1. CASE Quick!Deadline
    BY <2>1 DEF Quick!Deadline, LoopInv, QuickTypes, Working, Quick!At
  <2>2. CASE Quick!Record
    BY <2>2 DEF Quick!Record, LoopInv, QuickTypes, AllCounted, Working, Quick!At
  <2>3. CASE Quick!Gathered
    <3>1. /\ candidate' = [m \in Matches |->
                IF m \in Quick!LeftOver THEN [candidate[m] EXCEPT !.at = "counted"]
                ELSE candidate[m]]
          /\ \A m \in Matches : candidate[m].at # "runs"
      BY <2>3 DEF Quick!Gathered, Quick!At
    <3>2. ASSUME NEW m \in Matches
          PROVE  candidate'[m].at \in {"none", "counted", "cancelled"}
      <4>1. candidate[m] = [at |-> candidate[m].at, result |-> candidate[m].result]
        BY DEF LoopInv, QuickInv
      <4>2. m \in Quick!LeftOver <=> candidate[m].at \in {"ended", "called"}
        BY DEF Quick!LeftOver, Quick!At
      <4>3. CASE m \in Quick!LeftOver
        <5> DEFINE was == candidate[m].result
        <5> DEFINE at == candidate[m].at
        <5>1. candidate[m] = [at |-> at, result |-> was]
          BY <4>1
        <5>2. candidate'[m] = [candidate[m] EXCEPT !.at = "counted"]
          BY <3>1, <4>3
        <5> HIDE DEF was, at
        <5> QED
          BY <5>1, <5>2
      <4>4. CASE m \notin Quick!LeftOver
        BY <3>1, <4>2, <4>4 DEF LoopInv, QuickTypes
      <4> QED
        BY <4>3, <4>4
    <3>3. Working' = {}
      BY <3>2 DEF Working, Quick!At
    <3> QED
      BY <3>2, <3>3
  <2> QED
    BY <2>1, <2>2, <2>3
<1>5. QuickTypes'
  BY <1>1, <1>2, <1>4 DEF LoopInv, QuickTypes
<1>6. WithinLimit'
  <2>1. IsFiniteSet(Working)
    BY FS_Subset DEF QuickLimits, Working, Quick!At
  <2>2. Cardinality(Working) \in Nat /\ Cardinality(Working') \in Nat
        /\ Cardinality(Working') <= Cardinality(Working)
    BY <1>4, <2>1, FS_Subset, FS_CardinalityType
  <2> QED
    BY <2>2 DEF LoopInv, WithinLimit, QuickLimits
<1>7. MayBind' /\ SitesSeen' /\ Queued' /\ InOrder' /\ TriedAll' /\ AllCounted'
      /\ Quick!NoLostWakeUp'
  BY <1>1, <1>2, <1>4 DEF LoopInv, MayBind, SitesSeen, Queued, InOrder, TriedAll, AllCounted,
     Quick!NoLostWakeUp, Quick!CanBind, Quick!CanProbe, Quick!Waiting, Discovered
<1> QED
  BY <1>3, <1>5, <1>6, <1>7 DEF LoopInv
LEMMA PassKeepsLoop ==
    ASSUME QuickLimits, LoopInv, Quick!Pass
    PROVE  LoopInv'
<1> DEFINE called == Quick!At({"called"})
<1> DEFINE flying == Quick!InFlight
<1> DEFINE places == MaxInFlight - Quick!Cardinality(flying)
<1> DEFINE enough == Quick!Cardinality(Quick!Usable(Quick!At({"called", "counted"}))) >= LineCount
<1> DEFINE starts == IF enough THEN {} ELSE Quick!Started(places)
<1>1. /\ quick.at = "loop"
      /\ candidate' = [m \in Matches |->
            IF m \in called THEN [candidate[m] EXCEPT !.at = "counted"]
            ELSE IF m \in starts THEN [candidate[m] EXCEPT !.at = "runs"]
            ELSE candidate[m]]
      /\ attempted' = attempted \cup starts /\ wake' = FALSE
      /\ quick' = IF enough THEN [at |-> "closing", reason |-> "enough"]
                  ELSE IF Quick!Exhausted(starts)
                  THEN [at |-> "closing", reason |-> "exhausted"] ELSE quick
      /\ UNCHANGED <<health, evidence, trusted, producer, queue, finder, found, existing>>
  BY DEF Quick!Pass
<1>2. /\ IsFiniteSet(Working) /\ flying \subseteq Working /\ called \subseteq Working
      /\ IsFiniteSet(flying) /\ Cardinality(flying) \in Nat
      /\ places = MaxInFlight - Cardinality(flying) /\ places \in Nat
  <2>1. /\ Working \subseteq Matches /\ flying \subseteq Working /\ called \subseteq Working
    BY DEF Working, Quick!At, Quick!InFlight
  <2>2. IsFiniteSet(Working)
    BY <2>1, FS_Subset DEF QuickLimits
  <2>3. IsFiniteSet(flying) /\ Cardinality(flying) <= Cardinality(Working)
    BY <2>1, <2>2, FS_Subset
  <2>4. Cardinality(flying) \in Nat /\ Cardinality(Working) \in Nat
    BY <2>2, <2>3, FS_CardinalityType
  <2>5. Cardinality(Working) <= MaxInFlight /\ MaxInFlight \in Nat
    BY DEF LoopInv, WithinLimit, QuickLimits
  <2>6. Quick!Cardinality(flying) = Cardinality(flying)
    BY SameCount
  <2> QED
    BY <2>1, <2>2, <2>3, <2>4, <2>5, <2>6
<1>3. /\ starts \subseteq Quick!Waiting /\ IsFiniteSet(starts) /\ Cardinality(starts) <= places
      /\ enough \/ starts = Quick!Waiting \/ Cardinality(starts) = places
  <2>1. CASE enough
    <3>1. Cardinality(starts) = 0 /\ IsFiniteSet(starts) /\ starts = {}
      BY <2>1, FS_EmptySet
    <3> QED
      BY <1>2, <2>1, <3>1
  <2>2. CASE ~enough
    <3>1. found \in Seq(Matches) /\ existing \subseteq Quick!ToSet(BoundMatches)
      BY <1>1 DEF LoopInv, QuickTypes, MayBind
    <3>2. starts = Quick!Started(places)
      BY <2>2
    <3> HIDE DEF starts, places
    <3> QED
      BY <1>2, <3>1, <3>2, PlacesAreUsed
  <2> QED
    BY <2>1, <2>2
<1> HIDE DEF enough, starts, places
<1>4. \A m \in starts : m \in Matches /\ candidate[m].at = "none"
  <2>1. Quick!Waiting \subseteq Matches
    BY <1>1 DEF LoopInv, QuickTypes, MayBind, QuickLimits, Quick!Waiting, Quick!ToSet
  <2>2. \A m \in starts : m \notin attempted
    BY <1>3 DEF Quick!Waiting
  <2> QED
    BY <1>3, <2>1, <2>2 DEF LoopInv, QuickInv
<1>5. ASSUME NEW m \in Matches
      PROVE  candidate'[m].at = IF candidate[m].at = "called" THEN "counted"
                                ELSE IF m \in starts THEN "runs" ELSE candidate[m].at
  <2> DEFINE at == candidate[m].at
  <2> DEFINE was == candidate[m].result
  <2>1. candidate[m] = [at |-> at, result |-> was]
    BY DEF LoopInv, QuickInv
  <2>2. m \in called <=> at = "called"
    BY DEF Quick!At
  <2>3. candidate'[m] = IF m \in called THEN [candidate[m] EXCEPT !.at = "counted"]
                        ELSE IF m \in starts THEN [candidate[m] EXCEPT !.at = "runs"]
                        ELSE candidate[m]
    BY <1>1
  <2> HIDE DEF at, was, called
  <2>4. candidate'[m].at = IF at = "called" THEN "counted"
                           ELSE IF m \in starts THEN "runs" ELSE at
    BY <2>1, <2>2, <2>3
  <2> QED
    BY <2>4 DEF at
<1>6. /\ called' = {} /\ flying' = flying \cup starts /\ flying \cap starts = {}
      /\ Working' = flying \cup starts
  BY <1>4, <1>5 DEF Quick!At, Quick!InFlight, Working
<1>7. /\ IsFiniteSet(flying \cup starts)
      /\ Cardinality(flying \cup starts) = Cardinality(flying) + Cardinality(starts)
      /\ Cardinality(starts) \in Nat
  <2>1. Cardinality(flying \cap starts) = 0
    BY <1>6, FS_EmptySet
  <2>2. Cardinality(starts) \in Nat
    BY <1>3, FS_CardinalityType
  <2>3. /\ IsFiniteSet(flying \cup starts)
        /\ Cardinality(flying \cup starts) =
              Cardinality(flying) + Cardinality(starts) - Cardinality(flying \cap starts)
    BY <1>2, <1>3, FS_Union
  <2> QED
    BY <1>2, <2>1, <2>2, <2>3
<1> HIDE DEF called, flying
<1>8. QuickInv'
  BY QuickKeepsResults DEF LoopInv, Quick!Next, Quick!Run
<1>9. QuickTypes'
  <2>1. /\ quick' \in [at : {"loop", "closing", "gathered", "over"},
                       reason : {"none", "enough", "exhausted", "deadline"}]
    BY <1>1 DEF LoopInv, QuickTypes
  <2>2. \A m \in Matches : candidate'[m].at \in
            {"none", "runs", "ended", "called", "counted", "cancelled"}
    BY <1>5 DEF LoopInv, QuickTypes
  <2> QED
    BY <1>1, <2>1, <2>2 DEF LoopInv, QuickTypes
<1>10. WithinLimit'
  BY <1>2, <1>3, <1>6, <1>7 DEF WithinLimit, QuickLimits
<1>11. MayBind' /\ SitesSeen' /\ Queued' /\ InOrder' /\ AllCounted'
  BY <1>1 DEF LoopInv, QuickTypes, MayBind, SitesSeen, Queued, InOrder, AllCounted,
     Quick!CanBind, Quick!CanProbe, Discovered, Searching
<1>12. Quick!Waiting' = Quick!Waiting \ starts
  BY <1>1 DEF Quick!Waiting
<1>13. TriedAll'
  <2> SUFFICES ASSUME quick'.reason = "exhausted"
               PROVE  /\ quick'.at # "loop" /\ Quick!Waiting' = {}
                      /\ \A m \in Discovered' : SiteOf[m] \in finder'.sites
    BY DEF TriedAll
  <2>1. ~enough /\ Quick!Exhausted(starts) /\ quick'.at = "closing"
    BY <1>1 DEF LoopInv, TriedAll
  <2>2. Quick!Waiting' = {} /\ ~Quick!Finding
    BY <1>12, <2>1 DEF Quick!Exhausted
  <2>3. Searching = {}
    <3>1. finder.left = Cardinality(Searching) /\ ~(finder.left > 0) /\ finder.left \in Nat
      BY <1>1, <2>2 DEF LoopInv, InOrder, Quick!Finding, QuickTypes
    <3>2. IsFiniteSet(Searching)
      BY FS_Subset DEF QuickLimits, Searching
    <3>3. Cardinality(Searching) = 0
      BY <3>1
    <3> QED
      BY <3>2, <3>3, FS_EmptySet
  <2>4. \A m \in Discovered : SiteOf[m] \in finder.sites
    BY <1>1, <2>3 DEF LoopInv, InOrder, Discovered
  <2> QED
    BY <1>1, <2>1, <2>2, <2>4 DEF Discovered
<1>14. Quick!NoLostWakeUp'
  <2> SUFFICES ASSUME quick'.at = "loop"
               PROVE  /\ called' = {}
                      /\ Quick!Waiting' = {} \/ Quick!Cardinality(flying') = MaxInFlight
                      /\ Quick!Finding' \/ flying' # {}
    BY DEF Quick!NoLostWakeUp, called, flying
  <2>1. ~enough /\ ~Quick!Exhausted(starts)
    BY <1>1
  <2>2. Quick!Finding' <=> Quick!Finding
    BY <1>1 DEF Quick!Finding
  <2>3. CASE starts = Quick!Waiting
    <3>1. Quick!Finding \/ flying \cup starts # {}
      BY <2>1, <2>3 DEF Quick!Exhausted, flying
    <3> QED
      BY <1>6, <1>12, <2>2, <2>3, <3>1
  <2>4. CASE Cardinality(starts) = places
    <3>1. Cardinality(flying') = MaxInFlight
      BY <1>2, <1>6, <1>7, <2>4 DEF QuickLimits
    <3>2. flying' # {}
      BY <1>6, <1>7, <3>1, FS_EmptySet DEF QuickLimits
    <3>3. Quick!Cardinality(flying') = Cardinality(flying')
      BY SameCount
    <3> QED
      BY <1>6, <3>1, <3>2, <3>3
  <2> QED
    BY <1>3, <2>1, <2>3, <2>4
<1> QED
  BY <1>8, <1>9, <1>10, <1>11, <1>13, <1>14 DEF LoopInv

LEMMA QuickKeepsLoop ==
    ASSUME QuickLimits, LoopInv, [Quick!Next]_(Quick!vars)
    PROVE  LoopInv'
<1>1. CASE UNCHANGED Quick!vars
  <2>1. UNCHANGED <<health, evidence, trusted, producer, queue, finder, found, existing,
                    attempted, candidate, seen, wake, quick>>
    BY <1>1 DEF Quick!vars
  <2>2. QuickInv' /\ QuickTypes'
    BY <2>1, QuickKeepsResults DEF LoopInv, QuickTypes
  <2>5. Working' = Working
    BY <2>1 DEF Working, Quick!At
  <2>6. WithinLimit' /\ AllCounted'
    BY <2>1, <2>5 DEF LoopInv, WithinLimit, AllCounted
  <2>3. MayBind' /\ SitesSeen' /\ Queued' /\ InOrder' /\ TriedAll'
    BY <2>1 DEF LoopInv, MayBind, SitesSeen, Queued, InOrder, TriedAll, Quick!CanBind,
       Quick!CanProbe, Quick!Waiting, Discovered, Searching
  <2>4. Quick!NoLostWakeUp'
    BY <2>1 DEF LoopInv, Quick!NoLostWakeUp, Quick!At, Quick!Waiting, Quick!InFlight,
       Quick!Finding
  <2> QED
    BY <2>2, <2>3, <2>4, <2>6 DEF LoopInv
<1>2. CASE Quick!Next
  BY <1>2, ProduceKeeps, ProducerEndsKeeps, FindKeeps, CandidateKeeps, LoopEndsKeeps,
     PassKeepsLoop DEF Quick!Next, Quick!Run
<1> QED
  BY <1>1, <1>2

LEMMA LoopIsTrue ==
    ASSUME QuickLimits, LoopInv
    PROVE  Quick!NoLostWakeUp /\ Quick!EndsWithAReason
<1>1. ASSUME quick.at = "gathered"
      PROVE  Quick!At({"ended", "called"}) = {}
  BY <1>1 DEF LoopInv, AllCounted, Working, Quick!At
<1>2. ASSUME quick.at = "gathered", quick.reason = "exhausted",
             NEW m \in Quick!ToSet(BoundMatches), Quick!CanBind(m)
      PROVE  m \in attempted
  BY <1>2 DEF LoopInv, MayBind, TriedAll, Quick!Waiting
<1>3. ASSUME quick.at = "gathered", quick.reason = "exhausted", NEW m \in Discovered
      PROVE  \E n \in Discovered : SiteOf[n] = SiteOf[m] /\ (Quick!CanProbe(n) => n \in attempted)
  <2>1. SiteOf[m] \in finder.sites /\ Quick!Waiting = {}
    BY <1>3 DEF LoopInv, TriedAll
  <2>2. PICK n \in Discovered :
            SiteOf[n] = SiteOf[m] /\ (Quick!CanProbe(n) => n \in Quick!ToSet(found))
    BY <1>3, <2>1 DEF LoopInv, SitesSeen
  <2> QED
    BY <2>1, <2>2 DEF Quick!Waiting
<1> QED
  BY <1>1, <1>2, <1>3 DEF LoopInv, Quick!EndsWithAReason, Discovered
-----------------------------------------------------------------------------
(***************************************************************************)
(* Queues                                                                  *)
(***************************************************************************)
In(q, x) == \E i \in DOMAIN q : q[i] = x
Distinct(q) == \A i, j \in DOMAIN q : q[i] = q[j] => i = j
Ahead(q, x, y) == \A i, j \in DOMAIN q : q[i] = x /\ q[j] = y => i < j

LEMMA TailOf ==
    ASSUME NEW S, NEW q \in Seq(S), q # <<>>, Distinct(q)
    PROVE  /\ Tail(q) \in Seq(S) /\ Distinct(Tail(q)) /\ In(q, Head(q)) /\ Head(q) \in S
           /\ \A x : In(Tail(q), x) <=> In(q, x) /\ x # Head(q)
           /\ \A x, y : Ahead(q, x, y) => Ahead(Tail(q), x, y)
           /\ \A x, y : In(Tail(q), y) /\ Ahead(Tail(q), x, y) => Ahead(q, x, y)
           /\ \A x : x # Head(q) => Ahead(q, Head(q), x)
           /\ \A x : In(q, x) => ~Ahead(q, x, Head(q))
<1> DEFINE t == Tail(q)
<1>1. /\ t \in Seq(S) /\ Head(q) = q[1] /\ Head(q) \in S /\ 1 \in DOMAIN q
      /\ \A i \in DOMAIN t : i + 1 \in DOMAIN q /\ t[i] = q[i + 1]
      /\ \A i \in DOMAIN q : i \in Nat /\ i >= 1
      /\ \A i \in DOMAIN q : i # 1 => i - 1 \in DOMAIN t /\ t[i - 1] = q[i]
  BY Shifted
<1>2. \A i \in DOMAIN t : i \in Nat /\ i >= 1
  BY <1>1
<1> HIDE DEF t
<1>3. Distinct(t)
  BY <1>1, <1>2 DEF Distinct
<1>4. In(q, Head(q)) /\ \A x : x # Head(q) => Ahead(q, Head(q), x)
  <2>1. ASSUME NEW x, x # Head(q), NEW i \in DOMAIN q, NEW j \in DOMAIN q,
               q[i] = Head(q), q[j] = x
        PROVE  i < j
    <3>1. i = 1 /\ j # 1
      BY <1>1, <2>1 DEF Distinct
    <3> QED
      BY <1>1, <3>1
  <2> QED
    BY <1>1, <2>1 DEF In, Ahead
<1>5. ASSUME NEW x
      PROVE  In(t, x) <=> In(q, x) /\ x # Head(q)
  <2>1. ASSUME NEW i \in DOMAIN t, t[i] = x
        PROVE  In(q, x) /\ x # Head(q)
    <3>1. i + 1 \in DOMAIN q /\ q[i + 1] = x /\ i + 1 # 1
      BY <1>1, <1>2, <2>1
    <3> QED
      BY <1>1, <3>1 DEF In, Distinct
  <2>2. ASSUME NEW i \in DOMAIN q, q[i] = x, x # Head(q)
        PROVE  In(t, x)
    BY <1>1, <2>2 DEF In
  <2> QED
    BY <2>1, <2>2 DEF In
<1>6. ASSUME NEW x, NEW y, Ahead(q, x, y)
      PROVE  Ahead(t, x, y)
  <2> SUFFICES ASSUME NEW i \in DOMAIN t, NEW j \in DOMAIN t, t[i] = x, t[j] = y
               PROVE  i < j
    BY DEF Ahead
  <2>1. i + 1 < j + 1
    BY <1>1, <1>6 DEF Ahead
  <2> QED
    BY <1>2, <2>1
<1>7. ASSUME NEW x, NEW y, In(t, y), Ahead(t, x, y)
      PROVE  Ahead(q, x, y)
  <2> SUFFICES ASSUME NEW i \in DOMAIN q, NEW j \in DOMAIN q, q[i] = x, q[j] = y
               PROVE  i < j
    BY DEF Ahead
  <2>1. j # 1
    BY <1>1, <1>5, <1>7
  <2>2. CASE i = 1
    BY <1>1, <2>1, <2>2
  <2>3. CASE i # 1
    <3>1. i - 1 < j - 1
      BY <1>1, <1>7, <2>1, <2>3 DEF Ahead
    <3> QED
      BY <1>1, <3>1
  <2> QED
    BY <2>2, <2>3
<1>8. ASSUME NEW x, In(q, x)
      PROVE  ~Ahead(q, x, Head(q))
  <2>1. PICK i \in DOMAIN q : q[i] = x
    BY <1>8 DEF In
  <2>2. ~(i < 1)
    BY <1>1
  <2> QED
    BY <1>1, <2>1, <2>2 DEF Ahead
<1> QED
  BY <1>1, <1>3, <1>4, <1>5, <1>6, <1>7, <1>8 DEF t

\* The members of a queue keep their order, and others may come after them.
Joined(q, r, S) ==
    /\ Distinct(r)
    /\ \A x : In(q, x) => In(r, x)
    /\ \A x : In(r, x) => In(q, x) \/ x \in S
    /\ \A x, y : In(q, x) /\ (In(q, y) => Ahead(q, x, y)) => Ahead(r, x, y)

LEMMA AppendOf ==
    ASSUME NEW S, NEW q \in Seq(S), NEW e \in S, Distinct(q), ~In(q, e)
    PROVE  /\ Append(q, e) \in Seq(S)
           /\ Joined(q, Append(q, e), {e})
           /\ \A x : In(Append(q, e), x) <=> In(q, x) \/ x = e
           /\ \A x, y : In(q, y) /\ Ahead(Append(q, e), x, y) => x # e /\ Ahead(q, x, y)
<1> DEFINE a == Append(q, e)
<1> DEFINE n == Len(q)
<1>1. /\ a \in Seq(S) /\ n \in Nat /\ DOMAIN q = 1..n /\ DOMAIN a = 1..(n + 1)
      /\ a[n + 1] = e /\ \A i \in 1..n : a[i] = q[i]
  OBVIOUS
<1> HIDE DEF a, n
<1>2. /\ \A i \in DOMAIN q : i \in DOMAIN a /\ a[i] = q[i] /\ i \in Nat /\ i < n + 1
      /\ \A i \in DOMAIN a : i \in DOMAIN q \/ i = n + 1
      /\ n + 1 \in DOMAIN a
  BY <1>1
<1>3. Distinct(a)
  BY <1>1, <1>2 DEF Distinct, In
<1>4. \A x : In(a, x) <=> In(q, x) \/ x = e
  BY <1>1, <1>2 DEF In
<1>5. ASSUME NEW x, NEW y, In(q, x), In(q, y) => Ahead(q, x, y)
      PROVE  Ahead(a, x, y)
  <2> SUFFICES ASSUME NEW i \in DOMAIN a, NEW j \in DOMAIN a, a[i] = x, a[j] = y
               PROVE  i < j
    BY DEF Ahead
  <2>1. i \in DOMAIN q
    BY <1>1, <1>2, <1>5
  <2> QED
    BY <1>2, <1>5, <2>1 DEF Ahead, In
<1>6. ASSUME NEW x, NEW y, In(q, y), Ahead(a, x, y)
      PROVE  x # e /\ Ahead(q, x, y)
  <2>1. PICK j \in DOMAIN q : q[j] = y
    BY <1>6 DEF In
  <2>2. x # e
    BY <1>1, <1>2, <1>6, <2>1 DEF Ahead
  <2> QED
    BY <1>2, <1>6, <2>2 DEF Ahead
<1> QED
  BY <1>1, <1>3, <1>4, <1>5, <1>6 DEF Joined, a

LEMMA JoinedAgain ==
    ASSUME NEW q, NEW r, NEW t, NEW S, NEW T, Joined(q, r, S), Joined(r, t, T)
    PROVE  Joined(q, t, S \cup T)
<1>1. ASSUME NEW x, NEW y, In(q, x), In(q, y) => Ahead(q, x, y)
      PROVE  Ahead(t, x, y)
  BY <1>1 DEF Joined
<1> QED
  BY <1>1 DEF Joined

LEMMA JoinedByNone ==
    ASSUME NEW q, Distinct(q)
    PROVE  Joined(q, q, {})
<1>1. ASSUME NEW x, NEW y, ~In(q, y)
      PROVE  Ahead(q, x, y)
  BY <1>1 DEF In, Ahead
<1> QED
  BY <1>1 DEF Joined

LEMMA JoinedByMore ==
    ASSUME NEW q, NEW r, NEW S, NEW T, Joined(q, r, S), S \subseteq T
    PROVE  Joined(q, r, T)
BY DEF Joined

LEMMA AheadOfNone ==
    ASSUME NEW q, NEW x, NEW y, ~In(q, x) \/ ~In(q, y)
    PROVE  Ahead(q, x, y)
BY DEF In, Ahead
-----------------------------------------------------------------------------
(***************************************************************************)
(* The search of a full scan                                               *)
(***************************************************************************)
Asked == Alias!AllSources
Runnable == Asked \cup {Collector}

AliasLimits == Collector \notin Asked /\ OrderedSources \in Seq(Asked) /\ Distinct(OrderedSources)
               /\ QueryBudget \in Nat

Steps == {"start", "wave", "semaphore", "query", "pause", "done"}
WorkerRecords == [at : Steps, tried : Nat, answered : Nat]
Outcomes == {"match", "miss", "failure"}
Answers == [source : Runnable, outcome : Outcomes \cup {"completed"}]

Gates ==
    /\ gate = [waiters |-> gate.waiters, free |-> gate.free, budget |-> gate.budget]
    /\ gate.waiters \in Seq(Asked) /\ gate.budget \in Nat

AliasTypes ==
    /\ loop \in Seq(Runnable)
    /\ search \in [Asked -> WorkerRecords]
    /\ Gates
    /\ wave \in {"none", "sleeping", "over"}
    /\ answers \in Seq(Answers)
    /\ status \in [Asked -> {"unqueried", "searching", "matched", "miss", "failed", "timeout"}]

\* Where a worker is says whether it can go on.
Turns ==
    /\ Distinct(loop)
    /\ \A s \in Asked :
          /\ search[s].at = "done" => ~In(loop, s)
          /\ search[s].at \in {"start", "pause"} => In(loop, s)
          /\ search[s].at = "wave" =>
                /\ s \notin Preferred
                /\ \/ wave = "sleeping" /\ ~In(loop, s)
                   \/ wave = "over" /\ In(loop, s)

\* Its names, and that it ends without a query only if there is no budget.
Counts ==
    \A s \in Asked :
        /\ search[s].at \in {"start", "wave"} => search[s].tried = 0
        /\ search[s].at \in {"query", "pause"} => search[s].tried > 0
        /\ search[s].at = "query" => search[s].tried = search[s].answered + 1
        /\ search[s].at \in {"start", "wave", "semaphore", "pause"} =>
              search[s].tried = search[s].answered
        /\ search[s].at = "done" /\ search[s].tried = 0 => gate.budget = 0
        /\ wave = "sleeping" /\ s \notin Preferred => search[s].at \in {"start", "wave"}

\* A place goes to those who wait, in their order.
HandedFirst(q, waiters) ==
    \A x, y : In(waiters, x) /\ In(waiters, y) /\ x # y /\ Ahead(waiters, x, y) /\ In(q, y) =>
        In(q, x) /\ Ahead(q, x, y)

Semaphore ==
    /\ Distinct(gate.waiters)
    /\ \A s \in Asked : search[s].at = "semaphore" <=> In(gate.waiters, s)
    /\ HandedFirst(loop, gate.waiters)

\* A site that has not been asked is before one that has.
FirstComeFirst ==
    \A s, t \in Asked :
        /\ Alias!SameWave(s, t) /\ search[s].tried > 0
        /\ search[t].tried = 0 /\ search[t].at # "done"
        => /\ search[s].at = "pause" /\ search[t].at \in {"start", "wave"} => Ahead(loop, t, s)
           /\ search[s].at = "semaphore" =>
                 search[t].at = "semaphore" /\ Ahead(gate.waiters, t, s)

\* An answer is taken before its worker goes on.
IsPending(answer) ==
    LET s == answer.source IN
    /\ s \in Asked /\ answer.outcome \in Outcomes /\ search[s].tried > 0
    /\ answer.outcome = "miss" => search[s].answered = search[s].tried
    /\ \/ search[s].at = "done"
       \/ search[s].at = "pause" /\ In(loop, Collector) /\ Ahead(loop, Collector, s)

Pending ==
    \A i \in DOMAIN answers : answers[i] = Alias!Completed \/ IsPending(answers[i])

Searched == \A s \in Asked : search[s].at = "query" => status[s] = "searching"

AliasInv ==
    /\ AliasTypes /\ Alias!FirstAliasForAll /\ Alias!StatusIsTrue
    /\ collector = "reading" =>
          Turns /\ Counts /\ Semaphore /\ FirstComeFirst /\ Pending /\ Searched

LEMMA AliasInit ==
    ASSUME AliasLimits, Alias!Init
    PROVE  AliasInv
<1>1. /\ loop = OrderedSources
      /\ search = [s \in Asked |-> [at |-> "start", tried |-> 0, answered |-> 0]]
      /\ gate.waiters = <<>> /\ gate.budget = QueryBudget /\ answers = <<>>
      /\ gate = [waiters |-> gate.waiters, free |-> gate.free, budget |-> gate.budget]
      /\ wave \in {"none", "sleeping"} /\ status = [s \in Asked |-> "unqueried"]
  BY DEF Alias!Init, Asked
<1>2. \A s \in Asked : search[s].at = "start" /\ search[s].tried = 0 /\ search[s].answered = 0
                       /\ status[s] = "unqueried"
  BY <1>1
<1>3. AliasTypes
  BY <1>1 DEF AliasTypes, AliasLimits, Gates, WorkerRecords, Steps, Runnable
<1>4. \A s \in Asked : In(loop, s)
  BY <1>1 DEF In, Asked, Alias!AllSources, Alias!ToSet
<1>5. Turns /\ Counts
  BY <1>1, <1>2, <1>4 DEF Turns, Counts, AliasLimits
<1>6. Semaphore /\ FirstComeFirst /\ Pending /\ Searched
  BY <1>1, <1>2 DEF Semaphore, FirstComeFirst, Pending, Searched, HandedFirst, In, Distinct
<1>7. Alias!FirstAliasForAll /\ Alias!StatusIsTrue
  BY <1>2 DEF Alias!FirstAliasForAll, Alias!StatusIsTrue, Asked
<1> QED
  BY <1>3, <1>5, <1>6, <1>7 DEF AliasInv

-----------------------------------------------------------------------------
(***************************************************************************)
(* A turn of a worker                                                      *)
(***************************************************************************)
Waits(w) == {x \in Asked : In(w, x)}

LEMMA WakeUp ==
    ASSUME AliasLimits, NEW w \in Seq(Asked), Distinct(w), NEW spare, NEW budget,
           NEW q \in Seq(Runnable), Distinct(q), HandedFirst(q, w),
           NEW next, next = Alias!WakeUpNext([waiters |-> w, free |-> spare, budget |-> budget], q)
    PROVE  /\ next.gate = [waiters |-> w, free |-> next.gate.free, budget |-> budget]
           /\ next.ready \in Seq(Runnable) /\ Joined(q, next.ready, Waits(w))
           /\ HandedFirst(next.ready, w)
<1> DEFINE g == [waiters |-> w, free |-> spare, budget |-> budget]
<1> DEFINE asleep == {i \in DOMAIN w : ~In(q, w[i])}
<1>1. next = IF asleep = {} THEN [gate |-> g, ready |-> q]
             ELSE [gate |-> [g EXCEPT !.free = @ - 1],
                   ready |-> Append(q, w[Alias!Min(asleep)])]
  BY DEF Alias!WakeUpNext, Alias!InLoop, In
<1> HIDE DEF asleep
<1>2. CASE asleep = {}
  <2>1. next.gate = g /\ next.ready = q
    BY <1>1, <1>2
  <2>2. Joined(q, q, Waits(w))
    BY JoinedByNone, JoinedByMore
  <2> QED
    BY <2>1, <2>2
<1>3. CASE asleep # {}
  <2> DEFINE k == Alias!Min(asleep)
  <2> DEFINE e == w[k]
  <2>1. k \in asleep /\ \A i \in asleep : k <= i
    <3>1. asleep \in SUBSET Nat
      BY DEF asleep
    <3>2. \E n \in asleep : \A i \in asleep : n <= i
      BY <1>3, <3>1, LeastMember
    <3> QED
      BY <3>2 DEF Alias!Min
  <2> HIDE DEF k
  <2>2. k \in DOMAIN w /\ e \in Asked /\ ~In(q, e) /\ In(w, e)
    <3>1. k \in DOMAIN w /\ ~In(q, w[k])
      BY <2>1 DEF asleep
    <3> QED
      BY <3>1 DEF In
  <2>3. /\ next.gate = [g EXCEPT !.free = spare - 1] /\ next.ready = Append(q, e)
    BY <1>1, <1>3 DEF k
  <2> HIDE DEF e
  <2>4. ASSUME NEW x, In(w, x), x # e, Ahead(w, x, e)
        PROVE  In(q, x)
    <3>1. PICK i \in DOMAIN w : w[i] = x
      BY <2>4 DEF In
    <3>2. i < k /\ i \in Nat /\ k \in Nat
      BY <2>2, <2>4, <3>1 DEF Ahead, e
    <3>3. i \notin asleep
      BY <2>1, <3>2
    <3> QED
      BY <3>1, <3>3 DEF asleep
  <2>5. /\ Append(q, e) \in Seq(Runnable) /\ Joined(q, Append(q, e), {e})
        /\ \A x : In(Append(q, e), x) <=> In(q, x) \/ x = e
    BY <2>2, AppendOf DEF Runnable
  <2>6. Joined(q, next.ready, Waits(w))
    <3>1. {e} \subseteq Waits(w)
      BY <2>2 DEF Waits
    <3>2. Joined(q, Append(q, e), {e})
      BY <2>5
    <3>3. Joined(q, Append(q, e), Waits(w))
      BY <3>1, <3>2, JoinedByMore, Zenon
    <3> QED
      BY <2>3, <3>3
  <2>7. HandedFirst(next.ready, w)
    <3> SUFFICES ASSUME NEW x, NEW y, In(w, x), In(w, y), x # y, Ahead(w, x, y),
                        In(next.ready, y)
                 PROVE  In(next.ready, x) /\ Ahead(next.ready, x, y)
      BY DEF HandedFirst
    <3>1. CASE y = e
      BY <2>2, <2>4, <2>6, <3>1 DEF Joined
    <3>2. CASE y # e
      <4>1. In(q, x) /\ Ahead(q, x, y)
        BY <2>3, <2>5, <3>2 DEF HandedFirst
      <4> QED
        BY <2>6, <4>1 DEF Joined
    <3> QED
      BY <3>1, <3>2
  <2> QED
    BY <2>3, <2>5, <2>6, <2>7
<1> QED
  BY <1>2, <1>3
\* The rest of the loop while worker s runs, with some of the waiters awake.
Going(s, waiters, ready) ==
    /\ waiters \in Seq(Asked) /\ Distinct(waiters) /\ ~In(waiters, s)
    /\ ready \in Seq(Runnable) /\ HandedFirst(ready, waiters)
    /\ Joined(Tail(loop), ready, Waits(waiters) \cup {Collector})

LEMMA GoesOn ==
    ASSUME AliasLimits, NEW s, NEW waiters, NEW ready, Going(s, waiters, ready),
           NEW more \in Seq(Runnable), HandedFirst(more, waiters),
           Joined(ready, more, Waits(waiters)) \/ Joined(ready, more, {Collector})
    PROVE  Going(s, waiters, more)
<1>1. Joined(Tail(loop), more, Waits(waiters) \cup {Collector})
  BY DEF Joined, Going
<1> QED
  BY <1>1 DEF Going

LEMMA StillFirst ==
    ASSUME NEW q, NEW r, NEW e, NEW w, Joined(q, r, {e}), ~In(w, e), HandedFirst(q, w)
    PROVE  HandedFirst(r, w)
BY DEF Joined, HandedFirst

LEMMA Releases ==
    ASSUME AliasLimits, NEW s, NEW w, NEW spare, NEW budget, NEW ready, Going(s, w, ready),
           NEW left, left = Alias!Release([waiters |-> w, free |-> spare, budget |-> budget], ready)
    PROVE  /\ left.gate = [waiters |-> w, free |-> left.gate.free, budget |-> budget]
           /\ Going(s, w, left.ready)
<1>1. left = Alias!WakeUpNext([waiters |-> w, free |-> spare + 1, budget |-> budget], ready)
  BY DEF Alias!Release
<1>2. Distinct(ready)
  BY DEF Going, Joined
<1>3. /\ left.gate = [waiters |-> w, free |-> left.gate.free, budget |-> budget]
      /\ left.ready \in Seq(Runnable) /\ Joined(ready, left.ready, Waits(w))
      /\ HandedFirst(left.ready, w)
  BY <1>1, <1>2, WakeUp DEF Going
<1> QED
  BY <1>3, GoesOn

LEMMA WakesCollector ==
    ASSUME AliasLimits, NEW s, NEW w, NEW ready, Going(s, w, ready)
    PROVE  /\ Going(s, w, Alias!Woken(ready, Collector))
           /\ In(Alias!Woken(ready, Collector), Collector)
<1>1. CASE In(ready, Collector)
  BY <1>1 DEF Alias!Woken, Alias!InLoop, In
<1>2. CASE ~In(ready, Collector)
  <2> DEFINE more == Append(ready, Collector)
  <2>1. Alias!Woken(ready, Collector) = more
    BY <1>2 DEF Alias!Woken, Alias!InLoop, In
  <2>2. /\ more \in Seq(Runnable) /\ Joined(ready, more, {Collector})
        /\ \A x : In(more, x) <=> In(ready, x) \/ x = Collector
    <3>1. Distinct(ready) /\ ready \in Seq(Runnable) /\ Collector \in Runnable
      BY DEF Going, Joined, Runnable
    <3> QED
      BY <1>2, <3>1, AppendOf
  <2>3. ~In(w, Collector)
    BY DEF Going, In, AliasLimits
  <2> HIDE DEF more
  <2>4. HandedFirst(more, w)
    BY <2>2, <2>3, StillFirst DEF Going
  <2> QED
    BY <2>1, <2>2, <2>4, GoesOn
<1> QED
  BY <1>1, <1>2
\* What a turn of worker s does to the loop and to the semaphore: the others
\* keep their order, and s goes behind them or is gone.
LoopRan(s) ==
    /\ loop' \in Seq(Runnable) /\ Distinct(loop')
    /\ \A x : In(loop, x) /\ x # s => In(loop', x)
    /\ \A x : In(loop', x) => In(loop, x) \/ x = Collector \/ In(gate.waiters, x)
    /\ \A x, y : x # s /\ y # s /\ In(loop, x) /\ (In(loop, y) => Ahead(loop, x, y)) =>
          Ahead(loop', x, y)
    /\ In(loop', s) <=> search'[s].at = "pause"
    /\ In(loop', s) => \A x : x # s => Ahead(loop', x, s)

GateRan(s) ==
    /\ Gates' /\ (gate.budget = 0 => gate'.budget = 0)
    /\ Distinct(gate'.waiters) /\ HandedFirst(loop', gate'.waiters)
    /\ \A x : x # s => (In(gate'.waiters, x) <=> In(gate.waiters, x))
    /\ In(gate'.waiters, s) <=> search'[s].at = "semaphore"
    /\ \A x, y : x # s /\ y # s /\ Ahead(gate.waiters, x, y) => Ahead(gate'.waiters, x, y)
    /\ In(gate'.waiters, s) => \A x : x # s => Ahead(gate'.waiters, x, s)

Held(s) == search[s].at = "start" /\ s \notin Preferred /\ wave = "sleeping"

Idles(s) ==
    /\ search'[s].tried = search[s].tried /\ search'[s].answered = search[s].answered
    /\ UNCHANGED <<answers, status>>
    /\ \/ search'[s].at = "wave" /\ Held(s)
       \/ search'[s].at = "semaphore" /\ ~Held(s) /\ search[s].at \in {"start", "wave", "pause"}
       \/ /\ search'[s].at = "done" /\ ~Held(s) /\ search[s].at # "query"
          /\ gate.budget = 0 \/ search[s].at = "pause"

Tells(s) ==
    \/ /\ search'[s].at \in {"query", "done"}
       /\ search'[s].answered = search[s].answered /\ UNCHANGED answers
    \/ \E outcome \in Outcomes :
          /\ search'[s].at = IF outcome = "miss" THEN "pause" ELSE "done"
          /\ search'[s].answered = search[s].answered + 1
          /\ answers' = Append(answers, [source |-> s, outcome |-> outcome])
          /\ In(loop', Collector)

Asks(s) ==
    /\ search[s].at \in {"start", "wave", "semaphore", "pause"} /\ ~Held(s)
    /\ gate.budget # 0 /\ search'[s].tried = search[s].tried + 1
    /\ status' = [status EXCEPT ![s] = "searching"]
    /\ search[s].at = "pause" => \A x : ~In(gate.waiters, x)
    /\ search[s].at = "semaphore" => \A x : In(gate.waiters, x) => ~Ahead(gate.waiters, x, s)
    /\ Tells(s)

Takes(s) ==
    /\ search[s].at = "query" /\ search'[s].at # "query"
    /\ search'[s].tried = search[s].tried /\ UNCHANGED status
    /\ Tells(s)

Ran(s) ==
    /\ loop # <<>> /\ Head(loop) = s /\ collector = "reading" /\ UNCHANGED <<wave, collector>>
    /\ search' \in [Asked -> WorkerRecords]
    /\ \A t \in Asked : t # s => search'[t] = search[t]
    /\ LoopRan(s) /\ GateRan(s)
    /\ Idles(s) \/ Asks(s) \/ Takes(s)

\* Before its turn: s is first in the loop.
LEMMA FirstInLoop ==
    ASSUME AliasLimits, AliasInv, NEW s \in Asked, Ran(s)
    PROVE  /\ In(loop, s) /\ \A x : In(loop, x) => ~Ahead(loop, x, s)
           /\ search[s].at # "done"
           /\ search[s].at = "wave" => wave = "over"
           /\ search[s].tried \in Nat /\ search[s].answered \in Nat
<1>1. loop \in Seq(Runnable) /\ Distinct(loop) /\ Turns /\ AliasTypes
  BY DEF AliasInv, AliasTypes, Turns, Ran
<1>2. In(loop, s) /\ \A x : In(loop, x) => ~Ahead(loop, x, s)
  BY <1>1, TailOf DEF Ran
<1> QED
  BY <1>1, <1>2 DEF Turns, AliasTypes, WorkerRecords

LEMMA RanTypes ==
    ASSUME AliasLimits, AliasInv, NEW s \in Asked, Ran(s)
    PROVE  AliasTypes'
<1>1. AliasTypes
  BY DEF AliasInv
<1>2. status' \in [Asked -> {"unqueried", "searching", "matched", "miss", "failed", "timeout"}]
  BY <1>1 DEF AliasTypes, Ran, Idles, Asks, Takes
<1>3. answers' \in Seq(Answers)
  <2>1. \A outcome \in Outcomes : [source |-> s, outcome |-> outcome] \in Answers
    BY DEF Answers, Runnable
  <2>2. answers' = answers \/
        \E outcome \in Outcomes : answers' = Append(answers, [source |-> s, outcome |-> outcome])
    BY DEF Ran, Idles, Asks, Takes, Tells
  <2>3. answers \in Seq(Answers)
    BY <1>1 DEF AliasTypes
  <2>4. \A answer \in Answers : Append(answers, answer) \in Seq(Answers)
    BY <2>3
  <2> QED
    BY <2>1, <2>2, <2>3, <2>4
<1> QED
  BY <1>1, <1>2, <1>3 DEF AliasTypes, Ran, LoopRan, GateRan

LEMMA RanTurns ==
    ASSUME AliasLimits, AliasInv, NEW s \in Asked, Ran(s)
    PROVE  Turns' /\ Semaphore'
<1>1. Turns /\ Semaphore /\ LoopRan(s) /\ GateRan(s)
  BY DEF AliasInv, Ran
<1>2. \A t \in Asked : t # s => search'[t] = search[t] /\ t # Collector
  BY DEF Ran, AliasLimits
<1>3. search'[s].at \in {"wave", "semaphore", "query", "pause", "done"}
      /\ (search'[s].at = "wave" => s \notin Preferred /\ wave' = "sleeping")
  BY DEF Ran, Idles, Asks, Takes, Tells, Held
<1>4. Semaphore'
  BY <1>1, <1>2 DEF Semaphore, GateRan
<1>5. ASSUME NEW t \in Asked, t # s
      PROVE  /\ search'[t].at = "done" => ~In(loop', t)
             /\ search'[t].at \in {"start", "pause"} => In(loop', t)
             /\ search'[t].at = "wave" =>
                   /\ t \notin Preferred
                   /\ \/ wave' = "sleeping" /\ ~In(loop', t)
                      \/ wave' = "over" /\ In(loop', t)
  <2>1. wave' = wave
    BY DEF Ran
  <2>2. search[t].at # "semaphore" => (In(loop', t) <=> In(loop, t))
    BY <1>1, <1>2, <1>5 DEF LoopRan, Semaphore
  <2> QED
    BY <1>1, <1>2, <1>5, <2>1, <2>2 DEF Turns
<1>6. /\ search'[s].at = "done" => ~In(loop', s)
      /\ search'[s].at \in {"start", "pause"} => In(loop', s)
      /\ search'[s].at = "wave" =>
            s \notin Preferred /\ wave' = "sleeping" /\ ~In(loop', s)
  BY <1>1, <1>3 DEF LoopRan
<1>7. Distinct(loop')
  BY <1>1 DEF LoopRan
<1> QED
  BY <1>4, <1>5, <1>6, <1>7 DEF Turns

LEMMA RanCounts ==
    ASSUME AliasLimits, AliasInv, NEW s \in Asked, Ran(s)
    PROVE  Counts'
<1>1. Counts /\ GateRan(s) /\ wave' = wave
  BY DEF AliasInv, Ran
<1>2. /\ search[s].at # "done" /\ (search[s].at = "wave" => wave = "over")
      /\ search[s].tried \in Nat /\ search[s].answered \in Nat
  BY FirstInLoop
<1>3. ASSUME NEW t \in Asked, t # s
      PROVE  search'[t] = search[t]
  BY <1>3 DEF Ran
<1> DEFINE CountsOf(t) ==
        /\ search[t].at \in {"start", "wave"} => search[t].tried = 0
        /\ search[t].at \in {"query", "pause"} => search[t].tried > 0
        /\ search[t].at = "query" => search[t].tried = search[t].answered + 1
        /\ search[t].at \in {"start", "wave", "semaphore", "pause"} =>
              search[t].tried = search[t].answered
        /\ search[t].at = "done" /\ search[t].tried = 0 => gate.budget = 0
        /\ wave = "sleeping" /\ t \notin Preferred => search[t].at \in {"start", "wave"}
<1>4. CountsOf(s)
  BY <1>1 DEF Counts
<1>5. ASSUME NEW t \in Asked, t # s
      PROVE  CountsOf(t)'
  BY <1>1, <1>3, <1>5 DEF Counts, GateRan
<1>6. CASE Idles(s)
  <2>1. CountsOf(s)'
    BY <1>1, <1>2, <1>4, <1>6 DEF Idles, Held, GateRan
  <2> QED
    BY <1>5, <2>1 DEF Counts
<1>7. CASE Asks(s)
  <2>1. search'[s].tried = search[s].answered + 1 /\ search'[s].tried > 0
    BY <1>2, <1>4, <1>7 DEF Asks
  <2>2. ~(wave = "sleeping" /\ s \notin Preferred)
    BY <1>2, <1>4, <1>7 DEF Asks, Held
  <2>3. /\ search'[s].at \in {"query", "pause", "done"}
        /\ search'[s].at = "query" => search'[s].answered = search[s].answered
        /\ search'[s].at = "pause" => search'[s].answered = search[s].answered + 1
    BY <1>7 DEF Asks, Tells
  <2>4. CountsOf(s)'
    BY <1>1, <2>1, <2>2, <2>3
  <2> QED
    BY <1>5, <2>4 DEF Counts
<1>8. CASE Takes(s)
  <2>1. search'[s].tried = search[s].answered + 1 /\ search'[s].tried > 0
    BY <1>2, <1>4, <1>8 DEF Takes
  <2>2. ~(wave = "sleeping" /\ s \notin Preferred)
    BY <1>2, <1>4, <1>8 DEF Takes
  <2>3. /\ search'[s].at \in {"pause", "done"}
        /\ search'[s].at = "pause" => search'[s].answered = search[s].answered + 1
    BY <1>8 DEF Takes, Tells
  <2>4. CountsOf(s)'
    BY <1>1, <2>1, <2>2, <2>3
  <2> QED
    BY <1>5, <2>4 DEF Counts
<1> QED
  BY <1>6, <1>7, <1>8 DEF Ran
LEMMA RanFirst ==
    ASSUME AliasLimits, AliasInv, NEW s \in Asked, Ran(s)
    PROVE  FirstComeFirst'
<1>1. /\ Turns /\ Counts /\ Semaphore /\ FirstComeFirst /\ LoopRan(s) /\ GateRan(s)
      /\ wave' = wave /\ AliasTypes
  BY DEF AliasInv, Ran
<1>2. /\ In(loop, s) /\ (\A x : In(loop, x) => ~Ahead(loop, x, s))
      /\ search[s].at # "done" /\ (search[s].at = "wave" => wave = "over")
      /\ search[s].tried \in Nat
  BY FirstInLoop
<1>3. \A t \in Asked : t # s => search'[t] = search[t]
  BY DEF Ran
<1>4. \A t \in Asked : search[t].at \in Steps /\ search[t].tried \in Nat
  BY <1>1 DEF AliasTypes, WorkerRecords
<1> SUFFICES ASSUME NEW x \in Asked, NEW y \in Asked, Alias!SameWave(x, y),
                    search'[x].tried > 0, search'[y].tried = 0, search'[y].at # "done"
             PROVE  /\ search'[x].at = "pause" /\ search'[y].at \in {"start", "wave"} =>
                          Ahead(loop', y, x)
                    /\ search'[x].at = "semaphore" =>
                          search'[y].at = "semaphore" /\ Ahead(gate'.waiters, y, x)
  BY <1>1 DEF FirstComeFirst, Alias!SameWave
<1>5. x # y
  BY <1>4
<1>6. CASE x # s /\ y # s
  <2>1. search'[x] = search[x] /\ search'[y] = search[y]
    BY <1>3, <1>6
  <2>2. /\ search[x].at = "pause" /\ search[y].at \in {"start", "wave"} => Ahead(loop, y, x)
        /\ search[x].at = "semaphore" => search[y].at = "semaphore" /\ Ahead(gate.waiters, y, x)
    BY <1>1, <2>1 DEF FirstComeFirst
  <2>3. ASSUME search[x].at = "pause", search[y].at \in {"start", "wave"}
        PROVE  Ahead(loop', y, x)
    <3>1. CASE In(loop, y)
      BY <1>1, <1>6, <2>2, <2>3, <3>1 DEF LoopRan
    <3>2. CASE ~In(loop, y)
      <4>1. ~In(loop', y)
        BY <1>1, <2>3, <3>2 DEF LoopRan, Semaphore, AliasLimits
      <4> QED
        BY <4>1, AheadOfNone
    <3> QED
      BY <3>1, <3>2
  <2>4. search[x].at = "semaphore" => search[y].at = "semaphore" /\ Ahead(gate'.waiters, y, x)
    BY <1>1, <1>6, <2>2 DEF GateRan
  <2> QED
    BY <2>1, <2>3, <2>4
<1>7. CASE x = s
  <2>1. search'[y] = search[y] /\ y # s
    BY <1>3, <1>5, <1>7
  <2>2. search'[s].at = "pause" => Ahead(loop', y, s)
    BY <1>1, <2>1 DEF LoopRan
  <2>3. ASSUME search'[s].at = "semaphore"
        PROVE  search[y].at = "semaphore" /\ Ahead(gate'.waiters, y, s)
    <3>1. Ahead(gate'.waiters, y, s)
      BY <1>1, <2>1, <2>3 DEF GateRan
    <3>2. Idles(s) /\ search[s].at \in {"start", "wave", "pause"}
      BY <2>3 DEF Ran, Asks, Takes, Tells, Idles
    <3>3. search[s].tried > 0 /\ search[s].at = "pause"
      BY <1>1, <1>2, <1>7, <3>2 DEF Idles, Counts
    <3>4. search[y].at \in {"start", "wave"} => Ahead(loop, y, s)
      BY <1>1, <1>7, <2>1, <3>3 DEF FirstComeFirst, Alias!SameWave
    <3>5. search[y].at # "start"
      BY <1>1, <1>2, <3>4 DEF Turns
    <3>6. ASSUME search[y].at = "wave"
          PROVE  FALSE
      <4>1. ~In(loop, y)
        BY <1>2, <3>4, <3>6
      <4>2. y \notin Preferred /\ wave = "sleeping"
        BY <1>1, <3>6, <4>1 DEF Turns
      <4>3. s \notin Preferred
        BY <1>7, <4>2 DEF Alias!SameWave
      <4> QED
        BY <1>1, <3>3, <4>2, <4>3 DEF Counts
    <3>7. search[y].at \notin {"query", "pause"} /\ search[y].at # "done"
      BY <1>1, <2>1 DEF Counts
    <3> QED
      BY <1>4, <3>1, <3>5, <3>6, <3>7 DEF Steps
  <2> QED
    BY <1>7, <2>1, <2>2, <2>3
<1>8. CASE y = s
  <2>1. search'[x] = search[x] /\ x # s
    BY <1>3, <1>5, <1>8
  <2>2. search[s].tried = 0 /\ Idles(s) /\ search'[s].at \in {"wave", "semaphore"}
        /\ search[s].at \in {"start", "wave", "pause"}
    BY <1>1, <1>2, <1>8 DEF Ran, Asks, Takes, Idles, Counts, Held
  <2>3. search[s].at # "pause"
    BY <1>1, <2>2 DEF Counts
  <2>4. search[x].at # "semaphore"
    BY <1>1, <1>8, <2>1, <2>2, <2>3 DEF FirstComeFirst, Alias!SameWave
  <2>5. search'[s].at # "pause" => Ahead(loop', s, x)
    BY <1>1, AheadOfNone DEF LoopRan
  <2> QED
    BY <1>8, <2>1, <2>2, <2>4, <2>5
<1> QED
  BY <1>6, <1>7, <1>8

LEMMA RanFair ==
    ASSUME AliasLimits, AliasInv, NEW s \in Asked, Ran(s)
    PROVE  Alias!FirstAliasForAll'
<1>1. /\ Turns /\ Counts /\ Semaphore /\ FirstComeFirst /\ AliasTypes
      /\ wave' = wave /\ Alias!FirstAliasForAll
  BY DEF AliasInv, Ran
<1>2. /\ In(loop, s) /\ (\A x : In(loop, x) => ~Ahead(loop, x, s))
      /\ search[s].tried \in Nat
  BY FirstInLoop
<1>3. \A t \in Asked : t # s => search'[t] = search[t]
  BY DEF Ran
<1>4. \A t \in Asked : search[t].at \in Steps /\ search[t].tried \in Nat
  BY <1>1 DEF AliasTypes, WorkerRecords
<1>5. search'[s].tried \in {search[s].tried, search[s].tried + 1}
      /\ (search'[s].tried # search[s].tried => Asks(s))
  BY DEF Ran, Idles, Asks, Takes
<1> SUFFICES ASSUME NEW x \in Asked, NEW y \in Asked, Alias!SameWave(x, y),
                    search'[x].tried > 1, ~(search'[y].tried > 0)
             PROVE  FALSE
  BY <1>1 DEF Alias!FirstAliasForAll, Alias!SameWave, Asked
<1>6. search[y].tried = 0
  BY <1>2, <1>3, <1>4, <1>5
<1>7. ~(search[x].tried > 1)
  BY <1>1, <1>4, <1>6 DEF Alias!FirstAliasForAll, Asked
<1>8. x = s /\ Asks(s) /\ y # s /\ search[s].tried > 0
  BY <1>2, <1>3, <1>4, <1>5, <1>7
<1>9. search[y].at # "done"
  BY <1>1, <1>6, <1>8 DEF Counts, Asks
<1>10. search[s].at \in {"pause", "semaphore"}
  BY <1>1, <1>8 DEF Asks, Counts
<1>11. /\ search[s].at = "pause" /\ search[y].at \in {"start", "wave"} => Ahead(loop, y, s)
       /\ search[s].at = "semaphore" => search[y].at = "semaphore" /\ Ahead(gate.waiters, y, s)
  BY <1>1, <1>6, <1>8, <1>9 DEF FirstComeFirst
<1>12. search[s].at # "semaphore"
  BY <1>1, <1>8, <1>11 DEF Asks, Semaphore
<1>13. search[y].at # "semaphore"
  BY <1>1, <1>8, <1>10, <1>12 DEF Asks, Semaphore
<1>14. search[y].at \in {"start", "wave"}
  BY <1>1, <1>4, <1>6, <1>9, <1>13 DEF Counts, Steps
<1>15. ~In(loop, y)
  BY <1>2, <1>10, <1>11, <1>12, <1>14
<1>16. search[y].at = "wave" /\ wave = "sleeping" /\ y \notin Preferred
  BY <1>1, <1>14, <1>15 DEF Turns
<1>17. s \notin Preferred
  BY <1>8, <1>16 DEF Alias!SameWave
<1> QED
  BY <1>1, <1>10, <1>16, <1>17 DEF Counts

LEMMA RanPending ==
    ASSUME AliasLimits, AliasInv, NEW s \in Asked, Ran(s)
    PROVE  Pending' /\ Searched' /\ Alias!StatusIsTrue'
<1>1. /\ Turns /\ Counts /\ Pending /\ Searched /\ AliasTypes /\ LoopRan(s)
      /\ Alias!StatusIsTrue
  BY DEF AliasInv, Ran
<1>2. /\ In(loop, s) /\ (\A x : In(loop, x) => ~Ahead(loop, x, s))
      /\ search[s].at # "done" /\ search[s].tried \in Nat /\ search[s].answered \in Nat
      /\ search'[s].tried \in Nat
  BY FirstInLoop DEF Ran, WorkerRecords
<1>3. \A t \in Asked : t # s => search'[t] = search[t]
  BY DEF Ran
<1> DEFINE StillPending(a) ==
        /\ a.source \in Asked /\ a.outcome \in Outcomes /\ search'[a.source].tried > 0
        /\ a.outcome = "miss" => search'[a.source].answered = search'[a.source].tried
        /\ \/ search'[a.source].at = "done"
           \/ /\ search'[a.source].at = "pause" /\ In(loop', Collector)
              /\ Ahead(loop', Collector, a.source)
<1>4. ASSUME NEW answer, IsPending(answer)
      PROVE  StillPending(answer)
  <2>1. answer.source # s
    BY <1>2, <1>4 DEF IsPending
  <2>2. answer.source # Collector
    BY <1>4 DEF IsPending, AliasLimits
  <2>3. In(loop, Collector) /\ Ahead(loop, Collector, answer.source) =>
           In(loop', Collector) /\ Ahead(loop', Collector, answer.source)
    <3>1. s # Collector
      BY DEF AliasLimits
    <3> QED
      BY <1>1, <2>1, <3>1 DEF LoopRan
  <2> QED
    BY <1>3, <1>4, <2>1, <2>3 DEF IsPending
<1>5. ASSUME NEW outcome \in Outcomes,
             search'[s].at = IF outcome = "miss" THEN "pause" ELSE "done",
             search'[s].tried = search[s].answered + 1,
             search'[s].answered = search[s].answered + 1,
             In(loop', Collector)
      PROVE  StillPending([source |-> s, outcome |-> outcome])
  <2>1. s # Collector
    BY DEF AliasLimits
  <2>2. search'[s].at = "pause" => Ahead(loop', Collector, s)
    BY <1>1, <2>1 DEF LoopRan
  <2>3. search'[s].tried > 0
    BY <1>2, <1>5
  <2> QED
    BY <1>5, <2>2, <2>3
<1>6. Asks(s) \/ Takes(s) => search'[s].tried = search[s].answered + 1
  BY <1>1, <1>2 DEF Counts, Asks, Takes
<1>7. answers' = answers \/
      \E outcome \in Outcomes :
          /\ answers' = Append(answers, [source |-> s, outcome |-> outcome])
          /\ StillPending([source |-> s, outcome |-> outcome])
  BY <1>5, <1>6 DEF Ran, Idles, Asks, Takes, Tells
<1> HIDE DEF StillPending
<1>8. Pending'
  <2>1. answers \in Seq(Answers)
    BY <1>1 DEF AliasTypes
  <2>2. ASSUME NEW i \in DOMAIN answers', answers'[i] # Alias!Completed
        PROVE  StillPending(answers'[i])
    <3>1. CASE i \in DOMAIN answers /\ answers'[i] = answers[i]
      BY <1>1, <1>4, <2>2, <3>1 DEF Pending
    <3>2. CASE ~(i \in DOMAIN answers /\ answers'[i] = answers[i])
      <4>1. PICK outcome \in Outcomes :
                /\ answers' = Append(answers, [source |-> s, outcome |-> outcome])
                /\ StillPending([source |-> s, outcome |-> outcome])
        BY <1>7, <2>2, <3>2
      <4> DEFINE new == [source |-> s, outcome |-> outcome]
      <4> HIDE DEF new
      <4>2. answers' = Append(answers, new) /\ StillPending(new)
        BY <4>1 DEF new
      <4>3. answers'[i] = new
        BY <2>1, <2>2, <3>2, <4>2
      <4> QED
        BY <4>2, <4>3
    <3> QED
      BY <3>1, <3>2
  <2>3. \A i \in DOMAIN answers' :
            answers'[i] = Alias!Completed \/ StillPending(answers'[i])
    BY <2>2
  <2> QED
    BY <2>3 DEF Pending, IsPending, StillPending, Alias!Completed
<1>9. Searched'
  BY <1>1, <1>3 DEF Ran, Idles, Asks, Takes, Searched, AliasTypes
<1>10. Alias!StatusIsTrue'
  <2>1. status \in [Asked -> {"unqueried", "searching", "matched", "miss", "failed", "timeout"}]
    BY <1>1 DEF AliasTypes
  <2>2. \A t \in Asked : t # s => status'[t] = status[t]
    BY <2>1 DEF Ran, Idles, Asks, Takes
  <2>3. CASE Idles(s)
    BY <1>1, <1>3, <2>2, <2>3 DEF Idles, Alias!StatusIsTrue, Asked
  <2>4. CASE Asks(s)
    <3>1. status'[s] = "searching" /\ search'[s].tried # 0
      BY <1>2, <2>1, <2>4 DEF Asks
    <3> QED
      BY <1>1, <1>3, <2>2, <3>1 DEF Alias!StatusIsTrue, Asked
  <2>5. CASE Takes(s)
    <3>1. status'[s] = "searching" /\ search'[s].tried # 0
      BY <1>1, <1>2, <2>5 DEF Takes, Searched, Counts
    <3> QED
      BY <1>1, <1>3, <2>2, <3>1 DEF Alias!StatusIsTrue, Asked
  <2> QED
    BY <2>3, <2>4, <2>5 DEF Ran
<1> QED
  BY <1>8, <1>9, <1>10

LEMMA RanKeeps ==
    ASSUME AliasLimits, AliasInv, NEW s \in Asked, Ran(s)
    PROVE  AliasInv'
BY RanTypes, RanTurns, RanCounts, RanFirst, RanFair, RanPending DEF AliasInv
\* The turn of s has begun.
Turn(s) ==
    /\ AliasInv /\ s \in Asked /\ loop # <<>> /\ Head(loop) = s
    /\ collector = "reading" /\ UNCHANGED <<wave, collector>>

\* The semaphore has the same waiters, but for s.
Others(s, waiters) ==
    /\ \A x : x # s => (In(waiters, x) <=> In(gate.waiters, x))
    /\ \A x, y : x # s /\ y # s /\ Ahead(gate.waiters, x, y) => Ahead(waiters, x, y)

LEMMA WithoutHead ==
    ASSUME AliasLimits, NEW s, Turn(s)
    PROVE  /\ Tail(loop) \in Seq(Runnable) /\ Distinct(Tail(loop)) /\ In(loop, s) /\ s # Collector
           /\ \A x : In(Tail(loop), x) <=> In(loop, x) /\ x # s
           /\ \A x, y : Ahead(loop, x, y) => Ahead(Tail(loop), x, y)
           /\ \A x, y : x # s /\ In(loop, x) /\ (In(loop, y) => Ahead(loop, x, y)) =>
                 In(Tail(loop), x) /\ (In(Tail(loop), y) => Ahead(Tail(loop), x, y))
           /\ Turns /\ Counts /\ Semaphore /\ AliasTypes /\ Gates
<1>1. /\ loop \in Seq(Runnable) /\ Distinct(loop) /\ AliasTypes /\ s # Collector
      /\ Turns /\ Counts /\ Semaphore /\ Gates
  BY DEF Turn, AliasInv, AliasTypes, Turns, AliasLimits
<1>2. loop # <<>> /\ Head(loop) = s
  BY DEF Turn
<1>3. /\ Tail(loop) \in Seq(Runnable) /\ Distinct(Tail(loop)) /\ In(loop, s)
      /\ \A x : In(Tail(loop), x) <=> In(loop, x) /\ x # s
      /\ \A x, y : Ahead(loop, x, y) => Ahead(Tail(loop), x, y)
  BY <1>1, <1>2, TailOf
<1> QED
  BY <1>1, <1>3

\* A worker that need not wait, and the first of those who do.
LEMMA Begins ==
    ASSUME AliasLimits, NEW s, Turn(s), ~In(gate.waiters, s)
    PROVE  Going(s, gate.waiters, Tail(loop)) /\ Others(s, gate.waiters)
<1>1. /\ Tail(loop) \in Seq(Runnable) /\ Distinct(Tail(loop))
      /\ \A x : In(Tail(loop), x) <=> In(loop, x) /\ x # s
      /\ \A x, y : Ahead(loop, x, y) => Ahead(Tail(loop), x, y)
      /\ Semaphore /\ Gates
  BY WithoutHead
<1>2. HandedFirst(Tail(loop), gate.waiters)
  BY <1>1 DEF HandedFirst, Semaphore
<1>3. Joined(Tail(loop), Tail(loop), {})
  BY <1>1, JoinedByNone
<1>4. Joined(Tail(loop), Tail(loop), Waits(gate.waiters) \cup {Collector})
  BY <1>3 DEF Joined
<1> QED
  BY <1>1, <1>2, <1>4 DEF Going, Others, Semaphore, Gates

LEMMA BeginsFirst ==
    ASSUME AliasLimits, NEW s, Turn(s), In(gate.waiters, s)
    PROVE  /\ gate.waiters # <<>> /\ Head(gate.waiters) = s
           /\ \A x : In(gate.waiters, x) => ~Ahead(gate.waiters, x, s)
           /\ Going(s, Tail(gate.waiters), Tail(loop)) /\ Others(s, Tail(gate.waiters))
<1> DEFINE w == gate.waiters
<1> DEFINE v == Tail(w)
<1>1. /\ Tail(loop) \in Seq(Runnable) /\ Distinct(Tail(loop)) /\ In(loop, s)
      /\ \A x : In(Tail(loop), x) <=> In(loop, x) /\ x # s
      /\ \A x, y : Ahead(loop, x, y) => Ahead(Tail(loop), x, y)
      /\ Semaphore /\ Gates
  BY WithoutHead
<1>2. loop \in Seq(Runnable) /\ Distinct(loop) /\ loop # <<>> /\ Head(loop) = s
  BY DEF Turn, AliasInv, AliasTypes, Turns
<1>3. w \in Seq(Asked) /\ Distinct(w) /\ w # <<>> /\ HandedFirst(loop, w)
  BY <1>1 DEF Semaphore, Gates, In
<1>4. /\ v \in Seq(Asked) /\ Distinct(v) /\ In(w, Head(w))
      /\ \A x : In(v, x) <=> In(w, x) /\ x # Head(w)
      /\ \A x, y : Ahead(w, x, y) => Ahead(v, x, y)
      /\ \A x, y : In(v, y) /\ Ahead(v, x, y) => Ahead(w, x, y)
      /\ \A x : x # Head(w) => Ahead(w, Head(w), x)
      /\ \A x : In(w, x) => ~Ahead(w, x, Head(w))
  <2> HIDE DEF w
  <2> QED
    BY <1>3, TailOf
<1>5. \A x : In(loop, x) => ~Ahead(loop, x, s)
  BY <1>2, TailOf
<1>6. Head(w) = s
  BY <1>1, <1>3, <1>4, <1>5 DEF HandedFirst
<1> HIDE DEF w, v
<1>7. HandedFirst(Tail(loop), v)
  BY <1>1, <1>3, <1>4, <1>6 DEF HandedFirst
<1>8. Joined(Tail(loop), Tail(loop), {})
  BY <1>1, JoinedByNone
<1>9. Joined(Tail(loop), Tail(loop), Waits(v) \cup {Collector})
  BY <1>8 DEF Joined
<1>10. Going(s, v, Tail(loop))
  BY <1>1, <1>4, <1>6, <1>7, <1>9 DEF Going
<1>11. Others(s, v)
  BY <1>4, <1>6 DEF Others, w
<1> QED
  BY <1>3, <1>4, <1>6, <1>10, <1>11 DEF w, v

LEMMA GoneOn ==
    ASSUME AliasLimits, NEW s, Turn(s), NEW v, NEW ready, Going(s, v, ready), Others(s, v),
           gate' = [waiters |-> v, free |-> gate'.free, budget |-> gate'.budget],
           gate'.budget \in Nat, gate.budget = 0 => gate'.budget = 0,
           \/ search'[s].at \in {"query", "done"} /\ loop' = ready
           \/ search'[s].at = "pause" /\ loop' = Append(ready, s)
    PROVE  LoopRan(s) /\ GateRan(s)
<1>1. /\ In(loop, s) /\ s # Collector
      /\ \A x : In(Tail(loop), x) <=> In(loop, x) /\ x # s
      /\ \A x, y : x # s /\ In(loop, x) /\ (In(loop, y) => Ahead(loop, x, y)) =>
            In(Tail(loop), x) /\ (In(Tail(loop), y) => Ahead(Tail(loop), x, y))
  BY WithoutHead
<1>2. /\ ready \in Seq(Runnable) /\ Distinct(ready) /\ HandedFirst(ready, v) /\ ~In(v, s)
      /\ \A x : In(Tail(loop), x) => In(ready, x)
      /\ \A x : In(ready, x) => In(Tail(loop), x) \/ In(v, x) \/ x = Collector
      /\ \A x, y : In(Tail(loop), x) /\ (In(Tail(loop), y) => Ahead(Tail(loop), x, y)) =>
            Ahead(ready, x, y)
  BY DEF Going, Joined, Waits
<1>3. ~In(ready, s)
  BY <1>1, <1>2
<1>4. /\ \A x : In(loop, x) /\ x # s => In(ready, x)
      /\ \A x : In(ready, x) => In(loop, x) \/ x = Collector \/ In(gate.waiters, x)
      /\ \A x, y : x # s /\ y # s /\ In(loop, x) /\ (In(loop, y) => Ahead(loop, x, y)) =>
            Ahead(ready, x, y) /\ In(ready, x)
  BY <1>1, <1>2 DEF Others
<1>5. gate'.waiters = v
  OBVIOUS
<1>6. Gates'
  BY <1>5 DEF Gates, Going
<1>7. ASSUME HandedFirst(loop', v), search'[s].at # "semaphore"
      PROVE  GateRan(s)
  BY <1>2, <1>5, <1>6, <1>7 DEF GateRan, Others, Going
<1>8. CASE search'[s].at \in {"query", "done"} /\ loop' = ready
  <2>1. LoopRan(s)
    BY <1>2, <1>3, <1>4, <1>8 DEF LoopRan
  <2> QED
    BY <1>2, <1>7, <1>8, <2>1
<1>9. CASE search'[s].at = "pause" /\ loop' = Append(ready, s)
  <2>1. s \in Runnable
    BY DEF Turn, Runnable
  <2>2. /\ Append(ready, s) \in Seq(Runnable)
        /\ Joined(ready, Append(ready, s), {s})
        /\ \A x : In(Append(ready, s), x) <=> In(ready, x) \/ x = s
    BY <1>2, <1>3, <2>1, AppendOf
  <2>3. HandedFirst(loop', v)
    BY <1>2, <1>9, <2>2, StillFirst
  <2>4. \A x : x # s => Ahead(loop', x, s)
    <3> SUFFICES ASSUME NEW x, x # s
                 PROVE  Ahead(loop', x, s)
      OBVIOUS
    <3>1. CASE In(ready, x)
      BY <1>3, <1>9, <2>2, <3>1 DEF Joined
    <3>2. CASE ~In(ready, x)
      BY <1>9, <2>2, <3>2, AheadOfNone
    <3> QED
      BY <3>1, <3>2
  <2>5. ASSUME NEW x, NEW y, x # s, y # s, In(loop, x), In(loop, y) => Ahead(loop, x, y)
        PROVE  Ahead(loop', x, y)
    <3>1. Ahead(ready, x, y) /\ In(ready, x)
      BY <1>4, <2>5
    <3> QED
      BY <1>9, <2>2, <3>1 DEF Joined
  <2>6. Distinct(loop')
    BY <1>9, <2>2 DEF Joined
  <2>7. LoopRan(s)
    BY <1>1, <1>4, <1>9, <2>2, <2>4, <2>5, <2>6 DEF LoopRan
  <2> QED
    BY <1>7, <1>9, <2>3, <2>7
<1> QED
  BY <1>8, <1>9
\* An answer of the site of s.
LEMMA AnswerRan ==
    ASSUME AliasLimits, NEW s, Turn(s), NEW v, NEW ready, Going(s, v, ready), Others(s, v),
           NEW tried \in Nat, NEW spare, NEW budget \in Nat, gate.budget = 0 => budget = 0,
           NEW outcome \in {"match", "miss", "failure", "exception"},
           Alias!Answered(s, tried, outcome,
                          [waiters |-> v, free |-> spare, budget |-> budget], ready)
    PROVE  /\ LoopRan(s) /\ GateRan(s) /\ Tells(s)
           /\ search' \in [Asked -> WorkerRecords]
           /\ \A t \in Asked : t # s => search'[t] = search[t]
           /\ search'[s].tried = tried /\ search'[s].at # "query"
<1> DEFINE g == [waiters |-> v, free |-> spare, budget |-> budget]
<1> DEFINE left == Alias!Release(g, ready)
<1> DEFINE told == IF outcome = "exception" THEN left.ready
                   ELSE Alias!Woken(left.ready, Collector)
<1> DEFINE at == IF outcome \in {"match", "failure", "exception"} THEN "done" ELSE "pause"
<1> DEFINE answered == IF outcome = "exception" THEN search[s].answered
                       ELSE search[s].answered + 1
<1>1. /\ gate' = left.gate
      /\ answers' = IF outcome = "exception" THEN answers
                    ELSE Append(answers, [source |-> s, outcome |-> outcome])
      /\ search' = [search EXCEPT ![s].at = at, ![s].tried = tried, ![s].answered = answered]
      /\ loop' = IF at = "done" THEN told ELSE Append(told, s)
  BY DEF Alias!Answered, Alias!Terminal, Alias!Yield
<1>2. left.gate = [waiters |-> v, free |-> left.gate.free, budget |-> budget]
      /\ Going(s, v, left.ready)
  BY Releases
<1> HIDE DEF g, left
<1>3. Going(s, v, told) /\ (outcome # "exception" => In(told, Collector))
  BY <1>2, WakesCollector
<1>4. search \in [Asked -> WorkerRecords] /\ s \in Asked
  BY DEF Turn, AliasInv, AliasTypes
<1>5. search[s].answered \in Nat
  BY <1>4 DEF WorkerRecords
<1>6. at \in {"pause", "done"} /\ answered \in Nat
  BY <1>5
<1> HIDE DEF at, answered, told
<1>7. /\ search' \in [Asked -> WorkerRecords]
      /\ \A t \in Asked : t # s => search'[t] = search[t]
      /\ search'[s].at = at /\ search'[s].tried = tried /\ search'[s].answered = answered
  BY <1>1, <1>4, <1>6 DEF WorkerRecords, Steps
<1>8. /\ gate' = [waiters |-> v, free |-> gate'.free, budget |-> gate'.budget]
      /\ gate'.budget = budget
  BY <1>1, <1>2
<1>9. LoopRan(s) /\ GateRan(s)
  BY <1>1, <1>3, <1>6, <1>7, <1>8, GoneOn
<1>10. In(told, Collector) => In(loop', Collector)
  <2>1. Distinct(told) /\ told \in Seq(Runnable) /\ s \in Runnable /\ ~In(told, s)
    <3>1. ~In(Tail(loop), s) /\ s # Collector
      BY WithoutHead
    <3> QED
      BY <1>3, <1>4, <3>1 DEF Going, Joined, Waits, Runnable
  <2>2. \A x : In(Append(told, s), x) <=> In(told, x) \/ x = s
    BY <2>1, AppendOf
  <2> QED
    BY <1>1, <2>2
<1>11. Tells(s)
  <2>1. CASE outcome = "exception"
    BY <1>1, <1>7, <2>1 DEF Tells, at, answered
  <2>2. CASE outcome # "exception"
    <3>1. outcome \in Outcomes
      BY <2>2 DEF Outcomes
    <3>2. at = IF outcome = "miss" THEN "pause" ELSE "done"
      BY <2>2 DEF at
    <3>3. /\ answered = search[s].answered + 1
          /\ answers' = Append(answers, [source |-> s, outcome |-> outcome])
      BY <1>1, <2>2 DEF answered
    <3> QED
      BY <1>3, <1>7, <1>10, <2>2, <3>1, <3>2, <3>3 DEF Tells
  <2> QED
    BY <2>1, <2>2
<1> QED
  BY <1>6, <1>7, <1>9, <1>11

\* Inside the semaphore.
LEMMA QueryRan ==
    ASSUME AliasLimits, NEW s, Turn(s), NEW v, NEW ready, Going(s, v, ready), Others(s, v),
           search[s].at \in {"start", "wave", "semaphore", "pause"}, ~Held(s),
           search[s].at = "pause" => \A x : ~In(gate.waiters, x),
           search[s].at = "semaphore" => \A x : In(gate.waiters, x) => ~Ahead(gate.waiters, x, s),
           NEW spare,
           Alias!Query(s, [waiters |-> v, free |-> spare, budget |-> gate.budget], ready)
    PROVE  Ran(s)
<1> DEFINE g == [waiters |-> v, free |-> spare, budget |-> gate.budget]
<1>1. /\ search \in [Asked -> WorkerRecords] /\ s \in Asked /\ gate.budget \in Nat
      /\ status \in [Asked -> {"unqueried", "searching", "matched", "miss", "failed", "timeout"}]
  BY DEF Turn, AliasInv, AliasTypes, Gates
<1>2. search[s].tried \in Nat /\ search[s].answered \in Nat
  BY <1>1 DEF WorkerRecords
<1>3. CASE gate.budget = 0
  <2> DEFINE left == Alias!Release(g, ready)
  <2>1. /\ gate' = left.gate /\ loop' = left.ready
        /\ search' = [search EXCEPT ![s].at = "done"]
        /\ UNCHANGED <<answers, status>>
    BY <1>3 DEF Alias!Query
  <2>2. left.gate = [waiters |-> v, free |-> left.gate.free, budget |-> gate.budget]
        /\ Going(s, v, left.ready)
    BY Releases
  <2> HIDE DEF g, left
  <2>3. /\ search' \in [Asked -> WorkerRecords]
        /\ \A t \in Asked : t # s => search'[t] = search[t]
        /\ search'[s].at = "done" /\ search'[s].tried = search[s].tried
        /\ search'[s].answered = search[s].answered
    BY <1>1, <2>1 DEF WorkerRecords, Steps
  <2>4. /\ gate' = [waiters |-> v, free |-> gate'.free, budget |-> gate'.budget]
        /\ gate'.budget = gate.budget
    BY <2>1, <2>2
  <2>5. LoopRan(s) /\ GateRan(s)
    BY <1>1, <2>1, <2>2, <2>3, <2>4, GoneOn
  <2>6. Idles(s)
    BY <1>3, <2>1, <2>3 DEF Idles
  <2> QED
    BY <2>3, <2>5, <2>6 DEF Ran, Turn
<1>4. CASE gate.budget # 0
  <2> DEFINE spent == [waiters |-> v, free |-> spare, budget |-> gate.budget - 1]
  <2>1. spent = [g EXCEPT !.budget = gate.budget - 1] /\ gate.budget - 1 \in Nat
    BY <1>1, <1>4
  <2>2. /\ status' = [status EXCEPT ![s] = "searching"]
        /\ \/ /\ gate' = spent /\ loop' = ready
              /\ search' = [search EXCEPT ![s].at = "query", ![s].tried = search[s].tried + 1]
              /\ UNCHANGED answers
           \/ \E outcome \in {"match", "miss", "failure", "exception"} :
                 Alias!Answered(s, search[s].tried + 1, outcome, spent, ready)
    BY <1>4, <2>1 DEF Alias!Query
  <2>3. CASE /\ gate' = spent /\ loop' = ready
             /\ search' = [search EXCEPT ![s].at = "query", ![s].tried = search[s].tried + 1]
             /\ UNCHANGED answers
    <3> DEFINE tried == search[s].tried + 1
    <3>1. tried \in Nat
      BY <1>2
    <3> HIDE DEF tried
    <3>2. search' = [search EXCEPT ![s].at = "query", ![s].tried = tried]
      BY <2>3 DEF tried
    <3>3. /\ search' \in [Asked -> WorkerRecords]
          /\ \A t \in Asked : t # s => search'[t] = search[t]
          /\ search'[s].at = "query" /\ search'[s].tried = tried
          /\ search'[s].answered = search[s].answered
      BY <1>1, <3>1, <3>2 DEF WorkerRecords, Steps
    <3>4. /\ gate' = [waiters |-> v, free |-> gate'.free, budget |-> gate'.budget]
          /\ gate'.budget = gate.budget - 1
      BY <2>3
    <3>5. LoopRan(s) /\ GateRan(s)
      BY <1>4, <2>1, <2>3, <3>3, <3>4, GoneOn
    <3>6. Asks(s)
      BY <1>4, <2>2, <2>3, <3>3 DEF Asks, Tells, tried
    <3> QED
      BY <3>3, <3>5, <3>6 DEF Ran, Turn
  <2>4. ASSUME NEW outcome \in {"match", "miss", "failure", "exception"},
               Alias!Answered(s, search[s].tried + 1, outcome, spent, ready)
        PROVE  Ran(s)
    <3> DEFINE tried == search[s].tried + 1
    <3> DEFINE budget == gate.budget - 1
    <3>1. tried \in Nat /\ budget \in Nat /\ (gate.budget = 0 => budget = 0)
      BY <1>2, <1>4, <2>1
    <3>2. Alias!Answered(s, tried, outcome,
                         [waiters |-> v, free |-> spare, budget |-> budget], ready)
      BY <2>4
    <3> HIDE DEF tried, budget
    <3>3. /\ LoopRan(s) /\ GateRan(s) /\ Tells(s)
          /\ search' \in [Asked -> WorkerRecords]
          /\ \A t \in Asked : t # s => search'[t] = search[t]
          /\ search'[s].tried = tried
      BY <3>1, <3>2, AnswerRan
    <3>4. Asks(s)
      BY <1>4, <2>2, <3>3 DEF Asks, tried
    <3> QED
      BY <3>3, <3>4 DEF Ran, Turn
  <2> QED
    BY <2>2, <2>3, <2>4
<1> QED
  BY <1>3, <1>4
\* A worker that goes on, or ends, without the semaphore.
LEMMA LeavesRan ==
    ASSUME AliasLimits, NEW s, Turn(s), ~In(gate.waiters, s), NEW at \in {"wave", "done"},
           search' = [search EXCEPT ![s].at = at], loop' = Tail(loop),
           UNCHANGED <<gate, answers, status>>,
           IF at = "wave" THEN Held(s) ELSE search[s].at = "pause"
    PROVE  Ran(s)
<1>1. search \in [Asked -> WorkerRecords] /\ s \in Asked /\ Gates
  BY DEF Turn, AliasInv, AliasTypes
<1>2. /\ search' \in [Asked -> WorkerRecords]
      /\ \A t \in Asked : t # s => search'[t] = search[t]
      /\ search'[s].at = at /\ search'[s].tried = search[s].tried
      /\ search'[s].answered = search[s].answered
  BY <1>1 DEF WorkerRecords, Steps
<1>3. Idles(s)
  BY <1>2 DEF Idles, Held
<1>4. /\ Going(s, gate.waiters, Tail(loop)) /\ Others(s, gate.waiters)
      /\ In(loop, s) /\ s # Collector
      /\ \A x : In(Tail(loop), x) <=> In(loop, x) /\ x # s
      /\ \A x, y : x # s /\ In(loop, x) /\ (In(loop, y) => Ahead(loop, x, y)) =>
            In(Tail(loop), x) /\ (In(Tail(loop), y) => Ahead(Tail(loop), x, y))
  BY Begins, WithoutHead
<1>5. LoopRan(s)
  <2>1. \A x, y : In(Tail(loop), x) /\ (In(Tail(loop), y) => Ahead(Tail(loop), x, y)) =>
           Ahead(Tail(loop), x, y)
    BY AheadOfNone
  <2>2. Tail(loop) \in Seq(Runnable) /\ Distinct(Tail(loop))
    BY WithoutHead
  <2> QED
    BY <1>2, <1>4, <2>1, <2>2 DEF LoopRan
<1>6. GateRan(s)
  BY <1>1, <1>2, <1>4 DEF GateRan, Going, Others, Gates
<1> QED
  BY <1>2, <1>3, <1>5, <1>6 DEF Ran, Turn

LEMMA AcquireRan ==
    ASSUME AliasLimits, NEW s, Turn(s), search[s].at \in {"start", "wave", "pause"}, ~Held(s),
           Alias!Acquire(s)
    PROVE  Ran(s)
<1>1. /\ search \in [Asked -> WorkerRecords] /\ s \in Asked /\ Gates /\ Semaphore
      /\ ~In(gate.waiters, s)
  BY DEF Turn, AliasInv, AliasTypes, Semaphore
<1>2. /\ Going(s, gate.waiters, Tail(loop)) /\ Others(s, gate.waiters)
  BY <1>1, Begins
<1>3. CASE gate.free > 0 /\ gate.waiters = <<>>
  <2> DEFINE spare == gate.free - 1
  <2>1. Alias!Query(s, [gate EXCEPT !.free = spare], Tail(loop))
    BY <1>3 DEF Alias!Acquire
  <2>2. [gate EXCEPT !.free = spare] =
           [waiters |-> gate.waiters, free |-> spare, budget |-> gate.budget]
    BY <1>1 DEF Gates
  <2>3. Alias!Query(s, [waiters |-> gate.waiters, free |-> spare, budget |-> gate.budget],
                    Tail(loop))
    BY <2>1, <2>2
  <2>4. \A x : ~In(gate.waiters, x)
    BY <1>3 DEF In
  <2> HIDE DEF spare
  <2> QED
    BY <1>2, <2>3, <2>4, QueryRan
<1>4. CASE ~(gate.free > 0 /\ gate.waiters = <<>>)
  <2> DEFINE w == gate.waiters
  <2> DEFINE after == Append(gate.waiters, s)
  <2>1. /\ gate' = [gate EXCEPT !.waiters = after] /\ loop' = Tail(loop)
        /\ search' = [search EXCEPT ![s].at = "semaphore"]
        /\ UNCHANGED <<answers, status>>
    BY <1>4 DEF Alias!Acquire
  <2>2. /\ search' \in [Asked -> WorkerRecords]
        /\ \A t \in Asked : t # s => search'[t] = search[t]
        /\ search'[s].at = "semaphore" /\ search'[s].tried = search[s].tried
        /\ search'[s].answered = search[s].answered
    BY <1>1, <2>1 DEF WorkerRecords, Steps
  <2>3. Idles(s)
    BY <2>1, <2>2 DEF Idles
  <2>4. /\ In(loop, s) /\ s # Collector
        /\ \A x : In(Tail(loop), x) <=> In(loop, x) /\ x # s
        /\ \A x, y : x # s /\ In(loop, x) /\ (In(loop, y) => Ahead(loop, x, y)) =>
              In(Tail(loop), x) /\ (In(Tail(loop), y) => Ahead(Tail(loop), x, y))
        /\ Tail(loop) \in Seq(Runnable) /\ Distinct(Tail(loop))
    BY WithoutHead
  <2>5. LoopRan(s)
    <3>1. \A x, y : In(Tail(loop), x) /\ (In(Tail(loop), y) => Ahead(Tail(loop), x, y)) =>
             Ahead(Tail(loop), x, y)
      BY AheadOfNone
    <3> QED
      BY <2>1, <2>2, <2>4, <3>1 DEF LoopRan
  <2>6. w \in Seq(Asked) /\ Distinct(w) /\ ~In(w, s)
    BY <1>1 DEF Gates, Semaphore
  <2>7. /\ gate' = [waiters |-> after, free |-> gate'.free, budget |-> gate'.budget]
        /\ gate'.budget = gate.budget
    BY <1>1, <2>1 DEF Gates
  <2>8. after = Append(w, s)
    OBVIOUS
  <2> HIDE DEF w, after
  <2>9. /\ after \in Seq(Asked) /\ Joined(w, after, {s})
        /\ \A x : In(after, x) <=> In(w, x) \/ x = s
        /\ \A x, y : In(w, y) /\ Ahead(after, x, y) => x # s /\ Ahead(w, x, y)
    BY <1>1, <2>6, <2>8, AppendOf
  <2>10. \A x : x # s => Ahead(after, x, s)
    <3> SUFFICES ASSUME NEW x, x # s
                 PROVE  Ahead(after, x, s)
      OBVIOUS
    <3>1. CASE In(w, x)
      BY <2>6, <2>9, <3>1 DEF Joined
    <3>2. CASE ~In(w, x)
      BY <2>9, <3>2, AheadOfNone
    <3> QED
      BY <3>1, <3>2
  <2>11. \A x, y : x # s /\ y # s /\ Ahead(w, x, y) => Ahead(after, x, y)
    <3> SUFFICES ASSUME NEW x, NEW y, x # s, y # s, Ahead(w, x, y)
                 PROVE  Ahead(after, x, y)
      OBVIOUS
    <3>1. CASE In(w, x)
      BY <2>9, <3>1 DEF Joined
    <3>2. CASE ~In(w, x)
      BY <2>9, <3>2, AheadOfNone
    <3> QED
      BY <3>1, <3>2
  <2>12. HandedFirst(Tail(loop), after)
    <3> SUFFICES ASSUME NEW x, NEW y, In(after, x), In(after, y), x # y, Ahead(after, x, y),
                        In(Tail(loop), y)
                 PROVE  In(Tail(loop), x) /\ Ahead(Tail(loop), x, y)
      BY DEF HandedFirst
    <3>1. In(w, x) /\ In(w, y) /\ x # s /\ Ahead(w, x, y) /\ In(loop, y)
      BY <2>4, <2>9
    <3>2. In(loop, x) /\ Ahead(loop, x, y)
      BY <1>1, <3>1 DEF Semaphore, HandedFirst, w
    <3> QED
      BY <2>4, <3>1, <3>2
  <2>13. gate'.waiters = after /\ Distinct(after) /\ gate.waiters = w
    BY <2>7, <2>9 DEF Joined, w
  <2>14. Gates' /\ (gate.budget = 0 => gate'.budget = 0)
    BY <1>1, <2>7, <2>9 DEF Gates
  <2>15. GateRan(s)
    BY <2>1, <2>2, <2>9, <2>10, <2>11, <2>12, <2>13, <2>14 DEF GateRan
  <2> QED
    BY <2>2, <2>3, <2>5, <2>15 DEF Ran, Turn
<1> QED
  BY <1>3, <1>4

\* The waiter that runs is the first of them.
LEMMA EnterRan ==
    ASSUME AliasLimits, NEW s, Turn(s), search[s].at = "semaphore", Alias!Enter(s)
    PROVE  Ran(s)
<1>1. /\ s \in Asked /\ Gates /\ Semaphore /\ In(gate.waiters, s)
  BY DEF Turn, AliasInv, AliasTypes, Semaphore
<1> DEFINE v == Tail(gate.waiters)
<1>2. /\ gate.waiters # <<>> /\ Head(gate.waiters) = s
      /\ \A x : In(gate.waiters, x) => ~Ahead(gate.waiters, x, s)
      /\ Going(s, v, Tail(loop)) /\ Others(s, v)
  BY <1>1, BeginsFirst
<1> DEFINE mine == [gate EXCEPT !.waiters = v]
<1> DEFINE next == IF mine.free > 0 THEN Alias!WakeUpNext(mine, Tail(loop))
                   ELSE [gate |-> mine, ready |-> Tail(loop)]
<1>3. Alias!RemoveFirst(gate.waiters, s) = v
  <2> DEFINE w == gate.waiters
  <2> DEFINE mines == {i \in 1..Len(w) : w[i] = s}
  <2>1. w \in Seq(Asked) /\ Len(w) \in Nat /\ 1 \in 1..Len(w) /\ w[1] = s
    BY <1>1, <1>2 DEF Gates
  <2>2. mines = {1}
    BY <1>1, <2>1 DEF Semaphore, Distinct
  <2>3. Alias!Min(mines) = 1
    BY <2>2 DEF Alias!Min
  <2>4. Alias!SelectInSeq(w, LAMBDA e : e = s) = 1
    BY <2>2, <2>3 DEF Alias!SelectInSeq
  <2>5. Alias!RemoveFirst(w, s) = Alias!RemoveAt(w, 1)
    BY <2>1, <2>4 DEF Alias!RemoveFirst
  <2>6. Alias!RemoveAt(w, 1) = SubSeq(w, 1, 0) \o SubSeq(w, 2, Len(w))
    BY DEF Alias!RemoveAt
  <2> HIDE DEF w
  <2>7. SubSeq(w, 1, 0) = <<>> /\ SubSeq(w, 2, Len(w)) = Tail(w) /\ Tail(w) \in Seq(Asked)
    BY <2>1
  <2>8. <<>> \o Tail(w) = Tail(w)
    BY <2>7
  <2> QED
    BY <2>5, <2>6, <2>7, <2>8 DEF w
<1>4. Alias!Query(s, next.gate, next.ready)
  BY <1>3 DEF Alias!Enter
<1>5. mine = [waiters |-> v, free |-> gate.free, budget |-> gate.budget]
  <2> HIDE DEF v
  <2> QED
    BY <1>1 DEF Gates
<1>6. /\ next.gate = [waiters |-> v, free |-> next.gate.free, budget |-> gate.budget]
      /\ Going(s, v, next.ready)
  <2>1. CASE ~(mine.free > 0)
    BY <1>2, <1>5, <2>1
  <2>2. CASE mine.free > 0
    <3>1. next = Alias!WakeUpNext([waiters |-> v, free |-> gate.free, budget |-> gate.budget],
                                  Tail(loop))
      BY <1>5, <2>2
    <3> HIDE DEF next, mine, v
    <3>2. /\ v \in Seq(Asked) /\ Distinct(v) /\ HandedFirst(Tail(loop), v)
          /\ Tail(loop) \in Seq(Runnable) /\ Distinct(Tail(loop))
      BY <1>2, WithoutHead DEF Going
    <3> DEFINE spare == gate.free
    <3> DEFINE budget == gate.budget
    <3> DEFINE rest == Tail(loop)
    <3>3. /\ next = Alias!WakeUpNext([waiters |-> v, free |-> spare, budget |-> budget], rest)
          /\ HandedFirst(rest, v) /\ rest \in Seq(Runnable) /\ Distinct(rest)
      BY <3>1, <3>2
    <3> HIDE DEF spare, budget, rest
    <3>4. /\ next.gate = [waiters |-> v, free |-> next.gate.free, budget |-> budget]
          /\ next.ready \in Seq(Runnable) /\ Joined(rest, next.ready, Waits(v))
          /\ HandedFirst(next.ready, v)
      BY <3>2, <3>3, WakeUp
    <3>5. Going(s, v, next.ready)
      BY <1>2, <3>4, GoesOn DEF rest
    <3> QED
      BY <3>4, <3>5 DEF budget
  <2> QED
    BY <2>1, <2>2
<1> DEFINE spare == next.gate.free
<1>7. Alias!Query(s, [waiters |-> v, free |-> spare, budget |-> gate.budget], next.ready)
  <2> HIDE DEF next, v
  <2> QED
    BY <1>4, <1>6
<1> DEFINE ready == next.ready
<1> HIDE DEF spare, ready, next, v, mine
<1>8. Alias!Query(s, [waiters |-> v, free |-> spare, budget |-> gate.budget], ready)
      /\ Going(s, v, ready)
  BY <1>6, <1>7 DEF ready
<1>9. ~Held(s)
  BY DEF Held
<1> QED
  BY <1>2, <1>8, <1>9, QueryRan

LEMMA WorkRan ==
    ASSUME AliasLimits, AliasInv, NEW s \in Asked,
           \/ Alias!Start(s) \/ Alias!JoinWave(s) \/ Alias!Enter(s)
           \/ Alias!TakeAnswer(s) \/ Alias!NextAlias(s)
    PROVE  Ran(s)
<1>1. Turn(s)
  BY DEF Turn, Alias!Start, Alias!JoinWave, Alias!Enter, Alias!TakeAnswer, Alias!NextAlias,
     Alias!Runs
<1>2. search[s].at # "semaphore" => ~In(gate.waiters, s)
  BY <1>1, WithoutHead DEF Semaphore
<1>3. CASE Alias!Start(s)
  <2>1. search[s].at = "start"
    BY <1>3 DEF Alias!Start, Alias!Runs
  <2>2. CASE Held(s)
    <3>1. /\ search' = [search EXCEPT ![s].at = "wave"] /\ loop' = Tail(loop)
          /\ UNCHANGED <<gate, answers, status>>
      BY <1>3, <2>2 DEF Alias!Start, Held
    <3> QED
      BY <1>1, <1>2, <2>1, <2>2, <3>1, LeavesRan
  <2>3. CASE ~Held(s)
    BY <1>1, <1>3, <2>1, <2>3, AcquireRan DEF Alias!Start, Held
  <2> QED
    BY <2>2, <2>3
<1>4. CASE Alias!JoinWave(s)
  BY <1>1, <1>4, AcquireRan DEF Alias!JoinWave, Alias!Runs, Held
<1>5. CASE Alias!Enter(s)
  BY <1>1, <1>5, EnterRan DEF Alias!Enter, Alias!Runs
<1>6. CASE Alias!TakeAnswer(s)
  <2>1. /\ search[s].at = "query" /\ UNCHANGED status
    BY <1>6 DEF Alias!TakeAnswer, Alias!Runs
  <2>2. PICK outcome \in {"match", "miss", "failure", "exception"} :
            Alias!Answered(s, search[s].tried, outcome, gate, Tail(loop))
    BY <1>6 DEF Alias!TakeAnswer
  <2>3. /\ Going(s, gate.waiters, Tail(loop)) /\ Others(s, gate.waiters)
    BY <1>1, <1>2, <2>1, Begins
  <2>4. gate = [waiters |-> gate.waiters, free |-> gate.free, budget |-> gate.budget]
        /\ gate.budget \in Nat /\ search[s].tried \in Nat
    BY <1>1, WithoutHead DEF Gates, AliasTypes, WorkerRecords
  <2> DEFINE v == gate.waiters
  <2> DEFINE spare == gate.free
  <2> DEFINE budget == gate.budget
  <2> DEFINE tried == search[s].tried
  <2>5. Alias!Answered(s, tried, outcome,
                       [waiters |-> v, free |-> spare, budget |-> budget], Tail(loop))
    BY <2>2, <2>4
  <2>6. budget \in Nat /\ tried \in Nat /\ (gate.budget = 0 => budget = 0)
    BY <2>4
  <2> HIDE DEF spare, budget, tried, v
  <2>7. Going(s, v, Tail(loop)) /\ Others(s, v)
    BY <2>3 DEF v
  <2>8. /\ LoopRan(s) /\ GateRan(s) /\ Tells(s)
        /\ search' \in [Asked -> WorkerRecords]
        /\ \A t \in Asked : t # s => search'[t] = search[t]
        /\ search'[s].tried = tried /\ search'[s].at # "query"
    BY <1>1, <2>5, <2>6, <2>7, AnswerRan
  <2>9. Takes(s)
    BY <2>1, <2>8 DEF Takes, tried
  <2> QED
    BY <1>1, <2>8, <2>9 DEF Ran, Turn
<1>7. CASE Alias!NextAlias(s)
  <2>1. search[s].at = "pause"
    BY <1>7 DEF Alias!NextAlias, Alias!Runs
  <2>2. CASE search[s].tried < AliasCount
    BY <1>1, <1>7, <2>1, <2>2, AcquireRan DEF Alias!NextAlias, Held
  <2>3. CASE ~(search[s].tried < AliasCount)
    <3>1. /\ search' = [search EXCEPT ![s].at = "done"] /\ loop' = Tail(loop)
          /\ UNCHANGED <<gate, answers, status>>
      BY <1>7, <2>3 DEF Alias!NextAlias
    <3> QED
      BY <1>1, <1>2, <2>1, <3>1, LeavesRan
  <2> QED
    BY <2>2, <2>3
<1> QED
  BY <1>3, <1>4, <1>5, <1>6, <1>7
-----------------------------------------------------------------------------
(***************************************************************************)
(* The other steps of a full scan                                          *)
(***************************************************************************)
LEMMA SameSize ==
    ASSUME NEW S
    PROVE  Alias!Cardinality(S) = Cardinality(S)
BY DEF Alias!Cardinality, Cardinality

LEMMA StillFirstAll ==
    ASSUME NEW q, NEW r, NEW S, NEW w, Joined(q, r, S), \A x \in S : ~In(w, x),
           HandedFirst(q, w)
    PROVE  HandedFirst(r, w)
BY DEF Joined, HandedFirst

LEMMA Behind ==
    ASSUME NEW S, NEW q \in Seq(S), NEW r \in Seq(S), Distinct(q), Distinct(r),
           \A x : ~(In(q, x) /\ In(r, x))
    PROVE  /\ q \o r \in Seq(S) /\ Joined(q, q \o r, {x \in S : In(r, x)})
           /\ \A x : In(q \o r, x) <=> In(q, x) \/ In(r, x)
<1> DEFINE a == q \o r
<1> DEFINE n == Len(q)
<1>1. /\ a \in Seq(S) /\ n \in Nat /\ DOMAIN q = 1..n /\ Len(r) \in Nat
      /\ DOMAIN r = 1..Len(r) /\ DOMAIN a = 1..(n + Len(r))
      /\ \A i \in DOMAIN a : a[i] = IF i <= n THEN q[i] ELSE r[i - n]
  OBVIOUS
<1> HIDE DEF a, n
<1>2. /\ \A i \in DOMAIN q : i \in DOMAIN a /\ a[i] = q[i] /\ i \in Nat /\ i <= n
      /\ \A j \in DOMAIN r : j + n \in DOMAIN a /\ a[j + n] = r[j]
      /\ \A i \in DOMAIN a :
            /\ i \in Nat
            /\ \/ i \in DOMAIN q
               \/ i > n /\ i - n \in DOMAIN r /\ a[i] = r[i - n]
  <2>1. \A i \in DOMAIN q : i \in DOMAIN a /\ a[i] = q[i] /\ i \in Nat /\ i <= n
    BY <1>1
  <2>2. ASSUME NEW j \in DOMAIN r
        PROVE  j + n \in DOMAIN a /\ a[j + n] = r[j]
    <3>1. j \in Nat /\ 1 <= j /\ j <= Len(r)
      BY <1>1
    <3>2. j + n \in DOMAIN a /\ ~(j + n <= n) /\ (j + n) - n = j
      BY <1>1, <3>1
    <3> QED
      BY <1>1, <3>2
  <2>3. ASSUME NEW i \in DOMAIN a, i \notin DOMAIN q
        PROVE  i > n /\ i - n \in DOMAIN r /\ a[i] = r[i - n]
    <3>1. i \in Nat /\ 1 <= i /\ i <= n + Len(r) /\ ~(i <= n)
      BY <1>1, <2>3
    <3> QED
      BY <1>1, <3>1
  <2>4. \A i \in DOMAIN a : i \in Nat
    BY <1>1
  <2> QED
    BY <2>1, <2>2, <2>3, <2>4
<1>3. \A x : In(a, x) <=> In(q, x) \/ In(r, x)
  BY <1>2 DEF In
<1>4. Distinct(a)
  <2> SUFFICES ASSUME NEW i \in DOMAIN a, NEW j \in DOMAIN a, a[i] = a[j]
               PROVE  i = j
    BY DEF Distinct
  <2>1. CASE i \in DOMAIN q /\ j \in DOMAIN q
    BY <1>2, <2>1 DEF Distinct
  <2>2. CASE i \notin DOMAIN q /\ j \notin DOMAIN q
    <3>1. i - n = j - n
      BY <1>2, <2>2 DEF Distinct
    <3> QED
      BY <1>1, <1>2, <3>1
  <2>3. CASE ~(i \in DOMAIN q <=> j \in DOMAIN q)
    BY <1>2, <2>3 DEF In
  <2> QED
    BY <2>1, <2>2, <2>3
<1>5. ASSUME NEW x, NEW y, In(q, x), In(q, y) => Ahead(q, x, y)
      PROVE  Ahead(a, x, y)
  <2> SUFFICES ASSUME NEW i \in DOMAIN a, NEW j \in DOMAIN a, a[i] = x, a[j] = y
               PROVE  i < j
    BY DEF Ahead
  <2>1. i \in DOMAIN q
    BY <1>2, <1>5 DEF In
  <2>2. CASE j \in DOMAIN q
    BY <1>2, <1>5, <2>1, <2>2 DEF Ahead, In
  <2>3. CASE j \notin DOMAIN q
    BY <1>1, <1>2, <2>1, <2>3
  <2> QED
    BY <2>2, <2>3
<1>6. \A x : In(r, x) => x \in S
  BY DEF In
<1> QED
  BY <1>1, <1>3, <1>4, <1>5, <1>6 DEF Joined, a

LEMMA OrderOf ==
    ASSUME AliasLimits, NEW some \in SUBSET Asked, NEW q \in Alias!InOrder(some)
    PROVE  q \in Seq(Runnable) /\ Distinct(q) /\ \A x : In(q, x) <=> x \in some
<1> DEFINE n == Cardinality(some)
<1>1. n \in Nat
  <2>1. Len(OrderedSources) \in Nat /\ DOMAIN OrderedSources = 1..Len(OrderedSources)
    BY DEF AliasLimits
  <2>2. OrderedSources \in [1..Len(OrderedSources) -> Asked]
    BY <2>1 DEF AliasLimits
  <2>3. \A s \in Asked : \E i \in 1..Len(OrderedSources) : OrderedSources[i] = s
    BY <2>1 DEF Asked, Alias!AllSources, Alias!ToSet
  <2>4. IsFiniteSet(Asked)
    BY <2>1, <2>2, <2>3, FS_NatSurjection DEF ExistsSurjection, Surjection
  <2>5. IsFiniteSet(some)
    BY <2>4, FS_Subset
  <2> QED
    BY <2>5, FS_CardinalityType
<1>2. /\ q \in [1..n -> some] /\ Alias!ToSet(q) = some
      /\ \A i, j \in DOMAIN q : i < j => Alias!Place(q[i]) < Alias!Place(q[j])
  BY SameSize DEF Alias!InOrder
<1> HIDE DEF n
<1>3. q \in Seq(Runnable)
  BY <1>1, <1>2 DEF Runnable
<1>4. ASSUME NEW s \in Asked
      PROVE  Alias!Place(s) \in Nat
  <2>1. DOMAIN OrderedSources \subseteq Nat
    BY DEF AliasLimits
  <2>2. \E i \in DOMAIN OrderedSources : OrderedSources[i] = s
    BY <1>4 DEF Asked, Alias!AllSources, Alias!ToSet
  <2> QED
    BY <2>1, <2>2 DEF Alias!Place
<1>5. Distinct(q)
  <2> SUFFICES ASSUME NEW i \in DOMAIN q, NEW j \in DOMAIN q, q[i] = q[j], i # j
               PROVE  FALSE
    BY DEF Distinct
  <2>1. i \in Nat /\ j \in Nat /\ q[i] \in Asked
    BY <1>1, <1>2
  <2>2. i < j \/ j < i
    BY <2>1
  <2>3. Alias!Place(q[i]) < Alias!Place(q[i])
    BY <1>2, <2>2
  <2> QED
    BY <1>4, <2>1, <2>3
<1>6. \A x : In(q, x) <=> x \in some
  BY <1>2 DEF In, Alias!ToSet
<1> QED
  BY <1>3, <1>5, <1>6

\* Sites answer, or the timer of the fallback wave fires.
LEMMA LoopGrows ==
    ASSUME AliasLimits, AliasInv, NEW S \in SUBSET Asked, loop' \in Seq(Runnable),
           Joined(loop, loop', S), UNCHANGED <<search, gate, answers, collector, status>>,
           \/ wave' = wave /\ \A x \in S : search[x].at = "query"
           \/ /\ wave = "sleeping" /\ wave' = "over"
              /\ S = {x \in Asked : search[x].at = "wave"} /\ \A x \in S : In(loop', x)
    PROVE  AliasInv'
<1>1. AliasTypes' /\ Alias!FirstAliasForAll' /\ Alias!StatusIsTrue'
  <2>1. AliasTypes /\ Alias!FirstAliasForAll /\ Alias!StatusIsTrue
    BY DEF AliasInv
  <2>2. AliasTypes'
    BY <2>1 DEF AliasTypes, Gates
  <2>3. (wave = "none") <=> (wave' = "none")
    OBVIOUS
  <2> QED
    BY <2>1, <2>2, <2>3 DEF Alias!FirstAliasForAll, Alias!StatusIsTrue, Alias!SameWave
<1> SUFFICES ASSUME collector = "reading"
             PROVE  Turns' /\ Counts' /\ Semaphore' /\ FirstComeFirst' /\ Pending' /\ Searched'
  BY <1>1 DEF AliasInv
<1>2. Turns /\ Counts /\ Semaphore /\ FirstComeFirst /\ Pending /\ Searched /\ AliasTypes
  BY DEF AliasInv
<1>3. /\ Distinct(loop') /\ \A x : In(loop, x) => In(loop', x)
      /\ \A x : In(loop', x) => In(loop, x) \/ x \in S
      /\ \A x, y : In(loop, x) /\ (In(loop, y) => Ahead(loop, x, y)) => Ahead(loop', x, y)
  BY DEF Joined
<1>4. \A x \in S : search[x].at \in {"query", "wave"}
  OBVIOUS
<1>5. Turns'
  <2>1. ASSUME NEW t \in Asked
        PROVE  /\ search'[t].at = "done" => ~In(loop', t)
               /\ search'[t].at \in {"start", "pause"} => In(loop', t)
               /\ search'[t].at = "wave" =>
                     /\ t \notin Preferred
                     /\ \/ wave' = "sleeping" /\ ~In(loop', t)
                        \/ wave' = "over" /\ In(loop', t)
    BY <1>2, <1>3, <1>4 DEF Turns
  <2> QED
    BY <1>3, <2>1 DEF Turns
<1>6. Counts'
  BY <1>2 DEF Counts
<1>7. Semaphore'
  <2>1. \A x \in S : ~In(gate.waiters, x)
    BY <1>2, <1>4 DEF Semaphore
  <2>2. HandedFirst(loop', gate.waiters)
    BY <1>2, <2>1, StillFirstAll DEF Semaphore
  <2> QED
    BY <1>2, <2>2 DEF Semaphore
<1>8. FirstComeFirst'
  <2> SUFFICES ASSUME NEW s \in Asked, NEW t \in Asked, Alias!SameWave(s, t)',
                      search[s].tried > 0, search[t].tried = 0, search[t].at # "done"
               PROVE  /\ search[s].at = "pause" /\ search[t].at \in {"start", "wave"} =>
                            Ahead(loop', t, s)
                      /\ search[s].at = "semaphore" =>
                            search[t].at = "semaphore" /\ Ahead(gate.waiters, t, s)
    BY DEF FirstComeFirst
  <2>1. Alias!SameWave(s, t)
    BY DEF Alias!SameWave
  <2>2. /\ search[s].at = "pause" /\ search[t].at \in {"start", "wave"} => Ahead(loop, t, s)
        /\ search[s].at = "semaphore" =>
              search[t].at = "semaphore" /\ Ahead(gate.waiters, t, s)
    BY <1>2, <2>1 DEF FirstComeFirst
  <2>3. ASSUME search[s].at = "pause", search[t].at \in {"start", "wave"}
        PROVE  Ahead(loop', t, s)
    <3>1. CASE In(loop, t)
      BY <1>3, <2>2, <2>3, <3>1
    <3>2. CASE ~In(loop, t)
      <4>1. search[t].at = "wave" /\ wave = "sleeping" /\ t \notin Preferred
        BY <1>2, <2>3, <3>2 DEF Turns
      <4>2. s \notin Preferred
        BY <2>1, <4>1 DEF Alias!SameWave
      <4> QED
        BY <1>2, <2>3, <4>1, <4>2 DEF Counts
    <3> QED
      BY <3>1, <3>2
  <2> QED
    BY <2>2, <2>3
<1>9. Pending'
  <2>1. ASSUME NEW answer, IsPending(answer)
        PROVE  /\ answer.source \in Asked /\ answer.outcome \in Outcomes
               /\ search[answer.source].tried > 0
               /\ answer.outcome = "miss" =>
                     search[answer.source].answered = search[answer.source].tried
               /\ \/ search[answer.source].at = "done"
                  \/ /\ search[answer.source].at = "pause" /\ In(loop', Collector)
                     /\ Ahead(loop', Collector, answer.source)
    BY <1>3, <2>1 DEF IsPending
  <2> QED
    BY <1>2, <2>1 DEF Pending, IsPending, Alias!Completed
<1>10. Searched'
  BY <1>2 DEF Searched
<1> QED
  BY <1>5, <1>6, <1>7, <1>8, <1>9, <1>10

LEMMA RespondKeeps ==
    ASSUME AliasLimits, AliasInv, NEW s \in Asked, Alias!Respond(s)
    PROVE  AliasInv'
<1>1. CASE collector = "reading"
  <2>1. /\ loop \in Seq(Runnable) /\ Distinct(loop) /\ s \in Runnable /\ ~In(loop, s)
        /\ loop' = Append(loop, s) /\ search[s].at = "query"
        /\ UNCHANGED <<search, gate, wave, answers, collector, status>>
    BY <1>1 DEF AliasInv, AliasTypes, Turns, Runnable, Alias!Respond, Alias!InLoop, In
  <2>2. loop' \in Seq(Runnable) /\ Joined(loop, loop', {s})
    BY <2>1, AppendOf
  <2> QED
    BY <2>1, <2>2, LoopGrows
<1>2. CASE collector # "reading"
  <2>1. s \in Runnable /\ loop' = Append(loop, s)
        /\ UNCHANGED <<search, gate, wave, answers, collector, status>>
    BY DEF Runnable, Alias!Respond
  <2>2. AliasTypes'
    BY <2>1 DEF AliasInv, AliasTypes, Gates
  <2> QED
    BY <1>2, <2>1, <2>2 DEF AliasInv, Alias!FirstAliasForAll, Alias!StatusIsTrue, Alias!SameWave
<1> QED
  BY <1>1, <1>2
LEMMA WaveKeeps ==
    ASSUME AliasLimits, AliasInv, Alias!WaveEnds
    PROVE  AliasInv'
<1> DEFINE W == {s \in Asked : search[s].at = "wave"}
<1>1. PICK waiting \in Alias!InOrder(W) : loop' = loop \o waiting
  BY DEF Alias!WaveEnds, Asked
<1>2. /\ wave = "sleeping" /\ wave' = "over"
      /\ UNCHANGED <<search, gate, answers, collector, status>>
  BY DEF Alias!WaveEnds
<1>3. waiting \in Seq(Runnable) /\ Distinct(waiting) /\ \A x : In(waiting, x) <=> x \in W
  <2> HIDE DEF W
  <2>1. W \in SUBSET Asked
    BY DEF W
  <2> QED
    BY <1>1, <2>1, OrderOf
<1>4. loop \in Seq(Runnable) /\ loop' \in Seq(Runnable)
  BY <1>1, <1>3 DEF AliasInv, AliasTypes
<1>5. CASE collector = "reading"
  <2>1. Distinct(loop) /\ \A x \in W : ~In(loop, x)
    BY <1>2, <1>5 DEF AliasInv, Turns
  <2>2. /\ Joined(loop, loop \o waiting, {x \in Runnable : In(waiting, x)})
        /\ \A x : In(loop \o waiting, x) <=> In(loop, x) \/ In(waiting, x)
    <3>1. \A x : ~(In(loop, x) /\ In(waiting, x))
      BY <1>3, <2>1
    <3> HIDE DEF W
    <3> QED
      BY <1>3, <1>4, <2>1, <3>1, Behind
  <2>3. {x \in Runnable : In(waiting, x)} = W
    BY <1>3 DEF Runnable
  <2>4. Joined(loop, loop', W) /\ \A x \in W : In(loop', x)
    BY <1>1, <1>3, <2>2, <2>3
  <2>5. W \in SUBSET Asked
    OBVIOUS
  <2> QED
    BY <1>2, <1>4, <2>4, <2>5, LoopGrows
<1>6. CASE collector # "reading"
  <2>1. AliasTypes'
    BY <1>2, <1>4 DEF AliasInv, AliasTypes, Gates
  <2> QED
    BY <1>2, <1>6, <2>1 DEF AliasInv, Alias!FirstAliasForAll, Alias!StatusIsTrue, Alias!SameWave
<1> QED
  BY <1>5, <1>6

LEMMA FinishKeeps ==
    ASSUME AliasLimits, AliasInv, Alias!Finish
    PROVE  AliasInv'
<1>1. /\ collector = "reading" /\ \A s \in Asked : search[s].at = "done"
      /\ answers' = Append(answers, Alias!Completed) /\ loop' = Alias!Woken(loop, Collector)
      /\ UNCHANGED <<search, gate, wave, collector, status>>
  BY DEF Alias!Finish, Alias!Done, Asked
<1>2. /\ Turns /\ Counts /\ Semaphore /\ Pending /\ AliasTypes
      /\ Alias!FirstAliasForAll /\ Alias!StatusIsTrue
  BY <1>1 DEF AliasInv
<1>3. /\ loop' \in Seq(Runnable) /\ Distinct(loop')
      /\ \A x : In(loop', x) => In(loop, x) \/ x = Collector
  <2>1. loop \in Seq(Runnable) /\ Distinct(loop) /\ Collector \in Runnable
    BY <1>2 DEF AliasTypes, Turns, Runnable
  <2>2. CASE In(loop, Collector)
    BY <1>1, <2>1, <2>2 DEF Alias!Woken, Alias!InLoop, In
  <2>3. CASE ~In(loop, Collector)
    <3>1. loop' = Append(loop, Collector)
      BY <1>1, <2>3 DEF Alias!Woken, Alias!InLoop, In
    <3> QED
      BY <2>1, <2>3, <3>1, AppendOf DEF Joined
  <2> QED
    BY <2>2, <2>3
<1>4. \A x : ~In(gate.waiters, x)
  <2>1. gate.waiters \in Seq(Asked)
    BY <1>2 DEF AliasTypes, Gates
  <2>2. \A x : In(gate.waiters, x) => x \in Asked
    BY <2>1 DEF In
  <2> QED
    BY <1>1, <1>2, <2>2 DEF Semaphore
<1>5. Alias!Completed \in Answers
  BY DEF Alias!Completed, Answers, Runnable
<1>6. AliasTypes'
  BY <1>1, <1>2, <1>3, <1>5 DEF AliasTypes, Gates
<1>7. Turns'
  <2>1. \A t \in Asked : ~In(loop', t) /\ search'[t].at = "done"
    BY <1>1, <1>2, <1>3 DEF Turns, AliasLimits
  <2> QED
    BY <1>3, <2>1 DEF Turns
<1>8. Counts' /\ Semaphore' /\ FirstComeFirst' /\ Searched'
  BY <1>1, <1>2, <1>4 DEF Counts, Semaphore, HandedFirst, FirstComeFirst, Searched
<1>9. Pending'
  <2>1. ASSUME NEW answer, IsPending(answer)
        PROVE  /\ answer.source \in Asked /\ answer.outcome \in Outcomes
               /\ search[answer.source].tried > 0
               /\ answer.outcome = "miss" =>
                     search[answer.source].answered = search[answer.source].tried
               /\ search[answer.source].at = "done"
    BY <1>1, <2>1 DEF IsPending
  <2>2. answers \in Seq(Answers)
    BY <1>2 DEF AliasTypes
  <2>3. \A i \in DOMAIN answers' :
            \/ answers'[i] = Alias!Completed
            \/ i \in DOMAIN answers /\ answers'[i] = answers[i]
    BY <1>1, <2>2
  <2> QED
    BY <1>1, <1>2, <2>1, <2>3 DEF Pending, IsPending, Alias!Completed
<1>10. Alias!FirstAliasForAll' /\ Alias!StatusIsTrue'
  BY <1>1, <1>2 DEF Alias!FirstAliasForAll, Alias!StatusIsTrue, Alias!SameWave
<1> QED
  BY <1>6, <1>7, <1>8, <1>9, <1>10 DEF AliasInv

\* The collector says of a site what its last answer was.
LEMMA CollectKeeps ==
    ASSUME AliasLimits, AliasInv, Alias!Collect
    PROVE  AliasInv'
<1> DEFINE last(s) == {i \in DOMAIN answers : answers[i].source = s
                          /\ \A j \in DOMAIN answers : answers[j].source = s => j <= i}
<1>1. /\ loop # <<>> /\ Head(loop) = Collector /\ collector = "reading"
      /\ status' = [s \in Asked |->
            IF last(s) = {} THEN status[s]
            ELSE Alias!StatusOf[answers[CHOOSE i \in last(s) : TRUE].outcome]]
      /\ answers' = <<>> /\ loop' = Tail(loop) /\ UNCHANGED <<search, gate, wave>>
  BY DEF Alias!Collect, Asked
<1>2. /\ Turns /\ Counts /\ Semaphore /\ FirstComeFirst /\ Pending /\ Searched /\ AliasTypes
      /\ Alias!FirstAliasForAll /\ Alias!StatusIsTrue
  BY <1>1 DEF AliasInv
<1>3. /\ loop' \in Seq(Runnable) /\ Distinct(loop')
      /\ \A x : In(loop', x) <=> In(loop, x) /\ x # Collector
      /\ \A x, y : Ahead(loop, x, y) => Ahead(loop', x, y)
  <2>1. loop \in Seq(Runnable) /\ Distinct(loop)
    BY <1>2 DEF AliasTypes, Turns
  <2> QED
    BY <1>1, <2>1, TailOf
<1>4. ASSUME NEW s \in Asked, last(s) # {}
      PROVE  /\ search[s].at # "query" /\ search[s].tried # 0
             /\ status'[s] \in {"matched", "miss", "failed"}
             /\ status'[s] = "miss" => search[s].answered = search[s].tried
  <2> DEFINE k == CHOOSE i \in last(s) : TRUE
  <2>1. k \in last(s)
    BY <1>4
  <2> HIDE DEF k
  <2>2. k \in DOMAIN answers /\ answers[k].source = s
    BY <2>1
  <2>3. answers[k] # Alias!Completed
    BY <2>2 DEF Alias!Completed, AliasLimits
  <2>4. IsPending(answers[k])
    BY <1>2, <2>2, <2>3 DEF Pending
  <2>5. /\ answers[k].outcome \in Outcomes /\ search[s].tried > 0
        /\ answers[k].outcome = "miss" => search[s].answered = search[s].tried
        /\ search[s].at \in {"done", "pause"}
    BY <2>2, <2>4 DEF IsPending
  <2>6. status'[s] = Alias!StatusOf[answers[k].outcome]
    BY <1>1, <1>4 DEF k
  <2>7. /\ Alias!StatusOf["match"] = "matched" /\ Alias!StatusOf["miss"] = "miss"
        /\ Alias!StatusOf["failure"] = "failed"
    BY DEF Alias!StatusOf
  <2>8. search[s].tried \in Nat
    BY <1>2 DEF AliasTypes, WorkerRecords
  <2> QED
    BY <2>5, <2>6, <2>7, <2>8 DEF Outcomes
<1>5. \A s \in Asked : last(s) = {} => status'[s] = status[s]
  BY <1>1
<1>6. DOMAIN status' = Asked /\ status' = [s \in Asked |-> status'[s]]
  BY <1>1
<1> HIDE DEF last
<1>7. status' \in [Asked -> {"unqueried", "searching", "matched", "miss", "failed", "timeout"}]
  BY <1>2, <1>4, <1>5, <1>6 DEF AliasTypes
<1>8. AliasTypes'
  BY <1>1, <1>2, <1>3, <1>7 DEF AliasTypes, Gates
<1>9. Alias!FirstAliasForAll' /\ Alias!StatusIsTrue'
  BY <1>1, <1>2, <1>4, <1>5 DEF Alias!FirstAliasForAll, Alias!StatusIsTrue, Alias!SameWave,
     Asked
<1>10. Turns'
  <2>1. ASSUME NEW t \in Asked
        PROVE  In(loop', t) <=> In(loop, t)
    BY <1>3 DEF AliasLimits
  <2> QED
    BY <1>1, <1>2, <1>3, <2>1 DEF Turns
<1>11. Counts'
  BY <1>1, <1>2 DEF Counts
<1>12. Semaphore'
  <2>1. ~In(gate.waiters, Collector)
    BY <1>2 DEF AliasTypes, Gates, In, AliasLimits
  <2>2. HandedFirst(loop', gate.waiters)
    BY <1>2, <1>3, <2>1 DEF Semaphore, HandedFirst
  <2> QED
    BY <1>1, <1>2, <2>2 DEF Semaphore
<1>13. FirstComeFirst'
  BY <1>1, <1>2, <1>3 DEF FirstComeFirst, Alias!SameWave
<1>14. Pending'
  BY <1>1 DEF Pending
<1>15. Searched'
  BY <1>1, <1>2, <1>4, <1>5 DEF Searched
<1> QED
  BY <1>8, <1>9, <1>10, <1>11, <1>12, <1>13, <1>14, <1>15 DEF AliasInv

LEMMA CloseKeeps ==
    ASSUME AliasLimits, AliasInv, Alias!Close \/ Alias!Closed \/ \E s \in Asked : Alias!Cancelled(s)
    PROVE  AliasInv'
<1>1. AliasTypes /\ Alias!FirstAliasForAll /\ Alias!StatusIsTrue
  BY DEF AliasInv
<1>2. CASE Alias!Close
  <2> DEFINE left == {s \in Asked : search[s].at # "done"}
  <2>1. left \in SUBSET Asked /\ loop' \in Alias!InOrder(left)
    BY <1>2 DEF Alias!Close, Asked
  <2> HIDE DEF left
  <2>2. loop' \in Seq(Runnable)
    BY <2>1, OrderOf
  <2>3. collector' = "closing" /\ UNCHANGED <<search, gate, wave, answers, status>>
    BY <1>2 DEF Alias!Close
  <2>4. AliasTypes'
    BY <1>1, <2>2, <2>3 DEF AliasTypes, Gates
  <2> QED
    BY <1>1, <2>3, <2>4 DEF AliasInv, Alias!FirstAliasForAll, Alias!StatusIsTrue, Alias!SameWave
<1>3. CASE Alias!Closed
  <2>1. /\ collector' = "closed" /\ UNCHANGED <<loop, search, gate, wave, answers>>
        /\ status' = [s \in Asked |->
              IF status[s] = "searching" THEN "timeout" ELSE status[s]]
    BY <1>3 DEF Alias!Closed, Asked
  <2>2. AliasTypes'
    BY <1>1, <2>1 DEF AliasTypes, Gates
  <2>3. \A s \in Asked : status'[s] = IF status[s] = "searching" THEN "timeout" ELSE status[s]
    BY <2>1
  <2>4. Alias!FirstAliasForAll' /\ Alias!StatusIsTrue'
    BY <1>1, <2>1, <2>3 DEF Alias!FirstAliasForAll, Alias!StatusIsTrue, Alias!SameWave, Asked
  <2> QED
    BY <2>1, <2>2, <2>4 DEF AliasInv
<1>4. CASE \E s \in Asked : Alias!Cancelled(s)
  <2>1. PICK s \in Asked : Alias!Cancelled(s)
    BY <1>4
  <2>2. /\ loop # <<>> /\ loop' = Tail(loop) /\ search' = [search EXCEPT ![s].at = "done"]
        /\ collector' = "closing" /\ UNCHANGED <<gate, wave, answers, status>>
    BY <2>1 DEF Alias!Cancelled
  <2>3. /\ search' \in [Asked -> WorkerRecords]
        /\ \A t \in Asked : search'[t].tried = search[t].tried
                            /\ search'[t].answered = search[t].answered
    BY <1>1, <2>2 DEF AliasTypes, WorkerRecords, Steps
  <2>4. AliasTypes'
    BY <1>1, <2>2, <2>3 DEF AliasTypes, Gates
  <2>5. Alias!FirstAliasForAll' /\ Alias!StatusIsTrue'
    BY <1>1, <2>2, <2>3 DEF Alias!FirstAliasForAll, Alias!StatusIsTrue, Alias!SameWave, Asked
  <2> QED
    BY <2>2, <2>4, <2>5 DEF AliasInv
<1> QED
  BY <1>2, <1>3, <1>4

LEMMA AliasKeeps ==
    ASSUME AliasLimits, AliasInv, [Alias!Next]_(Alias!vars)
    PROVE  AliasInv'
<1>1. ASSUME NEW s \in Asked, Alias!Work(s)
      PROVE  AliasInv'
  BY <1>1, WorkRan, RanKeeps, CloseKeeps DEF Alias!Work
<1>2. ASSUME NEW s \in Asked, Alias!Respond(s)
      PROVE  AliasInv'
  BY <1>2, RespondKeeps
<1>3. CASE UNCHANGED Alias!vars
  <2>1. UNCHANGED <<loop, search, gate, wave, answers, collector, status>>
    BY <1>3 DEF Alias!vars
  <2> QED
    BY <2>1 DEF AliasInv, AliasTypes, Gates, Alias!FirstAliasForAll, Alias!StatusIsTrue,
       Alias!SameWave, Turns, Counts, Semaphore, FirstComeFirst, Pending, IsPending, Searched,
       Alias!Completed
<1> QED
  BY <1>1, <1>2, <1>3, WaveKeeps, FinishKeeps, CollectKeeps, CloseKeeps
     DEF Alias!Next, Alias!Run, Asked
-----------------------------------------------------------------------------
(***************************************************************************)
(* Both scans                                                              *)
(***************************************************************************)
LEMMA ScansHold ==
    ASSUME QuickLimits, AliasLimits
    PROVE  AllParts => [](LoopInv /\ AliasInv)
<1>1. Start => LoopInv /\ AliasInv
  BY LoopInit, AliasInit DEF Start
<1>2. LoopInv /\ AliasInv /\ [Step]_<<part, vars, otherVars>> => LoopInv' /\ AliasInv'
  BY StepOfPart, QuickKeepsLoop, AliasKeeps
<1> QED
  BY <1>1, <1>2, PTL DEF AllParts

\* What the scans of the server say of a site is true of its queries, no site is
\* asked twice before the others of its wave have been asked once, and the loop
\* of a quick scan neither sleeps for ever nor ends early (strategy.py,
\* aggregator.py, playback.py), for any sites, names, budget and limits.
THEOREM ScansCorrect == AllParts => []ScansAreTrue
<1>1. QuickLimits /\ AliasLimits
  BY ScanAssumption DEF QuickLimits, AliasLimits, Asked, Alias!AllSources, Alias!ToSet, Distinct
<1>2. LoopInv /\ AliasInv => ScansAreTrue
  BY <1>1, LoopIsTrue DEF ScansAreTrue, AliasInv
<1>3. AllParts => [](LoopInv /\ AliasInv)
  BY <1>1, ScansHold
<1> QED
  BY <1>2, <1>3, PTL
=============================================================================
