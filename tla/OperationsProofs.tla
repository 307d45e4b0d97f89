-------------------------- MODULE OperationsProofs --------------------------
(***************************************************************************)
(* Theorems about MCOperations, the sum of what the server does for one    *)
(* request or one command.                                                 *)
(***************************************************************************)
EXTENDS MCOperations, FiniteSetTheorems, WellFoundedInduction, TLAPS

-----------------------------------------------------------------------------
(***************************************************************************)
(* Starting and stopping the server                                        *)
(***************************************************************************)
L == Len(Loops)
States == {"none", "asleep", "working", "cancelled", "ended"}
Over == {"none", "ended"}

ProcessTypes ==
    /\ program \in {"down", "starting", "serving", "stopping", "failed"}
    /\ stage \in 1..(L + 7)
    /\ task \in [Process!Tasks -> States]
    /\ open \subseteq Process!Services

\* What is closed when, and what is over by then.
Closing ==
    /\ "scrapers" \in open <=> stage <= L + 2
    /\ "playback" \in open => stage <= L + 3
    /\ "playback" \notin open => stage >= L + 3 /\ task["refresh"] \in Over \cup {"cancelled"}
    /\ "aggregator" \in open <=> stage <= L + 4
    /\ "catalog" \in open <=> stage <= L + 5
    /\ "resolver" \in open <=> stage <= L + 6
    /\ stage > 1 => task["outbox"] \in Over
    /\ \A i \in 1..L : stage > i + 1 => task[Loops[i]] \in Over
    /\ stage > L + 3 => task["refresh"] \in Over
    /\ stage > L + 5 => task["home"] \in Over

ProcessInv ==
    /\ ProcessTypes
    /\ task["refresh"] # "asleep" /\ task["home"] # "asleep"
    /\ program \in {"down", "starting", "failed"} => \A t \in Process!Tasks : task[t] = "none"
    /\ program # "stopping" => open = Process!Services /\ stage = 1
    /\ program = "stopping" => Closing

LEMMA Joined ==
    ASSUME NEW T, NEW p \in Seq(T), NEW q \in Seq(T)
    PROVE  /\ Len(p \o q) = Len(p) + Len(q)
           /\ \A i \in 1..Len(p) : (p \o q)[i] = p[i]
           /\ \A i \in 1..Len(q) : (p \o q)[Len(p) + i] = q[i]
OBVIOUS

LEMMA TheStages ==
    /\ L \in Nat /\ Loops \in [1..L -> Process!LoopSet]
    /\ Len(Process!Shutdown) = L + 6
    /\ Process!Shutdown[1] = "outbox"
    /\ \A i \in 1..L : Process!Shutdown[i + 1] = Loops[i]
    /\ Process!Shutdown[L + 2] = "scrapers" /\ Process!Shutdown[L + 3] = "playback"
    /\ Process!Shutdown[L + 4] = "aggregator" /\ Process!Shutdown[L + 5] = "catalog"
    /\ Process!Shutdown[L + 6] = "resolver"
<1>1. L \in Nat /\ Loops \in [1..L -> Process!LoopSet] /\ Loops \in Seq(Process!LoopSet)
  BY LoopAssumption DEF L
<1> DEFINE rest == <<"scrapers", "playback", "aggregator", "catalog", "resolver">>
           T == Process!LoopSet \cup {"outbox", "scrapers", "playback", "aggregator", "catalog", "resolver"}
<1>2. /\ <<"outbox">> \o Loops \in Seq(T) /\ Len(<<"outbox">> \o Loops) = L + 1
      /\ (<<"outbox">> \o Loops)[1] = "outbox"
      /\ \A i \in 1..L : (<<"outbox">> \o Loops)[i + 1] = Loops[i]
  BY <1>1 DEF L
<1>3. /\ rest \in Seq(T) /\ Len(rest) = 5
      /\ rest[1] = "scrapers" /\ rest[2] = "playback" /\ rest[3] = "aggregator"
      /\ rest[4] = "catalog" /\ rest[5] = "resolver"
  OBVIOUS
<1>4. Process!Shutdown = (<<"outbox">> \o Loops) \o rest
  BY DEF Process!Shutdown
<1> DEFINE first == <<"outbox">> \o Loops
<1>5. first \in Seq(T) /\ Len(first) = L + 1 /\ L \in Nat /\ Process!Shutdown = first \o rest
  BY <1>1, <1>2, <1>4
<1> HIDE DEF rest, first, T, L
<1>s. /\ Len(first \o rest) = Len(first) + Len(rest)
      /\ \A i \in 1..Len(first) : (first \o rest)[i] = first[i]
      /\ \A i \in 1..Len(rest) : (first \o rest)[Len(first) + i] = rest[i]
  <2>1. first \in Seq(T) /\ rest \in Seq(T)
    BY <1>5, <1>3
  <2> QED
    BY ONLY <2>1, Joined
<1>6. /\ Len(Process!Shutdown) = L + 6
      /\ \A i \in 1..(L + 1) : Process!Shutdown[i] = (<<"outbox">> \o Loops)[i]
      /\ \A i \in 1..5 : Process!Shutdown[L + 1 + i] = rest[i]
  <2>1. Len(first) = L + 1 /\ Len(rest) = 5 /\ L \in Nat /\ Process!Shutdown = first \o rest
    BY <1>5, <1>3
  <2>2. /\ Len(Process!Shutdown) = L + 1 + 5
        /\ \A i \in 1..(L + 1) : Process!Shutdown[i] = first[i]
        /\ \A i \in 1..5 : Process!Shutdown[L + 1 + i] = rest[i]
    BY <2>1, <1>s
  <2> QED
    BY <2>1, <2>2 DEF first
<1>7. /\ Process!Shutdown[L + 1 + 1] = rest[1] /\ Process!Shutdown[L + 1 + 2] = rest[2]
      /\ Process!Shutdown[L + 1 + 3] = rest[3] /\ Process!Shutdown[L + 1 + 4] = rest[4]
      /\ Process!Shutdown[L + 1 + 5] = rest[5]
  BY <1>6
<1>8. /\ L + 1 + 1 = L + 2 /\ L + 1 + 2 = L + 3 /\ L + 1 + 3 = L + 4 /\ L + 1 + 4 = L + 5
      /\ L + 1 + 5 = L + 6
  BY <1>1
<1>9. Process!Shutdown[1] = "outbox" /\ \A i \in 1..L : Process!Shutdown[i + 1] = Loops[i]
  BY <1>1, <1>2, <1>6
<1> QED
  BY <1>1, <1>3, <1>6, <1>7, <1>8, <1>9
LEMMA ProcessNames ==
    /\ {"refresh", "home", "outbox"} \subseteq Process!Tasks
    /\ \A i \in 1..L : Loops[i] \in Process!Tasks /\ Loops[i] \in Process!LoopSet
    /\ \A t \in Process!Tasks :
          t \in {"refresh", "home", "outbox"} \/ \E i \in 1..L : t = Loops[i]
    /\ \A t \in Process!LoopSet :
          t \notin Process!Services /\ t \notin {"refresh", "home", "outbox"}
BY TheStages, LoopAssumption DEF Process!Tasks, Process!Detached, Process!LoopSet, L

LEMMA ProcessInit == Process!Init => ProcessInv
BY TheStages, ProcessNames DEF Process!Init, ProcessInv, ProcessTypes, States

\* Before the shutdown has come far enough, or when the task is over.
LEMMA UsesOpen ==
    ASSUME ProcessInv, NEW t \in Process!Tasks, task[t] = "working"
    PROVE  Process!Uses(t) \subseteq open
<1>1. CASE program # "stopping"
  BY <1>1 DEF ProcessInv, Process!Uses, Process!Services
<1>2. CASE program = "stopping"
  <2>1. Closing /\ stage \in Nat /\ L \in Nat
    BY <1>2, TheStages DEF ProcessInv, ProcessTypes
  <2>2. CASE t = "outbox"
    BY <2>2 DEF Process!Uses
  <2>3. CASE t = "home"
    BY <2>1, <2>3 DEF Process!Uses, Closing, Over
  <2>4. CASE t = "refresh"
    <3>1. "playback" \in open
      BY <2>1, <2>4 DEF Closing, Over
    <3>2. stage <= L + 3
      BY <2>1, <3>1 DEF Closing
    <3> QED
      BY <2>1, <2>4, <3>2 DEF Process!Uses, Closing
  <2>5. ASSUME NEW i \in 1..L, t = Loops[i]
        PROVE  Process!Uses(t) \subseteq open
    <3>1. ~(stage > i + 1)
      BY <2>1, <2>5 DEF Closing, Over
    <3>2. stage <= L + 1
      BY <3>1, <2>1
    <3>3. {"scrapers", "playback", "aggregator", "catalog", "resolver"} \subseteq open
      BY <3>2, <2>1 DEF Closing
    <3> QED
      BY <3>3 DEF Process!Uses
  <2> QED
    BY <2>2, <2>3, <2>4, <2>5, ProcessNames
<1> QED
  BY <1>1, <1>2
LEMMA ProcessStart ==
    ASSUME ProcessInv, Process!InitDb \/ Process!StartTasks \/ Process!Stop
    PROVE  ProcessInv'
<1>1. CASE Process!InitDb
  BY <1>1 DEF Process!InitDb, ProcessInv, ProcessTypes
<1>2. CASE Process!StartTasks
  BY <1>2, ProcessNames
  DEF Process!StartTasks, Process!Begun, Process!Detached, ProcessInv, ProcessTypes, States
<1>3. CASE Process!Stop
  BY <1>3, TheStages DEF Process!Stop, ProcessInv, ProcessTypes, Closing, Process!Services
<1> QED
  BY <1>1, <1>2, <1>3

LEMMA ProcessTask ==
    ASSUME ProcessInv, NEW t \in Process!Tasks,
           Process!Wake(t) \/ Process!Pause(t) \/ Process!Unwind(t)
    PROVE  ProcessInv'
<1>1. /\ UNCHANGED <<program, stage, open>>
      /\ task[t] \in {"asleep", "working", "cancelled"}
      /\ \E s \in {"working", "ended", "asleep"} :
            /\ task' = [task EXCEPT ![t] = s]
            /\ s = "asleep" => t \notin Process!Detached
            /\ s = "working" => task[t] = "asleep"
  BY DEF Process!Wake, Process!Pause, Process!Unwind, Process!Becomes
<1>2. PICK s \in {"working", "ended", "asleep"} :
         /\ task' = [task EXCEPT ![t] = s]
         /\ s = "asleep" => t \notin Process!Detached
         /\ s = "working" => task[t] = "asleep"
  BY <1>1
<1>3. /\ task' \in [Process!Tasks -> States]
      /\ \A u \in Process!Tasks : task'[u] = IF u = t THEN s ELSE task[u]
  BY <1>2 DEF ProcessInv, ProcessTypes, States
<1>4. task[t] \notin Over /\ task[t] # "none"
  BY <1>1 DEF Over
<1>5. task'["refresh"] # "asleep" /\ task'["home"] # "asleep"
  BY <1>2, <1>3, ProcessNames DEF ProcessInv, Process!Detached
<1>6. program = "stopping" => Closing'
  <2> SUFFICES ASSUME program = "stopping" PROVE Closing'
    OBVIOUS
  <2>1. Closing
    BY DEF ProcessInv
  <2>2. \A u \in Process!Tasks : task[u] \in Over => task'[u] \in Over
    BY <1>3, <1>4
  <2>3. task["refresh"] \in Over \cup {"cancelled"} => task'["refresh"] \in Over \cup {"cancelled"}
    BY <1>1, <1>2, <1>3, <2>2, ProcessNames DEF Over, Process!Detached
  <2> QED
    BY <1>1, <2>1, <2>2, <2>3, ProcessNames DEF Closing
<1> QED
  BY <1>1, <1>3, <1>4, <1>5, <1>6 DEF ProcessInv, ProcessTypes

LEMMA ProcessDetached ==
    ASSUME ProcessInv, Process!StartDetached("refresh", "playback")
                         \/ Process!StartDetached("home", "catalog")
    PROVE  ProcessInv'
<1>1. /\ UNCHANGED <<program, stage, open>>
      /\ \E t \in {"refresh", "home"} :
            /\ task' = [task EXCEPT ![t] = "working"]
            /\ t = "refresh" => "playback" \in open
            /\ t = "home" => "catalog" \in open
      /\ \/ program = "serving"
         \/ \E l \in Process!LoopSet : task[l] = "working"
  BY DEF Process!StartDetached, Process!Becomes
<1>2. PICK t \in {"refresh", "home"} :
         /\ task' = [task EXCEPT ![t] = "working"]
         /\ t = "refresh" => "playback" \in open
         /\ t = "home" => "catalog" \in open
  BY <1>1
<1>3. /\ task' \in [Process!Tasks -> States]
      /\ \A u \in Process!Tasks : task'[u] = IF u = t THEN "working" ELSE task[u]
  BY <1>2, ProcessNames DEF ProcessInv, ProcessTypes, States
<1>4. program \notin {"down", "starting", "failed"}
  BY <1>1 DEF ProcessInv, Process!Tasks
<1>5. program = "stopping" => Closing'
  <2> SUFFICES ASSUME program = "stopping" PROVE Closing'
    OBVIOUS
  <2>1. Closing /\ stage \in Nat /\ L \in Nat
    BY TheStages DEF ProcessInv, ProcessTypes
  <2>2. task'["outbox"] = task["outbox"] /\ \A i \in 1..L : task'[Loops[i]] = task[Loops[i]]
    BY <1>3, ProcessNames
  <2>3. t = "refresh" => task'["home"] = task["home"] /\ stage <= L + 3
    BY <1>2, <1>3, <2>1, ProcessNames DEF Closing
  <2>4. t = "home" => task'["refresh"] = task["refresh"] /\ stage <= L + 5
    BY <1>2, <1>3, <2>1, ProcessNames DEF Closing
  <2>5. \/ t = "refresh" /\ "playback" \in open
        \/ t = "home"
    BY <1>2
  <2> QED
    BY <1>1, <2>1, <2>2, <2>3, <2>4, <2>5 DEF Closing
<1> QED
  BY <1>1, <1>2, <1>3, <1>4, <1>5, ProcessNames DEF ProcessInv, ProcessTypes
LEMMA OfAStage ==
    ASSUME Process!Stopping, ProcessInv
    PROVE  /\ stage \in 1..(L + 6)
           /\ stage = 1 => Process!OfStage = {"outbox"}
           /\ \A i \in 1..L : stage = i + 1 => Process!OfStage = {Loops[i]}
           /\ stage = L + 2 => Process!Stage = "scrapers" /\ Process!OfStage = {}
           /\ stage = L + 3 => Process!Stage = "playback" /\ Process!OfStage = {"refresh"}
           /\ stage = L + 4 => Process!Stage = "aggregator" /\ Process!OfStage = {}
           /\ stage = L + 5 => Process!Stage = "catalog" /\ Process!OfStage = {"home"}
           /\ stage = L + 6 => Process!Stage = "resolver" /\ Process!OfStage = {}
           /\ stage <= L + 1 => Process!Stage \notin Process!Services
<1>1. stage \in 1..(L + 6) /\ L \in Nat
  BY TheStages DEF Process!Stopping, ProcessInv, ProcessTypes
<1>2. \A s \in {"scrapers", "playback", "aggregator", "catalog", "resolver"} : s \notin Process!Tasks
  BY ProcessNames DEF Process!Services, Process!Tasks, Process!Detached
<1>3. stage = 1 => Process!Stage = "outbox" /\ Process!OfStage = {"outbox"}
  BY TheStages, ProcessNames DEF Process!Stage, Process!OfStage
<1>4. ASSUME NEW i \in 1..L, stage = i + 1
      PROVE  Process!Stage = Loops[i] /\ Process!OfStage = {Loops[i]}
  <2>1. Process!Stage = Loops[i]
    BY <1>4, TheStages DEF Process!Stage
  <2>2. Loops[i] \in Process!Tasks /\ Loops[i] # "playback" /\ Loops[i] # "catalog"
    BY ProcessNames DEF Process!Services
  <2> QED
    BY <2>1, <2>2 DEF Process!OfStage
<1>5. stage <= L + 1 => stage = 1 \/ \E i \in 1..L : stage = i + 1
  <2>1. stage <= L + 1 /\ stage # 1 => stage - 1 \in 1..L /\ stage = (stage - 1) + 1
    BY <1>1
  <2> QED
    BY <2>1
<1>6. stage <= L + 1 => Process!Stage \notin Process!Services
  BY <1>3, <1>4, <1>5, ProcessNames DEF Process!Services
<1>7. /\ stage = L + 2 => Process!Stage = "scrapers"
      /\ stage = L + 3 => Process!Stage = "playback"
      /\ stage = L + 4 => Process!Stage = "aggregator"
      /\ stage = L + 5 => Process!Stage = "catalog"
      /\ stage = L + 6 => Process!Stage = "resolver"
  BY TheStages DEF Process!Stage
<1>8. /\ Process!Stage = "scrapers" => Process!OfStage = {}
      /\ Process!Stage = "playback" => Process!OfStage = {"refresh"}
      /\ Process!Stage = "aggregator" => Process!OfStage = {}
      /\ Process!Stage = "catalog" => Process!OfStage = {"home"}
      /\ Process!Stage = "resolver" => Process!OfStage = {}
  BY <1>2 DEF Process!OfStage
<1> QED
  BY <1>1, <1>3, <1>4, <1>6, <1>7, <1>8

\* The stage that a shutdown is at.
LEMMA StageCases ==
    ASSUME Process!Stopping, ProcessInv
    PROVE  stage <= L + 1 \/ stage \in {L + 2, L + 3, L + 4, L + 5, L + 6}
BY OfAStage, TheStages

LEMMA ProcessCancel ==
    ASSUME ProcessInv, Process!Cancel
    PROVE  ProcessInv'
<1> DEFINE gone == {t \in Process!OfStage : Process!Alive(t)}
<1>1. /\ Process!Stopping /\ program = "stopping" /\ UNCHANGED <<program, stage>>
      /\ open' = open \ ({Process!Stage} \cap {"playback"})
      /\ task' = [t \in Process!Tasks |-> IF t \in gone THEN "cancelled" ELSE task[t]]
  BY DEF Process!Cancel, Process!Stopping
<1>2. /\ task' \in [Process!Tasks -> States]
      /\ \A t \in Process!Tasks : task[t] \in Over => task'[t] \in Over
      /\ \A t \in Process!Tasks : task'[t] = task[t] \/ task'[t] = "cancelled"
  BY <1>1 DEF ProcessInv, ProcessTypes, States, Over, Process!Alive
<1>3. Closing /\ stage \in 1..(L + 6) /\ L \in Nat
  BY <1>1, OfAStage, TheStages DEF ProcessInv
<1>4. \/ open' = open
      \/ stage = L + 3 /\ open' = open \ {"playback"}
  <2>1. Process!Stage = "playback" => stage = L + 3
    <3>1. stage <= L + 1 => Process!Stage # "playback"
      BY <1>1, OfAStage DEF Process!Services
    <3> QED
      BY <1>1, <3>1, StageCases, OfAStage
  <2>2. CASE Process!Stage = "playback"
    BY <1>1, <2>1, <2>2
  <2>3. CASE Process!Stage # "playback"
    <3>1. open \ ({Process!Stage} \cap {"playback"}) = open
      BY <2>3
    <3> QED
      BY <1>1, <3>1
  <2> QED
    BY <2>2, <2>3
<1>5. "playback" \notin open' => task'["refresh"] \in Over \cup {"cancelled"}
  <2>1. CASE "playback" \notin open
    BY <1>2, <1>3, <2>1, ProcessNames DEF Closing, Over
  <2>2. CASE "playback" \in open /\ "playback" \notin open'
    <3>1. Process!OfStage = {"refresh"}
      BY <1>1, <1>4, <2>2, OfAStage
    <3>2. task["refresh"] \in Over \/ "refresh" \in gone
      BY <3>1, ProcessNames DEF ProcessInv, ProcessTypes, States, Over, Process!Alive
    <3> QED
      BY <1>1, <1>2, <3>2, ProcessNames
  <2> QED
    BY <2>1, <2>2
<1>6. Closing'
  BY <1>1, <1>2, <1>3, <1>4, <1>5, ProcessNames DEF Closing
<1> QED
  BY <1>1, <1>2, <1>4, <1>6, ProcessNames DEF ProcessInv, ProcessTypes

LEMMA ProcessNextStage ==
    ASSUME ProcessInv, Process!NextStage
    PROVE  ProcessInv'
<1>1. /\ Process!Stopping /\ program = "stopping" /\ UNCHANGED <<program, task>>
      /\ stage' = stage + 1 /\ open' = open \ {Process!Stage}
      /\ \A t \in Process!OfStage : ~Process!Alive(t)
  BY DEF Process!NextStage, Process!Stopping
<1>2. Closing /\ stage \in 1..(L + 6) /\ L \in Nat /\ open \subseteq Process!Services
  BY <1>1, OfAStage, TheStages DEF ProcessInv, ProcessTypes
<1>3. \A t \in Process!Tasks : t \in Process!OfStage => task[t] \in Over
  BY <1>1 DEF ProcessInv, ProcessTypes, States, Over, Process!Alive
<1>4. /\ stage = 1 => task["outbox"] \in Over
      /\ \A i \in 1..L : stage = i + 1 => task[Loops[i]] \in Over
      /\ stage = L + 3 => task["refresh"] \in Over
      /\ stage = L + 5 => task["home"] \in Over
  BY <1>1, <1>3, OfAStage, ProcessNames
<1>5. /\ stage' > 1 => task["outbox"] \in Over
      /\ \A i \in 1..L : stage' > i + 1 => task[Loops[i]] \in Over
      /\ stage' > L + 3 => task["refresh"] \in Over
      /\ stage' > L + 5 => task["home"] \in Over
  <2>1. \A n \in Nat : stage' > n => stage > n \/ stage = n
    BY <1>1, <1>2
  <2>2. \A i \in 1..L : stage' > i + 1 => stage > i + 1 \/ stage = i + 1
    BY <1>2, <2>1
  <2> QED
    BY <1>2, <1>4, <2>1, <2>2 DEF Closing
<1>6. /\ "scrapers" \in open' <=> stage' <= L + 2
      /\ "playback" \in open' => stage' <= L + 3
      /\ "playback" \notin open' =>
            stage' >= L + 3 /\ task'["refresh"] \in Over \cup {"cancelled"}
      /\ "aggregator" \in open' <=> stage' <= L + 4
      /\ "catalog" \in open' <=> stage' <= L + 5
      /\ "resolver" \in open' <=> stage' <= L + 6
  <2>1. CASE stage <= L + 1
    <3>1. Process!Stage \notin Process!Services /\ open' = open
      BY <1>1, <1>2, <2>1, OfAStage
    <3> QED
      BY <1>1, <1>2, <2>1, <3>1 DEF Closing
  <2>2. CASE stage \in {L + 2, L + 3, L + 4, L + 5, L + 6}
    BY <1>1, <1>2, <1>4, <2>2, OfAStage DEF Closing
  <2> QED
    BY <1>1, <2>1, <2>2, StageCases
<1>7. Closing'
  BY <1>1, <1>5, <1>6 DEF Closing
<1> QED
  BY <1>1, <1>2, <1>7 DEF ProcessInv, ProcessTypes

LEMMA ProcessExit ==
    ASSUME ProcessInv, Process!Exit
    PROVE  ProcessInv'
BY ProcessNames, TheStages DEF Process!Exit, ProcessInv, ProcessTypes, States

LEMMA ProcessKeeps == ProcessInv /\ [Process!Next]_processVars => ProcessInv'
<1>1. ASSUME ProcessInv, UNCHANGED processVars
      PROVE  ProcessInv'
  BY <1>1 DEF processVars, ProcessInv, ProcessTypes, Closing
<1> QED
  BY <1>1, ProcessStart, ProcessTask, ProcessDetached, ProcessCancel, ProcessNextStage,
     ProcessExit DEF Process!Next

\* In the shutdown each task is over when the services it uses are closed, and all
\* are over at its end (main.py, lifespan; scheduler.py, stop).
THEOREM ShutdownCorrect == AllParts => []ShutdownHolds
<1>1. Start => ProcessInv
  BY ProcessInit DEF Start
<1>2. [Step]_Everything => [Process!Next]_processVars
  BY DEF Step, Still, Everything
<1>3. ProcessInv => ShutdownHolds
  <2> SUFFICES ASSUME ProcessInv
               PROVE  Process!Stopping \/ program = "serving"
                        \/ \A t \in Process!Tasks : ~Process!Alive(t)
    BY UsesOpen DEF ShutdownHolds, Process!NothingOutlivesItsServices
  <2>1. program \in {"down", "starting", "failed"} => \A t \in Process!Tasks : ~Process!Alive(t)
    BY DEF ProcessInv, Process!Alive
  <2>2. ASSUME program = "stopping", ~Process!Stopping, NEW t \in Process!Tasks
        PROVE  ~Process!Alive(t)
    <3>1. Closing /\ stage > L + 6 /\ L \in Nat /\ stage \in Nat
      BY <2>2, TheStages DEF ProcessInv, ProcessTypes, Process!Stopping
    <3>2. /\ task["outbox"] \in Over /\ task["refresh"] \in Over /\ task["home"] \in Over
          /\ \A i \in 1..L : task[Loops[i]] \in Over
      BY <3>1 DEF Closing
    <3> QED
      BY <3>2, ProcessNames DEF Process!Alive, Over
  <2> QED
    BY <2>1, <2>2 DEF ProcessInv, ProcessTypes
<1> QED
  BY <1>1, <1>2, <1>3, ProcessKeeps, PTL DEF AllParts

-----------------------------------------------------------------------------
(***************************************************************************)
(* The catalog                                                             *)
(***************************************************************************)
Refreshing(f) == [step |-> f.step, begun |-> f.begun, write |-> f.write]

\* There is one refresh at a time, `current`, and no title has a rank that is
\* newer than its beginning.
RankingInv ==
    /\ now \in Nat /\ \A t \in Titles : row[t].ranked \in Int /\ row[t].ranked <= now
    /\ DOMAIN refresh = Refreshes
    /\ \A r \in Refreshes : refresh[r] = Refreshing(refresh[r])
    /\ \A r \in Refreshes : refresh[r].step # "none" =>
          /\ r = current
          /\ refresh[r].begun \in Nat /\ refresh[r].begun <= now
          /\ \A t \in Titles : row[t].ranked <= refresh[r].begun

LEMMA RankingInit == Catalogue!Init => RankingInv
<1> SUFFICES ASSUME Catalogue!Init
             PROVE  RankingInv
  OBVIOUS
<1>1. now \in Nat /\ Catalogue!Beginning \in Int /\ now = Catalogue!Beginning /\ now = Stale + 1
  BY CatalogAssumption DEF Catalogue!Init, Catalogue!Beginning
<1>2. \A t \in Titles : row[t].ranked \in Int /\ row[t].ranked <= now
  <2> SUFFICES ASSUME NEW t \in Titles
               PROVE  row[t].ranked \in Int /\ row[t].ranked <= now
    OBVIOUS
  <2>1. row[t] = Catalogue!NoRow \/ row[t] = Catalogue!Earlier
    BY DEF Catalogue!Init
  <2>2. row[t].ranked = 0 \/ row[t].ranked = Catalogue!Beginning - Stale
    BY <2>1 DEF Catalogue!NoRow, Catalogue!Earlier
  <2> QED
    BY <2>2, <1>1, CatalogAssumption
<1>3. DOMAIN refresh = Refreshes /\ \A r \in Refreshes : refresh[r] = Catalogue!NoRefresh
  BY DEF Catalogue!Init
<1> QED
  BY <1>1, <1>2, <1>3 DEF RankingInv, Refreshing, Catalogue!NoRefresh

\* A row that is stored keeps its rank, or has the one that is given.
LEMMA StoredRanks ==
    ASSUME NEW w, NEW detail, NEW rank, NEW t \in Titles
    PROVE  \/ Catalogue!Stored(w, detail, rank)[t].ranked = row[t].ranked
           \/ /\ t \in w.items /\ rank > 0
              /\ Catalogue!Stored(w, detail, rank)[t].ranked = rank
<1> DEFINE old == w.old
           entry(before) == [known |-> TRUE, complete |-> detail, updated |-> w.stamp,
                             ranked |-> IF rank > 0 THEN rank ELSE before.ranked]
           updated == [column \in DOMAIN entry(old) |->
                          IF entry(old)[column] # old[column] THEN entry(old)[column]
                                                              ELSE row[t][column]]
<1>1. \/ t \notin w.items /\ Catalogue!Stored(w, detail, rank)[t] = row[t]
      \/ t \in w.items /\ Catalogue!Stored(w, detail, rank)[t] = updated
      \/ t \in w.items /\ Catalogue!Stored(w, detail, rank)[t] = entry(row[t])
  <2>1. \A b : Catalogue!Entry(b, detail, w.stamp, rank) = entry(b)
    BY DEF Catalogue!Entry
  <2>2. Catalogue!Updated(row[t], old, entry(old)) = updated
    BY DEF Catalogue!Updated
  <2> HIDE DEF updated, entry
  <2>3. Catalogue!Stored(w, detail, rank)[t] =
           CASE t \notin w.items -> row[t]
             [] t \in w.items /\ t = w.first -> Catalogue!Updated(row[t], old, entry(old))
             [] OTHER -> entry(row[t])
    BY <2>1 DEF Catalogue!Stored
  <2> QED
    BY <2>2, <2>3
<1>2. entry(row[t]).ranked = IF rank > 0 THEN rank ELSE row[t].ranked
  OBVIOUS
<1>3. \/ updated.ranked = row[t].ranked
      \/ rank > 0 /\ updated.ranked = rank
  <2>1. entry(old).ranked = IF rank > 0 THEN rank ELSE old.ranked
    OBVIOUS
  <2>2. "ranked" \in DOMAIN entry(old)
    OBVIOUS
  <2> HIDE DEF entry
  <2>3. updated["ranked"] = IF entry(old)["ranked"] # old["ranked"] THEN entry(old)["ranked"]
                                                                    ELSE row[t]["ranked"]
    BY <2>2
  <2> QED
    BY <2>1, <2>3
<1> HIDE DEF updated, entry
<1> QED
  BY <1>1, <1>2, <1>3

\* A refresh begins when there is none.
LEMMA RankingBegins ==
    ASSUME RankingInv, NEW c \in Readers, Catalogue!Home(c)
    PROVE  RankingInv' /\ UNCHANGED row
<1>1. UNCHANGED <<now, row, closed>>
  BY DEF Catalogue!Home
<1>2. CASE UNCHANGED <<refresh, current>>
  BY <1>1, <1>2 DEF RankingInv
<1>3. ASSUME current = Nobody, NEW r, Catalogue!Begin(r)
      PROVE  RankingInv'
  <2>1. \A q \in Refreshes : refresh[q].step = "none"
    BY <1>3, CatalogAssumption DEF RankingInv
  <2>2. /\ current' = r
        /\ refresh' = [refresh EXCEPT ![r] = [Catalogue!NoRefresh EXCEPT !.step = "asking",
                                                                         !.begun = now]]
    BY <1>3 DEF Catalogue!Begin
  <2>3. ASSUME NEW q \in Refreshes
        PROVE  \/ q # r /\ refresh'[q] = refresh[q]
               \/ q = r /\ refresh'[q] = [step |-> "asking", begun |-> now,
                                          write |-> Catalogue!NoWrite]
    BY <2>2 DEF RankingInv, Catalogue!NoRefresh
  <2>4. now \in Nat /\ \A t \in Titles : row[t].ranked \in Int /\ row[t].ranked <= now
    BY DEF RankingInv
  <2>5. DOMAIN refresh' = Refreshes
    BY <2>2 DEF RankingInv
  <2>6. \A q \in Refreshes : refresh'[q] = Refreshing(refresh'[q])
    BY <2>3 DEF RankingInv, Refreshing
  <2>7. \A q \in Refreshes :
           refresh'[q].step # "none" => q = current' /\ refresh'[q].begun = now
    BY <2>1, <2>2, <2>3
  <2> QED
    BY <1>1, <2>4, <2>5, <2>6, <2>7 DEF RankingInv
<1> QED
  BY <1>1, <1>2, <1>3 DEF Catalogue!Home, Catalogue!Ensure

LEMMA RankingKeeps ==
    ASSUME RankingInv, [Catalogue!Next]_catalogueVars
    PROVE  /\ RankingInv'
           /\ \A t \in Titles :
                \/ row'[t].ranked = row[t].ranked
                \/ /\ row'[t].ranked > row[t].ranked
                   /\ \E r \in Refreshes :
                         t \in refresh[r].write.items /\ row'[t].ranked = refresh[r].begun
<1> USE DEF RankingInv, Refreshing
<1>1. CASE UNCHANGED catalogueVars
  BY <1>1 DEF catalogueVars
<1>2. CASE Catalogue!Tick
  BY <1>2 DEF Catalogue!Tick
<1>3. CASE Catalogue!Close
  <2>1. \A r \in Refreshes : refresh'[r] = Catalogue!NoRefresh
    BY <1>3 DEF Catalogue!Close
  <2> QED
    BY <1>3, <2>1 DEF Catalogue!Close, Catalogue!NoRefresh
<1>4. ASSUME NEW r \in Refreshes, Catalogue!Gather(r) \/ Catalogue!StoresNothing(r)
      PROVE  RankingInv' /\ UNCHANGED row
  <2>1. /\ UNCHANGED <<now, row, current>> /\ refresh[r].step # "none"
        /\ \/ refresh' = [refresh EXCEPT ![r].step = "done"]
           \/ \E w : refresh' = [refresh EXCEPT ![r].step = "storing", ![r].write = w]
    BY <1>4 DEF Catalogue!Gather, Catalogue!StoresNothing
  <2>2. DOMAIN refresh' = Refreshes
    BY <2>1
  <2>3. \A q \in Refreshes : /\ refresh'[q] = Refreshing(refresh'[q])
                             /\ refresh'[q].begun = refresh[q].begun
                             /\ q # r => refresh'[q] = refresh[q]
    BY <2>1
  <2> QED
    BY <2>1, <2>2, <2>3
<1>5. ASSUME NEW r \in Refreshes, Catalogue!StoreRanked(r)
      PROVE  /\ RankingInv'
             /\ \A t \in Titles :
                  \/ row'[t].ranked = row[t].ranked
                  \/ /\ row'[t].ranked > row[t].ranked
                     /\ t \in refresh[r].write.items /\ row'[t].ranked = refresh[r].begun
  <2>1. /\ UNCHANGED <<now, current>> /\ refresh[r].step = "storing"
        /\ row' = Catalogue!Stored(refresh[r].write, FALSE, refresh[r].begun)
        /\ refresh' = [refresh EXCEPT ![r].step = "done"]
    BY <1>5 DEF Catalogue!StoreRanked
  <2>2. /\ r = current /\ refresh[r].begun \in Nat /\ refresh[r].begun <= now
        /\ \A t \in Titles : row[t].ranked <= refresh[r].begun
    BY <2>1
  <2>3. \A t \in Titles :
           \/ row'[t].ranked = row[t].ranked
           \/ t \in refresh[r].write.items /\ row'[t].ranked = refresh[r].begun
    <3> SUFFICES ASSUME NEW t \in Titles
                 PROVE  \/ row'[t].ranked = row[t].ranked
                        \/ t \in refresh[r].write.items /\ row'[t].ranked = refresh[r].begun
      OBVIOUS
    <3> DEFINE w == refresh[r].write
               rank == refresh[r].begun
               detail == FALSE
    <3>1. row' = Catalogue!Stored(w, detail, rank)
      BY <2>1
    <3> HIDE DEF w, rank, detail
    <3>2. \/ Catalogue!Stored(w, detail, rank)[t].ranked = row[t].ranked
          \/ t \in w.items /\ rank > 0 /\ Catalogue!Stored(w, detail, rank)[t].ranked = rank
      BY StoredRanks
    <3> QED
      BY <3>1, <3>2 DEF w, rank
  <2>4. DOMAIN refresh' = Refreshes
    BY <2>1
  <2>5. \A q \in Refreshes : /\ refresh'[q] = Refreshing(refresh'[q])
                             /\ refresh'[q].begun = refresh[q].begun
                             /\ q # r => refresh'[q] = refresh[q]
    BY <2>1
  <2>6. \A t \in Titles : row'[t].ranked \in Int /\ row'[t].ranked <= refresh[r].begun
    BY <2>2, <2>3
  <2>7. \A t \in Titles : row'[t].ranked <= now
    BY <2>2, <2>6
  <2>8. ASSUME NEW q \in Refreshes, refresh'[q].step # "none"
        PROVE  q = r
    BY <2>1, <2>2, <2>5, <2>8
  <2>9. RankingInv'
    BY <2>1, <2>2, <2>4, <2>5, <2>6, <2>7, <2>8
  <2>10. ASSUME NEW t \in Titles, row'[t].ranked # row[t].ranked
         PROVE  row'[t].ranked > row[t].ranked
    BY <2>2, <2>3, <2>6, <2>10
  <2> HIDE DEF RankingInv
  <2> QED
    BY <2>3, <2>9, <2>10
<1>6. ASSUME NEW r \in Refreshes, Catalogue!Remove(r)
      PROVE  RankingInv' /\ UNCHANGED row
  <2>1. /\ UNCHANGED <<now, row>> /\ refresh[r].step = "done"
        /\ refresh' = [refresh EXCEPT ![r] = Catalogue!NoRefresh]
    BY <1>6 DEF Catalogue!Remove
  <2>2. \A q \in Refreshes : refresh'[q] = IF q = r THEN Catalogue!NoRefresh ELSE refresh[q]
    BY <2>1
  <2>3. \A q \in Refreshes : q # r => refresh[q].step = "none"
    BY <2>1
  <2> QED
    BY <2>1, <2>2, <2>3 DEF Catalogue!NoRefresh
<1>7. ASSUME NEW c \in Readers, Catalogue!Home(c)
      PROVE  RankingInv' /\ UNCHANGED row
  BY <1>7, RankingBegins
<1>8. ASSUME NEW c \in Readers,
             \/ Catalogue!RefreshEnded(c) \/ Catalogue!Search(c) \/ Catalogue!Heard(c)
             \/ Catalogue!FindsNothing(c) \/ \E t \in Titles : Catalogue!Detail(c, t)
      PROVE  RankingInv' /\ UNCHANGED row
  BY <1>8 DEF Catalogue!RefreshEnded, Catalogue!Search, Catalogue!Heard,
     Catalogue!FindsNothing, Catalogue!Detail, Catalogue!Asks
<1>9. ASSUME NEW c \in Readers, Catalogue!StoreFound(c)
      PROVE  RankingInv' /\ \A t \in Titles : row'[t].ranked = row[t].ranked
  <2>1. /\ UNCHANGED <<now, refresh, current>>
        /\ row' = Catalogue!Stored(reader[c].write, reader[c].title # Nobody, 0)
    BY <1>9 DEF Catalogue!StoreFound
  <2>2. \A t \in Titles : row'[t].ranked = row[t].ranked
    BY <2>1, StoredRanks
  <2> QED
    BY <2>1, <2>2
<1> HIDE DEF RankingInv
<1> QED
  BY <1>1, <1>2, <1>3, <1>4, <1>5, <1>6, <1>7, <1>8, <1>9 DEF Catalogue!Next,
     Catalogue!Tick, Catalogue!Close, catalogueVars

\* However many readers find the ranks too old and whoever stores a title in the
\* meantime, a rank changes to a newer one only, that of the refresh which has
\* heard of the title (catalog.py, _persist_many).
THEOREM RankingCorrect == AllParts => RankingMovesForward
<1>1. Start => RankingInv
  BY RankingInit DEF Start
<1>2. [Step]_Everything => [Catalogue!Next]_catalogueVars
  BY DEF Step, Still, Everything
<1> DEFINE forward ==
       \A t \in Titles :
          \/ row'[t].ranked = row[t].ranked
          \/ /\ row'[t].ranked > row[t].ranked
             /\ \E r \in Refreshes :
                   t \in refresh[r].write.items /\ row'[t].ranked = refresh[r].begun
<1>3. RankingInv /\ [Catalogue!Next]_catalogueVars => RankingInv' /\ [forward]_catalogueVars
  BY RankingKeeps
<1>4. RankingMovesForward <=> [][forward]_catalogueVars
  BY DEF RankingMovesForward, Catalogue!RankingMovesForward, Catalogue!vars, catalogueVars
<1> HIDE DEF forward
<1> QED
  BY <1>1, <1>2, <1>3, <1>4, PTL DEF AllParts

-----------------------------------------------------------------------------
(***************************************************************************)
(* What the other providers are asked                                      *)
(***************************************************************************)
Asking == [step : {"idle", "cooling", "queued", "inside", "sent"}, wake : Nat]

GateInv ==
    /\ clock \in Nat /\ cooldown \in Nat
    /\ question \in [Questions -> Asking]

LEMMA GateKeeps ==
    ASSUME GateInv, [Gate!Next]_gateVars
    PROVE  /\ GateInv'
           /\ \A q \in Questions :
                 question[q].step # "sent" /\ question'[q].step = "sent" /\ clock < cooldown =>
                     question[q].step = "inside" /\ question[q].wake < cooldown
<1> DEFINE spared ==
       \A q \in Questions :
          question[q].step # "sent" /\ question'[q].step = "sent" /\ clock < cooldown =>
              question[q].step = "inside" /\ question[q].wake < cooldown
<1>1. CASE UNCHANGED gateVars
  BY <1>1 DEF gateVars, GateInv
<1>2. CASE Gate!Tick
  BY <1>2 DEF Gate!Tick, GateInv
<1>3. ASSUME NEW step \in {"cooling", "queued", "inside", "sent"}, NEW next \in {"cooling", "queued", "inside", "sent"}
      PROVE  Gate!Sleeping(step, next) \in Asking
  BY <1>3 DEF Gate!Sleeping, Gate!Idle, GateInv, Asking
<1>4. ASSUME NEW q \in Questions, NEW from, NEW to \in Asking,
             Gate!Moves(q, from, to),
             to.step = "sent" /\ clock < cooldown =>
                 from = "inside" /\ question[q].wake < cooldown
      PROVE  GateInv' /\ spared
  BY <1>4 DEF Gate!Moves, GateInv, Asking
<1>5. ASSUME NEW q \in Questions, Gate!Ask(q) \/ Gate!Queue(q) \/ Gate!Leave(q)
      PROVE  GateInv' /\ spared
  <2>1. /\ Gate!Sleeping("cooling", "queued") \in Asking
        /\ Gate!Sleeping("cooling", "queued").step # "sent"
    BY <1>3 DEF Gate!Sleeping, Gate!Idle
  <2>2. /\ [Gate!Idle EXCEPT !.step = "queued"] \in Asking
        /\ [Gate!Idle EXCEPT !.step = "queued"].step # "sent"
        /\ Gate!Idle \in Asking /\ Gate!Idle.step # "sent"
    BY DEF Gate!Idle, Asking
  <2> HIDE DEF spared
  <2>3. CASE Gate!Ask(q)
    BY <2>1, <2>3, <1>4 DEF Gate!Ask
  <2>4. CASE Gate!Queue(q)
    BY <2>2, <2>4, <1>4 DEF Gate!Queue
  <2>5. CASE Gate!Leave(q)
    BY <2>2, <2>5, <1>4 DEF Gate!Leave
  <2> QED
    BY <1>5, <2>3, <2>4, <2>5
<1>6. ASSUME NEW q \in Questions, Gate!Enter(q)
      PROVE  GateInv' /\ spared
  <2>1. /\ Gate!Sleeping("inside", "sent") \in Asking
        /\ clock < cooldown => Gate!Sleeping("inside", "sent").step # "sent"
    BY <1>3 DEF Gate!Sleeping, Gate!Idle, GateInv
  <2> HIDE DEF spared
  <2> QED
    BY <2>1, <1>4, <1>6 DEF Gate!Enter
<1>7. ASSUME NEW q \in Questions, Gate!Send(q)
      PROVE  GateInv' /\ spared
  <2>1. [Gate!Idle EXCEPT !.step = "sent"] \in Asking
    BY DEF Gate!Idle, Asking
  <2>2. clock < cooldown => question[q].wake < cooldown
    BY <1>7 DEF Gate!Send, GateInv, Asking
  <2> HIDE DEF spared
  <2> QED
    BY <2>1, <2>2, <1>4, <1>7 DEF Gate!Send
<1>8. ASSUME NEW q \in Questions, NEW pause \in Pauses, Gate!TooMany(q, pause)
      PROVE  GateInv' /\ spared
  <2>1. pause \in Nat
    BY PauseAssumption
  <2>2. Gate!Idle \in Asking /\ Gate!Idle.step # "sent"
    BY DEF Gate!Idle, Asking
  <2> QED
    BY <1>8, <2>1, <2>2 DEF Gate!TooMany, GateInv, Asking
<1>a. ASSUME Gate!Tick \/ UNCHANGED gateVars
      PROVE  GateInv' /\ spared
  BY <1>1, <1>2, <1>a DEF Gate!Tick, gateVars
<1> HIDE DEF spared
<1>10. GateInv' /\ spared
  BY <1>a, <1>5, <1>6, <1>7, <1>8 DEF Gate!Next
<1> QED
  BY <1>10 DEF spared

-----------------------------------------------------------------------------
(***************************************************************************)
(* A set of numbers in order                                               *)
(***************************************************************************)
LEMMA DanmakuCounts ==
    ASSUME NEW S
    PROVE  Danmaku!Cardinality(S) = Cardinality(S)
BY DEF Danmaku!Cardinality, Cardinality

\* The n numbers of a set are at 1 to n, the least first.
LEMMA Ordered ==
    ASSUME NEW S, IsFiniteSet(S), S \subseteq Int
    PROVE  /\ Cardinality(S) \in Nat
           /\ Danmaku!InOrder(S) \in [1..Cardinality(S) -> S]
           /\ Len(Danmaku!InOrder(S)) = Cardinality(S)
           /\ \A m, n \in 1..Cardinality(S) :
                m < n => Danmaku!InOrder(S)[m] < Danmaku!InOrder(S)[n]
           /\ \A i \in S : \E n \in 1..Cardinality(S) : Danmaku!InOrder(S)[n] = i
<1> DEFINE below(i) == {j \in S : j <= i}
           rank(i) == Cardinality(below(i))
           size == Cardinality(S)
           f == [i \in S |-> rank(i)]
<1>1. size \in Nat
  BY FS_CardinalityType
<1>2. ASSUME NEW i \in S
      PROVE  IsFiniteSet(below(i)) /\ rank(i) \in 1..size
  <2>1. below(i) \in SUBSET S /\ i \in below(i)
    OBVIOUS
  <2>2. IsFiniteSet(below(i)) /\ rank(i) <= size /\ rank(i) \in Nat
    BY <2>1, FS_Subset, FS_CardinalityType
  <2>3. rank(i) # 0
    BY <2>1, <2>2, FS_EmptySet
  <2> QED
    BY <1>1, <2>2, <2>3
<1>3. ASSUME NEW i \in S, NEW j \in S, i < j
      PROVE  rank(i) < rank(j)
  <2>0. i \in Int /\ j \in Int /\ \A x \in S : x \in Int
    OBVIOUS
  <2>a. \A x \in S : x <= i => x <= j
    BY <1>3, <2>0
  <2>b. j <= j /\ ~(j <= i)
    BY <1>3, <2>0
  <2>c. below(i) \subseteq below(j)
    BY <2>a, Zenon
  <2>d. j \in below(j) /\ j \notin below(i)
    BY <2>b, Zenon
  <2>1. below(i) \in SUBSET below(j) /\ j \in below(j) /\ j \notin below(i)
    BY <2>c, <2>d, Zenon
  <2> HIDE DEF below
  <2>2. rank(i) <= rank(j) /\ rank(i) # rank(j)
    BY <2>1, <1>2, FS_Subset
  <2> QED
    BY <2>2, <1>1, <1>2
<1>4. ASSUME NEW i \in S, NEW j \in S, rank(i) = rank(j)
      PROVE  i = j
  <2>1. rank(i) \in Int /\ i \in Int /\ j \in Int
    BY <1>1, <1>2
  <2> HIDE DEF rank
  <2>2. ~(i < j) /\ ~(j < i)
    BY <2>1, <1>3, <1>4
  <2> QED
    BY <2>1, <2>2
<1>5. ASSUME NEW n \in 1..size
      PROVE  \E i \in S : rank(i) = n
  <2>1. f \in [S -> 1..size] /\ \A i \in S : f[i] = rank(i)
    BY <1>2
  <2> HIDE DEF f, rank, size
  <2>2. f \in Injection(S, 1..size)
    BY <2>1, <1>4 DEF Injection, IsInjective
  <2>3. IsFiniteSet(1..size) /\ Cardinality(1..size) = Cardinality(S)
    <3>1. 1 \in Int /\ size \in Int
      BY <1>1
    <3>2. IsFiniteSet(1..size) /\ Cardinality(1..size) = IF 1 > size THEN 0 ELSE size - 1 + 1
      BY <3>1, FS_Interval
    <3> QED
      BY <3>2, <1>1 DEF size
  <2>4. f \in Surjection(S, 1..size)
    BY <2>2, <2>3, FS_Injection
  <2> QED
    BY <2>1, <2>4, <1>5 DEF Surjection
<1>6. \A i : Danmaku!Cardinality(below(i)) = rank(i) /\ Danmaku!Cardinality(S) = size
  BY DanmakuCounts
<1>7. Danmaku!InOrder(S) = [n \in 1..size |-> CHOOSE i \in S : Danmaku!Cardinality(below(i)) = n]
  BY <1>6 DEF Danmaku!InOrder
<1> HIDE DEF rank, below, size, f
<1>8. ASSUME NEW n \in 1..size
      PROVE  Danmaku!InOrder(S)[n] \in S /\ rank(Danmaku!InOrder(S)[n]) = n
  <2>1. Danmaku!InOrder(S)[n] = CHOOSE i \in S : Danmaku!Cardinality(below(i)) = n
    BY <1>7
  <2>2. \E i \in S : Danmaku!Cardinality(below(i)) = n
    BY <1>5, <1>6
  <2>3. Danmaku!InOrder(S)[n] \in S /\ Danmaku!Cardinality(below(Danmaku!InOrder(S)[n])) = n
    BY <2>1, <2>2
  <2> QED
    BY <2>3, <1>6
<1>9. Danmaku!InOrder(S) \in [1..size -> S]
  BY <1>7, <1>8
<1>10. ASSUME NEW m \in 1..size, NEW n \in 1..size, m < n
       PROVE  Danmaku!InOrder(S)[m] < Danmaku!InOrder(S)[n]
  <2> DEFINE a == Danmaku!InOrder(S)[m]
             b == Danmaku!InOrder(S)[n]
  <2>1. a \in S /\ b \in S /\ a \in Int /\ b \in Int /\ rank(a) = m /\ rank(b) = n
    BY <1>8
  <2> HIDE DEF a, b
  <2>2. ~(b < a) /\ a # b
    BY <2>1, <1>1, <1>3, <1>10
  <2> QED
    BY <2>1, <2>2 DEF a, b
<1>11. ASSUME NEW i \in S
       PROVE  \E n \in 1..size : Danmaku!InOrder(S)[n] = i
  <2>1. /\ rank(i) \in 1..size /\ Danmaku!InOrder(S)[rank(i)] \in S
        /\ rank(Danmaku!InOrder(S)[rank(i)]) = rank(i)
    BY <1>2, <1>8
  <2> QED
    BY <2>1, <1>4
<1>12. Len(Danmaku!InOrder(S)) = size
  BY <1>1, <1>9
<1> QED
  BY <1>1, <1>9, <1>10, <1>11, <1>12 DEF size
-----------------------------------------------------------------------------
(***************************************************************************)
(* The comments of the other network                                       *)
(***************************************************************************)
Flights == [step : {"none", "guarded", "asking", "some", "nothing", "failed"}, asked : Nat]
Answers == [episode : Episodes, value : {"some", "nothing"}, until : Nat]

Single(cache) ==
    \A i, j \in 1..Len(cache) : cache[i].episode = cache[j].episode => i = j

\* A task has asked while it asks, and the table has one answer for an episode.
NetworkInv ==
    /\ tick \in Nat
    /\ flight \in [Episodes -> Flights]
    /\ \A e \in Episodes : flight[e].asked # 0 => flight[e].step = "asking"
    /\ kept \in Seq(Answers) /\ Len(kept) <= Capacity /\ Single(kept)

\* What is kept of a table is in the order it had.
LEMMA Kept ==
    ASSUME kept \in Seq(Answers), Single(kept), NEW places \in SUBSET (1..Len(kept))
    PROVE  /\ Danmaku!Keeping(places) \in Seq(Answers)
           /\ Len(Danmaku!Keeping(places)) <= Len(kept)
           /\ Single(Danmaku!Keeping(places))
           /\ \A n \in 1..Len(Danmaku!Keeping(places)) :
                 \E i \in places : Danmaku!Keeping(places)[n] = kept[i]
<1> DEFINE sorted == Danmaku!InOrder(places)
           size == Cardinality(places)
<1>1. IsFiniteSet(places) /\ size <= Len(kept)
  <2>1. Len(kept) \in Nat /\ 1 \in Int /\ Len(kept) \in Int
    OBVIOUS
  <2>2. IsFiniteSet(1..Len(kept))
        /\ Cardinality(1..Len(kept)) = IF 1 > Len(kept) THEN 0 ELSE Len(kept) - 1 + 1
    BY <2>1, FS_Interval
  <2>3. IsFiniteSet(places) /\ Cardinality(places) <= Cardinality(1..Len(kept))
    BY <2>2, FS_Subset
  <2>4. Cardinality(1..Len(kept)) = Len(kept)
    BY <2>1, <2>2
  <2> QED
    BY <2>3, <2>4
<1>2. places \subseteq Int
  OBVIOUS
<1>3. /\ size \in Nat /\ sorted \in [1..size -> places] /\ Len(sorted) = size
      /\ \A m, n \in 1..size : m < n => sorted[m] < sorted[n]
  BY <1>1, <1>2, Ordered
<1>4. Danmaku!Keeping(places) = [n \in 1..size |-> kept[sorted[n]]]
  BY <1>3 DEF Danmaku!Keeping
<1> HIDE DEF sorted, size
<1>a. \A i \in places : kept[i] \in Answers /\ i \in 1..Len(kept) /\ i \in Int
  OBVIOUS
<1>b. \A n \in 1..size : sorted[n] \in places
  BY <1>3
<1>5. \A n \in 1..size : sorted[n] \in places /\ kept[sorted[n]] \in Answers
  BY <1>a, <1>b
<1>6. /\ Danmaku!Keeping(places) \in Seq(Answers) /\ Len(Danmaku!Keeping(places)) = size
      /\ \A n \in 1..size : Danmaku!Keeping(places)[n] = kept[sorted[n]]
  BY <1>3, <1>4, <1>5
<1>7. ASSUME NEW m \in 1..size, NEW n \in 1..size,
             Danmaku!Keeping(places)[m].episode = Danmaku!Keeping(places)[n].episode
      PROVE  m = n
  <2>1. sorted[m] = sorted[n]
    <3> DEFINE i == sorted[m]
               j == sorted[n]
    <3>1. i \in places /\ j \in places /\ kept[i].episode = kept[j].episode
      BY <1>5, <1>6, <1>7
    <3>2. i \in 1..Len(kept) /\ j \in 1..Len(kept)
      BY <3>1, <1>a
    <3> HIDE DEF i, j
    <3>3. i = j
      BY <3>1, <3>2 DEF Single
    <3> QED
      BY <3>3 DEF i, j
  <2>2. sorted[m] \in Int
    BY <1>a, <1>b, Zenon
  <2>4. \A i \in Int : ~(i < i)
    OBVIOUS
  <2>3. ~(m < n) /\ ~(n < m)
    BY <1>3, <2>1, <2>2, <2>4, Zenon
  <2> QED
    BY <2>3, <1>3
<1> QED
  BY <1>1, <1>5, <1>6, <1>7 DEF Single

\* The table after an answer has come: room for it is made.
LEMMA Stores ==
    ASSUME NetworkInv, NEW e \in Episodes, NEW value \in {"some", "nothing"}
    PROVE  /\ Danmaku!StoreCache(e, value) \in Seq(Answers)
           /\ Len(Danmaku!StoreCache(e, value)) <= Capacity
           /\ Single(Danmaku!StoreCache(e, value))
<1> DEFINE places == {i \in DOMAIN kept : kept[i].episode # e /\ kept[i].until > tick}
           alive == Danmaku!Keeping(places)
           room == IF Len(alive) < Capacity THEN alive
                   ELSE SubSeq(alive, Len(alive) - Capacity + 2, Len(alive))
           new == [episode |-> e, value |-> value,
                   until |-> tick + (IF value = "some" THEN KeepComments ELSE KeepNothing)]
<1>1. /\ alive \in Seq(Answers) /\ Len(alive) <= Len(kept) /\ Single(alive)
      /\ \A n \in 1..Len(alive) : alive[n].episode # e
  <2>1. kept \in Seq(Answers) /\ Single(kept) /\ places \in SUBSET (1..Len(kept))
    BY DEF NetworkInv
  <2>2. /\ alive \in Seq(Answers) /\ Len(alive) <= Len(kept) /\ Single(alive)
        /\ \A n \in 1..Len(alive) : \E i \in places : alive[n] = kept[i]
    BY <2>1, Kept
  <2> QED
    BY <2>2
<1>2. new \in Answers /\ new.episode = e
  BY NetworkAssumption DEF NetworkInv, Answers
<1>3. Danmaku!StoreCache(e, value) = Append(room, new)
  BY DEF Danmaku!StoreCache
<1> HIDE DEF alive, new
<1>4. /\ room \in Seq(Answers) /\ Len(room) < Capacity /\ Single(room)
      /\ \A n \in 1..Len(room) : room[n].episode # e
  <2>1. CASE Len(alive) < Capacity
    BY <1>1, <2>1
  <2>2. CASE ~(Len(alive) < Capacity)
    <3> DEFINE first == Len(alive) - Capacity + 2
    <3>1. Len(alive) \in Nat /\ Capacity \in Nat /\ Capacity >= 1 /\ Len(alive) >= Capacity
      BY <1>1, <2>2, NetworkAssumption
    <3>2. first \in Nat /\ first >= 1 /\ first <= Len(alive) + 1
          /\ Len(alive) - first + 1 = Capacity - 1
      BY <3>1
    <3> HIDE DEF first
    <3>3. /\ SubSeq(alive, first, Len(alive)) \in Seq(Answers)
          /\ Len(SubSeq(alive, first, Len(alive))) = Capacity - 1
          /\ \A n \in 1..(Capacity - 1) :
                SubSeq(alive, first, Len(alive))[n] = alive[first + n - 1]
      BY <1>1, <3>1, <3>2
    <3>4. \A n \in 1..(Capacity - 1) : first + n - 1 \in 1..Len(alive)
      BY <3>1, <3>2
    <3>5. room = SubSeq(alive, first, Len(alive))
      BY <2>2 DEF first
    <3> HIDE DEF room
    <3>6. Len(room) < Capacity /\ Len(room) = Capacity - 1
      BY <3>1, <3>3, <3>5
    <3>7. \A n \in 1..Len(room) : room[n].episode # e
      BY <1>1, <3>3, <3>4, <3>5, <3>6
    <3>8. ASSUME NEW m \in 1..Len(room), NEW n \in 1..Len(room), room[m].episode = room[n].episode
          PROVE  m = n
      <4>1. alive[first + m - 1].episode = alive[first + n - 1].episode
        BY <3>3, <3>5, <3>6, <3>8
      <4>2. first + m - 1 = first + n - 1
        BY <4>1, <1>1, <3>4, <3>6 DEF Single
      <4> QED
        BY <4>2, <3>1, <3>2, <3>6
    <3> QED
      BY <3>3, <3>5, <3>6, <3>7, <3>8 DEF Single
  <2> QED
    BY <2>1, <2>2
<1> HIDE DEF room
<1>5. /\ Append(room, new) \in Seq(Answers) /\ Len(Append(room, new)) = Len(room) + 1
      /\ \A n \in 1..Len(room) : Append(room, new)[n] = room[n]
      /\ Append(room, new)[Len(room) + 1] = new
  BY <1>2, <1>4
<1>6. Len(Append(room, new)) <= Capacity
  BY <1>4, <1>5, NetworkAssumption
<1>7. ASSUME NEW m \in 1..(Len(room) + 1), NEW n \in 1..(Len(room) + 1),
             Append(room, new)[m].episode = Append(room, new)[n].episode
      PROVE  m = n
  <2>1. Len(room) \in Nat
    BY <1>4
  <2>2. m \in 1..Len(room) \/ m = Len(room) + 1
    BY <2>1
  <2>3. n \in 1..Len(room) \/ n = Len(room) + 1
    BY <2>1
  <2> QED
    BY <1>2, <1>4, <1>5, <1>7, <2>2, <2>3 DEF Single
<1> QED
  BY <1>3, <1>5, <1>6, <1>7 DEF Single

LEMMA Forgets ==
    ASSUME NetworkInv, NEW e \in Episodes
    PROVE  /\ Danmaku!Without(e) \in Seq(Answers)
           /\ Len(Danmaku!Without(e)) <= Capacity
           /\ Single(Danmaku!Without(e))
<1> DEFINE places == {i \in DOMAIN kept : kept[i].episode # e}
<1>1. kept \in Seq(Answers) /\ Single(kept) /\ places \in SUBSET (1..Len(kept)) /\ Len(kept) <= Capacity
  BY DEF NetworkInv
<1>2. /\ Danmaku!Keeping(places) \in Seq(Answers)
      /\ Len(Danmaku!Keeping(places)) <= Len(kept)
      /\ Single(Danmaku!Keeping(places))
  BY <1>1, Kept
<1> HIDE DEF places
<1>3. Len(Danmaku!Keeping(places)) <= Capacity
  BY <1>1, <1>2, NetworkAssumption
<1> QED
  BY <1>2, <1>3 DEF Danmaku!Without, places

AsksOnce(e) ==
    /\ flight[e].asked # 0 /\ flight'[e].asked # flight[e].asked =>
          flight'[e].asked = 0 /\ flight'[e].step \in {"some", "nothing", "failed"}
    /\ flight'[e].step = "guarded" /\ flight[e].step # "guarded" =>
          Danmaku!FreshEntry(e) = {} /\ flight[e].step = "none"

\* A task moves and the table with it, or stays.
LEMMA FlightMoves ==
    ASSUME NetworkInv, NEW e \in Episodes, NEW to \in Flights,
           UNCHANGED tick, flight' = [flight EXCEPT ![e] = to],
           to.asked # 0 => to.step = "asking",
           flight[e].asked # 0 /\ to.asked # flight[e].asked =>
               to.asked = 0 /\ to.step \in {"some", "nothing", "failed"},
           to.step = "guarded" /\ flight[e].step # "guarded" =>
               Danmaku!FreshEntry(e) = {} /\ flight[e].step = "none",
           kept' \in Seq(Answers), Len(kept') <= Capacity, Single(kept')
    PROVE  NetworkInv' /\ \A x \in Episodes : AsksOnce(x)
<1>1. \A x \in Episodes : flight'[x] = IF x = e THEN to ELSE flight[x]
  BY DEF NetworkInv
<1>2. flight' \in [Episodes -> Flights]
  BY DEF NetworkInv
<1>3. NetworkInv'
  BY <1>1, <1>2 DEF NetworkInv, Single
<1> QED
  BY <1>1, <1>3 DEF AsksOnce

LEMMA NetworkKeeps ==
    ASSUME NetworkInv, [Danmaku!Community \/ Danmaku!Network]_danmakuVars
    PROVE  NetworkInv' /\ \A e \in Episodes : AsksOnce(e)
<1>1. ASSUME UNCHANGED <<kept, flight>>, tick' = tick \/ tick' = tick + 1
      PROVE  NetworkInv' /\ \A e \in Episodes : AsksOnce(e)
  BY <1>1 DEF NetworkInv, AsksOnce, Single
<1>2. CASE Danmaku!Community \/ UNCHANGED danmakuVars
  <2>1. UNCHANGED <<kept, flight, tick>>
    BY <1>2 DEF Danmaku!Community, Danmaku!CreateDanmaku, Danmaku!EraseAccount,
       Danmaku!DeleteDanmaku, Danmaku!FirstPage, Danmaku!NextPage, Danmaku!Reads, danmakuVars
  <2> QED
    BY <2>1, <1>1
<1>3. CASE Danmaku!Tick
  BY <1>3, <1>1 DEF Danmaku!Tick
<1>4. ASSUME NEW p \in Players,
             Danmaku!GiveUp(p) \/ Danmaku!Rest(p) \/ \E e \in Episodes : Danmaku!AskKept(p, e)
      PROVE  NetworkInv' /\ \A e \in Episodes : AsksOnce(e)
  BY <1>4, <1>1 DEF Danmaku!GiveUp, Danmaku!Rest, Danmaku!AskKept
<1>5. ASSUME NEW p \in Players, NEW e \in Episodes, Danmaku!Ask(p, e)
      PROVE  NetworkInv' /\ \A x \in Episodes : AsksOnce(x)
  <2> DEFINE to == IF flight[e].step = "none" THEN [step |-> "guarded", asked |-> 0]
                                              ELSE flight[e]
  <2>1. /\ UNCHANGED tick /\ kept' = Danmaku!Without(e) /\ Danmaku!FreshEntry(e) = {}
        /\ flight' = [flight EXCEPT ![e] = to]
    BY <1>5 DEF Danmaku!Ask
  <2>2. to \in Flights /\ (to.asked # 0 => to.step = "asking")
    BY DEF NetworkInv, Flights
  <2>3. flight[e].asked # 0 => flight[e].step # "none" /\ to = flight[e]
    BY DEF NetworkInv
  <2>4. to.step = "guarded" /\ flight[e].step # "guarded" => flight[e].step = "none"
    OBVIOUS
  <2>5. kept' \in Seq(Answers) /\ Len(kept') <= Capacity /\ Single(kept')
    BY <2>1, Forgets
  <2> HIDE DEF to
  <2> QED
    BY <2>1, <2>2, <2>3, <2>4, <2>5, FlightMoves
<1>6. ASSUME NEW e \in Episodes, Danmaku!Guard(e)
      PROVE  NetworkInv' /\ \A x \in Episodes : AsksOnce(x)
  <2> DEFINE to == [step |-> "asking", asked |-> tick]
  <2>1. /\ UNCHANGED <<tick, kept>> /\ flight[e].step = "guarded"
        /\ flight' = [flight EXCEPT ![e] = to]
    BY <1>6 DEF Danmaku!Guard, Danmaku!Flies
  <2>2. to \in Flights /\ to.step = "asking" /\ flight[e].asked = 0
    BY <2>1 DEF NetworkInv, Flights
  <2>3. kept' \in Seq(Answers) /\ Len(kept') <= Capacity /\ Single(kept')
    BY <2>1 DEF NetworkInv
  <2> HIDE DEF to
  <2> QED
    BY <2>1, <2>2, <2>3, FlightMoves
<1>7. ASSUME NEW e \in Episodes, Danmaku!Fail(e) \/ Danmaku!Land(e)
      PROVE  NetworkInv' /\ \A x \in Episodes : AsksOnce(x)
  <2>1. \E step \in {"failed", "none"} :
           /\ flight' = [flight EXCEPT ![e] = [step |-> step, asked |-> 0]]
           /\ UNCHANGED <<tick, kept>>
           /\ step = "none" => flight[e].step \in {"some", "nothing", "failed"}
    BY <1>7 DEF Danmaku!Fail, Danmaku!Flies, Danmaku!Land, Danmaku!Ended, Danmaku!NoFlight
  <2>2. PICK step \in {"failed", "none"} :
           /\ flight' = [flight EXCEPT ![e] = [step |-> step, asked |-> 0]]
           /\ UNCHANGED <<tick, kept>>
           /\ step = "none" => flight[e].step \in {"some", "nothing", "failed"}
    BY <2>1
  <2> DEFINE to == [step |-> step, asked |-> 0]
  <2>3. to \in Flights /\ to.asked = 0 /\ to.step = step
    BY DEF Flights
  <2>4. flight[e].asked # 0 => step = "failed"
    BY <2>2 DEF NetworkInv
  <2>5. kept' \in Seq(Answers) /\ Len(kept') <= Capacity /\ Single(kept')
    BY <2>2 DEF NetworkInv
  <2>6. flight' = [flight EXCEPT ![e] = to] /\ UNCHANGED tick
    BY <2>2
  <2> HIDE DEF to
  <2> QED
    BY <2>3, <2>4, <2>5, <2>6, FlightMoves
<1>8. ASSUME NEW e \in Episodes, NEW value \in {"some", "nothing"}, Danmaku!Load(e, value)
      PROVE  NetworkInv' /\ \A x \in Episodes : AsksOnce(x)
  <2> DEFINE to == [step |-> value, asked |-> 0]
  <2>1. /\ UNCHANGED tick /\ kept' = Danmaku!StoreCache(e, value)
        /\ flight' = [flight EXCEPT ![e] = to]
    BY <1>8 DEF Danmaku!Load, Danmaku!Flies
  <2>2. to \in Flights /\ to.asked = 0 /\ to.step = value
    BY DEF Flights
  <2>3. kept' \in Seq(Answers) /\ Len(kept') <= Capacity /\ Single(kept')
    BY <2>1, Stores
  <2> HIDE DEF to
  <2> QED
    BY <2>1, <2>2, <2>3, FlightMoves
<1> QED
  BY <1>2, <1>3, <1>4, <1>5, <1>6, <1>7, <1>8 DEF Danmaku!Network

LEMMA NetworkInit == Danmaku!Init => NetworkInv
BY NetworkAssumption DEF Danmaku!Init, Danmaku!NoFlight, NetworkInv, Flights, Single

\* A provider that complains is left in peace but by those who were inside, the
\* other network is asked by one task at a time that remembers it, and the table
\* of what it said is bounded (catalog.py, _provider_request; dandanplay.py).
THEOREM SparedCorrect == AllParts => ProvidersAreSpared
<1>1. Start => GateInv /\ NetworkInv
  BY NetworkInit DEF Start, Gate!Init, Gate!Idle, GateInv, Asking
<1>2. [Step]_Everything =>
         [Gate!Next]_gateVars /\ [Danmaku!Community \/ Danmaku!Network]_danmakuVars
  BY DEF Step, Still, Everything
<1> DEFINE spared ==
       \A q \in Questions :
          question[q].step # "sent" /\ question'[q].step = "sent" /\ clock < cooldown =>
              question[q].step = "inside" /\ question[q].wake < cooldown
           once == \A e \in Episodes : AsksOnce(e)
<1>3. GateInv /\ [Gate!Next]_gateVars => GateInv' /\ [spared]_gateVars
  BY GateKeeps
<1>4. NetworkInv /\ [Danmaku!Community \/ Danmaku!Network]_danmakuVars =>
         NetworkInv' /\ [once]_danmakuVars
  BY NetworkKeeps
<1>5. Gate!CooldownIsKept <=> [][spared]_gateVars
  BY DEF Gate!CooldownIsKept, Gate!vars, gateVars
<1>6. Danmaku!AskedOnce <=> [][once]_danmakuVars
  BY DEF Danmaku!AskedOnce, Danmaku!vars, danmakuVars, AsksOnce
<1>7. NetworkInv => Danmaku!CacheIsBounded
  BY DEF NetworkInv, Danmaku!CacheIsBounded, Single
<1> HIDE DEF spared, once
<1> QED
  BY <1>1, <1>2, <1>3, <1>4, <1>5, <1>6, <1>7, PTL DEF AllParts, ProvidersAreSpared

-----------------------------------------------------------------------------
(***************************************************************************)
(* What is left of the attempts of a key                                   *)
(***************************************************************************)
LEMMA LeastMember ==
    ASSUME NEW S \in SUBSET Nat, S # {}
    PROVE  \E n \in S : \A m \in S : n <= m
<1> DEFINE less == OpToRel(<, Nat)
<1>1. IsWellFoundedOn(less, Nat)
  BY NatLessThanWellFounded
<1>2. PICK n \in S : \A m \in S : <<m, n>> \notin less
  <2> HIDE DEF less
  <2> QED
    BY <1>1, WFMin
<1>3. \A m \in S : ~(m < n)
  BY <1>2 DEF OpToRel
<1> HIDE DEF less
<1> QED
  BY <1>2, <1>3

LEMMA SameSequence ==
    ASSUME NEW T, NEW p \in Seq(T), NEW q \in Seq(T), Len(p) = Len(q),
           \A i \in 1..Len(p) : p[i] = q[i]
    PROVE  p = q
OBVIOUS

LEMMA TheRest ==
    ASSUME NEW T, NEW p \in Seq(T), NEW k \in 0..Len(p)
    PROVE  /\ SubSeq(p, k + 1, Len(p)) \in Seq(T)
           /\ Len(SubSeq(p, k + 1, Len(p))) = Len(p) - k
           /\ \A i \in 1..(Len(p) - k) : SubSeq(p, k + 1, Len(p))[i] = p[k + i]
OBVIOUS

\* The first `gone` events are a window old at a moment, and the next is not.
Gone(events, moment, gone) ==
    /\ \A i \in 1..gone : events[i] + Window <= moment
    /\ gone < Len(events) => events[gone + 1] + Window > moment

LEMMA SinceIs ==
    ASSUME NEW events \in Seq(Nat), NEW moment \in Nat, NEW gone \in 0..Len(events),
           Gone(events, moment, gone)
    PROVE  Limiter!Since(events, moment) = SubSeq(events, gone + 1, Len(events))
<1> DEFINE young == {i \in DOMAIN events : events[i] + Window > moment}
<1>1. /\ Len(events) \in Nat /\ gone \in Nat /\ gone <= Len(events)
      /\ \A i \in 1..Len(events) : events[i] + Window \in Nat
  BY LimitAssumption
<1>2. \A i \in young : i \in 1..Len(events) /\ ~(i <= gone)
  BY <1>1 DEF Gone
<1>3. CASE gone = Len(events)
  <2>1. young = {}
    BY <1>1, <1>2, <1>3
  <2>2. SubSeq(events, gone + 1, Len(events)) = <<>>
    BY <1>1, <1>3
  <2> HIDE DEF young
  <2> QED
    BY <2>1, <2>2 DEF Limiter!Since, young
<1>4. CASE gone < Len(events)
  <2>1. gone + 1 \in young /\ \A i \in young : gone + 1 <= i
    BY <1>1, <1>2, <1>4 DEF Gone
  <2>2. \A i \in young : i \in Int
    BY <1>2
  <2>3. Limiter!Min(young) = gone + 1
    <3> HIDE DEF young
    <3>1. \E x \in young : \A y \in young : x <= y
      BY <2>1
    <3>2. Limiter!Min(young) \in young /\ \A y \in young : Limiter!Min(young) <= y
      BY <3>1 DEF Limiter!Min
    <3>3. Limiter!Min(young) <= gone + 1 /\ gone + 1 <= Limiter!Min(young)
      BY <3>2, <2>1
    <3> QED
      BY <3>2, <3>3, <2>2, <1>1
  <2> HIDE DEF young
  <2>4. young # {}
    BY <2>1
  <2> QED
    BY <2>3, <2>4 DEF Limiter!Since, young
<1> QED
  BY <1>1, <1>3, <1>4

LEMMA SinceMeans ==
    ASSUME NEW events \in Seq(Nat), NEW moment \in Nat
    PROVE  /\ Limiter!Since(events, moment) \in Seq(Nat)
           /\ \E gone \in 0..Len(events) :
                 /\ Gone(events, moment, gone)
                 /\ Limiter!Since(events, moment) = SubSeq(events, gone + 1, Len(events))
                 /\ Len(Limiter!Since(events, moment)) = Len(events) - gone
                 /\ \A i \in 1..(Len(events) - gone) :
                       Limiter!Since(events, moment)[i] = events[gone + i]
<1> DEFINE young == {i \in 1..Len(events) : events[i] + Window > moment}
<1>1. \A i \in 1..Len(events) : events[i] + Window \in Nat
  BY LimitAssumption
<1>2. \E gone \in 0..Len(events) : Gone(events, moment, gone)
  <2>1. CASE young = {}
    <3>1. \A i \in 1..Len(events) : events[i] + Window <= moment
      BY <1>1, <2>1
    <3> QED
      BY <3>1 DEF Gone
  <2>2. CASE young # {}
    <3>1. young \in SUBSET Nat
      OBVIOUS
    <3> HIDE DEF young
    <3>2. PICK n \in young : \A m \in young : n <= m
      BY <2>2, <3>1, LeastMember
    <3>3. n \in 1..Len(events) /\ events[n] + Window > moment
      BY <3>2 DEF young
    <3>4. n - 1 \in 0..Len(events) /\ (n - 1) + 1 = n
      BY <3>3
    <3>5. ASSUME NEW i \in 1..(n - 1)
          PROVE  events[i] + Window <= moment
      <4>1. i \in 1..Len(events) /\ ~(n <= i)
        BY <3>3
      <4>2. i \notin young
        BY <3>2, <4>1
      <4>3. ~(events[i] + Window > moment)
        BY <4>1, <4>2 DEF young
      <4> QED
        BY <4>1, <4>3, <1>1
    <3> QED
      BY <3>3, <3>4, <3>5 DEF Gone
  <2> QED
    BY <2>1, <2>2
<1>3. PICK gone \in 0..Len(events) : Gone(events, moment, gone)
  BY <1>2
<1>4. Limiter!Since(events, moment) = SubSeq(events, gone + 1, Len(events))
  BY <1>3, SinceIs
<1>5. /\ SubSeq(events, gone + 1, Len(events)) \in Seq(Nat)
      /\ Len(SubSeq(events, gone + 1, Len(events))) = Len(events) - gone
      /\ \A i \in 1..(Len(events) - gone) :
            SubSeq(events, gone + 1, Len(events))[i] = events[gone + i]
  OBVIOUS
<1> QED
  BY <1>3, <1>4, <1>5

\* What is left at a moment and is left later is what is left later.
LEMMA SinceSince ==
    ASSUME NEW events \in Seq(Nat), NEW moment \in Nat, NEW later \in Nat, moment <= later
    PROVE  Limiter!Since(Limiter!Since(events, moment), later) = Limiter!Since(events, later)
<1> DEFINE left == Limiter!Since(events, moment)
<1>1. left \in Seq(Nat)
  BY SinceMeans
<1>2. PICK gone \in 0..Len(events) :
         /\ Gone(events, moment, gone)
         /\ left = SubSeq(events, gone + 1, Len(events)) /\ Len(left) = Len(events) - gone
         /\ \A i \in 1..(Len(events) - gone) : left[i] = events[gone + i]
  BY SinceMeans
<1> HIDE DEF left
<1>3. PICK more \in 0..Len(left) :
         /\ Gone(left, later, more)
         /\ Limiter!Since(left, later) = SubSeq(left, more + 1, Len(left))
         /\ Len(Limiter!Since(left, later)) = Len(left) - more
         /\ \A i \in 1..(Len(left) - more) : Limiter!Since(left, later)[i] = left[more + i]
  BY <1>1, SinceMeans
<1>4. /\ Len(events) \in Nat /\ Len(left) \in Nat /\ gone \in Nat /\ more \in Nat
      /\ gone + more \in 0..Len(events)
      /\ \A i \in 1..Len(events) : events[i] + Window \in Nat
  BY <1>1, <1>2, LimitAssumption
<1>5. ASSUME NEW i \in 1..(gone + more)
      PROVE  events[i] + Window <= later
  <2>1. CASE i <= gone
    <3>1. events[i] + Window <= moment
      BY <1>2, <1>4, <2>1 DEF Gone
    <3>2. events[i] + Window \in Nat
      BY <1>4
    <3> QED
      BY <3>1, <3>2
  <2>2. CASE i > gone
    <3>1. i - gone \in 1..more /\ i - gone \in 1..(Len(events) - gone) /\ gone + (i - gone) = i
      BY <1>2, <1>4, <2>2
    <3>2. left[i - gone] = events[i]
      BY <1>2, <3>1
    <3> QED
      BY <1>3, <3>1, <3>2 DEF Gone
  <2> QED
    BY <2>1, <2>2, <1>4
<1>6. gone + more < Len(events) => events[(gone + more) + 1] + Window > later
  <2> SUFFICES ASSUME gone + more < Len(events)
               PROVE  events[(gone + more) + 1] + Window > later
    OBVIOUS
  <2>1. more + 1 \in 1..(Len(events) - gone) /\ more < Len(left)
        /\ gone + (more + 1) = (gone + more) + 1
    BY <1>2, <1>4
  <2>2. left[more + 1] = events[(gone + more) + 1]
    BY <1>2, <2>1
  <2> QED
    BY <1>3, <2>1, <2>2 DEF Gone
<1>7. Limiter!Since(events, later) = SubSeq(events, (gone + more) + 1, Len(events))
  <2>1. Gone(events, later, gone + more)
    BY <1>5, <1>6 DEF Gone
  <2> QED
    BY <2>1, <1>4, SinceIs
<1>8. SubSeq(left, more + 1, Len(left)) = SubSeq(events, (gone + more) + 1, Len(events))
  <2> DEFINE p == SubSeq(left, more + 1, Len(left))
             q == SubSeq(events, (gone + more) + 1, Len(events))
             n == Len(events) - (gone + more)
  <2>1. n \in Nat /\ p \in Seq(Nat) /\ q \in Seq(Nat) /\ Len(p) = n /\ Len(q) = n
    BY <1>1, <1>2, <1>4
  <2>2. ASSUME NEW i \in 1..n
        PROVE  p[i] = q[i]
    <3>1. p[i] = left[more + i]
      BY <1>1, <1>2, <1>4
    <3>2. q[i] = events[(gone + more) + i]
      BY <1>4
    <3>3. more + i \in 1..(Len(events) - gone) /\ gone + (more + i) = (gone + more) + i
      BY <1>2, <1>4
    <3> QED
      BY <1>2, <3>1, <3>2, <3>3
  <2> HIDE DEF p, q, n
  <2>3. p \in Seq(Nat) /\ q \in Seq(Nat) /\ Len(p) = Len(q) /\ \A i \in 1..Len(p) : p[i] = q[i]
    BY <2>1, <2>2
  <2>4. p = q
    BY <2>3, SameSequence
  <2> QED
    BY <2>4 DEF p, q
<1> QED
  BY <1>3, <1>7, <1>8 DEF left

\* An event that is not old stays.
LEMMA SinceAppend ==
    ASSUME NEW events \in Seq(Nat), NEW moment \in Nat, NEW e \in Nat, e + Window > moment
    PROVE  Limiter!Since(Append(events, e), moment) = Append(Limiter!Since(events, moment), e)
<1> DEFINE more == Append(events, e)
<1>1. PICK gone \in 0..Len(events) :
         /\ Gone(events, moment, gone)
         /\ Limiter!Since(events, moment) = SubSeq(events, gone + 1, Len(events))
  BY SinceMeans
<1>2. /\ more \in Seq(Nat) /\ Len(more) = Len(events) + 1 /\ Len(events) \in Nat
      /\ \A i \in 1..Len(events) : more[i] = events[i]
      /\ more[Len(events) + 1] = e
  OBVIOUS
<1> HIDE DEF more
<1>3. Gone(more, moment, gone) /\ gone \in 0..Len(more)
  <2>1. \A i \in 1..gone : i \in 1..Len(events)
    BY <1>2
  <2>2. CASE gone < Len(events)
    <3>1. gone + 1 \in 1..Len(events)
      BY <1>2, <2>2
    <3>2. more[gone + 1] = events[gone + 1] /\ \A i \in 1..gone : more[i] = events[i]
      BY <1>2, <2>1, <3>1
    <3>3. /\ events[gone + 1] + Window > moment
          /\ \A i \in 1..gone : events[i] + Window <= moment
      BY <1>1, <2>2 DEF Gone
    <3>4. \A i \in 1..gone : more[i] + Window <= moment
      BY <3>2, <3>3
    <3>5. more[gone + 1] + Window > moment
      BY <3>2, <3>3
    <3> QED
      BY <1>2, <3>4, <3>5 DEF Gone
  <2>3. CASE gone = Len(events)
    BY <1>1, <1>2, <2>1, <2>3 DEF Gone
  <2> QED
    BY <1>2, <2>2, <2>3
<1>4. Limiter!Since(more, moment) = SubSeq(more, gone + 1, Len(more))
  BY <1>2, <1>3, SinceIs
<1>5. SubSeq(more, gone + 1, Len(more)) = Append(SubSeq(events, gone + 1, Len(events)), e)
  <2> DEFINE p == SubSeq(more, gone + 1, Len(more))
             s == SubSeq(events, gone + 1, Len(events))
             n == Len(events) - gone
  <2>0. gone \in Nat /\ gone <= Len(events) /\ gone + 1 \in Nat /\ Len(more) \in Nat
    BY <1>2
  <2>1. n \in Nat /\ p \in Seq(Nat) /\ s \in Seq(Nat) /\ Len(p) = n + 1 /\ Len(s) = n
    <3>1. gone \in 0..Len(more) /\ gone \in 0..Len(events) /\ more \in Seq(Nat)
      BY <1>2, <1>3
    <3>2. p \in Seq(Nat) /\ Len(p) = Len(more) - gone
      BY <3>1, TheRest
    <3>3. s \in Seq(Nat) /\ Len(s) = Len(events) - gone
      BY <3>1, TheRest
    <3> HIDE DEF p, s
    <3> QED
      BY <1>2, <2>0, <3>2, <3>3
  <2>2. \A i \in 1..(n + 1) : p[i] = more[gone + i]
    BY <1>2
  <2>3. \A i \in 1..n : s[i] = events[gone + i]
    BY <1>2
  <2>4. \A i \in 1..n : gone + i \in 1..Len(events)
    BY <1>2
  <2>5. gone + (n + 1) = Len(events) + 1
    BY <1>2
  <2> HIDE DEF p, s, n
  <2>6. /\ Append(s, e) \in Seq(Nat) /\ Len(Append(s, e)) = n + 1
        /\ \A i \in 1..n : Append(s, e)[i] = s[i]
        /\ Append(s, e)[n + 1] = e
    BY <2>1
  <2>7. ASSUME NEW i \in 1..(n + 1)
        PROVE  p[i] = Append(s, e)[i]
    <3>1. CASE i \in 1..n
      BY <1>2, <2>2, <2>3, <2>4, <2>6, <3>1
    <3>2. CASE i = n + 1
      BY <1>2, <2>1, <2>2, <2>5, <2>6, <3>2
    <3> QED
      BY <2>1, <3>1, <3>2
  <2>9. /\ p \in Seq(Nat) /\ Append(s, e) \in Seq(Nat) /\ Len(p) = Len(Append(s, e))
        /\ \A i \in 1..Len(p) : p[i] = Append(s, e)[i]
    BY <2>1, <2>6, <2>7
  <2>8. p = Append(s, e)
    BY <2>9, SameSequence
  <2> QED
    BY <2>8 DEF p, s
<1> QED
  BY <1>1, <1>4, <1>5 DEF more
-----------------------------------------------------------------------------
(***************************************************************************)
(* The limiter                                                             *)
(***************************************************************************)
LEMMA Limits ==
    /\ Allowed \in Nat /\ Allowed >= 1 /\ Window \in Nat /\ Window >= 1
    /\ Workers \in Nat
BY LimitAssumption

Buckets == [events : Seq(Nat), count : Nat, until : Nat]

\* Redis has granted the attempts that are counted in this window, at most the
\* limit, and before it began no more than the limit.
Counted(k) == IF bucket[k].count <= Allowed THEN bucket[k].count ELSE Allowed

InWindows(k) ==
    LET before == Len(granted[k]) - Counted(k) IN
    /\ \A i \in 1..Len(granted[k]) : granted[k][i] <= instant
    /\ before \in 0..Allowed
    /\ bucket[k].count = 0 => \A i \in 1..Len(granted[k]) : granted[k][i] < instant
    /\ bucket[k].count > 0 =>
          /\ instant < bucket[k].until /\ bucket[k].until <= instant + Window
          /\ \A i \in 1..before : granted[k][i] + Window < bucket[k].until
          /\ \A i \in (before + 1)..Len(granted[k]) : granted[k][i] + Window >= bucket[k].until

\* The table in the process has what was granted and is not a window old.
InTheTable(k) ==
    /\ granted[k] = Limiter!Since(bucket[k].events, instant)
    /\ Len(granted[k]) <= Allowed

Refused ==
    /\ refused.key \in Keys /\ ~refused.full =>
          Len(granted[refused.key]) >= (IF shared THEN 1 ELSE Allowed)
    /\ refused.key \in Keys /\ refused.full /\ ~shared =>
          Limiter!Cardinality({k \in Keys : granted[k] # <<>>}) >= MaxKeys

LimitTypes ==
    /\ instant \in Nat /\ shared \in BOOLEAN
    /\ bucket \in [Keys -> Buckets] /\ granted \in [Keys -> Seq(Nat)]

LimitInv ==
    /\ LimitTypes
    /\ \A k \in Keys : IF shared THEN InWindows(k) ELSE InTheTable(k)
    /\ Refused

LEMMA LimitInit == Limiter!Init => LimitInv
<1> SUFFICES ASSUME Limiter!Init
             PROVE  LimitInv
  OBVIOUS
<1>1. LimitTypes
  BY LimitAssumption DEF Limiter!Init, LimitTypes, Buckets, Limiter!Idle
<1>2. Refused
  BY LimitAssumption DEF Limiter!Init, Limiter!NoRefusal, Refused
<1>3. ASSUME NEW k \in Keys
      PROVE  InWindows(k) /\ InTheTable(k)
  <2>1. /\ granted[k] = <<>> /\ Len(granted[k]) = 0
        /\ bucket[k].events = <<>> /\ bucket[k].count = 0
    BY DEF Limiter!Init, Limiter!Idle
  <2>2. Limiter!Since(<<>>, instant) = <<>>
    BY DEF Limiter!Since
  <2>3. Counted(k) = 0
    BY <2>1, LimitAssumption DEF Counted
  <2> QED
    BY <2>1, <2>2, <2>3, LimitAssumption DEF InWindows, InTheTable
<1> QED
  BY <1>1, <1>2, <1>3 DEF LimitInv

\* The clock: what a window began before has gone when it ends.
LEMMA LimitTick ==
    ASSUME LimitInv, Limiter!Tick
    PROVE  LimitInv'
<1>1. /\ instant' = instant + 1 /\ shared' = shared /\ refused' = Limiter!NoRefusal
      /\ granted' = [k \in Keys |-> Limiter!Since(granted[k], instant')]
      /\ bucket' = [k \in Keys |-> IF shared /\ bucket[k].until <= instant'
                                      THEN Limiter!Idle ELSE bucket[k]]
      /\ instant \in Nat /\ instant' \in Nat /\ instant <= instant'
  BY DEF Limiter!Tick, LimitInv, LimitTypes
<1>2. ASSUME NEW k \in Keys
      PROVE  granted'[k] \in Seq(Nat) /\ bucket'[k] \in Buckets
  <2>1. granted[k] \in Seq(Nat) /\ bucket[k] \in Buckets
    BY DEF LimitInv, LimitTypes
  <2>2. granted'[k] \in Seq(Nat)
    BY <1>1, <2>1, SinceMeans
  <2> QED
    BY <1>1, <2>1, <2>2 DEF Buckets, Limiter!Idle
<1>3. LimitTypes'
  BY <1>1, <1>2 DEF LimitTypes, LimitInv
<1>4. Refused'
  BY <1>1, LimitAssumption DEF Refused, Limiter!NoRefusal
<1>5. ASSUME NEW k \in Keys, ~shared
      PROVE  InTheTable(k)'
  <2> DEFINE events == bucket[k].events
  <2>1. /\ events \in Seq(Nat) /\ granted[k] = Limiter!Since(events, instant)
        /\ Len(granted[k]) <= Allowed /\ bucket'[k] = bucket[k]
        /\ granted[k] \in Seq(Nat)
    BY <1>1, <1>5 DEF LimitInv, LimitTypes, Buckets, InTheTable
  <2>2. granted'[k] = Limiter!Since(granted[k], instant')
    BY <1>1
  <2>3. Limiter!Since(granted[k], instant') = Limiter!Since(events, instant')
    BY <1>1, <2>1, SinceSince
  <2>4. Len(granted'[k]) <= Len(granted[k])
    <3>1. \E gone \in 0..Len(granted[k]) :
             Len(Limiter!Since(granted[k], instant')) = Len(granted[k]) - gone
      BY <1>1, <2>1, SinceMeans
    <3> QED
      BY <2>1, <2>2, <3>1
  <2>5. Len(granted'[k]) <= Allowed
    BY <1>2, <2>1, <2>4, Limits
  <2> QED
    BY <2>1, <2>2, <2>3, <2>5 DEF InTheTable
<1>6. ASSUME NEW k \in Keys, shared
      PROVE  InWindows(k)'
  <2> DEFINE g == granted[k]
             n == Len(granted[k])
             before == Len(granted[k]) - Counted(k)
             until == bucket[k].until
  <2>1. /\ g \in Seq(Nat) /\ n = Len(g) /\ n \in Nat /\ before \in 0..Allowed /\ until \in Nat
        /\ bucket[k].count \in Nat /\ Counted(k) \in Nat /\ Counted(k) <= Allowed
        /\ Counted(k) > 0 <=> bucket[k].count > 0
        /\ \A i \in 1..n : g[i] \in Nat /\ g[i] <= instant
        /\ granted'[k] = Limiter!Since(g, instant') /\ before = n - Counted(k)
        /\ bucket[k].count > 0 =>
              /\ until <= instant + Window
              /\ \A i \in 1..before : g[i] + Window < until
              /\ \A i \in (before + 1)..n : g[i] + Window >= until
    BY <1>1, <1>6, Limits DEF LimitInv, LimitTypes, Buckets, InWindows, Counted
  <2> HIDE DEF g, n, before, until
  <2>a. \A i \in 1..n : g[i] + Window \in Nat
    BY <2>1, Limits
  <2>c. n \in Nat /\ n = Len(g) /\ Counted(k) \in Nat /\ before = n - Counted(k)
    BY <2>1
  <2>b. bucket[k].until = until /\ granted[k] = g
    BY DEF until, g
  <2>2. PICK gone \in 0..n :
           /\ Gone(g, instant', gone)
           /\ Len(granted'[k]) = n - gone
           /\ \A i \in 1..(n - gone) : granted'[k][i] = g[gone + i]
    <3>1. g \in Seq(Nat) /\ granted'[k] = Limiter!Since(g, instant') /\ instant' \in Nat
      BY <1>1, <2>1
    <3>2. \E gone \in 0..Len(g) :
             /\ Gone(g, instant', gone)
             /\ Len(Limiter!Since(g, instant')) = Len(g) - gone
             /\ \A i \in 1..(Len(g) - gone) : Limiter!Since(g, instant')[i] = g[gone + i]
      BY <3>1, SinceMeans
    <3> QED
      BY <2>c, <3>1, <3>2
  <2>3. \A i \in 1..Len(granted'[k]) : granted'[k][i] < instant' /\ granted'[k][i] \in Nat
    <3>1. \A i \in 1..(n - gone) : gone + i \in 1..n
      BY <2>c
    <3>2. \A i \in 1..(n - gone) : granted'[k][i] \in Nat /\ granted'[k][i] <= instant
      BY <2>1, <2>2, <3>1
    <3> QED
      BY <1>1, <2>2, <3>2
  <2>4. CASE bucket[k].count = 0 \/ until <= instant'
    <3>1. bucket'[k].count = 0
      BY <1>1, <1>6, <2>4, <2>b DEF Limiter!Idle
    <3>2. Counted(k)' = 0
      BY <3>1, Limits DEF Counted
    <3>3. n - gone <= Allowed
      <4>1. CASE bucket[k].count = 0
        BY <2>1, <4>1, Limits DEF Counted
      <4>2. CASE bucket[k].count > 0
        <5>1. until <= instant' /\ \A i \in 1..before : g[i] + Window < until
          BY <2>1, <2>4, <4>2
        <5>2. \A i \in 1..before : ~(g[i] + Window > instant')
          <6>1. \A i \in 1..before : i \in 1..n
            BY <2>1
          <6>2. ASSUME NEW i \in 1..before
                PROVE  ~(g[i] + Window > instant')
            <7>1. g[i] + Window \in Nat /\ g[i] + Window < until
              BY <2>a, <5>1, <6>1
            <7> QED
              BY <1>1, <2>1, <5>1, <7>1
          <6> QED
            BY <6>2
        <5>3. ~(gone < before)
          <6> SUFFICES ASSUME gone < before
                       PROVE  FALSE
            OBVIOUS
          <6>1. gone < Len(g) /\ gone + 1 \in 1..before
            BY <2>1
          <6> QED
            BY <2>2, <5>2, <6>1 DEF Gone
        <5>4. n - before = Counted(k)
          BY <2>1
        <5> QED
          BY <2>1, <5>3, <5>4, Limits
      <4> QED
        BY <2>1, <4>1, <4>2
    <3>4. Len(granted'[k]) - Counted(k)' \in 0..Allowed
      BY <2>1, <2>2, <3>2, <3>3, Limits
    <3>5. \A i \in 1..Len(granted'[k]) : granted'[k][i] <= instant'
      BY <1>1, <2>3
    <3> QED
      BY <2>3, <3>1, <3>4, <3>5 DEF InWindows
  <2>5. CASE bucket[k].count > 0 /\ until > instant'
    <3>1. bucket'[k] = bucket[k] /\ Counted(k)' = Counted(k)
      BY <1>1, <2>1, <2>5, <2>b DEF Counted
    <3>2. /\ until <= instant + Window
          /\ \A i \in 1..before : g[i] + Window < until
          /\ \A i \in (before + 1)..n : g[i] + Window >= until
      BY <2>1, <2>5
    <3>3. gone <= before
      <4> SUFFICES ASSUME gone > before
                   PROVE  FALSE
        BY <2>1
      <4>1. before + 1 \in 1..gone /\ before + 1 \in (before + 1)..n /\ before + 1 \in 1..n
        BY <2>1
      <4>2. g[before + 1] + Window <= instant' /\ g[before + 1] + Window >= until
        BY <2>2, <3>2, <4>1 DEF Gone
      <4>3. g[before + 1] + Window \in Nat
        BY <2>a, <4>1
      <4> QED
        BY <1>1, <2>1, <2>5, <4>2, <4>3
    <3> DEFINE later == before - gone
    <3>4. /\ later \in 0..Allowed /\ Len(granted'[k]) - Counted(k)' = later
      <4>1. gone \in Nat /\ before \in Nat /\ before <= Allowed
        BY <2>1
      <4>2. later \in 0..Allowed
        BY <4>1, <3>3, Limits
      <4>3. (n - gone) - Counted(k) = later
        BY <2>c, <4>1
      <4> QED
        BY <2>2, <3>1, <4>2, <4>3
    <3>5. ASSUME NEW i \in 1..later
          PROVE  granted'[k][i] + Window < until
      <4>1. i \in 1..(n - gone) /\ gone + i \in 1..before
        BY <2>1, <3>3
      <4> QED
        BY <2>2, <3>2, <4>1
    <3>6. ASSUME NEW i \in (later + 1)..Len(granted'[k])
          PROVE  granted'[k][i] + Window >= until
      <4>0. /\ i \in Nat /\ i >= (before - gone) + 1 /\ i <= n - gone /\ gone \in Nat
            /\ before \in Nat /\ n \in Nat
        BY <2>1, <2>2, <3>3
      <4>1. i \in 1..(n - gone) /\ gone + i \in (before + 1)..n
        BY <4>0, <3>3
      <4> QED
        BY <2>2, <3>2, <4>1
    <3>7. \A i \in 1..Len(granted'[k]) : granted'[k][i] <= instant'
      BY <1>1, <2>3
    <3>8. instant' < until /\ until <= instant' + Window
      BY <1>1, <2>1, <2>5, <3>2, Limits
    <3> HIDE DEF later
    <3> QED
      BY <2>5, <2>b, <3>1, <3>4, <3>5, <3>6, <3>7, <3>8 DEF InWindows
  <2> QED
    BY <1>1, <2>1, <2>4, <2>5
<1> QED
  BY <1>1, <1>3, <1>4, <1>5, <1>6 DEF LimitInv
\* In the process: what is in the table is what was granted, purged or not.
LEMMA LimitCheck ==
    ASSUME LimitInv, NEW k \in Keys, Limiter!Check(k)
    PROVE  LimitInv'
<1> DEFINE table == Limiter!Purged(k)
           full == /\ k \notin Limiter!InTable
                   /\ Limiter!Cardinality({q \in Keys : table[q].events # <<>>}) >= MaxKeys
           events == Limiter!Recent(table[k].events)
<1>1. /\ ~shared /\ shared' = shared /\ instant' = instant /\ instant \in Nat
      /\ \A q \in Keys : bucket[q] \in Buckets /\ bucket[q].events \in Seq(Nat)
      /\ \A q \in Keys : granted[q] \in Seq(Nat)
      /\ \A q \in Keys : granted[q] = Limiter!Since(bucket[q].events, instant)
      /\ \A q \in Keys : Len(granted[q]) <= Allowed
      /\ DOMAIN granted = Keys
  BY DEF Limiter!Check, LimitInv, LimitTypes, InTheTable, Buckets
<1>2. /\ DOMAIN table = Keys
      /\ \A q \in Keys : table[q] = bucket[q] \/
            table[q] = [bucket[q] EXCEPT !.events = Limiter!Since(bucket[q].events, instant)]
  BY DEF Limiter!Purged, Limiter!Recent, LimitInv, LimitTypes
<1>a. table = [q \in Keys |-> table[q]]
  BY DEF Limiter!Purged, LimitInv, LimitTypes
<1>3. ASSUME NEW q \in Keys
      PROVE  /\ table[q] \in Buckets /\ table[q].events \in Seq(Nat)
             /\ Limiter!Since(table[q].events, instant) = granted[q]
  <2>1. Limiter!Since(bucket[q].events, instant) \in Seq(Nat)
    BY <1>1, SinceMeans
  <2>2. Limiter!Since(Limiter!Since(bucket[q].events, instant), instant) = granted[q]
    <3>1. instant <= instant
      BY <1>1
    <3>2. Limiter!Since(Limiter!Since(bucket[q].events, instant), instant)
             = Limiter!Since(bucket[q].events, instant)
      BY <1>1, <3>1, SinceSince
    <3> QED
      BY <1>1, <3>2
  <2> HIDE DEF table
  <2>3. CASE table[q] = bucket[q]
    BY <1>1, <2>3
  <2>4. CASE table[q] = [bucket[q] EXCEPT !.events = Limiter!Since(bucket[q].events, instant)]
    <3>1. table[q].events = Limiter!Since(bucket[q].events, instant) /\ table[q] \in Buckets
      BY <1>1, <2>1, <2>4 DEF Buckets
    <3> QED
      BY <2>1, <2>2, <3>1
  <2> QED
    BY <1>2, <2>3, <2>4
<1>4. events = granted[k]
  BY <1>3 DEF Limiter!Recent
<1>5. \/ full /\ Limiter!Refuse(k, TRUE) /\ bucket' = table
      \/ /\ Len(events) >= Allowed /\ Limiter!Refuse(k, FALSE)
         /\ bucket' = [table EXCEPT ![k].events = events]
      \/ /\ ~(Len(events) >= Allowed) /\ Limiter!Grant(k)
         /\ bucket' = [table EXCEPT ![k].events = Append(events, instant)]
  BY DEF Limiter!Check
<1>6. full => Limiter!Cardinality({q \in Keys : granted[q] # <<>>}) >= MaxKeys
  <2> SUFFICES ASSUME full
               PROVE  Limiter!Cardinality({q \in Keys : granted[q] # <<>>}) >= MaxKeys
    OBVIOUS
  <2>1. Limiter!Cardinality(Limiter!InTable) >= MaxKeys
    <3>1. CASE table = bucket
      BY <3>1 DEF Limiter!InTable
    <3>2. CASE table # bucket
      BY <3>2 DEF Limiter!Purged
    <3> QED
      BY <3>1, <3>2
  <2>2. table = [q \in Keys |-> [bucket[q] EXCEPT !.events = Limiter!Since(bucket[q].events, instant)]]
    BY <2>1 DEF Limiter!Purged, Limiter!Recent
  <2> HIDE DEF table
  <2>3. \A q \in Keys : table[q].events = granted[q]
    BY <1>1, <2>2 DEF Buckets
  <2>4. {q \in Keys : table[q].events # <<>>} = {q \in Keys : granted[q] # <<>>}
    BY <2>3
  <2> QED
    BY <2>4
<1> HIDE DEF full, table, events
<1>7. CASE full /\ Limiter!Refuse(k, TRUE) /\ bucket' = table
  <2>1. granted' = granted /\ refused' = [key |-> k, full |-> TRUE]
    BY <1>7 DEF Limiter!Refuse
  <2>2. LimitTypes'
    <3>1. table \in [Keys -> Buckets]
      BY <1>3, <1>a
    <3> QED
      BY <1>1, <1>7, <2>1, <3>1 DEF LimitTypes, LimitInv
  <2>3. Refused'
    BY <1>1, <1>6, <1>7, <2>1 DEF Refused
  <2>4. \A q \in Keys : InTheTable(q)'
    BY <1>1, <1>3, <1>7, <2>1 DEF InTheTable
  <2> QED
    BY <1>1, <2>2, <2>3, <2>4 DEF LimitInv
<1>8. CASE /\ Len(events) >= Allowed /\ Limiter!Refuse(k, FALSE)
           /\ bucket' = [table EXCEPT ![k].events = events]
  <2>1. granted' = granted /\ refused' = [key |-> k, full |-> FALSE]
    BY <1>8 DEF Limiter!Refuse
  <2>2. /\ \A q \in Keys : q # k => bucket'[q] = table[q]
        /\ bucket'[k] = [table[k] EXCEPT !.events = events] /\ DOMAIN bucket' = Keys
    BY <1>2, <1>8
  <2>3. bucket'[k] \in Buckets /\ bucket'[k].events = events
    BY <1>1, <1>3, <1>4, <2>2 DEF Buckets
  <2>4. LimitTypes'
    <3>1. bucket' = [q \in Keys |-> bucket'[q]]
      BY <1>2, <1>8
    <3>2. \A q \in Keys : bucket'[q] \in Buckets
      BY <1>3, <2>2, <2>3
    <3>3. bucket' \in [Keys -> Buckets]
      BY <3>1, <3>2
    <3> QED
      BY <1>1, <2>1, <3>3 DEF LimitTypes, LimitInv
  <2>5. Refused'
    BY <1>1, <1>4, <1>8, <2>1 DEF Refused
  <2>6. Limiter!Since(bucket'[k].events, instant) = granted[k]
    <3>1. Limiter!Since(Limiter!Since(bucket[k].events, instant), instant)
             = Limiter!Since(bucket[k].events, instant)
      BY <1>1, SinceSince
    <3> QED
      BY <1>1, <1>4, <2>3, <3>1
  <2>7. \A q \in Keys : InTheTable(q)'
    BY <1>1, <1>3, <2>1, <2>2, <2>6 DEF InTheTable
  <2> QED
    BY <1>1, <2>4, <2>5, <2>7 DEF LimitInv
<1>9. CASE /\ ~(Len(events) >= Allowed) /\ Limiter!Grant(k)
           /\ bucket' = [table EXCEPT ![k].events = Append(events, instant)]
  <2>1. /\ granted' = [granted EXCEPT ![k] = Append(granted[k], instant)]
        /\ refused' = Limiter!NoRefusal
    BY <1>9 DEF Limiter!Grant
  <2>2. /\ \A q \in Keys : q # k => bucket'[q] = table[q]
        /\ bucket'[k] = [table[k] EXCEPT !.events = Append(events, instant)]
        /\ bucket' = [q \in Keys |-> bucket'[q]]
    BY <1>2, <1>9
  <2>3. /\ Append(events, instant) \in Seq(Nat)
        /\ Len(Append(events, instant)) = Len(events) + 1
        /\ Len(events) \in Nat
    BY <1>1, <1>4
  <2>4. bucket'[k] \in Buckets /\ bucket'[k].events = Append(events, instant)
    BY <1>3, <2>2, <2>3 DEF Buckets
  <2>5. /\ \A q \in Keys : granted'[q] = IF q = k THEN Append(events, instant) ELSE granted[q]
        /\ granted' \in [Keys -> Seq(Nat)]
    BY <1>1, <1>4, <2>1, <2>3 DEF LimitInv, LimitTypes
  <2>6. LimitTypes'
    <3>1. \A q \in Keys : bucket'[q] \in Buckets
      BY <1>3, <2>2, <2>4
    <3>2. bucket' \in [Keys -> Buckets]
      BY <2>2, <3>1
    <3> QED
      BY <1>1, <2>5, <3>2 DEF LimitTypes, LimitInv
  <2>7. Refused'
    BY <2>1, LimitAssumption DEF Refused, Limiter!NoRefusal
  <2>8. Limiter!Since(bucket'[k].events, instant) = granted'[k]
    <3>1. events \in Seq(Nat) /\ Limiter!Since(events, instant) = events
      <4>1. Limiter!Since(Limiter!Since(bucket[k].events, instant), instant)
               = Limiter!Since(bucket[k].events, instant)
        BY <1>1, SinceSince
      <4> QED
        BY <1>1, <1>4, <4>1
    <3>2. instant + Window > instant
      BY <1>1, Limits
    <3>3. Limiter!Since(Append(events, instant), instant)
             = Append(Limiter!Since(events, instant), instant)
      BY <1>1, <3>1, <3>2, SinceAppend
    <3> QED
      BY <2>4, <2>5, <3>1, <3>3
  <2>9. Len(granted'[k]) <= Allowed
    BY <1>9, <2>3, <2>5, Limits
  <2>10. ASSUME NEW q \in Keys
         PROVE  InTheTable(q)'
    <3>1. CASE q = k
      BY <1>1, <2>8, <2>9, <3>1 DEF InTheTable
    <3>2. CASE q # k
      BY <1>1, <1>3, <2>2, <2>5, <3>2 DEF InTheTable
    <3> QED
      BY <3>1, <3>2
  <2> QED
    BY <1>1, <2>6, <2>7, <2>10 DEF LimitInv
<1> QED
  BY <1>5, <1>7, <1>8, <1>9

\* In Redis: the first of a window begins it, and it has the limit.
LEMMA LimitCheckShared ==
    ASSUME LimitInv, NEW k \in Keys, Limiter!CheckShared(k)
    PROVE  LimitInv'
<1> DEFINE b == bucket[k]
           g == granted[k]
           n == Len(granted[k])
           before == Len(granted[k]) - Counted(k)
           until == IF b.count = 0 THEN instant + Window ELSE b.until
<1>1. /\ shared /\ shared' = shared /\ instant' = instant /\ instant \in Nat
      /\ b \in Buckets /\ g \in Seq(Nat) /\ n \in Nat /\ n = Len(g)
      /\ b.count \in Nat /\ b.until \in Nat /\ b.events \in Seq(Nat)
      /\ InWindows(k)
      /\ bucket' = [bucket EXCEPT ![k] =
            [b EXCEPT !.count = b.count + 1, !.until = until]]
  <2>1. /\ shared /\ shared' = shared /\ instant' = instant
        /\ bucket' = [bucket EXCEPT ![k] =
              [bucket[k] EXCEPT !.count = bucket[k].count + 1,
                                !.until = IF bucket[k].count = 0 THEN instant + Window
                                                                 ELSE bucket[k].until]]
    BY DEF Limiter!CheckShared
  <2>2. [bucket[k] EXCEPT !.count = bucket[k].count + 1,
                          !.until = IF bucket[k].count = 0 THEN instant + Window
                                                           ELSE bucket[k].until]
           = [bucket[k] EXCEPT !.count = bucket[k].count + 1, !.until = until]
    OBVIOUS
  <2>3. bucket[k] \in Buckets /\ granted[k] \in Seq(Nat) /\ instant \in Nat
    BY DEF LimitInv, LimitTypes
  <2>4. /\ bucket[k].count \in Nat /\ bucket[k].until \in Nat
        /\ bucket[k].events \in Seq(Nat)
    BY <2>3 DEF Buckets
  <2>5. InWindows(k)
    BY <2>1 DEF LimitInv
  <2> QED
    BY <2>1, <2>2, <2>3, <2>4, <2>5
<1>b. IF b.count < Allowed THEN Limiter!Grant(k) ELSE Limiter!Refuse(k, FALSE)
  BY DEF Limiter!CheckShared
<1>2. /\ Counted(k) \in Nat /\ Counted(k) <= Allowed /\ before = n - Counted(k)
      /\ before \in 0..Allowed
      /\ b.count <= Allowed => Counted(k) = b.count
      /\ ~(b.count <= Allowed) => Counted(k) = Allowed
  BY <1>1, Limits DEF Counted, InWindows
<1>3. /\ bucket'[k].count = b.count + 1 /\ bucket'[k].until = until
      /\ \A q \in Keys : q # k => bucket'[q] = bucket[q]
      /\ bucket' \in [Keys -> Buckets]
  <2>1. until \in Nat
    BY <1>1, Limits
  <2>2. bucket \in [Keys -> Buckets]
    BY DEF LimitInv, LimitTypes
  <2> DEFINE new == [b EXCEPT !.count = b.count + 1, !.until = until]
  <2>3. bucket' = [bucket EXCEPT ![k] = new]
    BY <1>1
  <2> HIDE DEF until, b
  <2>4. b.count + 1 \in Nat /\ b \in Buckets
    BY <1>1
  <2>5. new \in Buckets /\ new.count = b.count + 1 /\ new.until = until
    <3> DEFINE c == b.count + 1
    <3>1. new = [b EXCEPT !.count = c, !.until = until] /\ c \in Nat
      BY <2>4
    <3> HIDE DEF new, c
    <3>2. new \in Buckets /\ new.events = b.events /\ new.count = c /\ new.until = until
      BY <2>1, <2>4, <3>1 DEF Buckets
    <3> QED
      BY <3>2 DEF c
  <2> HIDE DEF new
  <2>7. /\ bucket'[k] = new /\ bucket' \in [Keys -> Buckets]
        /\ \A q \in Keys : q # k => bucket'[q] = bucket[q]
    BY <2>2, <2>3, <2>5
  <2> QED
    BY <2>5, <2>7
<1>4. /\ instant < until /\ until <= instant + Window /\ until \in Nat
      /\ \A i \in 1..before : g[i] + Window < until
      /\ \A i \in (before + 1)..n : g[i] + Window >= until
      /\ \A i \in 1..n : g[i] <= instant
  <2>1. CASE b.count = 0
    <3>1. before = n /\ until = instant + Window
      BY <1>1, <1>2, <2>1, Limits
    <3>2. \A i \in 1..n : g[i] \in Nat /\ g[i] < instant
      BY <1>1, <2>1 DEF InWindows
    <3> HIDE DEF before, until, g, n
    <3>3. \A i \in 1..n : g[i] + Window < until /\ g[i] <= instant
      BY <1>1, <3>1, <3>2, Limits
    <3> QED
      BY <1>1, <3>1, <3>3, Limits
  <2>2. CASE b.count > 0
    BY <1>1, <2>2 DEF InWindows
  <2> QED
    BY <1>1, <2>1, <2>2
<1> HIDE DEF until, before
<1>5. ASSUME NEW q \in Keys, q # k, granted'[q] = granted[q]
      PROVE  InWindows(q)'
  BY <1>1, <1>3, <1>5 DEF LimitInv, InWindows, Counted
<1>6. CASE b.count < Allowed
  <2>1. granted' = [granted EXCEPT ![k] = Append(g, instant)] /\ refused' = Limiter!NoRefusal
    BY <1>b, <1>6 DEF Limiter!Grant
  <2>2. /\ Append(g, instant) \in Seq(Nat) /\ Len(Append(g, instant)) = n + 1
        /\ \A i \in 1..n : Append(g, instant)[i] = g[i]
        /\ Append(g, instant)[n + 1] = instant
    BY <1>1
  <2>3. /\ granted'[k] = Append(g, instant) /\ granted' \in [Keys -> Seq(Nat)]
        /\ \A q \in Keys : q # k => granted'[q] = granted[q]
    BY <2>1, <2>2 DEF LimitInv, LimitTypes
  <2>4. Counted(k)' = b.count + 1 /\ Counted(k) = b.count /\ bucket'[k].count = b.count + 1
    BY <1>1, <1>2, <1>3, <1>6, Limits DEF Counted
  <2>5. Len(granted'[k]) - Counted(k)' = before
    <3>1. n \in Nat /\ b.count \in Nat /\ before = n - b.count
      BY <1>1, <1>2, <2>4
    <3>2. Len(granted'[k]) = n + 1 /\ Counted(k)' = b.count + 1
      BY <2>2, <2>3, <2>4
    <3> HIDE DEF n, b
    <3> QED
      BY <3>1, <3>2
  <2>6. \A i \in 1..before : i \in 1..n
    BY <1>1, <1>2, Limits
  <2>7. \A i \in (before + 1)..(n + 1) : i \in (before + 1)..n \/ i = n + 1
    BY <1>1, <1>2, Limits
  <2>8. \A i \in 1..(n + 1) : i \in 1..n \/ i = n + 1
    BY <1>1
  <2> HIDE DEF n, b
  <2>9. /\ \A i \in 1..before : granted'[k][i] + Window < until
        /\ \A i \in (before + 1)..(n + 1) : granted'[k][i] + Window >= until
        /\ \A i \in 1..(n + 1) : granted'[k][i] <= instant
    <3>1. instant + Window >= until /\ instant <= instant
      BY <1>1, <1>4, Limits
    <3>2. ASSUME NEW i \in (before + 1)..(n + 1)
          PROVE  granted'[k][i] + Window >= until
      <4>1. CASE i = n + 1
        BY <2>2, <2>3, <3>1, <4>1
      <4>2. CASE i \in (before + 1)..n
        <5>1. i \in 1..n
          BY <1>1, <1>2, <4>2, Limits
        <5> QED
          BY <1>4, <2>2, <2>3, <4>2, <5>1
      <4> QED
        BY <2>7, <4>1, <4>2
    <3> QED
      BY <1>4, <2>2, <2>3, <2>6, <2>8, <3>1, <3>2
  <2>10. InWindows(k)'
    <3>1. bucket'[k].until = until /\ bucket'[k].count > 0 /\ bucket'[k].count # 0
      BY <1>1, <1>3, <2>4 DEF b
    <3> QED
      BY <1>1, <1>2, <1>4, <2>2, <2>3, <2>5, <2>9, <3>1 DEF InWindows
  <2>11. Refused'
    BY <2>1, LimitAssumption DEF Refused, Limiter!NoRefusal
  <2> QED
    BY <1>1, <1>3, <1>5, <2>3, <2>10, <2>11 DEF LimitInv, LimitTypes
<1>7. CASE ~(b.count < Allowed)
  <2>1. granted' = granted /\ refused' = [key |-> k, full |-> FALSE]
    BY <1>b, <1>7 DEF Limiter!Refuse
  <2>2. Counted(k)' = Allowed /\ Counted(k) = Allowed /\ bucket'[k].count > 0
    BY <1>1, <1>2, <1>3, <1>7, Limits DEF Counted
  <2>3. Len(granted'[k]) - Counted(k)' = before /\ bucket'[k].until = until
    BY <1>2, <1>3, <2>1, <2>2
  <2> HIDE DEF b
  <2>4. InWindows(k)'
    <3>1. /\ granted'[k] = g /\ bucket'[k].count > 0 /\ bucket'[k].count # 0
          /\ bucket'[k].until = until /\ Len(granted'[k]) - Counted(k)' = before
          /\ instant' = instant /\ before \in 0..Allowed /\ n = Len(g)
      BY <1>1, <1>2, <1>3, <2>1, <2>2, <2>3
    <3> HIDE DEF g, n
    <3> QED
      BY <1>4, <3>1 DEF InWindows
  <2>5. Len(granted[k]) >= 1
    BY <1>1, <1>2, <2>2, Limits
  <2>6. Refused'
    BY <1>1, <2>1, <2>5 DEF Refused
  <2> QED
    BY <1>1, <1>3, <1>5, <2>1, <2>4, <2>6 DEF LimitInv, LimitTypes
<1> QED
  BY <1>6, <1>7
LEMMA LimitKeeps ==
    ASSUME LimitInv, [Limiter!LimitAttempts \/ Limiter!Hash]_limiterVars
    PROVE  LimitInv'
<1>1. ASSUME UNCHANGED <<instant, shared, bucket, granted, refused>>
      PROVE  LimitInv'
  BY <1>1 DEF LimitInv, LimitTypes, InWindows, Counted, InTheTable, Refused
<1>2. CASE Limiter!Hash \/ UNCHANGED limiterVars
  BY <1>1, <1>2 DEF limiterVars, Limiter!limiterVars, Limiter!Hash, Limiter!Enter,
     Limiter!Acquire, Limiter!Leave, Limiter!Abandon, Limiter!Hashed, Limiter!Release,
     Limiter!Moves
<1>3. CASE Limiter!Clear
  <2>1. /\ ~shared /\ shared' = shared /\ instant' = instant /\ refused' = Limiter!NoRefusal
        /\ bucket' = [k \in Keys |-> Limiter!Idle] /\ granted' = [k \in Keys |-> <<>>]
    BY <1>3 DEF Limiter!Clear
  <2>2. Limiter!Since(<<>>, instant) = <<>>
    BY DEF Limiter!Since
  <2>3. LimitTypes'
    BY <2>1 DEF LimitInv, LimitTypes, Buckets, Limiter!Idle
  <2>4. \A k \in Keys : InTheTable(k)'
    BY <2>1, <2>2, Limits DEF InTheTable, Limiter!Idle
  <2>5. Refused'
    BY <2>1, LimitAssumption DEF Refused, Limiter!NoRefusal
  <2> QED
    BY <2>1, <2>3, <2>4, <2>5 DEF LimitInv
<1>4. ASSUME NEW k \in Keys, Limiter!Unavailable(k)
      PROVE  LimitInv'
  <2>1. /\ shared /\ UNCHANGED <<instant, shared, bucket, granted>>
        /\ refused' = [key |-> k, full |-> TRUE]
    BY <1>4 DEF Limiter!Unavailable, Limiter!Refuse
  <2>2. Refused'
    BY <2>1 DEF Refused
  <2> QED
    BY <2>1, <2>2 DEF LimitInv, LimitTypes, InWindows, Counted
<1> QED
  BY <1>2, <1>3, <1>4, LimitTick, LimitCheck, LimitCheckShared DEF Limiter!LimitAttempts

LEMMA LimitMeans ==
    ASSUME LimitInv
    PROVE  /\ \A k \in Keys : Len(granted[k]) <= (IF shared THEN 2 * Allowed ELSE Allowed)
           /\ Refused
<1>1. ASSUME NEW k \in Keys, shared
      PROVE  Len(granted[k]) <= 2 * Allowed
  <2>1. /\ InWindows(k) /\ Len(granted[k]) \in Nat /\ bucket[k].count \in Nat
    BY <1>1 DEF LimitInv, LimitTypes, Buckets
  <2>2. Counted(k) \in Nat /\ Counted(k) <= Allowed
    BY <2>1, Limits DEF Counted
  <2>3. Len(granted[k]) - Counted(k) <= Allowed
    BY <2>1, <2>2, Limits DEF InWindows
  <2> QED
    BY <2>1, <2>2, <2>3, Limits
<1> QED
  BY <1>1 DEF LimitInv, InTheTable

-----------------------------------------------------------------------------
(***************************************************************************)
(* The hashes                                                              *)
(***************************************************************************)
Busy == {j \in Jobs : hash[j] \in {"hashing", "abandoned", "released"}}

\* A place that is not free belongs to a hash, until it is given back.
PoolInv ==
    /\ hash \in [Jobs -> {"none", "queued", "hashing", "abandoned", "released"}]
    /\ slots \in Nat
    /\ slots + Cardinality(Busy) = Workers

LEMMA LimiterCounts ==
    ASSUME NEW S
    PROVE  Limiter!Cardinality(S) = Cardinality(S)
BY DEF Limiter!Cardinality, Cardinality

LEMMA BusyIsFinite ==
    /\ IsFiniteSet(Busy) /\ Cardinality(Busy) \in Nat
    /\ \A S \in SUBSET Busy : Cardinality(S) \in Nat /\ Cardinality(S) <= Cardinality(Busy)
<1>1. IsFiniteSet(Jobs) /\ Busy \in SUBSET Jobs
  BY LimitAssumption DEF Busy
<1>2. IsFiniteSet(Busy)
  BY <1>1, FS_Subset
<1> QED
  BY <1>2, FS_Subset, FS_CardinalityType

LEMMA PoolInit == Limiter!Init => PoolInv
<1> SUFFICES ASSUME Limiter!Init
             PROVE  PoolInv
  OBVIOUS
<1>1. hash = [j \in Jobs |-> "none"] /\ slots = Workers
  BY DEF Limiter!Init
<1>2. Busy = {}
  BY <1>1 DEF Busy
<1>3. Cardinality(Busy) = 0
  BY <1>2, FS_EmptySet
<1> QED
  BY <1>1, <1>3, Limits DEF PoolInv

LEMMA PoolKeeps ==
    ASSUME PoolInv, [Limiter!LimitAttempts \/ Limiter!Hash]_limiterVars
    PROVE  PoolInv'
<1>1. ASSUME UNCHANGED <<slots, hash>>
      PROVE  PoolInv'
  BY <1>1 DEF PoolInv, Busy
<1>2. CASE Limiter!LimitAttempts \/ UNCHANGED limiterVars
  BY <1>1, <1>2 DEF limiterVars, Limiter!poolVars, Limiter!LimitAttempts, Limiter!Tick,
     Limiter!Clear, Limiter!Check, Limiter!CheckShared, Limiter!Unavailable
<1>3. ASSUME NEW j \in Jobs, NEW to \in {"none", "queued", "hashing", "abandoned", "released"},
             hash' = [hash EXCEPT ![j] = to]
      PROVE  /\ hash' \in [Jobs -> {"none", "queued", "hashing", "abandoned", "released"}]
             /\ Busy' = IF to \in {"hashing", "abandoned", "released"} THEN Busy \cup {j}
                                                                       ELSE Busy \ {j}
  BY <1>3 DEF PoolInv, Busy
<1>4. ASSUME NEW j \in Jobs, NEW to \in {"hashing", "released", "abandoned"},
             hash[j] \in {"hashing", "abandoned"}, hash' = [hash EXCEPT ![j] = to],
             slots' = slots
      PROVE  PoolInv'
  <2>1. Busy' = Busy \cup {j} /\ j \in Busy
    BY <1>3, <1>4 DEF Busy
  <2>2. Busy' = Busy
    BY <2>1
  <2> QED
    BY <1>3, <1>4, <2>2 DEF PoolInv
<1>5. ASSUME NEW j \in Jobs, NEW to \in {"none", "queued"},
             hash[j] \in {"none", "queued"}, hash' = [hash EXCEPT ![j] = to],
             slots' = slots
      PROVE  PoolInv'
  <2>1. Busy' = Busy \ {j} /\ j \notin Busy
    BY <1>3, <1>5 DEF Busy
  <2>2. Busy' = Busy
    BY <2>1
  <2> QED
    BY <1>3, <1>5, <2>2 DEF PoolInv
<1>6. ASSUME NEW j \in Jobs, Limiter!Acquire(j)
      PROVE  PoolInv'
  <2>1. /\ slots > 0 /\ slots' = slots - 1 /\ hash[j] = "queued"
        /\ hash' = [hash EXCEPT ![j] = "hashing"]
    BY <1>6 DEF Limiter!Acquire, Limiter!Moves
  <2>2. Busy' = Busy \cup {j} /\ j \notin Busy
    BY <1>3, <2>1 DEF Busy
  <2>3. Cardinality(Busy \cup {j}) = Cardinality(Busy) + 1
    BY <2>2, BusyIsFinite, FS_AddElement
  <2> QED
    BY <1>3, <2>1, <2>2, <2>3, BusyIsFinite DEF PoolInv
<1>7. ASSUME NEW j \in Jobs, Limiter!Release(j)
      PROVE  PoolInv'
  <2>1. /\ slots' = slots + 1 /\ hash[j] = "released"
        /\ hash' = [hash EXCEPT ![j] = "none"]
    BY <1>7 DEF Limiter!Release, Limiter!Moves
  <2>2. Busy' = Busy \ {j} /\ j \in Busy
    BY <1>3, <2>1 DEF Busy
  <2>3. Cardinality(Busy \ {j}) = Cardinality(Busy) - 1
    BY <2>2, BusyIsFinite, FS_RemoveElement
  <2> QED
    BY <1>3, <2>1, <2>2, <2>3, BusyIsFinite DEF PoolInv
<1>8. ASSUME NEW j \in Jobs,
             Limiter!Enter(j) \/ Limiter!Leave(j) \/ Limiter!Abandon(j) \/ Limiter!Hashed(j)
      PROVE  PoolInv'
  BY <1>4, <1>5, <1>8 DEF Limiter!Enter, Limiter!Leave, Limiter!Abandon, Limiter!Hashed,
     Limiter!Moves
<1> QED
  BY <1>2, <1>6, <1>7, <1>8 DEF Limiter!Hash

\* Whatever the other clients do to the table, no client has more attempts in the
\* time of a window than the limit, or twice the limit with the fixed windows of
\* Redis, and none is refused but for its own attempts or a table full of recent
\* ones (rate_limit.py); no more passwords are hashed at a time than there are
\* threads, and no place is lost (auth.py, run_password_work).
THEOREM LimitsCorrect == AllParts => []LimitsHold
<1>1. Start => LimitInv /\ PoolInv
  BY LimitInit, PoolInit DEF Start
<1>2. [Step]_Everything => [Limiter!LimitAttempts \/ Limiter!Hash]_limiterVars
  BY DEF Step, Still, Everything
<1>3. LimitInv /\ PoolInv => LimitsHold
  <2> SUFFICES ASSUME LimitInv, PoolInv
               PROVE  LimitsHold
    OBVIOUS
  <2> DEFINE hashing == {j \in Jobs : hash[j] \in {"hashing", "abandoned"}}
  <2>1. Limiter!Cardinality(hashing) = Cardinality(hashing)
        /\ Limiter!Cardinality(Busy) = Cardinality(Busy)
    BY LimiterCounts
  <2>2. hashing \in SUBSET Busy
    BY DEF Busy
  <2> HIDE DEF hashing
  <2>3. Limiter!Cardinality(hashing) <= Workers
        /\ slots + Limiter!Cardinality(Busy) = Workers
    BY <2>1, <2>2, BusyIsFinite, Limits DEF PoolInv
  <2>4. /\ \A k \in Keys : Len(granted[k]) <= (IF shared THEN 2 * Allowed ELSE Allowed)
        /\ Refused
    BY LimitMeans
  <2> QED
    BY <2>3, <2>4 DEF LimitsHold, Limiter!LimitsHold, Refused, Busy, hashing
<1>4. LimitInv /\ PoolInv /\ [Limiter!LimitAttempts \/ Limiter!Hash]_limiterVars
         => LimitInv' /\ PoolInv'
  BY LimitKeeps, PoolKeeps
<1> QED
  BY <1>1, <1>2, <1>3, <1>4, PTL DEF AllParts

-----------------------------------------------------------------------------
(***************************************************************************)
(* Marks                                                                   *)
(***************************************************************************)
markVars == <<mark, inserted, likes, request, erased, overlapped>>
Marked == [id : Nat \ {0}, user : Users, target : Targets, type : Types]
Pending == [user : Users, target : Targets, type : Types, seen : Nat]

MarkTypes ==
    /\ IsFiniteSet(mark) /\ inserted \in Nat
    /\ mark \subseteq Marked
    /\ likes \in [Targets -> Nat]
    /\ DOMAIN request = Requests
    /\ \A r \in Requests : request[r] = Legacy!Idle \/ request[r] \in Pending

\* Numbers are given once, and only titles have marks that change their type.
RowsAreNumbered ==
    /\ \A m \in mark : m.id <= inserted
    /\ \A m, n \in mark : m.id = n.id => m = n
    /\ \A r \in Requests : request[r] # Legacy!Idle /\ request[r].seen # 0 =>
          /\ request[r].seen <= inserted
          /\ \A m \in mark : m.id = request[r].seen => KindOf[m.target] = "typed"

\* While no two requests of an account for a target have met, there is one of
\* them at most, and no row as long as it means to insert one.
Apart(u, t) ==
    /\ \A r, s \in Requests :
          /\ request[r].user = u /\ request[r].target = t
          /\ request[s].user = u /\ request[s].target = t
          => r = s
    /\ \A r \in Requests :
          request[r].user = u /\ request[r].target = t /\ request[r].seen = 0 =>
              Legacy!Of(u, t) = {}
    /\ \A m, n \in Legacy!Of(u, t) : m = n

LikesAreCounted ==
    \A t \in Targets :
        \/ KindOf[t] # "counted"
        \/ likes[t] <= Cardinality(Legacy!On(t))
        \/ \E u \in Users : <<u, t>> \in overlapped

MarkInv ==
    /\ MarkTypes /\ RowsAreNumbered /\ LikesAreCounted
    /\ \A u \in Users, t \in Targets : <<u, t>> \in overlapped \/ Apart(u, t)

LEMMA MarkInit == Legacy!Init => MarkInv
<1> SUFFICES ASSUME Legacy!Init
             PROVE  MarkInv
  OBVIOUS
<1>1. /\ mark = {} /\ inserted = 0 /\ likes = [t \in Targets |-> 0]
      /\ DOMAIN request = Requests /\ \A r \in Requests : request[r] = Legacy!Idle
  BY DEF Legacy!Init
<1>2. MarkTypes /\ RowsAreNumbered
  BY <1>1, FS_EmptySet DEF MarkTypes, RowsAreNumbered
<1>3. LikesAreCounted
  <2>1. \A t : Legacy!On(t) = {}
    BY <1>1 DEF Legacy!On
  <2> QED
    BY <1>1, <2>1, FS_EmptySet DEF LikesAreCounted
<1>4. ASSUME NEW u \in Users, NEW t \in Targets
      PROVE  Apart(u, t)
  BY <1>1, CommunityAssumption DEF Apart, Legacy!Idle, Legacy!Of, Legacy!On
<1> QED
  BY <1>2, <1>3, <1>4 DEF MarkInv

\* Two marks are more than one.
LEMMA OneMark ==
    ASSUME NEW S, \A m, n \in S : m = n
    PROVE  IsFiniteSet(S) /\ Cardinality(S) <= 1 /\ Legacy!Cardinality(S) = Cardinality(S)
           /\ (S # {} => \E m : S = {m})
<1>1. Legacy!Cardinality(S) = Cardinality(S)
  BY DEF Legacy!Cardinality, Cardinality
<1>2. CASE S = {}
  BY <1>1, <1>2, FS_EmptySet
<1>3. CASE S # {}
  <2>1. PICK m \in S : S = {m}
    BY <1>3
  <2> QED
    BY <1>1, <2>1, FS_Singleton, 1 <= 1
<1> QED
  BY <1>2, <1>3

\* A request begins, while its account and target have no row or it has seen
\* the only one.
LEMMA LookKeeps ==
    ASSUME MarkInv, NEW r \in Requests, NEW u \in Users, NEW t \in Targets,
           NEW type \in Types, Legacy!Look(r, u, t, type)
    PROVE  MarkInv'
<1>1. PICK seen \in Nat :
          /\ Legacy!Begins(r, u, t, type, seen)
          /\ seen = 0 => Legacy!Of(u, t) = {}
          /\ seen # 0 => KindOf[t] = "typed" /\ \E m \in Legacy!Of(u, t) : m.id = seen
  <2>1. CASE Legacy!Of(u, t) = {} /\ Legacy!Begins(r, u, t, type, 0)
    BY <2>1
  <2>2. ASSUME NEW m \in Legacy!Of(u, t), KindOf[t] = "typed",
               Legacy!Begins(r, u, t, type, m.id)
        PROVE  m.id \in Nat /\ m.id # 0
    BY <2>2 DEF MarkInv, MarkTypes, Marked, Legacy!Of, Legacy!On
  <2> QED
    BY <2>1, <2>2 DEF Legacy!Look
<1> DEFINE mine == [user |-> u, target |-> t, type |-> type, seen |-> seen]
<1>2. /\ request[r] = Legacy!Idle /\ request' = [request EXCEPT ![r] = mine]
      /\ overlapped' = IF Legacy!Meets(u, t) THEN overlapped \cup {<<u, t>>} ELSE overlapped
      /\ mark' = mark /\ inserted' = inserted /\ likes' = likes
  BY <1>1 DEF Legacy!Begins
<1>3. mine \in Pending /\ mine.user = u /\ mine.target = t /\ mine.seen = seen
  BY DEF Pending
<1> HIDE DEF mine
<1>4. /\ DOMAIN request' = Requests /\ request'[r] = mine
      /\ \A s \in Requests : s # r => request'[s] = request[s]
  BY <1>2 DEF MarkInv, MarkTypes
<1>5. MarkTypes'
  BY <1>2, <1>3, <1>4 DEF MarkInv, MarkTypes
<1>6. RowsAreNumbered'
  <2>1. \A m, n \in mark : m.id = n.id => m = n
    BY DEF MarkInv, RowsAreNumbered
  <2>2. seen # 0 => seen <= inserted /\ \A m \in mark : m.id = seen => KindOf[m.target] = "typed"
    BY <1>1, <2>1 DEF MarkInv, RowsAreNumbered, Legacy!Of, Legacy!On
  <2> QED
    BY <1>2, <1>3, <1>4, <2>2 DEF MarkInv, RowsAreNumbered
<1>7. LikesAreCounted'
  <2>1. \A x : Legacy!On(x)' = Legacy!On(x)
    BY <1>2 DEF Legacy!On
  <2> QED
    BY <1>2, <2>1 DEF MarkInv, LikesAreCounted
<1>8. ASSUME NEW v \in Users, NEW x \in Targets, <<v, x>> \notin overlapped'
      PROVE  Apart(v, x)'
  <2>1. Apart(v, x)
    BY <1>2, <1>8 DEF MarkInv
  <2>2. Legacy!Of(v, x)' = Legacy!Of(v, x)
    BY <1>2 DEF Legacy!Of, Legacy!On
  <2>3. CASE v # u \/ x # t
    BY <1>3, <1>4, <2>1, <2>2, <2>3 DEF Apart
  <2>4. CASE v = u /\ x = t
    <3>1. ~Legacy!Meets(u, t)
      BY <1>2, <1>8, <2>4
    <3>2. \A s \in Requests : ~(request[s].user = u /\ request[s].target = t)
      BY <3>1 DEF Legacy!Meets
    <3>3. \A s \in Requests : request'[s].user = u /\ request'[s].target = t => s = r
      BY <1>4, <3>2
    <3>4. seen = 0 => Legacy!Of(u, t) = {}
      BY <1>1
    <3>5. request'[r].seen = seen
      BY <1>3, <1>4
    <3> QED
      BY <2>1, <2>2, <2>4, <3>3, <3>4, <3>5 DEF Apart
  <2> QED
    BY <2>3, <2>4
<1> QED
  BY <1>5, <1>6, <1>7, <1>8 DEF MarkInv

\* A request ends; what it leaves behind.
LEMMA Ended ==
    ASSUME MarkInv, NEW r \in Requests, Legacy!Ends(r)
    PROVE  /\ overlapped' = overlapped
           /\ DOMAIN request' = Requests /\ request'[r] = Legacy!Idle
           /\ \A s \in Requests : s # r => request'[s] = request[s]
           /\ \A s \in Requests : request'[s] = Legacy!Idle \/ request'[s] \in Pending
           /\ \A s \in Requests, u \in Users : request'[s].user = u => s # r
BY CommunityAssumption DEF MarkInv, MarkTypes, Legacy!Ends, Legacy!Idle

LEMMA InsertKeeps ==
    ASSUME MarkInv, NEW r \in Requests, Legacy!Insert(r)
    PROVE  MarkInv'
<1> DEFINE q == request[r]
           new == [id |-> inserted + 1, user |-> q.user, target |-> q.target, type |-> q.type]
<1>1. /\ q # Legacy!Idle /\ q.seen = 0
      /\ inserted' = inserted + 1 /\ mark' = mark \cup {new}
      /\ likes' = [likes EXCEPT ![q.target] = IF KindOf[q.target] = "counted"
                                                THEN likes[q.target] + 1 ELSE likes[q.target]]
      /\ Legacy!Ends(r)
  BY DEF Legacy!Insert
<1>2. q \in Pending /\ inserted \in Nat
  BY <1>1 DEF MarkInv, MarkTypes
<1>3. /\ new \in Marked /\ new.id = inserted + 1 /\ new.user = q.user
      /\ new.target = q.target /\ q.user \in Users /\ q.target \in Targets
  BY <1>2 DEF Pending, Marked
<1>4. new \notin mark
  <2>1. \A m \in mark : m.id <= inserted
    BY DEF MarkInv, RowsAreNumbered
  <2> QED
    BY <1>2, <1>3, <2>1
<1>5. /\ overlapped' = overlapped
      /\ DOMAIN request' = Requests /\ request'[r] = Legacy!Idle
      /\ \A s \in Requests : s # r => request'[s] = request[s]
      /\ \A s \in Requests : request'[s] = Legacy!Idle \/ request'[s] \in Pending
      /\ \A s \in Requests, u \in Users : request'[s].user = u => s # r
  BY <1>1, Ended
<1> HIDE DEF new
<1>6. MarkTypes'
  <2>1. IsFiniteSet(mark')
    BY <1>1, FS_AddElement DEF MarkInv, MarkTypes
  <2>2. likes' \in [Targets -> Nat]
    BY <1>1, <1>3 DEF MarkInv, MarkTypes
  <2> QED
    BY <1>1, <1>2, <1>3, <1>5, <2>1, <2>2 DEF MarkInv, MarkTypes
<1> HIDE DEF q
<1>7. RowsAreNumbered'
  <2>1. \A m \in mark' : m = new \/ m \in mark
    BY <1>1
  <2>2. \A m \in mark : m.id \in Nat /\ m.id <= inserted
    BY DEF MarkInv, MarkTypes, RowsAreNumbered, Marked
  <2>3. \A m, n \in mark : m.id = n.id => m = n
    BY DEF MarkInv, RowsAreNumbered
  <2>4. /\ \A m \in mark' : m.id <= inserted'
        /\ \A m, n \in mark' : m.id = n.id => m = n
    BY <1>1, <1>2, <1>3, <2>1, <2>2, <2>3
  <2>5. ASSUME NEW s \in Requests, request'[s] # Legacy!Idle, request'[s].seen # 0
        PROVE  /\ request'[s].seen <= inserted'
               /\ \A m \in mark' : m.id = request'[s].seen => KindOf[m.target] = "typed"
    <3>1. request[s] # Legacy!Idle /\ request[s].seen # 0 /\ request'[s] = request[s]
      BY <1>5, <2>5
    <3>2. request[s].seen \in Nat
      BY <3>1 DEF MarkInv, MarkTypes, Pending
    <3>3. /\ request[s].seen <= inserted
          /\ \A m \in mark : m.id = request[s].seen => KindOf[m.target] = "typed"
      BY <3>1 DEF MarkInv, RowsAreNumbered
    <3> QED
      BY <1>1, <1>2, <1>3, <2>1, <3>1, <3>2, <3>3
  <2> QED
    BY <2>4, <2>5 DEF RowsAreNumbered
<1>8. LikesAreCounted'
  <2> SUFFICES ASSUME NEW t \in Targets, KindOf[t] = "counted",
                      ~\E u \in Users : <<u, t>> \in overlapped
               PROVE  likes'[t] <= Cardinality(Legacy!On(t)')
    BY <1>5 DEF LikesAreCounted
  <2>1. likes[t] <= Cardinality(Legacy!On(t))
    BY DEF MarkInv, LikesAreCounted
  <2>2. IsFiniteSet(Legacy!On(t)) /\ Cardinality(Legacy!On(t)) \in Nat
    <3>1. Legacy!On(t) \in SUBSET mark
      BY DEF Legacy!On
    <3> QED
      BY <3>1, FS_Subset, FS_CardinalityType DEF MarkInv, MarkTypes
  <2>3. CASE t = q.target
    <3>1. Legacy!On(t)' = Legacy!On(t) \cup {new} /\ new \notin Legacy!On(t)
      BY <1>1, <1>3, <1>4, <2>3 DEF Legacy!On
    <3>2. Cardinality(Legacy!On(t)') = Cardinality(Legacy!On(t)) + 1
      BY <2>2, <3>1, FS_AddElement
    <3>3. likes'[t] = likes[t] + 1 /\ likes[t] \in Nat
      BY <1>1, <2>3 DEF MarkInv, MarkTypes
    <3> QED
      BY <2>1, <2>2, <3>2, <3>3
  <2>4. CASE t # q.target
    <3>1. Legacy!On(t)' = Legacy!On(t)
      BY <1>1, <1>3, <2>4 DEF Legacy!On
    <3>2. likes'[t] = likes[t]
      BY <1>1, <2>4 DEF MarkInv, MarkTypes
    <3> QED
      BY <2>1, <3>1, <3>2
  <2> QED
    BY <2>3, <2>4
<1>9. ASSUME NEW v \in Users, NEW x \in Targets, <<v, x>> \notin overlapped'
      PROVE  Apart(v, x)'
  <2>1. Apart(v, x)
    BY <1>5, <1>9 DEF MarkInv
  <2>2. CASE q.user = v /\ q.target = x
    <3>1. Legacy!Of(v, x) = {} /\ \A s \in Requests : request[s].user = v /\ request[s].target = x => s = r
      BY <1>1, <2>1, <2>2 DEF Apart, q
    <3>2. Legacy!Of(v, x)' = {new}
      BY <1>1, <1>3, <2>2, <3>1 DEF Legacy!Of, Legacy!On
    <3>3. \A s \in Requests : ~(request'[s].user = v /\ request'[s].target = x)
      BY <1>5, <3>1
    <3> QED
      BY <3>2, <3>3 DEF Apart
  <2>3. CASE ~(q.user = v /\ q.target = x)
    <3>1. Legacy!Of(v, x)' = Legacy!Of(v, x)
      BY <1>1, <1>3, <2>3 DEF Legacy!Of, Legacy!On
    <3> QED
      BY <1>5, <2>1, <3>1 DEF Apart
  <2> QED
    BY <2>2, <2>3
<1> QED
  BY <1>6, <1>7, <1>8, <1>9 DEF MarkInv
LEMMA RetypeKeeps ==
    ASSUME MarkInv, NEW r \in Requests, Legacy!Retype(r)
    PROVE  MarkInv'
<1> DEFINE q == request[r]
           named == {m \in mark : m.id = q.seen}
           new(m) == [m EXCEPT !.type = q.type]
<1>1. /\ q.seen # 0 /\ mark' = (mark \ named) \cup {new(m) : m \in named}
      /\ UNCHANGED <<inserted, likes>> /\ Legacy!Ends(r)
  BY DEF Legacy!Retype
<1>2. q \in Pending /\ q # Legacy!Idle
  BY <1>1 DEF MarkInv, MarkTypes, Legacy!Idle
<1>3. /\ \A m \in mark : m \in Marked
      /\ \A m, n \in mark : m.id = n.id => m = n
      /\ \A m \in mark : m.id = q.seen => KindOf[m.target] = "typed"
      /\ inserted \in Nat /\ IsFiniteSet(mark)
  BY <1>1, <1>2 DEF MarkInv, MarkTypes, RowsAreNumbered
<1>4. ASSUME NEW m \in mark
      PROVE  /\ new(m) \in Marked /\ new(m).id = m.id
             /\ new(m).user = m.user /\ new(m).target = m.target
  BY <1>2, <1>3 DEF Marked, Pending
<1>5. /\ overlapped' = overlapped
      /\ DOMAIN request' = Requests /\ request'[r] = Legacy!Idle
      /\ \A s \in Requests : s # r => request'[s] = request[s]
      /\ \A s \in Requests : request'[s] = Legacy!Idle \/ request'[s] \in Pending
      /\ \A s \in Requests, u \in Users : request'[s].user = u => s # r
  BY <1>1, Ended
<1>6. ASSUME NEW n \in mark'
      PROVE  \E m \in mark : /\ n \in Marked /\ n.id = m.id /\ n.user = m.user
                             /\ n.target = m.target
                             /\ IF m \in named THEN n = new(m) ELSE n = m
  <2>1. CASE n \in mark \ named
    BY <1>3, <2>1
  <2>2. CASE n \in {new(m) : m \in named}
    <3>1. PICK m \in named : n = new(m)
      BY <2>2
    <3>2. m \in mark
      OBVIOUS
    <3> HIDE DEF new, named
    <3> QED
      BY <3>1, <3>2, <1>4
  <2> QED
    BY <1>1, <2>1, <2>2
<1>7. MarkTypes'
  <2>1. IsFiniteSet(mark')
    <3>1. named \in SUBSET mark /\ \A m, n \in named : m = n
      BY <1>3
    <3>2. CASE named = {}
      BY <1>1, <1>3, <3>2
    <3>3. CASE named # {}
      <4>1. PICK m \in named : named = {m}
        BY <3>1, <3>3
      <4>2. mark' = (mark \ {m}) \cup {new(m)}
        BY <1>1, <4>1
      <4> QED
        BY <1>3, <4>2, FS_AddElement, FS_RemoveElement
    <3> QED
      BY <3>2, <3>3
  <2>2. mark' \subseteq Marked
    BY <1>6
  <2> HIDE DEF named, new
  <2> QED
    BY <1>1, <1>5, <2>1, <2>2 DEF MarkInv, MarkTypes
<1> HIDE DEF new, q
<1>8. RowsAreNumbered'
  <2>1. \A n \in mark' : n.id <= inserted'
    BY <1>1, <1>6 DEF MarkInv, RowsAreNumbered
  <2>2. ASSUME NEW a \in mark', NEW b \in mark', a.id = b.id
        PROVE  a = b
    <3>1. PICK m \in mark : a.id = m.id /\ (IF m \in named THEN a = new(m) ELSE a = m)
      BY <1>6
    <3>2. PICK n \in mark : b.id = n.id /\ (IF n \in named THEN b = new(n) ELSE b = n)
      BY <1>6
    <3>3. m = n
      BY <1>3, <2>2, <3>1, <3>2
    <3> QED
      BY <3>1, <3>2, <3>3
  <2>3. ASSUME NEW s \in Requests, request'[s] # Legacy!Idle, request'[s].seen # 0
        PROVE  /\ request'[s].seen <= inserted'
               /\ \A m \in mark' : m.id = request'[s].seen => KindOf[m.target] = "typed"
    <3>1. request[s] # Legacy!Idle /\ request[s].seen # 0 /\ request'[s] = request[s]
      BY <1>5, <2>3
    <3>2. /\ request[s].seen <= inserted
          /\ \A m \in mark : m.id = request[s].seen => KindOf[m.target] = "typed"
      BY <3>1 DEF MarkInv, RowsAreNumbered
    <3> HIDE DEF named
    <3> QED
      BY <1>1, <1>6, <3>1, <3>2
  <2> QED
    BY <2>1, <2>2, <2>3 DEF RowsAreNumbered
<1>9. LikesAreCounted'
  <2>1. ASSUME NEW t \in Targets, KindOf[t] = "counted"
        PROVE  Legacy!On(t)' = Legacy!On(t)
    <3>1. \A n \in mark' : n.target = t => n \in mark
      <4> SUFFICES ASSUME NEW n \in mark', n.target = t PROVE n \in mark
        OBVIOUS
      <4>1. PICK m \in mark : n.target = m.target /\ (IF m \in named THEN n = new(m) ELSE n = m)
        BY <1>6
      <4>2. m \notin named
        BY <1>3, <2>1, <4>1
      <4> QED
        BY <4>1, <4>2
    <3>2. \A m \in mark : m.target = t => m \in mark'
      <4> SUFFICES ASSUME NEW m \in mark, m.target = t PROVE m \in mark'
        OBVIOUS
      <4>1. m \notin named
        BY <1>3, <2>1
      <4> QED
        BY <1>1, <4>1
    <3> QED
      BY <3>1, <3>2 DEF Legacy!On
  <2> QED
    BY <1>1, <1>5, <2>1 DEF MarkInv, LikesAreCounted
<1>10. ASSUME NEW v \in Users, NEW x \in Targets, <<v, x>> \notin overlapped'
      PROVE  Apart(v, x)'
  <2>1. Apart(v, x)
    BY <1>5, <1>10 DEF MarkInv
  <2>2. ASSUME NEW a \in Legacy!Of(v, x)'
        PROVE  \E m \in Legacy!Of(v, x) : IF m \in named THEN a = new(m) ELSE a = m
    <3>1. a \in mark' /\ a.user = v /\ a.target = x
      BY <2>2 DEF Legacy!Of, Legacy!On
    <3>2. PICK m \in mark : a.user = m.user /\ a.target = m.target
                            /\ (IF m \in named THEN a = new(m) ELSE a = m)
      BY <1>6, <3>1
    <3>3. m \in Legacy!Of(v, x)
      BY <3>1, <3>2 DEF Legacy!Of, Legacy!On
    <3> QED
      BY <3>2, <3>3
  <2>3. \A a, b \in Legacy!Of(v, x)' : a = b
    BY <2>1, <2>2 DEF Apart
  <2>4. Legacy!Of(v, x) = {} => Legacy!Of(v, x)' = {}
    BY <2>2
  <2> QED
    BY <1>5, <2>1, <2>3, <2>4 DEF Apart
<1> QED
  BY <1>7, <1>8, <1>9, <1>10 DEF MarkInv

\* Rows are only taken away, and those who wait are as they were or have ended.
LEMMA FewerRows ==
    ASSUME MarkInv, mark' \subseteq mark, inserted' = inserted, overlapped' = overlapped,
           DOMAIN request' = Requests,
           \A s \in Requests : request'[s] \in {request[s], Legacy!Idle},
           likes' \in [Targets -> Nat],
           \A t \in Targets :
               \/ KindOf[t] # "counted" \/ \E u \in Users : <<u, t>> \in overlapped
               \/ likes'[t] <= Cardinality(Legacy!On(t)')
    PROVE  MarkInv'
<1>1. \A v, x : Legacy!Of(v, x)' \subseteq Legacy!Of(v, x)
  BY DEF Legacy!Of, Legacy!On
<1>2. MarkTypes'
  <2>1. IsFiniteSet(mark')
    BY FS_Subset DEF MarkInv, MarkTypes
  <2> QED
    BY <2>1 DEF MarkInv, MarkTypes
<1>3. RowsAreNumbered'
  BY DEF MarkInv, RowsAreNumbered
<1>4. LikesAreCounted'
  BY DEF LikesAreCounted
<1>5. ASSUME NEW v \in Users, NEW x \in Targets, <<v, x>> \notin overlapped'
      PROVE  Apart(v, x)'
  <2>1. Apart(v, x)
    BY <1>5 DEF MarkInv
  <2>2. \A s \in Requests : request'[s].user = v => request'[s] = request[s]
    BY CommunityAssumption DEF Legacy!Idle
  <2> QED
    BY <1>1, <2>1, <2>2 DEF Apart
<1> QED
  BY <1>2, <1>3, <1>4, <1>5 DEF MarkInv

LEMMA GiveUpKeeps ==
    ASSUME MarkInv, NEW r \in Requests, Legacy!GiveUp(r)
    PROVE  MarkInv'
<1>1. mark' = mark /\ inserted' = inserted /\ likes' = likes /\ Legacy!Ends(r)
  BY DEF Legacy!GiveUp
<1>2. \A t : Legacy!On(t)' = Legacy!On(t)
  BY <1>1 DEF Legacy!On
<1>3. \A t \in Targets :
          \/ KindOf[t] # "counted" \/ \E u \in Users : <<u, t>> \in overlapped
          \/ likes'[t] <= Cardinality(Legacy!On(t)')
  BY <1>1, <1>2 DEF MarkInv, LikesAreCounted
<1>4. /\ overlapped' = overlapped /\ DOMAIN request' = Requests
      /\ \A s \in Requests : request'[s] \in {request[s], Legacy!Idle}
  BY <1>1, Ended
<1>5. likes' \in [Targets -> Nat]
  BY <1>1 DEF MarkInv, MarkTypes
<1> QED
  BY <1>1, <1>3, <1>4, <1>5, FewerRows

LEMMA CancelKeeps ==
    ASSUME MarkInv, NEW u \in Users, NEW t \in Targets, Legacy!Cancel(u, t)
    PROVE  MarkInv'
<1>1. /\ mark' = mark \ Legacy!Of(u, t) /\ inserted' = inserted /\ overlapped' = overlapped
      /\ request' = request
      /\ likes' = [likes EXCEPT ![t] =
            IF KindOf[t] = "counted" /\ likes[t] > 0 THEN likes[t] - 1 ELSE likes[t]]
  BY DEF Legacy!Cancel
<1>2. likes \in [Targets -> Nat] /\ IsFiniteSet(mark) /\ DOMAIN request = Requests
  BY DEF MarkInv, MarkTypes
<1>3. likes' \in [Targets -> Nat]
  BY <1>1, <1>2
<1>4. ASSUME NEW x \in Targets, KindOf[x] = "counted", ~\E v \in Users : <<v, x>> \in overlapped
      PROVE  likes'[x] <= Cardinality(Legacy!On(x)')
  <2>1. likes[x] <= Cardinality(Legacy!On(x))
    BY <1>4 DEF MarkInv, LikesAreCounted
  <2>2. IsFiniteSet(Legacy!On(x)) /\ Cardinality(Legacy!On(x)) \in Nat
    <3>1. Legacy!On(x) \in SUBSET mark
      BY DEF Legacy!On
    <3> QED
      BY <1>2, <3>1, FS_Subset, FS_CardinalityType
  <2>3. CASE x # t
    <3>1. Legacy!On(x)' = Legacy!On(x)
      BY <1>1, <2>3 DEF Legacy!On, Legacy!Of
    <3> QED
      BY <1>1, <1>2, <2>1, <2>3, <3>1
  <2>4. CASE x = t
    <3>1. Legacy!On(x)' = Legacy!On(x) \ Legacy!Of(u, t)
      BY <1>1, <2>4 DEF Legacy!On, Legacy!Of
    <3>2. \A m, n \in Legacy!Of(u, t) : m = n
      BY <1>4, <2>4 DEF MarkInv, Apart
    <3>3. CASE Legacy!Of(u, t) = {}
      <4>1. Legacy!On(x)' = Legacy!On(x) /\ likes'[x] <= likes[x] /\ likes'[x] \in Nat
        BY <1>1, <1>2, <2>4, <3>1, <3>3
      <4> QED
        BY <1>2, <2>1, <2>2, <4>1
    <3>4. CASE Legacy!Of(u, t) # {}
      <4>1. PICK m \in Legacy!Of(u, t) : Legacy!Of(u, t) = {m}
        BY <3>2, <3>4
      <4>2. m \in Legacy!On(x) /\ Legacy!On(x)' = Legacy!On(x) \ {m}
        BY <2>4, <3>1, <4>1 DEF Legacy!Of
      <4>3. Cardinality(Legacy!On(x)') = Cardinality(Legacy!On(x)) - 1
            /\ IsFiniteSet(Legacy!On(x)')
        BY <2>2, <4>2, FS_RemoveElement
      <4>4. Cardinality(Legacy!On(x)') \in Nat
        BY <4>3, FS_CardinalityType
      <4>5. likes'[x] = IF likes[x] > 0 THEN likes[x] - 1 ELSE likes[x]
        BY <1>1, <1>2, <1>4, <2>4
      <4> QED
        BY <1>2, <2>1, <2>2, <4>3, <4>4, <4>5
    <3> QED
      BY <3>3, <3>4
  <2> QED
    BY <2>3, <2>4
<1> QED
  BY <1>1, <1>2, <1>3, <1>4, FewerRows

LEMMA EraseKeeps ==
    ASSUME MarkInv, NEW u \in Users, Legacy!EraseAccount(u)
    PROVE  MarkInv'
<1>1. /\ mark' = {m \in mark : m.user # u} /\ inserted' = inserted
      /\ overlapped' = overlapped /\ request' = request
      /\ likes' = [t \in Targets |->
            IF KindOf[t] # "typed" /\ Legacy!Of(u, t) # {}
              THEN Legacy!Cardinality(Legacy!On(t) \ Legacy!Of(u, t)) ELSE likes[t]]
  BY DEF Legacy!EraseAccount
<1>2. likes \in [Targets -> Nat] /\ IsFiniteSet(mark) /\ DOMAIN request = Requests
  BY DEF MarkInv, MarkTypes
<1>3. ASSUME NEW t \in Targets
      PROVE  /\ Legacy!On(t)' = Legacy!On(t) \ Legacy!Of(u, t)
             /\ Cardinality(Legacy!On(t)') \in Nat
             /\ Legacy!Cardinality(Legacy!On(t)') = Cardinality(Legacy!On(t)')
  <2>1. Legacy!On(t)' = Legacy!On(t) \ Legacy!Of(u, t)
    BY <1>1 DEF Legacy!On, Legacy!Of
  <2>2. Legacy!On(t)' \in SUBSET mark
    BY <1>1 DEF Legacy!On
  <2>3. Cardinality(Legacy!On(t)') \in Nat
    BY <1>2, <2>2, FS_Subset, FS_CardinalityType
  <2> QED
    BY <2>1, <2>3 DEF Legacy!Cardinality, Cardinality
<1>4. likes' \in [Targets -> Nat]
  <2>1. \A t \in Targets : likes'[t] \in Nat
    BY <1>1, <1>2, <1>3
  <2> QED
    BY <1>1, <2>1
<1>5. ASSUME NEW t \in Targets, KindOf[t] = "counted", ~\E v \in Users : <<v, t>> \in overlapped
      PROVE  likes'[t] <= Cardinality(Legacy!On(t)')
  <2>1. CASE Legacy!Of(u, t) # {}
    <3>1. likes'[t] = Cardinality(Legacy!On(t)')
      BY <1>1, <1>3, <1>5, <2>1
    <3> QED
      BY <1>3, <3>1
  <2>2. CASE Legacy!Of(u, t) = {}
    <3>1. Legacy!On(t)' = Legacy!On(t) /\ likes'[t] = likes[t]
      BY <1>1, <1>3, <2>2
    <3> QED
      BY <1>5, <3>1 DEF MarkInv, LikesAreCounted
  <2> QED
    BY <2>1, <2>2
<1> QED
  BY <1>1, <1>2, <1>4, <1>5, FewerRows

LEMMA MarkKeeps == MarkInv /\ [Legacy!Marks]_markVars => MarkInv'
<1>1. MarkInv /\ UNCHANGED markVars => MarkInv'
  BY DEF markVars, MarkInv, MarkTypes, RowsAreNumbered, LikesAreCounted, Apart, Legacy!Of,
     Legacy!On
<1> QED
  BY <1>1, LookKeeps, InsertKeeps, RetypeKeeps, GiveUpKeeps, CancelKeeps, EraseKeeps
     DEF Legacy!Marks

LEMMA MarksMean == MarkInv => Legacy!MarksAreSingle
<1> SUFFICES ASSUME MarkInv
             PROVE  Legacy!MarksAreSingle
  OBVIOUS
<1>1. ASSUME NEW u \in Users, NEW t \in Targets, <<u, t>> \notin overlapped
      PROVE  Legacy!StatusCanBeRead(u, t)
  <2>1. \A m, n \in Legacy!Of(u, t) : m = n
    BY <1>1 DEF MarkInv, Apart
  <2> QED
    BY <2>1, OneMark DEF Legacy!StatusCanBeRead
<1>2. ASSUME NEW t \in Targets, KindOf[t] = "counted", likes[t] > Legacy!Cardinality(Legacy!On(t))
      PROVE  \E u \in Users : <<u, t>> \in overlapped
  <2>1. Legacy!On(t) \in SUBSET mark
    BY DEF Legacy!On
  <2>2. Legacy!Cardinality(Legacy!On(t)) = Cardinality(Legacy!On(t))
        /\ Cardinality(Legacy!On(t)) \in Nat /\ likes[t] \in Nat
    BY <2>1, FS_Subset, FS_CardinalityType DEF Legacy!Cardinality, Cardinality, MarkInv, MarkTypes
  <2> QED
    BY <1>2, <2>2 DEF MarkInv, LikesAreCounted
<1> QED
  BY <1>1, <1>2 DEF Legacy!MarksAreSingle

-----------------------------------------------------------------------------
(***************************************************************************)
(* Lists that are read by offset                                           *)
(***************************************************************************)
readerVars == <<thread, visitor>>
Count == Len(thread)
At(newest, i) == IF newest THEN thread[Count - i + 1] ELSE thread[i]

\* Each comment has one place in the list.
ThreadInv ==
    /\ thread \in Seq(Nat)
    /\ \A i \in 1..Count : thread[i] <= Count
    /\ \A i, j \in 1..Count : thread[i] = thread[j] => i = j

\* What the visitor has skipped was shown, as far as it was there all the time.
ReaderInv ==
    /\ ThreadInv
    /\ visitor.skip \in Nat /\ visitor.newest \in BOOLEAN
    /\ visitor.all \subseteq {thread[i] : i \in 1..Count}
    /\ ~visitor.over => \A i \in 1..Count :
          At(visitor.newest, i) \in visitor.all \ visitor.shown => i > visitor.skip
    /\ visitor.over => visitor.all \subseteq visitor.shown

LEMMA ListPlaces ==
    ASSUME ThreadInv, NEW newest \in BOOLEAN
    PROVE  /\ Count \in Nat
           /\ \A i \in 1..Count : At(newest, i) \in {thread[j] : j \in 1..Count}
           /\ \A i, j \in 1..Count : At(newest, i) = At(newest, j) => i = j
           /\ \A j \in 1..Count : \E i \in 1..Count : At(newest, i) = thread[j]
<1>1. Count \in Nat /\ DOMAIN thread = 1..Count /\ \A i \in 1..Count : Count - i + 1 \in 1..Count
  BY DEF ThreadInv, Count
<1>2. CASE newest
  <2>1. \A i \in 1..Count : At(newest, i) = thread[Count - i + 1]
    BY <1>2 DEF At
  <2>2. \A j \in 1..Count : Count - j + 1 \in 1..Count /\ Count - (Count - j + 1) + 1 = j
    BY <1>1
  <2> QED
    BY <1>1, <2>1, <2>2 DEF ThreadInv
<1>3. CASE ~newest
  BY <1>1, <1>3 DEF At, ThreadInv
<1> QED
  BY <1>2, <1>3

LEMMA ListedIs ==
    ASSUME ThreadInv, NEW newest \in BOOLEAN
    PROVE  /\ Len(Legacy!Listed(newest)) = Count
           /\ \A i \in 1..Count : Legacy!Listed(newest)[i] = At(newest, i)
           /\ Legacy!Range(thread) = {thread[i] : i \in 1..Count}
<1>1. Count \in Nat /\ DOMAIN thread = 1..Count /\ Len(thread) = Count
  BY DEF ThreadInv, Count
<1> HIDE DEF Count
<1>2. CASE newest
  <2>1. Legacy!Listed(newest) = [i \in 1..Len(thread) |-> thread[Len(thread) - i + 1]]
    BY <1>2 DEF Legacy!Listed
  <2>2. Legacy!Listed(newest) = [i \in 1..Count |-> thread[Count - i + 1]]
    BY <1>1, <2>1
  <2>3. \A i \in 1..Count : Legacy!Listed(newest)[i] = thread[Count - i + 1]
    BY <2>2
  <2>4. Len(Legacy!Listed(newest)) = Count
    BY <1>1, <2>2
  <2> QED
    BY <1>1, <1>2, <2>3, <2>4 DEF At, Legacy!Range
<1>3. CASE ~newest
  <2>1. Legacy!Listed(newest) = thread
    BY <1>3 DEF Legacy!Listed
  <2> QED
    BY <1>1, <1>3, <2>1 DEF At, Legacy!Range
<1> QED
  BY <1>2, <1>3

LEMMA PlaceIs ==
    ASSUME ThreadInv, NEW newest \in BOOLEAN, NEW i \in 1..Count
    PROVE  Legacy!PlaceOf(At(newest, i), newest) = i
<1> DEFINE c == At(newest, i)
           I == {j \in 1..Len(Legacy!Listed(newest)) : Legacy!Listed(newest)[j] = c}
<1>1. I = {i}
  <2>1. /\ Len(Legacy!Listed(newest)) = Count
        /\ \A j \in 1..Count : Legacy!Listed(newest)[j] = At(newest, j)
    BY ListedIs
  <2>2. \A j \in 1..Count : At(newest, j) = c => j = i
    BY ListPlaces
  <2>3. \A j \in 1..Count : Legacy!Listed(newest)[j] = c <=> j = i
    BY <2>1, <2>2
  <2> HIDE DEF c
  <2> QED
    BY <2>1, <2>3
<1>2. DOMAIN thread = 1..Len(Legacy!Listed(newest))
  BY ListedIs DEF ThreadInv, Count
<1>3. Legacy!PlaceOf(c, newest) = CHOOSE j \in DOMAIN thread : Legacy!Listed(newest)[j] = c
  BY DEF Legacy!PlaceOf
<1> HIDE DEF c
<1> QED
  BY <1>1, <1>2, <1>3 DEF c

\* A sheet has what is at its places.
LEMMA PageIs ==
    ASSUME ThreadInv, NEW newest \in BOOLEAN, NEW skip \in Nat
    PROVE  /\ \A i \in 1..Count : At(newest, i) \in Legacy!Page(newest, skip) <=>
                                     i \in (skip + 1)..(skip + PageSize)
           /\ Legacy!Cardinality(Legacy!Page(newest, skip)) \in 0..PageSize
           /\ Legacy!Page(newest, skip) = {} => Count <= skip
<1> DEFINE sheet == Legacy!Page(newest, skip)
           window == (skip + 1)..(skip + PageSize)
           f == [c \in sheet |-> Legacy!PlaceOf(c, newest)]
<1>1. PageSize \in Nat \ {0}
  BY CommunityAssumption
<1>2. sheet = {c \in {thread[i] : i \in 1..Count} : Legacy!PlaceOf(c, newest) \in window}
  BY ListedIs DEF Legacy!Page
<1>3. \A i \in 1..Count : At(newest, i) \in sheet <=> i \in window
  BY <1>2, ListPlaces, PlaceIs
<1>4. \A c \in sheet : \E i \in 1..Count : c = At(newest, i)
  BY <1>2, ListPlaces
<1>5. IsFiniteSet(window) /\ Cardinality(window) = PageSize
  <2> DEFINE a == skip + 1
             b == skip + PageSize
  <2>1. a \in Int /\ b \in Int /\ ~(a > b) /\ b - a + 1 = PageSize
    BY <1>1
  <2> HIDE DEF a, b
  <2>2. IsFiniteSet(a..b) /\ Cardinality(a..b) = IF a > b THEN 0 ELSE b - a + 1
    BY <2>1, FS_Interval
  <2>3. window = a..b
    BY DEF a, b
  <2> QED
    BY <2>1, <2>2, <2>3
<1>6. f \in Injection(sheet, window)
  <2>1. f \in [sheet -> window]
    BY <1>2
  <2>2. \A c, d \in sheet : f[c] = f[d] => c = d
    BY <1>4, PlaceIs
  <2> QED
    BY <2>1, <2>2 DEF Injection, IsInjective
<1> HIDE DEF sheet, window, f
<1>7. Cardinality(sheet) \in 0..PageSize
  <2>1. IsFiniteSet(sheet) /\ Cardinality(sheet) <= PageSize
    BY <1>5, <1>6, FS_Injection
  <2>2. Cardinality(sheet) \in Nat
    BY <2>1, FS_CardinalityType
  <2> QED
    BY <1>1, <2>1, <2>2
<1>8. sheet = {} => Count <= skip
  <2>1. Count > skip => skip + 1 \in 1..Count /\ skip + 1 \in window
    BY <1>1, ListPlaces DEF window
  <2> QED
    BY <1>3, <2>1, ListPlaces
<1>9. Legacy!Cardinality(sheet) = Cardinality(sheet)
  BY DEF Legacy!Cardinality, Cardinality
<1> QED
  BY <1>3, <1>7, <1>8, <1>9 DEF sheet, window

\* The visitor reads on.
LEMMA ReadsKeep ==
    ASSUME ThreadInv, NEW newest \in BOOLEAN, NEW skip \in Nat, NEW shown, NEW all,
           all \subseteq {thread[i] : i \in 1..Count},
           \A i \in 1..Count : At(newest, i) \in all \ shown => i > skip,
           Legacy!Reads(newest, skip, shown, all)
    PROVE  ReaderInv'
<1> DEFINE sheet == Legacy!Page(newest, skip)
           size == Legacy!Cardinality(sheet)
<1>1. /\ thread' = thread
      /\ visitor' = [shown |-> shown \cup sheet, all |-> all, newest |-> newest,
                     skip |-> skip + size, over |-> sheet = {}]
  BY DEF Legacy!Reads
<1>2. /\ \A i \in 1..Count : At(newest, i) \in sheet <=> i \in (skip + 1)..(skip + PageSize)
      /\ size \in 0..PageSize
      /\ sheet = {} => Count <= skip
  BY PageIs
<1>3. Count \in Nat /\ PageSize \in Nat \ {0}
  BY ListPlaces, CommunityAssumption
<1> HIDE DEF sheet, size
<1>4. /\ visitor'.shown = shown \cup sheet /\ visitor'.all = all /\ visitor'.newest = newest
      /\ visitor'.skip = skip + size /\ visitor'.over = (sheet = {})
  BY <1>1
<1>5. Count' = Count /\ \A i : At(newest, i)' = At(newest, i)
  BY <1>1 DEF Count, At
<1>6. ThreadInv'
  BY <1>1, <1>5 DEF ThreadInv
<1>7. \A i \in 1..Count : At(newest, i) \in all \ (shown \cup sheet) => i > skip + size
  BY <1>2, <1>3
<1>8. sheet = {} => all \subseteq shown
  <2> SUFFICES ASSUME sheet = {}, NEW c \in all
               PROVE  c \in shown
    OBVIOUS
  <2>0. PICK j \in 1..Count : c = thread[j]
    OBVIOUS
  <2>1. PICK i \in 1..Count : c = At(newest, i)
    BY <2>0, ListPlaces
  <2>2. Count <= skip
    BY <1>2
  <2> QED
    BY <1>3, <2>1, <2>2
<1>a. /\ visitor'.skip \in Nat /\ visitor'.newest \in BOOLEAN
      /\ visitor'.all \subseteq {thread'[i] : i \in 1..Count'}
  BY <1>1, <1>2, <1>3, <1>4, <1>5
<1>b. \A i \in 1..Count' :
          At(visitor.newest, i)' \in visitor'.all \ visitor'.shown => i > visitor'.skip
  <2>1. \A i : At(visitor.newest, i)' = At(newest, i)
    BY <1>1, <1>4, <1>5 DEF At
  <2> QED
    BY <1>4, <1>5, <1>7, <2>1
<1>c. visitor'.over => visitor'.all \subseteq visitor'.shown
  BY <1>4, <1>8
<1> QED
  BY <1>6, <1>a, <1>b, <1>c DEF ReaderInv

LEMMA PostKeeps ==
    ASSUME ReaderInv, Legacy!PostComment
    PROVE  ReaderInv'
<1>1. PICK place \in 1..(Count + 1) :
         thread' = SubSeq(thread, 1, place - 1) \o <<Count + 1>> \o SubSeq(thread, place, Count)
  BY DEF Legacy!PostComment, Count
<1>2. visitor' = visitor
  BY DEF Legacy!PostComment
<1>3. Count \in Nat /\ Len(thread) = Count /\ thread \in Seq(Nat) /\ DOMAIN thread = 1..Count
  BY DEF ReaderInv, ThreadInv, Count
<1> HIDE DEF Count
<1> DEFINE before == SubSeq(thread, 1, place - 1)
           after == SubSeq(thread, place, Count)
<1>4. /\ before \in Seq(Nat) /\ Len(before) = place - 1
      /\ \A i \in 1..(place - 1) : before[i] = thread[i]
  BY <1>3
<1>5. /\ after \in Seq(Nat) /\ Len(after) = Count - place + 1
      /\ \A i \in 1..(Count - place + 1) : after[i] = thread[place + i - 1]
  BY <1>3
<1>6. thread' = (before \o <<Count + 1>>) \o after
  BY <1>1, <1>3
<1> HIDE DEF before, after
<1>7. /\ thread' \in Seq(Nat) /\ Len(thread') = Count + 1
      /\ \A i \in 1..(place - 1) : thread'[i] = thread[i]
      /\ thread'[place] = Count + 1
      /\ \A i \in place..Count : thread'[i + 1] = thread[i]
  <2>1. /\ before \o <<Count + 1>> \in Seq(Nat) /\ Len(before \o <<Count + 1>>) = place
        /\ \A i \in 1..(place - 1) : (before \o <<Count + 1>>)[i] = thread[i]
        /\ (before \o <<Count + 1>>)[place] = Count + 1
    <3>1. Count + 1 \in Nat /\ place \in Nat /\ place - 1 \in Nat
      BY <1>3
    <3>2. <<Count + 1>> \in Seq(Nat) /\ Len(<<Count + 1>>) = 1 /\ <<Count + 1>>[1] = Count + 1
      BY <3>1
    <3> DEFINE one == <<Count + 1>>
    <3> HIDE DEF one
    <3>3. before \o one \in Seq(Nat)
      BY <1>4, <3>2 DEF one
    <3>4. /\ Len(before \o one) = Len(before) + Len(one)
          /\ \A i \in 1..Len(before) : (before \o one)[i] = before[i]
          /\ \A i \in 1..Len(one) : (before \o one)[Len(before) + i] = one[i]
      BY <1>4, <3>2, Joined DEF one
    <3>5. (before \o one)[place - 1 + 1] = one[1] /\ place - 1 + 1 = place
      BY <1>4, <3>1, <3>2, <3>4 DEF one
    <3> QED
      BY <1>4, <3>1, <3>2, <3>3, <3>4, <3>5 DEF one
  <2> DEFINE first == before \o <<Count + 1>>
  <2>2. thread' = first \o after
    BY <1>6
  <2> HIDE DEF first
  <2>3. /\ first \o after \in Seq(Nat) /\ Len(first \o after) = Count + 1
        /\ \A i \in 1..place : (first \o after)[i] = first[i]
        /\ \A i \in 1..(Count - place + 1) : (first \o after)[place + i] = after[i]
    <3>1. first \in Seq(Nat) /\ Len(first) = place
      BY <2>1 DEF first
    <3>2. /\ first \o after \in Seq(Nat) /\ Len(first \o after) = Len(first) + Len(after)
          /\ \A i \in 1..Len(first) : (first \o after)[i] = first[i]
          /\ \A i \in 1..Len(after) : (first \o after)[Len(first) + i] = after[i]
      <4>1. first \o after \in Seq(Nat)
        BY <1>5, <3>1
      <4>2. after \in Seq(Nat)
        BY <1>5
      <4>3. /\ Len(first \o after) = Len(first) + Len(after)
            /\ \A i \in 1..Len(first) : (first \o after)[i] = first[i]
            /\ \A i \in 1..Len(after) : (first \o after)[Len(first) + i] = after[i]
        <5>1. first \in Seq(Nat) /\ after \in Seq(Nat)
          BY <3>1, <4>2
        <5> QED
          BY <5>1, Joined
      <4> QED
        BY <4>1, <4>3
    <3>3. Len(first) + Len(after) = Count + 1
      BY <1>3, <1>5, <3>1
    <3> QED
      BY <1>5, <3>1, <3>2, <3>3
  <2>4. \A i \in place..Count : i - place + 1 \in 1..(Count - place + 1)
                                /\ place + (i - place + 1) = i + 1
                                /\ place + (i - place + 1) - 1 = i
    BY <1>3
  <2>5. \A i \in place..Count : (first \o after)[i + 1] = thread[i]
    <3> SUFFICES ASSUME NEW i \in place..Count
                 PROVE  (first \o after)[i + 1] = thread[i]
      OBVIOUS
    <3> DEFINE j == i - place + 1
    <3>1. (first \o after)[place + j] = after[j] /\ after[j] = thread[place + j - 1]
      BY <1>5, <2>3, <2>4
    <3> QED
      BY <2>4, <3>1
  <2>6. \A i \in 1..(place - 1) : i \in 1..place
    BY <1>3
  <2>7. place \in 1..place
    BY <1>3
  <2> QED
    BY <2>1, <2>2, <2>3, <2>5, <2>6, <2>7 DEF first
<1>8. Count' = Count + 1
  BY <1>7 DEF Count
\* Where each place of the list has gone.
<1> DEFINE moved(i) == IF i < place THEN i ELSE i + 1
<1>9. \A i \in 1..Count : moved(i) \in 1..(Count + 1) /\ moved(i) # place
                          /\ thread'[moved(i)] = thread[i]
  BY <1>3, <1>7
<1>10. \A k \in 1..(Count + 1) : k = place \/ \E i \in 1..Count : k = moved(i)
  <2> SUFFICES ASSUME NEW k \in 1..(Count + 1), k # place
               PROVE  \E i \in 1..Count : k = moved(i)
    OBVIOUS
  <2>1. CASE k < place
    <3>1. k \in 1..Count /\ k = moved(k)
      BY <1>3, <2>1
    <3> QED
      BY <3>1
  <2>2. CASE k > place
    <3>1. k - 1 \in 1..Count /\ k = moved(k - 1)
      BY <1>3, <2>2
    <3> QED
      BY <3>1
  <2> QED
    BY <1>3, <2>1, <2>2
<1>11. ThreadInv'
  <2>1. \A i \in 1..Count : thread[i] <= Count /\ thread[i] \in Nat
    BY <1>3 DEF ReaderInv, ThreadInv
  <2>2. \A i, j \in 1..Count : thread[i] = thread[j] => i = j
    BY DEF ReaderInv, ThreadInv
  <2>3. \A k \in 1..(Count + 1) :
            thread'[k] <= Count + 1 /\ (k # place => thread'[k] # Count + 1)
    <3> SUFFICES ASSUME NEW k \in 1..(Count + 1)
                 PROVE  thread'[k] <= Count + 1 /\ (k # place => thread'[k] # Count + 1)
      OBVIOUS
    <3>1. CASE k = place
      BY <1>3, <1>7, <3>1
    <3>2. CASE k # place
      <4>1. PICK i \in 1..Count : k = moved(i)
        BY <1>10, <3>2
      <4>2. thread'[k] = thread[i] /\ thread[i] <= Count /\ thread[i] \in Nat
        BY <1>9, <2>1, <4>1
      <4> QED
        BY <1>3, <4>2
    <3> QED
      BY <3>1, <3>2
  <2>4. ASSUME NEW k \in 1..(Count + 1), NEW l \in 1..(Count + 1), thread'[k] = thread'[l]
        PROVE  k = l
    <3>1. CASE k = place \/ l = place
      BY <1>7, <2>3, <2>4, <3>1
    <3>2. CASE k # place /\ l # place
      <4>1. PICK i \in 1..Count : k = moved(i)
        BY <1>10, <3>2
      <4>2. PICK j \in 1..Count : l = moved(j)
        BY <1>10, <3>2
      <4>3. thread[i] = thread[j]
        BY <1>9, <2>4, <4>1, <4>2
      <4> QED
        BY <2>2, <4>1, <4>2, <4>3
    <3> QED
      BY <3>1, <3>2
  <2> QED
    BY <1>7, <1>8, <2>3, <2>4 DEF ThreadInv
<1> DEFINE newest == visitor.newest
<1>12. newest \in BOOLEAN /\ visitor.skip \in Nat
       /\ visitor.all \subseteq {thread[i] : i \in 1..Count}
  BY DEF ReaderInv
<1>13. visitor.all \subseteq {thread'[k] : k \in 1..(Count + 1)}
  BY <1>9, <1>12
<1>14. ASSUME ~visitor.over, NEW k \in 1..(Count + 1),
              At(newest, k)' \in visitor.all \ visitor.shown
       PROVE  k > visitor.skip
  <2>1. \A i \in 1..Count : At(newest, i) \in visitor.all \ visitor.shown => i > visitor.skip
    BY <1>14 DEF ReaderInv
  <2>2. \A c \in visitor.all : c # Count + 1
    BY <1>3, <1>12 DEF ReaderInv, ThreadInv
  <2>3. CASE newest
    <3> DEFINE l == Count + 1 - k + 1
    <3>1. At(newest, k)' = thread'[l] /\ l \in 1..(Count + 1)
      BY <1>2, <1>3, <1>8, <2>3 DEF At
    <3>2. l # place
      BY <1>7, <1>14, <2>2, <3>1
    <3>3. PICK i \in 1..Count : l = moved(i)
      BY <1>10, <3>1, <3>2
    <3>4. /\ Count - i + 1 \in 1..Count /\ Count - (Count - i + 1) + 1 = i
          /\ k >= Count - i + 1
      BY <1>3, <3>3
    <3>5. At(newest, Count - i + 1) = thread[i]
      BY <2>3, <3>4 DEF At
    <3>6. Count - i + 1 > visitor.skip
      BY <1>9, <1>14, <2>1, <3>1, <3>3, <3>4, <3>5
    <3> QED
      BY <1>3, <1>12, <3>4, <3>6
  <2>4. CASE ~newest
    <3>1. At(newest, k)' = thread'[k]
      BY <1>2, <2>4 DEF At
    <3>2. k # place
      BY <1>7, <1>14, <2>2, <3>1
    <3>3. PICK i \in 1..Count : k = moved(i)
      BY <1>10, <3>2
    <3>4. At(newest, i) = thread[i] /\ k >= i
      BY <1>3, <2>4, <3>3 DEF At
    <3>5. i > visitor.skip
      BY <1>9, <1>14, <2>1, <3>1, <3>3, <3>4
    <3> QED
      BY <1>3, <1>12, <3>4, <3>5
  <2> QED
    BY <2>3, <2>4
<1>15. visitor.over => visitor.all \subseteq visitor.shown
  BY DEF ReaderInv
<1> QED
  BY <1>2, <1>8, <1>11, <1>12, <1>13, <1>14, <1>15 DEF ReaderInv

LEMMA ReaderKeeps == ReaderInv /\ [Legacy!Lists]_readerVars => ReaderInv'
<1>1. ReaderInv /\ UNCHANGED readerVars => ReaderInv'
  BY DEF readerVars, ReaderInv, ThreadInv, At, Count
<1>2. ASSUME ReaderInv, Legacy!FirstPage
      PROVE  ReaderInv'
  <2>1. PICK newest \in BOOLEAN : Legacy!Reads(newest, 0, {}, Legacy!Range(thread))
    BY <1>2 DEF Legacy!FirstPage
  <2>2. ThreadInv /\ Legacy!Range(thread) = {thread[i] : i \in 1..Count} /\ 0 \in Nat
    BY <1>2, ListedIs DEF ReaderInv
  <2>3. \A i \in 1..Count : i > 0
    BY ListPlaces, <2>2
  <2> QED
    BY <2>1, <2>2, <2>3, ReadsKeep
<1>3. ASSUME ReaderInv, Legacy!NextPage
      PROVE  ReaderInv'
  BY <1>3, ReadsKeep DEF Legacy!NextPage, ReaderInv
<1> QED
  BY <1>1, <1>2, <1>3, PostKeeps DEF Legacy!Lists

LEMMA ReaderInit == Legacy!Init => ReaderInv
BY DEF Legacy!Init, Legacy!Unread, ReaderInv, ThreadInv, Count, At

-----------------------------------------------------------------------------
(***************************************************************************)
(* The comments of the accounts, page by page                              *)
(***************************************************************************)
communityVars == <<comment, posted, view>>
Commented == [id : Nat \ {0}, owner : Accounts \cup {Anonymous}, name : Nat]
Viewings == [at : Nat, shown : Seq(Commented), all : SUBSET Commented, over : BOOLEAN]

\* A comment has a number of its own.
Numbers ==
    /\ posted \in Nat /\ IsFiniteSet(comment) /\ comment \subseteq Commented
    /\ \A c, d \in comment : c.id = d.id => c = d

\* What a player has been shown: in order, up to where it is, and of what has
\* been there all the time all up to there.
Covers(v, there) ==
    /\ v.all \subseteq there
    /\ \A i, j \in 1..Len(v.shown) : i < j => v.shown[i].id < v.shown[j].id
    /\ v.over => \A c \in v.all : \E i \in 1..Len(v.shown) : v.shown[i] = c
    /\ ~v.over =>
          /\ \A i \in 1..Len(v.shown) : v.shown[i].id <= v.at
          /\ \A c \in v.all : c.id <= v.at => \E i \in 1..Len(v.shown) : v.shown[i] = c

ViewInv ==
    /\ Numbers
    /\ view \in [Players -> Viewings]
    /\ \A p \in Players : Covers(view[p], comment)

LEMMA ViewInit == Danmaku!Init => ViewInv
<1> SUFFICES ASSUME Danmaku!Init
             PROVE  ViewInv
  OBVIOUS
<1>1. Danmaku!NoView \in Viewings
  BY DEF Danmaku!NoView, Viewings
<1> QED
  BY <1>1, FS_EmptySet DEF Danmaku!Init, Danmaku!NoView, ViewInv, Numbers, Covers

LEMMA LesserOfTwo ==
    ASSUME NEW a \in Int, NEW b \in Int
    PROVE  Danmaku!Min({a, b}) = IF a <= b THEN a ELSE b
BY DEF Danmaku!Min

\* The numbers of some comments are finitely many.
LEMMA NumbersOf ==
    ASSUME NEW C, IsFiniteSet(C), C \subseteq Commented
    PROVE  IsFiniteSet({c.id : c \in C}) /\ {c.id : c \in C} \subseteq Nat \ {0}
<1> DEFINE S == {c.id : c \in C}
           f == [c \in C |-> c.id]
<1>1. f \in Surjection(C, S)
  BY DEF Surjection
<1>2. S \subseteq Nat \ {0}
  BY DEF Commented
<1> HIDE DEF f, S
<1>3. IsFiniteSet(S)
  BY <1>1, FS_Surjection
<1> QED
  BY <1>2, <1>3 DEF S

\* A page: what is beyond a number, as many as fit, and whether that is all.
LEMMA PageOf ==
    ASSUME Numbers, NEW after \in Nat
    PROVE  LET sheet == Danmaku!Page(after)
               rows == sheet.rows IN
           /\ sheet.more \in BOOLEAN /\ rows \in Seq(comment)
           /\ \A i, j \in 1..Len(rows) : i < j => rows[i].id < rows[j].id
           /\ \A i \in 1..Len(rows) : after < rows[i].id
           /\ sheet.more =>
                 /\ Len(rows) # 0
                 /\ \A c \in comment : after < c.id /\ c.id <= rows[Len(rows)].id =>
                       \E i \in 1..Len(rows) : rows[i] = c
           /\ ~sheet.more =>
                 \A c \in comment : after < c.id => \E i \in 1..Len(rows) : rows[i] = c
<1> DEFINE C == {d \in comment : d.id > after}
           S == {c.id : c \in C}
           beyond == Danmaku!InOrder(S)
           size == Cardinality(S)
           sheet == Danmaku!Page(after)
           rows == sheet.rows
           length == IF DanmakuPage <= size THEN DanmakuPage ELSE size
<1>1. IsFiniteSet(S) /\ S \subseteq Nat \ {0}
  <2>1. C \in SUBSET comment /\ C \subseteq Commented
    BY DEF Numbers
  <2>2. IsFiniteSet(C)
    BY <2>1, FS_Subset DEF Numbers
  <2> HIDE DEF C
  <2> QED
    BY <2>1, <2>2, NumbersOf
<1>2. /\ \A i \in S : after < i /\ \E c \in comment : c.id = i
      /\ \A c \in comment : after < c.id => c.id \in S
  OBVIOUS
<1>3. DanmakuPage \in Nat \ {0}
  BY CommunityAssumption
<1>4. sheet = [rows |-> [n \in 1..Danmaku!Min({DanmakuPage, Len(beyond)}) |->
                           Danmaku!Numbered(beyond[n])],
              more |-> Len(beyond) > DanmakuPage]
  BY DEF Danmaku!Page
<1> HIDE DEF S, C
<1>5. /\ size \in Nat /\ beyond \in [1..size -> S] /\ Len(beyond) = size
      /\ \A m, n \in 1..size : m < n => beyond[m] < beyond[n]
      /\ \A i \in S : \E n \in 1..size : beyond[n] = i
  <2>1. S \subseteq Int
    BY <1>1
  <2> QED
    BY <1>1, <2>1, Ordered
<1>6. Danmaku!Min({DanmakuPage, Len(beyond)}) = length
  BY <1>3, <1>5, LesserOfTwo
<1>7. sheet.more = (size > DanmakuPage)
      /\ rows = [n \in 1..length |-> Danmaku!Numbered(beyond[n])]
  BY <1>4, <1>5, <1>6
<1>a. /\ sheet.more \in BOOLEAN
      /\ sheet.more => size > DanmakuPage
      /\ ~sheet.more => size <= DanmakuPage
  <2>1. CASE size > DanmakuPage
    BY <1>7, <2>1
  <2>2. CASE ~(size > DanmakuPage)
    <3>0. (size > DanmakuPage) = FALSE
      BY <2>2
    <3>1. sheet.more = FALSE
      BY <1>7, <3>0
    <3>2. size <= DanmakuPage
      BY <1>3, <1>5, <2>2
    <3> QED
      BY <3>1, <3>2
  <2> QED
    BY <2>1, <2>2
<1>8. \A c \in comment : Danmaku!Numbered(c.id) = c
  BY DEF Danmaku!Numbered, Numbers
<1> HIDE DEF beyond, size, sheet
<1>9. length \in Nat /\ length <= size /\ length <= DanmakuPage
      /\ (size > DanmakuPage => length = DanmakuPage) /\ (size <= DanmakuPage => length = size)
  BY <1>3, <1>5
<1> HIDE DEF length
<1>10. ASSUME NEW n \in 1..length
       PROVE  /\ rows[n] \in comment /\ rows[n].id = beyond[n] /\ beyond[n] \in S
              /\ n \in 1..size
  <2>1. n \in 1..size
    BY <1>5, <1>9
  <2>2. beyond[n] \in S
    BY <1>5, <2>1
  <2>3. PICK c \in comment : c.id = beyond[n]
    BY <1>2, <2>2
  <2>4. rows[n] = Danmaku!Numbered(beyond[n])
    BY <1>7
  <2> QED
    BY <1>8, <2>1, <2>2, <2>3, <2>4
<1>11. rows \in Seq(comment) /\ Len(rows) = length /\ DOMAIN rows = 1..length
  <2>1. rows \in [1..length -> comment]
    BY <1>7, <1>10
  <2> QED
    BY <1>9, <2>1
<1>12. \A i, j \in 1..length : i < j => rows[i].id < rows[j].id
  BY <1>5, <1>10
<1>13. \A i \in 1..length : after < rows[i].id
  BY <1>2, <1>10
<1>14. ASSUME NEW c \in comment, after < c.id
       PROVE  \E n \in 1..size : beyond[n] = c.id /\ (n <= length => rows[n] = c)
  <2>1. PICK n \in 1..size : beyond[n] = c.id
    BY <1>2, <1>5, <1>14
  <2>2. n <= length => rows[n] = c
    <3> SUFFICES ASSUME n <= length
                 PROVE  rows[n] = c
      OBVIOUS
    <3>1. n \in 1..length
      BY <1>9
    <3> QED
      BY <1>7, <1>8, <2>1, <3>1
  <2> QED
    BY <2>1, <2>2
<1>15. ASSUME ~sheet.more, NEW c \in comment, after < c.id
       PROVE  \E i \in 1..length : rows[i] = c
  <2>1. length = size
    BY <1>9, <1>15, <1>a
  <2> QED
    BY <1>5, <1>14, <1>15, <2>1
<1>16. ASSUME sheet.more
       PROVE  /\ length # 0
              /\ \A c \in comment : after < c.id /\ c.id <= rows[length].id =>
                    \E i \in 1..length : rows[i] = c
  <2>1. length = DanmakuPage /\ length # 0 /\ length \in 1..size /\ length \in 1..length
    BY <1>3, <1>9, <1>16, <1>a
  <2>2. ASSUME NEW c \in comment, after < c.id, c.id <= rows[length].id
        PROVE  \E i \in 1..length : rows[i] = c
    <3>1. PICK n \in 1..size : beyond[n] = c.id /\ (n <= length => rows[n] = c)
      BY <1>14, <2>2
    <3>2. beyond[n] <= beyond[length]
      BY <1>10, <2>1, <2>2, <3>1
    <3>3. beyond[n] \in Nat /\ beyond[length] \in Nat
      BY <1>1, <1>5, <2>1, <3>1
    <3>4. ~(length < n)
      BY <1>5, <2>1, <3>2, <3>3
    <3>5. n \in 1..length
      BY <1>5, <1>9, <3>4
    <3> QED
      BY <3>1, <3>5
  <2> QED
    BY <2>1, <2>2
<1> QED
  BY <1>11, <1>12, <1>13, <1>15, <1>16, <1>a DEF sheet

\* A player reads a page.
LEMMA ReadsOn ==
    ASSUME ViewInv, NEW p \in Players, NEW after \in Nat, NEW shown \in Seq(Commented),
           NEW all \in SUBSET comment,
           \A i, j \in 1..Len(shown) : i < j => shown[i].id < shown[j].id,
           \A i \in 1..Len(shown) : shown[i].id <= after,
           \A c \in all : c.id <= after => \E i \in 1..Len(shown) : shown[i] = c,
           Danmaku!Reads(p, after, shown, all)
    PROVE  ViewInv'
<1> DEFINE sheet == Danmaku!Page(after)
           rows == sheet.rows
           new == [at |-> IF sheet.more THEN rows[Len(rows)].id ELSE 0,
                   shown |-> shown \o rows, all |-> all, over |-> ~sheet.more]
           n == Len(shown)
<1>1. view' = [view EXCEPT ![p] = new] /\ comment' = comment /\ posted' = posted
  BY DEF Danmaku!Reads
<1>2. /\ sheet.more \in BOOLEAN /\ rows \in Seq(comment)
      /\ \A i, j \in 1..Len(rows) : i < j => rows[i].id < rows[j].id
      /\ \A i \in 1..Len(rows) : after < rows[i].id
      /\ sheet.more =>
            /\ Len(rows) # 0
            /\ \A c \in comment : after < c.id /\ c.id <= rows[Len(rows)].id =>
                  \E i \in 1..Len(rows) : rows[i] = c
      /\ ~sheet.more =>
            \A c \in comment : after < c.id => \E i \in 1..Len(rows) : rows[i] = c
  BY PageOf DEF ViewInv
<1> HIDE DEF sheet
<1>4. rows \in Seq(Commented) /\ \A i \in 1..Len(rows) : rows[i] \in comment /\ rows[i] \in Commented
  BY <1>2 DEF ViewInv, Numbers
<1> DEFINE m == Len(rows)
           both == shown \o rows
<1>5. m \in Nat /\ n \in Nat
  BY <1>4
<1>6. /\ both \in Seq(Commented) /\ Len(both) = n + m
      /\ \A i \in 1..n : both[i] = shown[i]
      /\ \A i \in 1..m : both[n + i] = rows[i]
  <2>1. both \in Seq(Commented)
    BY <1>4
  <2> QED
    BY <1>4, <2>1, Joined
<1>7. \A i \in 1..n : shown[i].id \in Nat
  <2>1. \A i \in 1..n : shown[i] \in Commented
    OBVIOUS
  <2> QED
    BY <2>1 DEF Commented
<1>8. \A i \in 1..m : rows[i].id \in Nat
  BY <1>4 DEF Commented
<1> DEFINE end == rows[m].id
<1>9. new = [at |-> IF sheet.more THEN end ELSE 0, shown |-> both, all |-> all,
             over |-> ~sheet.more]
  OBVIOUS
<1> HIDE DEF rows, n, m, both, new, end
<1>10. \A k \in 1..(n + m) : k \in 1..n \/ \E i \in 1..m : k = n + i
  <2> SUFFICES ASSUME NEW k \in 1..(n + m), k \notin 1..n
               PROVE  \E i \in 1..m : k = n + i
    OBVIOUS
  <2>1. k - n \in 1..m /\ k = n + (k - n)
    BY <1>5
  <2> QED
    BY <2>1
<1>11. ASSUME NEW i \in 1..(n + m), NEW j \in 1..(n + m), i < j
       PROVE  both[i].id < both[j].id
  <2>1. CASE i \in 1..n /\ j \in 1..n
    BY <1>6, <1>11, <2>1 DEF n
  <2>2. CASE i \in 1..n /\ j \notin 1..n
    <3>1. PICK k \in 1..m : j = n + k
      BY <1>10, <2>2
    <3>2. both[i] = shown[i] /\ both[j] = rows[k]
      BY <1>6, <2>2, <3>1
    <3>3. shown[i].id <= after /\ after < rows[k].id
      BY <1>2, <2>2, <3>1 DEF n, m, rows
    <3> QED
      BY <1>7, <1>8, <2>2, <3>1, <3>2, <3>3
  <2>3. CASE i \notin 1..n
    <3>1. PICK k \in 1..m : i = n + k
      BY <1>10, <2>3
    <3>2. j \notin 1..n
      BY <1>5, <1>11, <2>3
    <3>3. PICK l \in 1..m : j = n + l
      BY <1>10, <3>2
    <3>4. both[i] = rows[k] /\ both[j] = rows[l] /\ k < l
      BY <1>5, <1>6, <1>11, <3>1, <3>3
    <3> QED
      BY <1>2, <3>1, <3>3, <3>4 DEF m, rows
  <2> QED
    BY <2>1, <2>2, <2>3
<1>12. \A i \in 1..n : \E k \in 1..(n + m) : both[k] = shown[i]
  BY <1>5, <1>6
<1>13. \A i \in 1..m : \E k \in 1..(n + m) : both[k] = rows[i]
  <2>1. \A i \in 1..m : n + i \in 1..(n + m)
    BY <1>5
  <2> QED
    BY <1>6, <2>1
<1>14. ASSUME NEW c \in all, sheet.more => c.id <= end
       PROVE  \E k \in 1..(n + m) : both[k] = c
  <2>1. c \in comment /\ c.id \in Nat
    BY DEF ViewInv, Numbers, Commented
  <2>2. CASE c.id <= after
    <3>1. PICK i \in 1..n : shown[i] = c
      BY <2>2 DEF n
    <3> QED
      BY <1>12, <3>1
  <2>3. CASE after < c.id
    <3>1. PICK i \in 1..m : rows[i] = c
      BY <1>2, <1>14, <2>1, <2>3 DEF m, rows, end
    <3> QED
      BY <1>13, <3>1
  <2> QED
    BY <2>1, <2>2, <2>3
<1>15. sheet.more => end \in Nat /\ \A k \in 1..(n + m) : both[k].id <= end
  <2> SUFFICES ASSUME sheet.more
               PROVE  end \in Nat /\ \A k \in 1..(n + m) : both[k].id <= end
    OBVIOUS
  <2>1. m # 0
    BY <1>2 DEF m, rows
  <2>2. m \in 1..m /\ n + m \in 1..(n + m)
    BY <1>5, <2>1
  <2>3. end \in Nat /\ both[n + m].id = end
    BY <1>6, <1>8, <2>2 DEF end
  <2>4. \A k \in 1..(n + m) : k = n + m \/ k < n + m
    BY <1>5
  <2>5. \A k \in 1..(n + m) : both[k].id \in Nat
    <3>1. \A k \in 1..(n + m) : both[k] \in Commented
      BY <1>5, <1>6
    <3> QED
      BY <3>1 DEF Commented
  <2> QED
    BY <1>11, <2>2, <2>3, <2>4, <2>5
<1>16. new \in Viewings /\ Covers(new, comment)
  <2>1. /\ new.shown = both /\ new.all = all /\ new.over = ~sheet.more
        /\ new.at = IF sheet.more THEN end ELSE 0
    BY <1>9
  <2>2. new \in Viewings
    BY <1>2, <1>6, <1>9, <1>15 DEF Viewings, ViewInv, Numbers
  <2>3. Covers(new, comment)
    BY <1>2, <1>6, <1>11, <1>14, <1>15, <2>1 DEF Covers
  <2> QED
    BY <2>2, <2>3
<1>17. \A q \in Players : q # p => view'[q] = view[q]
  BY <1>1 DEF ViewInv
<1>18. view' \in [Players -> Viewings] /\ view'[p] = new
  BY <1>1, <1>16 DEF ViewInv
<1>19. ASSUME NEW q \in Players
       PROVE  Covers(view'[q], comment')
  <2>1. CASE q = p
    BY <1>1, <1>16, <1>18, <2>1
  <2>2. CASE q # p
    BY <1>1, <1>17, <2>2 DEF ViewInv
  <2> QED
    BY <2>1, <2>2
<1> QED
  BY <1>1, <1>18, <1>19 DEF ViewInv, Numbers

LEMMA CreateKeeps ==
    ASSUME ViewInv, NEW a \in Accounts, Danmaku!CreateDanmaku(a)
    PROVE  ViewInv'
<1> DEFINE T == {0} \cup {c.id : c \in comment}
           new == [id |-> Danmaku!NextId, owner |-> a, name |-> posted + 1]
<1>1. /\ posted' = posted + 1 /\ comment' = comment \cup {new} /\ view' = view
  BY DEF Danmaku!CreateDanmaku
<1>2. IsFiniteSet(T) /\ T \subseteq Nat /\ 0 \in T
  <2>1. /\ IsFiniteSet({c.id : c \in comment}) /\ {c.id : c \in comment} \subseteq Nat \ {0}
    BY NumbersOf DEF ViewInv, Numbers
  <2> DEFINE S == {c.id : c \in comment}
  <2> HIDE DEF S
  <2>2. IsFiniteSet(S \cup {0})
    BY <2>1, FS_AddElement DEF S
  <2>3. T = S \cup {0}
    BY DEF S
  <2> QED
    BY <2>1, <2>2, <2>3 DEF S
<1>3. \A c \in comment : c.id \in T
  OBVIOUS
<1>4. Danmaku!NextId = Danmaku!Max(T) + 1
  BY DEF Danmaku!NextId
<1> HIDE DEF T
<1>5. \E x \in T : \A y \in T : x >= y
  <2> DEFINE last == Danmaku!InOrder(T)
             size == Cardinality(T)
  <2>1. T \subseteq Int
    BY <1>2
  <2>2. /\ size \in Nat /\ last \in [1..size -> T]
        /\ \A m, n \in 1..size : m < n => last[m] < last[n]
        /\ \A i \in T : \E n \in 1..size : last[n] = i
    BY <1>2, <2>1, Ordered
  <2> HIDE DEF last, size
  <2>3. size \in 1..size
    BY <1>2, <2>2
  <2>4. ASSUME NEW y \in T PROVE last[size] >= y
    <3>1. PICK n \in 1..size : last[n] = y
      BY <2>2
    <3>2. n = size \/ n < size
      BY <2>2
    <3>3. last[size] \in Int /\ y \in Int /\ last[size] \in T
      BY <2>1, <2>2, <2>3
    <3> QED
      BY <2>2, <2>3, <3>1, <3>2, <3>3
  <2> QED
    BY <2>2, <2>3, <2>4
<1>6. Danmaku!Max(T) \in T /\ \A y \in T : Danmaku!Max(T) >= y
  BY <1>5 DEF Danmaku!Max
<1>7. new \in Commented /\ \A c \in comment : c.id < new.id
  <2>1. Danmaku!NextId \in Nat \ {0} /\ \A c \in comment : c.id < Danmaku!NextId
    <3> DEFINE x == Danmaku!Max(T)
    <3>1. x \in Nat /\ \A c \in comment : c.id \in Nat /\ c.id <= x
      BY <1>2, <1>3, <1>6
    <3>2. Danmaku!NextId = x + 1
      BY <1>4
    <3> HIDE DEF x
    <3> QED
      BY <3>1, <3>2
  <2>2. posted + 1 \in Nat
    BY DEF ViewInv, Numbers
  <2> QED
    BY <2>1, <2>2 DEF Commented
<1> HIDE DEF new
<1>8. Numbers'
  <2>1. IsFiniteSet(comment')
    BY <1>1, FS_AddElement DEF ViewInv, Numbers
  <2>2. \A c, d \in comment' : c.id = d.id => c = d
    <3>1. new.id \in Nat /\ \A c \in comment : c.id \in Nat
      BY <1>7 DEF ViewInv, Numbers, Commented
    <3>2. \A c \in comment : c.id # new.id
      BY <1>7, <3>1
    <3> QED
      BY <1>1, <3>2 DEF ViewInv, Numbers
  <2> QED
    BY <1>1, <1>7, <2>1, <2>2 DEF ViewInv, Numbers
<1>9. \A p \in Players : Covers(view[p], comment')
  BY <1>1 DEF ViewInv, Covers
<1> QED
  BY <1>1, <1>8, <1>9 DEF ViewInv

LEMMA DeleteKeeps ==
    ASSUME ViewInv, NEW a \in Accounts, NEW c \in comment, Danmaku!DeleteDanmaku(a, c)
    PROVE  ViewInv'
<1>1. /\ posted' = posted /\ comment' = comment \ {c}
      /\ view' = [p \in Players |-> [view[p] EXCEPT !.all = view[p].all \ {c}]]
  BY DEF Danmaku!DeleteDanmaku
<1>2. Numbers'
  BY <1>1, FS_RemoveElement DEF ViewInv, Numbers
<1>3. ASSUME NEW p \in Players
      PROVE  view'[p] \in Viewings /\ Covers(view'[p], comment')
  <2> DEFINE v == view[p]
             w == view'[p]
  <2>1. v \in Viewings /\ Covers(v, comment)
    BY DEF ViewInv
  <2>2. w = [v EXCEPT !.all = v.all \ {c}]
    BY <1>1
  <2> HIDE DEF v, w
  <2>3. /\ w \in Viewings /\ w.at = v.at /\ w.shown = v.shown /\ w.over = v.over
        /\ w.all = v.all \ {c}
    BY <2>1, <2>2 DEF Viewings
  <2>4. \A d \in w.all : d \in v.all /\ d \in comment'
    BY <1>1, <2>1, <2>3 DEF Covers
  <2>5. Covers(w, comment')
    BY <2>1, <2>3, <2>4 DEF Covers
  <2> QED
    BY <2>3, <2>5 DEF w
<1> QED
  BY <1>1, <1>2, <1>3 DEF ViewInv

LEMMA EraseKeepsViews ==
    ASSUME ViewInv, NEW a \in Accounts, Danmaku!EraseAccount(a)
    PROVE  ViewInv'
<1> DEFINE unnamed(c) == IF c.owner = a THEN [c EXCEPT !.owner = Anonymous] ELSE c
<1>1. /\ posted' = posted /\ comment' = {unnamed(c) : c \in comment}
      /\ view' = [p \in Players |->
            [view[p] EXCEPT !.all = {unnamed(c) : c \in view[p].all},
                            !.shown = [i \in DOMAIN view[p].shown |->
                                          unnamed(view[p].shown[i])]]]
  BY DEF Danmaku!EraseAccount
<1>2. ASSUME NEW c \in Commented
      PROVE  unnamed(c) \in Commented /\ unnamed(c).id = c.id
  BY DEF Commented
<1> DEFINE f == [c \in comment |-> unnamed(c)]
<1>3. f \in Surjection(comment, comment')
  BY <1>1 DEF Surjection
<1> HIDE DEF f
<1>4. IsFiniteSet(comment')
  BY <1>3, FS_Surjection DEF ViewInv, Numbers
<1> HIDE DEF unnamed
<1>5. Numbers'
  <2>1. comment' \subseteq Commented
    BY <1>1, <1>2 DEF ViewInv, Numbers
  <2>2. ASSUME NEW x \in comment', NEW y \in comment', x.id = y.id
        PROVE  x = y
    <3>1. PICK c \in comment : x = unnamed(c)
      BY <1>1
    <3>2. PICK d \in comment : y = unnamed(d)
      BY <1>1
    <3>3. c.id = d.id
      BY <1>2, <2>2, <3>1, <3>2 DEF ViewInv, Numbers
    <3>4. c = d
      BY <3>3 DEF ViewInv, Numbers
    <3> QED
      BY <3>1, <3>2, <3>4
  <2> QED
    BY <1>1, <1>4, <2>1, <2>2 DEF ViewInv, Numbers
<1>6. ASSUME NEW p \in Players
      PROVE  view'[p] \in Viewings /\ Covers(view'[p], comment')
  <2> DEFINE v == view[p]
             w == view'[p]
             n == Len(v.shown)
  <2>1. v \in Viewings /\ Covers(v, comment) /\ v.all \subseteq Commented
    BY DEF ViewInv, Covers, Numbers
  <2>2. w = [v EXCEPT !.all = {unnamed(c) : c \in v.all},
                      !.shown = [i \in DOMAIN v.shown |-> unnamed(v.shown[i])]]
    BY <1>1
  <2> HIDE DEF v, w
  <2>3. v.shown \in Seq(Commented) /\ n \in Nat /\ DOMAIN v.shown = 1..n
        /\ \A i \in 1..n : v.shown[i] \in Commented
    BY <2>1 DEF Viewings
  <2>4. /\ w.at = v.at /\ w.over = v.over /\ w.all = {unnamed(c) : c \in v.all}
        /\ w.shown = [i \in 1..n |-> unnamed(v.shown[i])]
        /\ w = [at |-> w.at, shown |-> w.shown, all |-> w.all, over |-> w.over]
    BY <2>1, <2>2, <2>3 DEF Viewings
  <2> HIDE DEF n
  <2>5. w.shown \in Seq(Commented) /\ Len(w.shown) = n
        /\ \A i \in 1..n : w.shown[i] = unnamed(v.shown[i]) /\ w.shown[i].id = v.shown[i].id
    <3>1. w.shown \in [1..n -> Commented]
      BY <1>2, <2>3, <2>4
    <3>2. \A i \in 1..n : w.shown[i] = unnamed(v.shown[i])
      BY <2>4
    <3> QED
      BY <1>2, <2>3, <3>1, <3>2
  <2>6. w \in Viewings
    <3>1. w.all \in SUBSET Commented
      BY <1>2, <2>1, <2>4
    <3>2. w.at \in Nat /\ w.over \in BOOLEAN
      BY <2>1, <2>4 DEF Viewings
    <3> QED
      BY <2>4, <2>5, <3>1, <3>2 DEF Viewings
  <2>7. w.all \subseteq comment'
    BY <1>1, <2>1, <2>4 DEF Covers
  <2>8. \A i, j \in 1..n : i < j => w.shown[i].id < w.shown[j].id
    BY <2>1, <2>5 DEF Covers, n
  <2>9. ASSUME NEW d \in w.all
        PROVE  \E c \in v.all : /\ d.id = c.id
                                 /\ (\E i \in 1..n : v.shown[i] = c) =>
                                       \E i \in 1..n : w.shown[i] = d
    <3>1. PICK c \in v.all : d = unnamed(c)
      BY <2>4
    <3> QED
      BY <1>2, <2>1, <2>5, <3>1
  <2>10. w.over => \A d \in w.all : \E i \in 1..n : w.shown[i] = d
    BY <2>1, <2>4, <2>9 DEF Covers, n
  <2>11. ~w.over =>
          /\ \A i \in 1..n : w.shown[i].id <= w.at
          /\ \A d \in w.all : d.id <= w.at => \E i \in 1..n : w.shown[i] = d
    <3> SUFFICES ASSUME ~w.over
                 PROVE  /\ \A i \in 1..n : w.shown[i].id <= w.at
                        /\ \A d \in w.all : d.id <= w.at => \E i \in 1..n : w.shown[i] = d
      OBVIOUS
    <3>1. /\ \A i \in 1..n : v.shown[i].id <= w.at
          /\ \A c \in v.all : c.id <= w.at => \E i \in 1..n : v.shown[i] = c
      BY <2>1, <2>4 DEF Covers, n
    <3>2. \A i \in 1..n : w.shown[i].id <= w.at
      BY <2>5, <3>1
    <3>3. ASSUME NEW d \in w.all, d.id <= w.at
          PROVE  \E i \in 1..n : w.shown[i] = d
      <4>1. PICK c \in v.all : d = unnamed(c)
        BY <2>4
      <4>2. d.id = c.id
        BY <1>2, <2>1, <4>1
      <4>3. PICK i \in 1..n : v.shown[i] = c
        BY <3>1, <3>3, <4>2
      <4> QED
        BY <2>5, <4>1, <4>3
    <3> QED
      BY <3>2, <3>3
  <2> QED
    BY <2>5, <2>6, <2>7, <2>8, <2>10, <2>11 DEF Covers, w
<1> QED
  BY <1>1, <1>5, <1>6 DEF ViewInv

LEMMA ViewKeeps == ViewInv /\ [Danmaku!Community]_communityVars => ViewInv'
<1>1. ViewInv /\ UNCHANGED communityVars => ViewInv'
  BY DEF communityVars, ViewInv, Numbers
<1>2. ASSUME ViewInv, NEW p \in Players, Danmaku!FirstPage(p)
      PROVE  ViewInv'
  <2>1. Danmaku!Reads(p, 0, <<>>, comment)
    BY <1>2 DEF Danmaku!FirstPage
  <2>2. <<>> \in Seq(Commented) /\ Len(<<>>) = 0 /\ 0 \in Nat
    OBVIOUS
  <2>3. \A c \in comment : ~(c.id <= 0)
    BY <1>2 DEF ViewInv, Numbers, Commented
  <2> QED
    <3> DEFINE nothing == <<>>
    <3>1. nothing \in Seq(Commented) /\ \A i : i \notin 1..Len(nothing)
      BY <2>2
    <3>2. Danmaku!Reads(p, 0, nothing, comment) /\ comment \in SUBSET comment
      BY <2>1
    <3> HIDE DEF nothing
    <3>3. /\ \A i, j \in 1..Len(nothing) : i < j => nothing[i].id < nothing[j].id
          /\ \A i \in 1..Len(nothing) : nothing[i].id <= 0
          /\ \A c \in comment : c.id <= 0 => \E i \in 1..Len(nothing) : nothing[i] = c
      BY <2>3, <3>1
    <3> QED
      BY <1>2, <2>2, <3>1, <3>2, <3>3, ReadsOn
<1>3. ASSUME ViewInv, NEW p \in Players, Danmaku!NextPage(p)
      PROVE  ViewInv'
  <2>1. view[p] \in Viewings /\ Covers(view[p], comment) /\ ~view[p].over
        /\ Danmaku!Reads(p, view[p].at, view[p].shown, view[p].all)
    BY <1>3 DEF Danmaku!NextPage, ViewInv
  <2>2. /\ view[p].at \in Nat /\ view[p].shown \in Seq(Commented)
        /\ view[p].all \in SUBSET comment
    BY <2>1 DEF Viewings, Covers
  <2> QED
    BY <1>3, <2>1, <2>2, ReadsOn DEF Covers
<1> QED
  BY <1>1, <1>2, <1>3, CreateKeeps, DeleteKeeps, EraseKeepsViews DEF Danmaku!Community

LEMMA ViewsMean == ViewInv => Danmaku!PagesCover
<1> SUFFICES ASSUME ViewInv, NEW p \in Players
             PROVE  /\ view[p].over => view[p].all \subseteq Danmaku!Range(view[p].shown)
                    /\ \A i, j \in DOMAIN view[p].shown :
                          i < j => view[p].shown[i].id < view[p].shown[j].id
  BY DEF Danmaku!PagesCover
<1>1. view[p] \in Viewings /\ Covers(view[p], comment)
  BY DEF ViewInv
<1>2. DOMAIN view[p].shown = 1..Len(view[p].shown)
  BY <1>1 DEF Viewings
<1> QED
  BY <1>1, <1>2 DEF Covers, Danmaku!Range

LEMMA CommunityStep ==
    ASSUME [Danmaku!Community \/ Danmaku!Network]_danmakuVars
    PROVE  [Danmaku!Community]_communityVars
BY DEF danmakuVars, communityVars, Danmaku!Network, Danmaku!Tick, Danmaku!GiveUp, Danmaku!Rest,
   Danmaku!Ask, Danmaku!AskKept, Danmaku!Guard, Danmaku!Fail, Danmaku!Land, Danmaku!Load,
   Danmaku!Flies

LEMMA LegacyStep ==
    ASSUME [Legacy!Marks \/ Legacy!Lists]_legacyVars
    PROVE  [Legacy!Marks]_markVars /\ [Legacy!Lists]_readerVars
<1>1. Legacy!readerVars = readerVars /\ Legacy!markVars = markVars
  BY DEF Legacy!readerVars, readerVars, Legacy!markVars, markVars
<1>2. Legacy!Lists => UNCHANGED markVars
  BY DEF markVars, Legacy!markVars, Legacy!Lists, Legacy!PostComment, Legacy!FirstPage,
     Legacy!NextPage, Legacy!Reads
<1>3. Legacy!Marks => UNCHANGED readerVars
  BY DEF readerVars, Legacy!readerVars, Legacy!Marks, Legacy!Look, Legacy!Begins,
     Legacy!Insert, Legacy!Retype, Legacy!GiveUp, Legacy!Ends, Legacy!Cancel,
     Legacy!EraseAccount
<1>4. UNCHANGED legacyVars => UNCHANGED markVars /\ UNCHANGED readerVars
  BY DEF legacyVars, markVars, readerVars
<1> QED
  BY <1>2, <1>3, <1>4

\* For any numbers of players, accounts, marks and comments and every size of a
\* page: a player who has read the last page has seen every comment that was
\* there all the time, in order and none twice, also where numbers are given
\* again; a client that reads by offset misses none; and two marks, or a like too
\* many, mean that two requests of one account have met (legacy_comments.py).
THEOREM CommunityCorrect == AllParts => []CommunityHolds
<1>1. Start => ViewInv /\ ReaderInv /\ MarkInv
  BY ViewInit, ReaderInit, MarkInit DEF Start
<1>2. [Step]_Everything =>
         /\ [Danmaku!Community \/ Danmaku!Network]_danmakuVars
         /\ [Legacy!Marks \/ Legacy!Lists]_legacyVars
  BY DEF Step, Still, Everything
<1>3. ViewInv /\ ReaderInv /\ MarkInv /\ [Step]_Everything => ViewInv' /\ ReaderInv' /\ MarkInv'
  BY <1>2, CommunityStep, LegacyStep, ViewKeeps, ReaderKeeps, MarkKeeps
<1>4. ViewInv /\ ReaderInv /\ MarkInv => CommunityHolds
  <2>1. ReaderInv => Legacy!PagesSkipNothing
    BY DEF ReaderInv, Legacy!PagesSkipNothing
  <2> QED
    BY <2>1, ViewsMean, MarksMean DEF CommunityHolds
<1> QED
  BY <1>1, <1>3, <1>4, PTL DEF AllParts

-----------------------------------------------------------------------------
(***************************************************************************)
(* The names of a title                                                    *)
(***************************************************************************)
Answer == [series : Nat, season : Nat, answered : SUBSET Nat, known : BOOLEAN]
Request == [at : {"idle", "search", "detail", "over"}, next : Nat, answered : SUBSET Nat,
            answer : Answer]

\* What a request has read without an answer are series of other names.
SearchInv ==
    \A r \in Requests :
        asking[r].at \in {"search", "detail"} =>
            /\ asking[r].next # 0 /\ asking[r].answered \subseteq DOMAIN tmdb
            /\ \A i \in asking[r].answered : ~tmdb[i].same

NamesInv ==
    /\ tmdb \in Series /\ names \in Answer /\ asking \in [Requests -> Request]
    /\ SearchInv
    /\ Known!AliasesAreTrue

\* What is counted for a season is a name or a year of its own.
LEMMA SeasonFits ==
    ASSUME NEW seasons, Len(seasons) \in Nat, DOMAIN seasons = 1..Len(seasons),
           \A i \in DOMAIN seasons : seasons[i].number \in Nat
    PROVE  /\ Known!Season(seasons) \in Nat
           /\ Known!Season(seasons) # 0 =>
                 \E i \in DOMAIN seasons :
                    /\ seasons[i].number = Known!Season(seasons)
                    /\ seasons[i].name \/ seasons[i].year
<1> DEFINE best == {i \in 1..Len(seasons) :
                      /\ Known!Fits(seasons[i])
                      /\ \A j \in 1..Len(seasons) :
                            Known!Fits(seasons[j]) =>
                                Known!Points(seasons[j]) <= Known!Points(seasons[i])}
           first == CHOOSE i \in best : \A j \in best : i <= j
<1> SUFFICES ASSUME Known!Season(seasons) # 0
             PROVE  Known!Season(seasons) \in Nat /\ \E i \in DOMAIN seasons :
                       /\ seasons[i].number = Known!Season(seasons)
                       /\ seasons[i].name \/ seasons[i].year
  OBVIOUS
<1>1. best # {} /\ Known!Season(seasons) = seasons[first].number
  BY DEF Known!Season
<1>2. best \in SUBSET Nat
  OBVIOUS
<1>3. \E i \in best : \A j \in best : i <= j
  <2> HIDE DEF best
  <2> QED
    BY <1>1, <1>2, LeastMember
<1>4. first \in best
  <2> HIDE DEF best
  <2> QED
    BY <1>3
<1>5. first \in DOMAIN seasons /\ Known!Fits(seasons[first])
  <2> HIDE DEF first
  <2> QED
    BY <1>4
<1> HIDE DEF best, first
<1> QED
  BY <1>1, <1>5 DEF Known!Fits

LEMMA NamesStart ==
    /\ Known!NoNames \in Answer /\ Known!NoNames.series = 0 /\ ~Known!NoNames.known
    /\ Known!Base \in Answer /\ Known!Base.series = 0 /\ Known!Base.answered = {}
    /\ Known!Idle \in Request /\ Known!Idle.at = "idle" /\ Known!Idle.next = 1
    /\ Known!Idle.answered = {}
BY DEF Known!NoNames, Known!Base, Known!Idle, Answer, Request

LEMMA NamesInit == Known!Init => NamesInv
BY NamesStart DEF Known!Init, NamesInv, SearchInv, Known!AliasesAreTrue

\* The series that TMDB may have found.
LEMMA Found ==
    ASSUME tmdb \in Series
    PROVE  /\ Len(tmdb) \in Nat /\ DOMAIN tmdb = 1..Len(tmdb)
           /\ \A i \in DOMAIN tmdb :
                 /\ tmdb[i].same \in BOOLEAN
                 /\ Len(tmdb[i].seasons) \in Nat
                 /\ DOMAIN tmdb[i].seasons = 1..Len(tmdb[i].seasons)
                 /\ \A j \in DOMAIN tmdb[i].seasons : tmdb[i].seasons[j].number \in Nat
<1> DEFINE S == [number : Nat \ {0}, name : BOOLEAN, year : BOOLEAN, episodes : BOOLEAN]
           R == [same : BOOLEAN, seasons : Seq(S)]
<1>1. tmdb \in Seq(R)
  BY SeriesAssumption
<1>2. \A season \in S : season.number \in Nat
  OBVIOUS
<1> HIDE DEF S
<1>3. \A s \in Seq(S) : /\ Len(s) \in Nat /\ DOMAIN s = 1..Len(s)
                        /\ \A j \in DOMAIN s : s[j] \in S
  OBVIOUS
<1>4. \A found \in R : found.same \in BOOLEAN /\ found.seasons \in Seq(S)
  OBVIOUS
<1> HIDE DEF R
<1>5. /\ Len(tmdb) \in Nat /\ DOMAIN tmdb = 1..Len(tmdb)
      /\ \A i \in 1..Len(tmdb) : tmdb[i] \in R
  BY <1>1
<1> QED
  BY <1>2, <1>3, <1>4, <1>5

\* A request goes on, the names stay.
LEMMA Asks ==
    ASSUME NamesInv, UNCHANGED <<tmdb, names>>, NEW r \in Requests, NEW next \in Request,
           asking' = [asking EXCEPT ![r] = next],
           next.at \in {"search", "detail"} =>
              /\ next.next # 0 /\ next.answered \subseteq DOMAIN tmdb
              /\ \A i \in next.answered : ~tmdb[i].same
    PROVE  NamesInv'
BY DEF NamesInv, SearchInv, Known!AliasesAreTrue

\* What was found is remembered.
LEMMA Remembers ==
    ASSUME NamesInv, UNCHANGED tmdb, NEW r \in Requests, NEW found \in Answer,
           Known!Stores(r, found),
           found.series # 0 =>
              /\ tmdb[found.series].same
              /\ \A i \in found.answered : tmdb[i].same => i = found.series
              /\ found.season # 0 =>
                    \E i \in DOMAIN tmdb[found.series].seasons :
                       LET s == tmdb[found.series].seasons[i] IN
                       s.number = found.season /\ (s.name \/ s.year),
           found.series = 0 =>
              (found.answered # {} \/ tmdb = <<>>) /\ \A i \in found.answered : ~tmdb[i].same
    PROVE  NamesInv'
<1>1. names' = found /\ asking' = [asking EXCEPT ![r] = [Known!Idle EXCEPT !.at = "over", !.answer = found]]
  BY DEF Known!Stores, Known!Answered
<1>2. [Known!Idle EXCEPT !.at = "over", !.answer = found] \in Request
  BY NamesStart DEF Request
<1>3. SearchInv' /\ asking' \in [Requests -> Request]
  BY <1>1, <1>2, NamesStart DEF NamesInv, SearchInv, Request
<1>4. Known!AliasesAreTrue'
  BY <1>1 DEF Known!AliasesAreTrue
<1> QED
  BY <1>1, <1>3, <1>4 DEF NamesInv

\* A request is answered, and nothing is remembered.
LEMMA AnswersOnly ==
    ASSUME NamesInv, UNCHANGED <<tmdb, names>>, NEW r \in Requests, NEW given \in Answer,
           Known!Answered(r, given)
    PROVE  NamesInv'
<1> DEFINE next == [Known!Idle EXCEPT !.at = "over", !.answer = given]
<1>1. next.at = "over" /\ next \in Request
  BY NamesStart DEF Request
<1>2. asking' = [asking EXCEPT ![r] = next]
  BY DEF Known!Answered
<1> HIDE DEF next
<1> QED
  BY <1>1, <1>2, Asks

LEMMA NamesStep ==
    ASSUME NamesInv, NEW r \in Requests,
           \/ Known!Ask(r) \/ Known!SearchFails(r) \/ Known!Found(r)
           \/ Known!DetailFails(r) \/ Known!Breaks(r)
    PROVE  NamesInv'
<1> USE DEF Known!Goes
<1>1. CASE Known!Ask(r) /\ names.known
  BY <1>1, AnswersOnly DEF Known!Ask, NamesInv
<1>2. CASE Known!Ask(r) /\ ~names.known
  <2> DEFINE next == [Known!Idle EXCEPT !.at = "search"]
  <2>1. next \in Request /\ next.next = 1 /\ next.answered = {}
    BY NamesStart DEF Request
  <2>2. asking' = [asking EXCEPT ![r] = next] /\ UNCHANGED <<tmdb, names>>
    BY <1>2 DEF Known!Ask
  <2> HIDE DEF next
  <2>3. next.next # 0 /\ next.answered \subseteq DOMAIN tmdb
        /\ \A i \in next.answered : ~tmdb[i].same
    BY <2>1
  <2> QED
    BY <2>1, <2>2, <2>3, Asks
<1>3. CASE Known!SearchFails(r) \/ Known!Breaks(r)
  BY <1>3, AnswersOnly, NamesStart DEF Known!SearchFails, Known!Breaks
<1>4. /\ asking[r] \in Request
      /\ asking[r].at \in {"search", "detail"} =>
            /\ asking[r].next # 0 /\ asking[r].answered \subseteq DOMAIN tmdb
            /\ \A i \in asking[r].answered : ~tmdb[i].same
  BY DEF NamesInv, SearchInv
<1>5. CASE Known!Found(r)
  <2> DEFINE next == [asking[r] EXCEPT !.at = "detail"]
  <2>1. next \in Request /\ next.next = asking[r].next /\ next.answered = asking[r].answered
    BY <1>4 DEF Request
  <2>2. asking' = [asking EXCEPT ![r] = next] /\ UNCHANGED <<tmdb, names>>
        /\ asking[r].at = "search"
    BY <1>5 DEF Known!Found
  <2> HIDE DEF next
  <2> QED
    BY <1>4, <2>1, <2>2, Asks
<1>6. CASE Known!DetailFails(r)
  <2> DEFINE next == [asking[r] EXCEPT !.next = @ + 1]
  <2>1. next \in Request /\ next.next # 0 /\ next.answered = asking[r].answered
    BY <1>4 DEF Request
  <2>2. asking' = [asking EXCEPT ![r] = next] /\ UNCHANGED <<tmdb, names>>
        /\ asking[r].at = "detail"
    BY <1>6 DEF Known!DetailFails, Known!HasNext
  <2> HIDE DEF next
  <2> QED
    BY <1>4, <2>1, <2>2, Asks
<1> QED
  BY <1>1, <1>2, <1>3, <1>5, <1>6

\* A detail that could be read.
LEMMA NamesRead ==
    ASSUME NamesInv, NEW r \in Requests, Known!Reads(r)
    PROVE  NamesInv'
<1> DEFINE i == asking[r].next
           answered == asking[r].answered \cup {i}
<1>1. /\ i \in DOMAIN tmdb /\ i \in Nat \ {0} /\ answered \subseteq DOMAIN tmdb
      /\ answered \in SUBSET Nat
      /\ \A j \in asking[r].answered : ~tmdb[j].same
      /\ tmdb[i].same \in BOOLEAN
      /\ Len(tmdb[i].seasons) \in Nat /\ DOMAIN tmdb[i].seasons = 1..Len(tmdb[i].seasons)
      /\ \A j \in DOMAIN tmdb[i].seasons : tmdb[i].seasons[j].number \in Nat
  BY Found DEF Known!Reads, Known!HasNext, NamesInv, SearchInv, Request
<1>2. CASE tmdb[i].same
  <2> DEFINE found == Known!Enriched(i, answered)
  <2>1. Known!Stores(r, found) /\ UNCHANGED tmdb
    BY <1>2 DEF Known!Reads, Known!Stores
  <2>2. Known!Season(tmdb[i].seasons) \in Nat
    BY <1>1, SeasonFits
  <2>3. found \in Answer /\ found.series = i /\ found.answered = answered
        /\ found.season = Known!Season(tmdb[i].seasons)
    <3> HIDE DEF i, answered
    <3> QED
      BY <1>1, <2>2, NamesStart DEF Known!Enriched, Answer
  <2>4. found.season # 0 =>
           \E j \in DOMAIN tmdb[i].seasons :
              LET s == tmdb[i].seasons[j] IN s.number = found.season /\ (s.name \/ s.year)
    BY <1>1, <2>3, SeasonFits
  <2> HIDE DEF found
  <2> QED
    BY <1>1, <1>2, <2>1, <2>3, <2>4, Remembers
<1>3. CASE ~tmdb[i].same
  <2>0. PICK n \in Nat, a \in SUBSET Nat : n = i + 1 /\ a = answered
    <3> HIDE DEF i, answered
    <3>1. i + 1 \in Nat
      BY <1>1
    <3> QED
      BY <1>1, <3>1
  <2> DEFINE next == [asking[r] EXCEPT !.next = n, !.answered = a]
  <2>1. asking[r] \in Request
    BY DEF NamesInv
  <2>2. next \in Request /\ next.next = n /\ next.answered = a
    BY <2>1 DEF Request
  <2>3. asking' = [asking EXCEPT ![r] = next] /\ UNCHANGED <<tmdb, names>>
    BY <1>1, <1>3, <2>0, Found DEF Known!Reads, Known!HasNext, Known!Goes, NamesInv
  <2> HIDE DEF next
  <2>4. next.next # 0 /\ next.answered \subseteq DOMAIN tmdb
        /\ \A j \in next.answered : ~tmdb[j].same
    BY <1>1, <1>3, <2>0, <2>2, <2>3
  <2> QED
    BY <2>2, <2>3, <2>4, Asks
<1> QED
  BY <1>2, <1>3

LEMMA NamesExhausted ==
    ASSUME NamesInv, NEW r \in Requests, Known!Exhausted(r)
    PROVE  NamesInv'
<1> DEFINE answered == asking[r].answered
           found == [Known!Base EXCEPT !.answered = answered]
<1>1. answered \in SUBSET Nat /\ \A j \in answered : ~tmdb[j].same
  BY DEF Known!Exhausted, NamesInv, SearchInv, Request
<1>2. found \in Answer /\ found.series = 0 /\ found.answered = answered
  BY <1>1, NamesStart DEF Answer
<1>3. CASE Known!Teaches(answered)
  <2>1. Known!Stores(r, found) /\ UNCHANGED tmdb
    BY <1>3 DEF Known!Exhausted, Known!Stores
  <2>2. found.answered # {} \/ tmdb = <<>>
    BY <1>2, <1>3 DEF Known!Teaches
  <2> HIDE DEF found
  <2> QED
    BY <1>1, <1>2, <2>1, <2>2, Remembers
<1>4. CASE ~Known!Teaches(answered)
  BY <1>4, AnswersOnly, NamesStart DEF Known!Exhausted
<1> QED
  BY <1>3, <1>4

LEMMA NamesKeep == NamesInv /\ [Known!Next]_knownVars => NamesInv'
<1>1. ASSUME NamesInv, UNCHANGED knownVars
      PROVE  NamesInv'
  BY <1>1 DEF knownVars, NamesInv, SearchInv, Known!AliasesAreTrue
<1> QED
  BY <1>1, NamesStep, NamesRead, NamesExhausted DEF Known!Next

-----------------------------------------------------------------------------
(***************************************************************************)
(* The lines that are verified                                             *)
(***************************************************************************)
UnderCheck == {"manifest", "key", "media"}
Results == Resolved!Statuses \cup {"none"}
Reasons == {"", "blocked", "limited", "restricted", "local", "unknown", "stale", "empty",
            "malformed", "parser"}
MatchRow ==
    [step : {"queued", "asking", "checking", "resolved", "merged"},
     raw : SUBSET Resolved!Addresses, status : Results, category : Reasons]
CheckRow ==
    [at : {"none", "done"} \cup UnderCheck, depth : Nat, hops : Nat, keyed : BOOLEAN,
     read : SUBSET {"file", "manifest", "key", "segment"}, status : Results, category : Reasons]

PlayableRow(c) ==
    \/ c.read = {"file"}
    \/ c.read = {"manifest", "segment"} \cup (IF c.keyed THEN {"key"} ELSE {})

\* What has been read, step by step, before a line counts as verified.
RowInv(c) ==
    /\ c.at \in UnderCheck => c.category = ""
    /\ c.at = "key" => c.keyed /\ c.read = {"manifest"}
    /\ c.at = "media" => c.read = {"manifest"} \cup (IF c.keyed THEN {"key"} ELSE {})
    /\ c.status # "none" => c.at = "done"
    /\ c.status = "verified" => PlayableRow(c)
    /\ c.category = "local" => c.status \in {"unavailable", "none"}

\* A check belongs to a match whose lines are being checked, and to one of them.
PairInv(p) ==
    /\ RowInv(check[p])
    /\ check[p].at \in UnderCheck =>
          match[p[1]].step = "checking" /\ p[2] \in match[p[1]].raw
    /\ check[p].status = "verified" => verify
    /\ \/ match[p[1]].step \in {"queued", "asking"}
       \/ match[p[1]].step = "checking" /\ p[2] \notin match[p[1]].raw
       => check[p].status = "none"
    /\ match[p[1]].step = "resolved" /\ check[p].category = "local" =>
          check[p].status = "none"

\* The outcome of a match is that of its best line.
OutcomeInv(m) ==
    match[m].step = "resolved" =>
        \A s \in {"verified", "probe"} :
           match[m].status = s =>
              /\ \E p \in Resolved!Pairs : p[1] = m /\ check[p].status = s
              /\ s = "probe" =>
                    \A p \in Resolved!Pairs : p[1] = m => check[p].status # "verified"

MergedInv ==
    \A u \in Resolved!Addresses :
        merged[u] = "verified" <=>
           \E p \in Resolved!Pairs :
              p[2] = u /\ match[p[1]].step = "merged" /\ check[p].status = "verified"

ResolutionTypes ==
    /\ match = [m \in Matches |-> match[m]]
    /\ \A m \in Matches :
          match[m].step \in {"queued", "asking", "checking"} =>
              match[m] \in MatchRow /\ (match[m].step = "checking" => verify)
    /\ check \in [Resolved!Pairs -> CheckRow]
    /\ merged = [u \in Resolved!Addresses |-> merged[u]]

ResolutionInv ==
    /\ ResolutionTypes
    /\ \A p \in Resolved!Pairs : PairInv(p)
    /\ \A m \in Matches : OutcomeInv(m)
    /\ MergedInv

LEMMA PairsAre ==
    \A p \in Resolved!Pairs :
        /\ p[1] \in Matches /\ p[2] \in Offers[p[1]] /\ p[2] \in Resolved!Addresses
        /\ p = <<p[1], p[2]>>
BY DEF Resolved!Pairs

LEMMA OffersAre ==
    \A m \in Matches : \A u \in Offers[m] :
        u \in Resolved!Addresses /\ <<m, u>> \in Resolved!Pairs
BY DEF Resolved!Pairs, Resolved!Addresses

LEMMA FreshRows ==
    /\ Resolved!Unasked \in MatchRow /\ Resolved!Unasked.step = "queued"
    /\ Resolved!Unchecked \in CheckRow /\ Resolved!Unchecked.at = "none"
    /\ Resolved!Unchecked.status = "none" /\ Resolved!Unchecked.category = ""
<1>1. Resolved!Unasked \in MatchRow /\ Resolved!Unasked.step = "queued"
  BY DEF Resolved!Unasked, MatchRow, Results, Reasons
<1>2. /\ Resolved!Unchecked.at = "none" /\ Resolved!Unchecked.status = "none"
      /\ Resolved!Unchecked.category = ""
  BY DEF Resolved!Unchecked
<1>3. Resolved!Unchecked \in CheckRow
  BY DEF Resolved!Unchecked, CheckRow, Results, Reasons
<1> QED
  BY <1>1, <1>2, <1>3

LEMMA ResolutionInit == Resolved!Init => ResolutionInv
<1> SUFFICES ASSUME Resolved!Init PROVE ResolutionInv
  OBVIOUS
<1>1. ResolutionTypes
  BY FreshRows DEF Resolved!Init, ResolutionTypes
<1>2. \A p \in Resolved!Pairs : PairInv(p)
  BY FreshRows, PairsAre DEF Resolved!Init, PairInv, RowInv, UnderCheck
<1>3. (\A m \in Matches : OutcomeInv(m)) /\ MergedInv
  BY FreshRows, PairsAre DEF Resolved!Init, OutcomeInv, MergedInv
<1> QED
  BY <1>1, <1>2, <1>3 DEF ResolutionInv

\* A check goes on.
LEMMA ChecksOn ==
    ASSUME ResolutionInv, NEW p \in Resolved!Pairs, check[p].at \in UnderCheck,
           NEW next \in CheckRow, Resolved!Becomes(p, next), RowInv(next)
    PROVE  ResolutionInv'
<1>0. match[p[1]].step = "checking" /\ p[2] \in match[p[1]].raw /\ check[p].status = "none"
  BY DEF ResolutionInv, PairInv, RowInv, UnderCheck
<1>1. /\ check' = [check EXCEPT ![p] = next] /\ UNCHANGED <<verify, match, merged>>
      /\ match[p[1]].step = "checking" /\ verify /\ p[1] \in Matches
      /\ check[p].status = "none" /\ p[2] \in match[p[1]].raw
  BY <1>0, PairsAre DEF Resolved!Becomes, ResolutionInv, ResolutionTypes
<1>2. /\ check' \in [Resolved!Pairs -> CheckRow]
      /\ \A q \in Resolved!Pairs : check'[q] = IF q = p THEN next ELSE check[q]
  BY <1>1 DEF ResolutionInv, ResolutionTypes
<1>3. ResolutionTypes'
  BY <1>1, <1>2 DEF ResolutionInv, ResolutionTypes
<1>4. ASSUME NEW q \in Resolved!Pairs
      PROVE  PairInv(q)'
  <2>1. PairInv(q)
    BY DEF ResolutionInv
  <2> QED
    BY <1>1, <1>2, <2>1 DEF PairInv
<1>5. ASSUME NEW m \in Matches
      PROVE  OutcomeInv(m)'
  <2>1. OutcomeInv(m)
    BY DEF ResolutionInv
  <2> QED
    BY <1>1, <1>2, <2>1 DEF OutcomeInv
<1>6. MergedInv'
  BY <1>1, <1>2 DEF ResolutionInv, MergedInv
<1> QED
  BY <1>3, <1>4, <1>5, <1>6 DEF ResolutionInv

LEMMA Finishes ==
    ASSUME ResolutionInv, NEW p \in Resolved!Pairs, check[p].at \in UnderCheck,
           NEW status \in {"probe", "unavailable"}, NEW category \in Reasons,
           category = "local" => status = "unavailable",
           Resolved!Finish(p, status, category)
    PROVE  ResolutionInv'
<1> DEFINE next == [Resolved!Unchecked EXCEPT !.at = "done", !.status = status, !.category = category]
<1>1. next \in CheckRow /\ next.at = "done" /\ next.status = status /\ next.category = category
  BY FreshRows DEF CheckRow, Results, Resolved!Statuses
<1>2. Resolved!Becomes(p, next)
  BY DEF Resolved!Finish
<1> HIDE DEF next
<1>3. RowInv(next)
  BY <1>1 DEF RowInv, UnderCheck
<1> QED
  BY <1>1, <1>2, <1>3, ChecksOn

LEMMA ChecksEnd ==
    ASSUME ResolutionInv, NEW p \in Resolved!Pairs,
           Resolved!Fails(p) \/ Resolved!NoMedia(p)
    PROVE  ResolutionInv'
<1>1. check[p].at \in UnderCheck
  BY DEF Resolved!Fails, Resolved!NoMedia, UnderCheck
<1>2. \E status \in {"probe", "unavailable"}, category \in Reasons :
         /\ category = "local" => status = "unavailable"
         /\ Resolved!Finish(p, status, category)
  <2>1. CASE Resolved!Fails(p)
    <3>1. PICK f \in Resolved!Failures : Resolved!Finish(p, f[1], f[2])
      BY <2>1 DEF Resolved!Fails
    <3>2. /\ f[1] \in {"probe", "unavailable"} /\ f[2] \in Reasons
          /\ f[2] = "local" => f[1] = "unavailable"
      <4>1. \E status \in {"probe", "unavailable"}, category \in Reasons :
               f = <<status, category>> /\ (category = "local" => status = "unavailable")
        BY DEF Resolved!Failures, Reasons
      <4> QED
        BY <4>1
    <3> QED
      BY <3>1, <3>2
  <2>2. CASE Resolved!NoMedia(p)
    BY <2>2 DEF Resolved!NoMedia, Reasons
  <2> QED
    BY <2>1, <2>2
<1> QED
  BY <1>1, <1>2, Finishes

LEMMA ChecksMove ==
    ASSUME ResolutionInv, NEW p \in Resolved!Pairs,
           \/ Resolved!Redirect(p) \/ Resolved!ReadFile(p) \/ Resolved!ReadVariants(p)
           \/ Resolved!ReadManifest(p) \/ Resolved!ReadKey(p) \/ Resolved!ReadSegment(p)
    PROVE  ResolutionInv'
<1> DEFINE c == check[p]
<1>1. c \in CheckRow /\ RowInv(c)
  BY DEF ResolutionInv, ResolutionTypes, PairInv
<1>2. c.at \in UnderCheck
  BY DEF Resolved!Redirect, Resolved!ReadFile, Resolved!ReadVariants, Resolved!ReadManifest,
     Resolved!ReadKey, Resolved!ReadSegment, UnderCheck
<1>3. c.status = "none" /\ c.category = ""
  BY <1>1, <1>2 DEF RowInv, UnderCheck
<1>4. ASSUME NEW next \in CheckRow, Resolved!Becomes(p, next), next.at \in UnderCheck \cup {"done"},
             next.category = "",
             next.at \in UnderCheck => next.status = "none",
             next.at = "key" => next.keyed /\ next.read = {"manifest"},
             next.at = "media" => next.read = {"manifest"} \cup (IF next.keyed THEN {"key"} ELSE {}),
             next.status = "verified" => PlayableRow(next)
      PROVE  ResolutionInv'
  <2>1. RowInv(next)
    BY <1>4 DEF RowInv, UnderCheck
  <2> QED
    BY <1>2, <1>4, <2>1, ChecksOn
<1>5. CASE Resolved!Redirect(p)
  <2>1. CASE c.hops + 1 < MaxHops
    <3> DEFINE next == [c EXCEPT !.hops = @ + 1]
    <3>1. /\ next \in CheckRow /\ next.at = c.at /\ next.status = c.status
          /\ next.category = c.category /\ next.keyed = c.keyed /\ next.read = c.read
      <4> HIDE DEF c
      <4> QED
        BY <1>1 DEF CheckRow
    <3>2. Resolved!Becomes(p, next)
      BY <1>5, <2>1 DEF Resolved!Redirect
    <3> HIDE DEF next
    <3>3. RowInv(next)
      BY <1>1, <3>1 DEF RowInv, PlayableRow
    <3> QED
      BY <1>2, <3>1, <3>2, <3>3, ChecksOn
  <2>2. CASE ~(c.hops + 1 < MaxHops)
    BY <1>2, <1>5, <2>2, Finishes DEF Resolved!Redirect, Reasons
  <2> QED
    BY <2>1, <2>2
<1>6. CASE Resolved!ReadVariants(p)
  <2>1. CASE c.depth + 1 < MaxDepth
    <3>0. PICK d \in Nat : d = c.depth + 1
      BY <1>1 DEF CheckRow
    <3> DEFINE next == [c EXCEPT !.depth = d, !.hops = 0]
    <3>1. /\ next \in CheckRow /\ next.at = c.at /\ next.status = c.status
          /\ next.category = c.category /\ next.keyed = c.keyed /\ next.read = c.read
      BY <1>1 DEF CheckRow
    <3>2. Resolved!Becomes(p, next)
      BY <1>6, <2>1, <3>0 DEF Resolved!ReadVariants
    <3> HIDE DEF next
    <3>3. RowInv(next)
      BY <1>1, <3>1 DEF RowInv, PlayableRow
    <3> QED
      BY <1>2, <3>1, <3>2, <3>3, ChecksOn
  <2>2. CASE ~(c.depth + 1 < MaxDepth)
    BY <1>2, <1>6, <2>2, Finishes DEF Resolved!ReadVariants, Reasons
  <2> QED
    BY <2>1, <2>2
<1>7. CASE Resolved!ReadFile(p)
  <2> DEFINE next == [c EXCEPT !.at = "done", !.status = "verified", !.read = {"file"},
                               !.depth = 0, !.hops = 0]
  <2>1. /\ next \in CheckRow /\ next.at = "done" /\ next.category = c.category
        /\ next.read = {"file"}
    BY <1>1 DEF CheckRow, Results, Resolved!Statuses
  <2>2. Resolved!Becomes(p, next)
    BY <1>7 DEF Resolved!ReadFile
  <2> HIDE DEF next
  <2>3. PlayableRow(next)
    BY <2>1 DEF PlayableRow
  <2> QED
    BY <1>3, <1>4, <2>1, <2>2, <2>3 DEF UnderCheck
<1>8. CASE Resolved!ReadManifest(p)
  <2>1. PICK keyed \in BOOLEAN :
           Resolved!Becomes(p, [c EXCEPT !.at = IF keyed THEN "key" ELSE "media",
                                         !.keyed = keyed, !.read = {"manifest"}, !.hops = 0])
    BY <1>8 DEF Resolved!ReadManifest
  <2> DEFINE next == [c EXCEPT !.at = IF keyed THEN "key" ELSE "media",
                               !.keyed = keyed, !.read = {"manifest"}, !.hops = 0]
  <2>2. /\ next \in CheckRow /\ next.at = (IF keyed THEN "key" ELSE "media")
        /\ next.category = c.category /\ next.status = c.status
        /\ next.keyed = keyed /\ next.read = {"manifest"}
    BY <1>1 DEF CheckRow, UnderCheck
  <2>3. Resolved!Becomes(p, next)
    BY <2>1
  <2> HIDE DEF next
  <2> QED
    BY <1>3, <1>4, <2>2, <2>3 DEF UnderCheck
<1>9. CASE Resolved!ReadKey(p)
  <2> DEFINE next == [c EXCEPT !.at = "media", !.read = @ \cup {"key"}, !.hops = 0]
  <2>1. /\ next \in CheckRow /\ next.at = "media" /\ next.category = c.category
        /\ next.status = c.status /\ next.keyed = c.keyed /\ next.read = c.read \cup {"key"}
    BY <1>1 DEF CheckRow, UnderCheck
  <2>2. Resolved!Becomes(p, next) /\ c.at = "key"
    BY <1>9 DEF Resolved!ReadKey, Resolved!Then
  <2>3. c.keyed /\ c.read = {"manifest"}
    BY <1>1, <2>2 DEF RowInv
  <2> HIDE DEF next
  <2> QED
    BY <1>3, <1>4, <2>1, <2>2, <2>3 DEF UnderCheck
<1>10. CASE Resolved!ReadSegment(p)
  <2> DEFINE next == [c EXCEPT !.at = "done", !.status = "verified", !.read = @ \cup {"segment"},
                               !.depth = 0, !.hops = 0]
  <2>1. /\ next \in CheckRow /\ next.at = "done" /\ next.category = c.category
        /\ next.keyed = c.keyed /\ next.read = c.read \cup {"segment"}
    BY <1>1 DEF CheckRow, Results, Resolved!Statuses
  <2>2. Resolved!Becomes(p, next) /\ c.at = "media"
    BY <1>10 DEF Resolved!ReadSegment
  <2>3. c.read = {"manifest"} \cup (IF c.keyed THEN {"key"} ELSE {})
    BY <1>1, <2>2 DEF RowInv
  <2> HIDE DEF next
  <2>4. PlayableRow(next)
    BY <2>1, <2>3 DEF PlayableRow
  <2> QED
    BY <1>3, <1>4, <2>1, <2>2, <2>4 DEF UnderCheck
<1> QED
  BY <1>5, <1>6, <1>7, <1>8, <1>9, <1>10

\* Checks of other matches that do not change keep what is said of them.
LEMMA Others ==
    ASSUME ResolutionInv, NEW m \in Matches, verify' = verify,
           \A n \in Matches : n # m => match'[n] = match[n],
           \A p \in Resolved!Pairs : p[1] # m => check'[p] = check[p]
    PROVE  /\ \A p \in Resolved!Pairs : p[1] # m => PairInv(p)'
           /\ \A n \in Matches : n # m => OutcomeInv(n)'
<1>1. ASSUME NEW p \in Resolved!Pairs, p[1] # m
      PROVE  PairInv(p)'
  <2>1. PairInv(p) /\ p[1] \in Matches
    BY PairsAre DEF ResolutionInv
  <2> QED
    BY <1>1, <2>1 DEF PairInv
<1>2. ASSUME NEW n \in Matches, n # m
      PROVE  OutcomeInv(n)'
  <2>1. OutcomeInv(n)
    BY DEF ResolutionInv
  <2>2. \A p \in Resolved!Pairs : p[1] = n => check'[p] = check[p]
    BY <1>2
  <2> QED
    BY <1>2, <2>1, <2>2 DEF OutcomeInv
<1> QED
  BY <1>1, <1>2

\* Nothing is merged, and the checks of the match were not merged before.
LEMMA MergedStays ==
    ASSUME ResolutionInv, NEW m \in Matches, merged' = merged,
           match[m].step # "merged", match'[m].step # "merged",
           \A n \in Matches : n # m => match'[n] = match[n],
           \A p \in Resolved!Pairs : p[1] # m => check'[p] = check[p]
    PROVE  MergedInv'
<1>1. \A p \in Resolved!Pairs :
         match'[p[1]].step = "merged" /\ check'[p].status = "verified" <=>
            match[p[1]].step = "merged" /\ check[p].status = "verified"
  BY PairsAre
<1> QED
  BY <1>1 DEF ResolutionInv, MergedInv

LEMMA AskedForLines ==
    ASSUME ResolutionInv, NEW m \in Matches, Resolved!AskForLines(m)
    PROVE  ResolutionInv'
<1>1. /\ match[m].step = "queued" /\ match[m] \in MatchRow
      /\ match' = [match EXCEPT ![m].step = "asking"] /\ UNCHANGED <<verify, check, merged>>
  BY DEF Resolved!AskForLines, ResolutionInv, ResolutionTypes
<1>2. /\ match' = [n \in Matches |-> match'[n]]
      /\ match'[m] \in MatchRow /\ match'[m].step = "asking"
      /\ \A n \in Matches : n # m => match'[n] = match[n]
  BY <1>1 DEF ResolutionInv, ResolutionTypes, MatchRow
<1>3. ResolutionTypes'
  BY <1>1, <1>2 DEF ResolutionInv, ResolutionTypes
<1>4. \A p \in Resolved!Pairs : p[1] = m => PairInv(p)'
  BY <1>1, <1>2 DEF ResolutionInv, PairInv
<1>5. OutcomeInv(m)'
  BY <1>2 DEF OutcomeInv
<1>6. MergedInv'
  BY <1>1, <1>2, MergedStays
<1> QED
  BY <1>1, <1>2, <1>3, <1>4, <1>5, <1>6, Others DEF ResolutionInv

\* The lines are listed as they come, none of them as verified.
LEMMA LinesListed ==
    ASSUME ResolutionInv, NEW m \in Matches, match[m].step = "asking",
           NEW status \in {"probe", "unavailable"}, NEW category \in Reasons,
           NEW listed \in [Resolved!Addresses -> {"none", "probe"}],
           status = "probe" => \E u \in Offers[m] : listed[u] = "probe",
           Resolved!Results(m, status, category, listed)
    PROVE  ResolutionInv'
<1>1. /\ match' = [match EXCEPT ![m] = [match[m] EXCEPT !.step = "resolved", !.status = status,
                                                      !.category = category]]
      /\ check' = [p \in Resolved!Pairs |->
             IF p[1] = m THEN [Resolved!Unchecked EXCEPT !.at = "done", !.status = listed[p[2]]]
                         ELSE check[p]]
      /\ UNCHANGED <<verify, merged>> /\ match[m] \in MatchRow
  BY DEF Resolved!Results, ResolutionInv, ResolutionTypes
<1>2. /\ match' = [n \in Matches |-> match'[n]]
      /\ match'[m].step = "resolved" /\ match'[m].status = status
      /\ \A n \in Matches : n # m => match'[n] = match[n]
  BY <1>1 DEF ResolutionInv, ResolutionTypes, MatchRow
<1>3. ASSUME NEW p \in Resolved!Pairs, p[1] = m
      PROVE  /\ check'[p] \in CheckRow /\ check'[p].at = "done" /\ check'[p].category = ""
             /\ check'[p].status = listed[p[2]] /\ listed[p[2]] \in {"none", "probe"}
  <2>1. listed[p[2]] \in {"none", "probe"}
    BY PairsAre
  <2>2. check'[p] = [Resolved!Unchecked EXCEPT !.at = "done", !.status = listed[p[2]]]
    BY <1>1, <1>3
  <2> QED
    BY <2>1, <2>2, FreshRows DEF CheckRow, Results, Resolved!Statuses
<1>4. \A p \in Resolved!Pairs : p[1] # m => check'[p] = check[p]
  BY <1>1
<1>5. check' \in [Resolved!Pairs -> CheckRow]
  BY <1>1, <1>3, <1>4 DEF ResolutionInv, ResolutionTypes
<1>6. ResolutionTypes'
  BY <1>1, <1>2, <1>5 DEF ResolutionInv, ResolutionTypes
<1>7. \A p \in Resolved!Pairs : p[1] = m => PairInv(p)'
  BY <1>2, <1>3 DEF PairInv, RowInv, UnderCheck
<1>8. OutcomeInv(m)'
  <2>1. \A p \in Resolved!Pairs : p[1] = m => check'[p].status # "verified"
    BY <1>3
  <2>2. ASSUME status = "probe"
        PROVE  \E p \in Resolved!Pairs : p[1] = m /\ check'[p].status = "probe"
    <3>1. PICK u \in Offers[m] : listed[u] = "probe"
      BY <2>2
    <3>2. <<m, u>> \in Resolved!Pairs
      BY OffersAre
    <3> QED
      BY <1>3, <3>1, <3>2
  <2> QED
    BY <1>2, <2>1, <2>2 DEF OutcomeInv
<1>9. MergedInv'
  BY <1>1, <1>2, <1>4, MergedStays
<1> QED
  BY <1>1, <1>2, <1>4, <1>6, <1>7, <1>8, <1>9, Others DEF ResolutionInv

LEMMA NotVerified ==
    ASSUME ResolutionInv, NEW m \in Matches, Resolved!NoAnswer(m) \/ Resolved!Unverified(m)
    PROVE  ResolutionInv'
<1>1. CASE Resolved!NoAnswer(m)
  <2> DEFINE listed == [u \in Resolved!Addresses |-> "none"]
  <2>1. listed \in [Resolved!Addresses -> {"none", "probe"}]
    OBVIOUS
  <2>2. match[m].step = "asking" /\ Resolved!Results(m, "unavailable", "unknown", listed)
    BY <1>1 DEF Resolved!NoAnswer
  <2> HIDE DEF listed
  <2> QED
    BY <2>1, <2>2, LinesListed DEF Reasons
<1>2. CASE Resolved!Unverified(m)
  <2>1. PICK raw \in SUBSET Offers[m] :
           LET direct == {u \in raw : Kind[u] = "direct"} IN
           Resolved!Results(m, IF direct # {} THEN "probe" ELSE "unavailable",
                IF direct # {} THEN "" ELSE "empty",
                [u \in Resolved!Addresses |-> IF u \in direct THEN "probe" ELSE "none"])
    BY <1>2 DEF Resolved!Unverified
  <2> DEFINE direct == {u \in raw : Kind[u] = "direct"}
             status == IF direct # {} THEN "probe" ELSE "unavailable"
             category == IF direct # {} THEN "" ELSE "empty"
             listed == [u \in Resolved!Addresses |-> IF u \in direct THEN "probe" ELSE "none"]
  <2>2. Resolved!Results(m, status, category, listed)
    BY <2>1
  <2>3. match[m].step = "asking"
    BY <1>2 DEF Resolved!Unverified
  <2>4. listed \in [Resolved!Addresses -> {"none", "probe"}]
    OBVIOUS
  <2>5. status \in {"probe", "unavailable"} /\ category \in Reasons
    BY DEF Reasons
  <2>6. status = "probe" => \E u \in Offers[m] : listed[u] = "probe"
    BY OffersAre
  <2> HIDE DEF status, category, listed
  <2> QED
    BY <2>2, <2>3, <2>4, <2>5, <2>6, LinesListed
<1> QED
  BY <1>1, <1>2

LEMMA ChecksBegin ==
    ASSUME ResolutionInv, NEW m \in Matches, Resolved!BeginChecks(m)
    PROVE  ResolutionInv'
<1>1. PICK raw \in SUBSET Offers[m], gone \in {"parser", "stale"} :
         /\ match' = [match EXCEPT ![m].step = "checking", ![m].raw = raw]
         /\ check' = [p \in Resolved!Pairs |->
                IF p[1] # m \/ p[2] \notin raw THEN check[p]
                ELSE IF Kind[p[2]] = "unlisted"
                  THEN [Resolved!Unchecked EXCEPT !.at = "done", !.status = "unavailable",
                           !.category = gone]
                ELSE [Resolved!Unchecked EXCEPT !.at = "manifest"]]
  <2>1. PICK raw \in SUBSET Offers[m], page \in BOOLEAN :
         /\ match' = [match EXCEPT ![m].step = "checking", ![m].raw = raw]
         /\ check' = [p \in Resolved!Pairs |->
                IF p[1] # m \/ p[2] \notin raw THEN check[p]
                ELSE IF Kind[p[2]] = "unlisted"
                  THEN [Resolved!Unchecked EXCEPT !.at = "done", !.status = "unavailable",
                           !.category = IF page THEN "parser" ELSE "stale"]
                ELSE [Resolved!Unchecked EXCEPT !.at = "manifest"]]
    BY DEF Resolved!BeginChecks
  <2>2. PICK gone \in {"parser", "stale"} : gone = IF page THEN "parser" ELSE "stale"
    OBVIOUS
  <2> QED
    BY <2>1, <2>2
<1>2. /\ match[m].step = "asking" /\ match[m] \in MatchRow /\ verify
      /\ UNCHANGED <<verify, merged>>
  BY DEF Resolved!BeginChecks, ResolutionInv, ResolutionTypes
<1>3. raw \in SUBSET Resolved!Addresses
  BY OffersAre
<1>4. /\ match' = [n \in Matches |-> match'[n]] /\ match'[m] \in MatchRow
      /\ match'[m].step = "checking" /\ match'[m].raw = raw
      /\ \A n \in Matches : n # m => match'[n] = match[n]
  BY <1>1, <1>2, <1>3 DEF ResolutionInv, ResolutionTypes, MatchRow
<1>5. /\ \A p \in Resolved!Pairs : p[1] # m => check'[p] = check[p]
      /\ \A p \in Resolved!Pairs : p[1] = m /\ p[2] \notin raw => check'[p] = check[p]
  BY <1>1
<1>6. ASSUME NEW p \in Resolved!Pairs, p[1] = m, p[2] \in raw
      PROVE  /\ check'[p] \in CheckRow /\ RowInv(check'[p])
             /\ check'[p].status \in {"none", "unavailable"}
  <2>1. CASE Kind[p[2]] = "unlisted"
    <3>1. check'[p] = [Resolved!Unchecked EXCEPT !.at = "done", !.status = "unavailable",
                          !.category = gone]
      BY <1>1, <1>6, <2>1
    <3>2. /\ check'[p] \in CheckRow /\ check'[p].at = "done"
          /\ check'[p].status = "unavailable" /\ check'[p].category = gone
      BY <3>1, FreshRows DEF CheckRow, Results, Resolved!Statuses, Reasons
    <3> QED
      BY <3>2 DEF RowInv, UnderCheck
  <2>2. CASE Kind[p[2]] # "unlisted"
    <3>1. check'[p] = [Resolved!Unchecked EXCEPT !.at = "manifest"]
      BY <1>1, <1>6, <2>2
    <3>2. /\ check'[p] \in CheckRow /\ check'[p].at = "manifest"
          /\ check'[p].status = "none" /\ check'[p].category = ""
      BY <3>1, FreshRows DEF CheckRow, UnderCheck
    <3> QED
      BY <3>2 DEF RowInv, UnderCheck
  <2> QED
    BY <2>1, <2>2
<1>7. check' \in [Resolved!Pairs -> CheckRow]
  BY <1>1, <1>5, <1>6 DEF ResolutionInv, ResolutionTypes
<1>8. ResolutionTypes'
  BY <1>2, <1>4, <1>7 DEF ResolutionInv, ResolutionTypes
<1>9. ASSUME NEW p \in Resolved!Pairs, p[1] = m
      PROVE  PairInv(p)'
  <2>1. CASE p[2] \in raw
    BY <1>2, <1>4, <1>6, <1>9, <2>1 DEF PairInv
  <2>2. CASE p[2] \notin raw
    <3>1. check'[p] = check[p] /\ PairInv(p) /\ match[m].step = "asking"
      BY <1>2, <1>5, <1>9, <2>2 DEF ResolutionInv
    <3> QED
      BY <1>2, <1>4, <1>9, <3>1 DEF PairInv
  <2> QED
    BY <2>1, <2>2
<1>10. OutcomeInv(m)'
  BY <1>4 DEF OutcomeInv
<1>11. MergedInv'
  BY <1>2, <1>4, <1>5, MergedStays
<1> QED
  BY <1>2, <1>4, <1>5, <1>8, <1>9, <1>10, <1>11, Others DEF ResolutionInv

\* All lines of a match are checked: what is listed, and the best of it.
LEMMA MatchResolved ==
    ASSUME ResolutionInv, NEW m \in Matches, Resolved!Resolve(m)
    PROVE  ResolutionInv'
<1> DEFINE listed == {Resolved!Listed(p) : p \in Resolved!Raw(m)}
           status == IF "verified" \in listed THEN "verified"
                     ELSE IF "probe" \in listed THEN "probe" ELSE "unavailable"
<1>1. /\ match[m].step = "checking" /\ match[m] \in MatchRow /\ verify
      /\ \A p \in Resolved!Raw(m) : check[p].at = "done"
      /\ UNCHANGED <<verify, merged>>
  BY DEF Resolved!Resolve, ResolutionInv, ResolutionTypes
<1>2. /\ \E why : match' = [match EXCEPT ![m].step = "resolved", ![m].status = status,
                                      ![m].category = why]
      /\ check' = [p \in Resolved!Pairs |->
            IF p \in Resolved!Raw(m) THEN [check[p] EXCEPT !.status = Resolved!Listed(p)]
                                    ELSE check[p]]
  BY DEF Resolved!Resolve
<1>3. \A p \in Resolved!Pairs :
         p \in Resolved!Raw(m) <=> p[1] = m /\ p[2] \in match[m].raw
  BY DEF Resolved!Raw
<1> HIDE DEF status
<1>4. /\ match' = [n \in Matches |-> match'[n]]
      /\ match'[m].step = "resolved" /\ match'[m].status = status
      /\ \A n \in Matches : n # m => match'[n] = match[n]
  BY <1>1, <1>2 DEF ResolutionInv, ResolutionTypes, MatchRow
<1>5. ASSUME NEW p \in Resolved!Raw(m)
      PROVE  /\ check'[p] \in CheckRow /\ check'[p].at = "done"
             /\ check'[p].status = Resolved!Listed(p) /\ check'[p].category = check[p].category
             /\ check'[p].keyed = check[p].keyed /\ check'[p].read = check[p].read
             /\ Resolved!Listed(p) \in Results
             /\ Resolved!Listed(p) = "verified" => check[p].status = "verified"
             /\ check[p].category = "local" => Resolved!Listed(p) = "none"
  <2>1. p \in Resolved!Pairs /\ check[p] \in CheckRow /\ RowInv(check[p])
    BY DEF Resolved!Raw, ResolutionInv, ResolutionTypes, PairInv
  <2>2. /\ Resolved!Listed(p) \in Results
        /\ Resolved!Listed(p) = "verified" => check[p].status = "verified"
    BY DEF Resolved!Listed, Results, Resolved!Statuses
  <2>3. check[p].category = "local" => Resolved!Listed(p) = "none"
    BY <2>1 DEF Resolved!Listed, RowInv
  <2>4. check'[p] = [check[p] EXCEPT !.status = Resolved!Listed(p)]
    BY <1>2, <2>1
  <2>5. /\ check'[p] \in CheckRow /\ check'[p].at = check[p].at
        /\ check'[p].status = Resolved!Listed(p) /\ check'[p].category = check[p].category
        /\ check'[p].keyed = check[p].keyed /\ check'[p].read = check[p].read
    BY <2>1, <2>2, <2>4 DEF CheckRow
  <2> QED
    BY <1>1, <2>2, <2>3, <2>5
<1>6. /\ \A p \in Resolved!Pairs : p \notin Resolved!Raw(m) => check'[p] = check[p]
      /\ \A p \in Resolved!Pairs : p[1] # m => check'[p] = check[p]
  BY <1>2, <1>3
<1>7. check' \in [Resolved!Pairs -> CheckRow]
  BY <1>2, <1>5, <1>6 DEF ResolutionInv, ResolutionTypes
<1>8. ResolutionTypes'
  BY <1>1, <1>4, <1>7 DEF ResolutionInv, ResolutionTypes
<1>9. ASSUME NEW p \in Resolved!Pairs, p[1] = m
      PROVE  /\ PairInv(p)'
             /\ p \notin Resolved!Raw(m) => check'[p].status = "none"
  <2>1. PairInv(p)
    BY DEF ResolutionInv
  <2>2. CASE p \in Resolved!Raw(m)
    <3>1. /\ check'[p].at = "done"
          /\ check'[p].status = "verified" => PlayableRow(check'[p]) /\ verify
          /\ check'[p].category = "local" => check'[p].status = "none"
      BY <1>5, <2>1, <2>2 DEF PairInv, RowInv, PlayableRow
    <3> QED
      BY <1>1, <1>4, <1>9, <2>2, <3>1 DEF PairInv, RowInv, UnderCheck
  <2>3. CASE p \notin Resolved!Raw(m)
    <3>1. /\ check'[p] = check[p] /\ check[p].status = "none" /\ RowInv(check[p])
          /\ check[p].at \notin UnderCheck
      BY <1>1, <1>3, <1>6, <1>9, <2>1, <2>3 DEF PairInv
    <3> QED
      BY <1>1, <1>4, <1>9, <3>1 DEF PairInv
  <2> QED
    BY <2>2, <2>3
<1>10. OutcomeInv(m)'
  <2>1. ASSUME NEW s \in {"verified", "probe"}, status = s
        PROVE  \E p \in Resolved!Pairs : p[1] = m /\ check'[p].status = s
    <3>1. PICK p \in Resolved!Raw(m) : Resolved!Listed(p) = s
      BY <2>1 DEF status
    <3>2. p \in Resolved!Pairs /\ p[1] = m
      BY <3>1 DEF Resolved!Raw
    <3> QED
      BY <1>5, <3>1, <3>2
  <2>2. ASSUME status = "probe", NEW p \in Resolved!Pairs, p[1] = m
        PROVE  check'[p].status # "verified"
    <3>1. "verified" \notin listed
      BY <2>2 DEF status
    <3> QED
      BY <1>5, <1>9, <2>2, <3>1
  <2> QED
    BY <1>4, <2>1, <2>2 DEF OutcomeInv
<1>11. MergedInv'
  BY <1>1, <1>4, <1>6, MergedStays
<1> QED
  BY <1>1, <1>4, <1>6, <1>8, <1>9, <1>10, <1>11, Others DEF ResolutionInv

\* The outcome of a match is merged: of two copies the verified one is kept.
LEMMA MatchMerged ==
    ASSUME ResolutionInv, NEW m \in Matches, Resolved!Merge(m)
    PROVE  ResolutionInv'
<1> DEFINE new(u) == IF <<m, u>> \in Resolved!Pairs THEN check[<<m, u>>].status ELSE "none"
<1>1. /\ match[m].step = "resolved" /\ verify' = verify
      /\ match' = [match EXCEPT ![m] = Resolved!Done(@)]
      /\ check' = [p \in Resolved!Pairs |->
            IF p[1] = m THEN [check[p] EXCEPT !.category = ""] ELSE check[p]]
      /\ merged' = [u \in Resolved!Addresses |->
            IF \/ merged[u] = "none" /\ new(u) \in Resolved!Statuses
               \/ merged[u] # "verified" /\ new(u) = "verified"
              THEN new(u) ELSE merged[u]]
  BY DEF Resolved!Merge, Resolved!Forget
<1>2. /\ match' = [n \in Matches |-> match'[n]] /\ match'[m].step = "merged"
      /\ \A n \in Matches : n # m => match'[n] = match[n]
  BY <1>1 DEF ResolutionInv, ResolutionTypes, Resolved!Done, Resolved!Unasked
<1>3. ASSUME NEW p \in Resolved!Pairs, p[1] = m
      PROVE  /\ check'[p] \in CheckRow /\ check'[p].at = check[p].at
             /\ check'[p].status = check[p].status /\ check'[p].category = ""
             /\ check'[p].keyed = check[p].keyed /\ check'[p].read = check[p].read
  <2>1. check'[p] = [check[p] EXCEPT !.category = ""] /\ check[p] \in CheckRow
    BY <1>1, <1>3 DEF ResolutionInv, ResolutionTypes
  <2> QED
    BY <2>1 DEF CheckRow, Reasons
<1>4. \A p \in Resolved!Pairs : p[1] # m => check'[p] = check[p]
  BY <1>1
<1>5. check' \in [Resolved!Pairs -> CheckRow]
  BY <1>1, <1>3, <1>4 DEF ResolutionInv, ResolutionTypes
<1>6. ResolutionTypes'
  BY <1>1, <1>2, <1>5 DEF ResolutionInv, ResolutionTypes
<1>7. ASSUME NEW p \in Resolved!Pairs, p[1] = m
      PROVE  PairInv(p)'
  <2>1. /\ check[p].at \notin UnderCheck /\ RowInv(check[p])
        /\ check[p].status = "verified" => verify
    BY <1>1, <1>7 DEF ResolutionInv, PairInv
  <2>2. RowInv(check'[p])
    BY <1>3, <1>7, <2>1 DEF RowInv, PlayableRow, UnderCheck
  <2> QED
    BY <1>1, <1>2, <1>3, <1>7, <2>1, <2>2 DEF PairInv
<1>8. OutcomeInv(m)'
  BY <1>2 DEF OutcomeInv
<1>9. MergedInv'
  <2> SUFFICES ASSUME NEW u \in Resolved!Addresses
               PROVE  merged'[u] = "verified" <=>
                         \E p \in Resolved!Pairs :
                            p[2] = u /\ match'[p[1]].step = "merged"
                                     /\ check'[p].status = "verified"
    BY DEF MergedInv
  <2>1. merged'[u] = "verified" <=> merged[u] = "verified" \/ new(u) = "verified"
    BY <1>1
  <2>2. new(u) = "verified" <=>
           \E p \in Resolved!Pairs : p[1] = m /\ p[2] = u /\ check[p].status = "verified"
    BY PairsAre
  <2>3. merged[u] = "verified" <=>
           \E p \in Resolved!Pairs :
              p[2] = u /\ match[p[1]].step = "merged" /\ check[p].status = "verified"
    BY DEF ResolutionInv, MergedInv
  <2> HIDE DEF new
  <2>4. ASSUME NEW p \in Resolved!Pairs
        PROVE  /\ check'[p].status = check[p].status
               /\ match'[p[1]].step = "merged" <=> p[1] = m \/ match[p[1]].step = "merged"
    BY <1>2, <1>3, <1>4, PairsAre
  <2> QED
    BY <2>1, <2>2, <2>3, <2>4
<1> QED
  BY <1>1, <1>2, <1>4, <1>6, <1>7, <1>8, <1>9, Others DEF ResolutionInv

LEMMA ScanCancelled ==
    ASSUME Resolved!Cancel
    PROVE  ResolutionInv'
<1>1. /\ match' = [m \in Matches |-> [Resolved!Unasked EXCEPT !.step = "merged"]]
      /\ check' = [p \in Resolved!Pairs |-> Resolved!Unchecked]
      /\ merged' = [u \in Resolved!Addresses |-> "none"]
  BY DEF Resolved!Cancel
<1>2. \A m \in Matches : match'[m].step = "merged"
  BY <1>1 DEF Resolved!Unasked
<1>3. ResolutionTypes'
  BY <1>1, <1>2, FreshRows DEF ResolutionTypes
<1>4. \A p \in Resolved!Pairs : PairInv(p)'
  BY <1>1, <1>2, FreshRows, PairsAre DEF PairInv, RowInv, UnderCheck
<1>5. (\A m \in Matches : OutcomeInv(m)') /\ MergedInv'
  BY <1>1, <1>2, FreshRows, PairsAre DEF OutcomeInv, MergedInv
<1> QED
  BY <1>3, <1>4, <1>5 DEF ResolutionInv

LEMMA ResolutionKeeps == ResolutionInv /\ [Resolved!Next]_resolvedVars => ResolutionInv'
<1> SUFFICES ASSUME ResolutionInv, [Resolved!Next]_resolvedVars
             PROVE  ResolutionInv'
  OBVIOUS
<1>1. CASE UNCHANGED resolvedVars
  <2>1. UNCHANGED <<verify, match, check, merged>>
    BY <1>1 DEF resolvedVars
  <2> QED
    BY <2>1 DEF ResolutionInv, ResolutionTypes, PairInv, OutcomeInv, MergedInv
<1>2. CASE Resolved!Cancel
  BY <1>2, ScanCancelled
<1>3. ASSUME NEW m \in Matches,
             \/ Resolved!AskForLines(m) \/ Resolved!NoAnswer(m) \/ Resolved!Unverified(m)
             \/ Resolved!BeginChecks(m) \/ Resolved!Resolve(m) \/ Resolved!Merge(m)
      PROVE  ResolutionInv'
  BY <1>3, AskedForLines, NotVerified, ChecksBegin, MatchResolved, MatchMerged
<1>4. ASSUME NEW p \in Resolved!Pairs,
             \/ Resolved!Fails(p) \/ Resolved!Redirect(p) \/ Resolved!NoMedia(p)
             \/ Resolved!ReadFile(p) \/ Resolved!ReadVariants(p) \/ Resolved!ReadManifest(p)
             \/ Resolved!ReadKey(p) \/ Resolved!ReadSegment(p)
      PROVE  ResolutionInv'
  BY <1>4, ChecksEnd, ChecksMove
<1> QED
  BY <1>1, <1>2, <1>3, <1>4 DEF Resolved!Next

LEMMA ResolutionHolds == ResolutionInv => Resolved!ResolutionIsTrue
<1> SUFFICES ASSUME ResolutionInv PROVE Resolved!ResolutionIsTrue
  OBVIOUS
<1>1. \A p \in Resolved!Pairs :
         /\ check[p].status = "verified" => verify /\ Resolved!PlayableRead(p)
         /\ check[p].category = "local" /\ match[p[1]].step = "resolved" =>
               check[p].status = "none"
  BY DEF ResolutionInv, PairInv, RowInv, PlayableRow, Resolved!PlayableRead
<1> QED
  BY <1>1 DEF ResolutionInv, OutcomeInv, MergedInv, Resolved!ResolutionIsTrue

\* Whatever the answers of the catalogue and of the sites, and in whatever order
\* they come: a title is searched by names and a season of its own, and a line
\* counts as verified only after what a player would read was read, with the
\* outcome of a match that of its best line (catalog.py; aggregator.py,
\* resolve_source_matches and _line_verification_status).
THEOREM SourcesCorrect == AllParts => []SourcesAreTrue
<1>1. Start => NamesInv /\ ResolutionInv
  BY NamesInit, ResolutionInit DEF Start
<1>2. [Step]_Everything => [Known!Next]_knownVars /\ [Resolved!Next]_resolvedVars
  BY DEF Step, Still, Everything
<1>3. NamesInv /\ ResolutionInv => SourcesAreTrue
  BY ResolutionHolds DEF NamesInv, SourcesAreTrue
<1> QED
  BY <1>1, <1>2, <1>3, NamesKeep, ResolutionKeeps, PTL DEF AllParts

-----------------------------------------------------------------------------
(***************************************************************************)
(* The library of subtitles                                                *)
(***************************************************************************)
LibraryProofs == INSTANCE SubtitleLibraryProofs WITH task <- errand, Readers <- Viewers,
                                                     MaxMishaps <- 0
SpoiledProofs == INSTANCE SubtitleLibraryProofs WITH task <- errand, Readers <- OneViewer

LEMMA SameNumber ==
    ASSUME NEW S
    PROVE  /\ Library!Cardinality(S) = LibraryProofs!Cardinality(S)
           /\ Spoiled!Cardinality(S) = SpoiledProofs!Cardinality(S)
BY DEF Library!Cardinality, LibraryProofs!Cardinality, Spoiled!Cardinality,
   SpoiledProofs!Cardinality

LEMMA LibraryStep ==
    ASSUME [Library!Next]_libraryVars
    PROVE  [LibraryProofs!Next]_(LibraryProofs!libraryVars)
<1>1. \A e : Library!Import(e) => LibraryProofs!Import(e)
  BY DEF Library!Import, LibraryProofs!Import, Library!Free, LibraryProofs!Free,
     Library!Accepts, LibraryProofs!Accepts, Library!Row, LibraryProofs!Row,
     Library!Files, LibraryProofs!Files, Library!Tasks, LibraryProofs!Tasks
<1>2. Library!PutObject => LibraryProofs!PutObject
  BY DEF Library!PutObject, LibraryProofs!PutObject, Library!Digest,
     LibraryProofs!Digest, Library!Ends, LibraryProofs!Ends, Library!Goes,
     LibraryProofs!Goes, Library!Files, LibraryProofs!Files, Library!Tasks,
     LibraryProofs!Tasks
<1>3. Library!FindCopy => LibraryProofs!FindCopy
  BY SameNumber DEF Library!FindCopy, LibraryProofs!FindCopy, Library!Copies,
     LibraryProofs!Copies, Library!Digest, LibraryProofs!Digest, Library!Refused,
     LibraryProofs!Refused, Library!Ends, LibraryProofs!Ends, Library!Goes,
     LibraryProofs!Goes, Library!CheckFolder, LibraryProofs!CheckFolder, Library!Gets,
     LibraryProofs!Gets, Library!ValidateFile, LibraryProofs!ValidateFile,
     Library!HasId, LibraryProofs!HasId, Library!Files, LibraryProofs!Files,
     Library!Tasks, LibraryProofs!Tasks
<1>4. Library!Upload => LibraryProofs!Upload
  BY DEF Library!Upload, LibraryProofs!Upload, Library!Refused, LibraryProofs!Refused,
     Library!Ends, LibraryProofs!Ends, Library!Stores, LibraryProofs!Stores,
     Library!NewFile, LibraryProofs!NewFile, Library!Digest, LibraryProofs!Digest,
     Library!HasId, LibraryProofs!HasId, Library!Files, LibraryProofs!Files,
     Library!Tasks, LibraryProofs!Tasks
<1>5. Library!Insert => LibraryProofs!Insert
  BY DEF Library!Insert, LibraryProofs!Insert, Library!Ends, LibraryProofs!Ends,
     Library!Files, LibraryProofs!Files, Library!Tasks, LibraryProofs!Tasks
<1>6. \A t : Library!WriteCache(t) => LibraryProofs!WriteCache(t)
  BY DEF Library!WriteCache, LibraryProofs!WriteCache, Library!Done, LibraryProofs!Done,
     Library!Ends, LibraryProofs!Ends, Library!WithoutCopy, LibraryProofs!WithoutCopy,
     Library!Digest, LibraryProofs!Digest, Library!Copy, LibraryProofs!Copy,
     Library!Goes, LibraryProofs!Goes, Library!Files, LibraryProofs!Files,
     Library!Tasks, LibraryProofs!Tasks
<1>7. \A t : Library!ListCache(t) => LibraryProofs!ListCache(t)
  BY DEF Library!ListCache, LibraryProofs!ListCache, Library!WithoutCopy,
     LibraryProofs!WithoutCopy, Library!Done, LibraryProofs!Done, Library!Ends,
     LibraryProofs!Ends, Library!Files, LibraryProofs!Files, Library!Tasks,
     LibraryProofs!Tasks
<1>8. \A t : Library!Evict(t) => LibraryProofs!Evict(t)
  BY DEF Library!Evict, LibraryProofs!Evict, Library!InCache, LibraryProofs!InCache,
     Library!Done, LibraryProofs!Done, Library!Ends, LibraryProofs!Ends,
     Library!WithoutCopy, LibraryProofs!WithoutCopy, Library!Files, LibraryProofs!Files,
     Library!Tasks, LibraryProofs!Tasks
<1>9. \A t, d : Library!Content(t, d) => LibraryProofs!Content(t, d)
  BY DEF Library!Content, LibraryProofs!Content, Library!Free, LibraryProofs!Free,
     Library!Files, LibraryProofs!Files, Library!Tasks, LibraryProofs!Tasks
<1>10. \A t : Library!TakeLock(t) => LibraryProofs!TakeLock(t)
  BY DEF Library!TakeLock, LibraryProofs!TakeLock, Library!Reading,
     LibraryProofs!Reading, Library!Digest, LibraryProofs!Digest, Library!Goes,
     LibraryProofs!Goes, Library!Files, LibraryProofs!Files, Library!Tasks,
     LibraryProofs!Tasks
<1>11. \A t : Library!ReadObject(t) => LibraryProofs!ReadObject(t)
  BY DEF Library!ReadObject, LibraryProofs!ReadObject, Library!Digest,
     LibraryProofs!Digest, Library!Ends, LibraryProofs!Ends, Library!Goes,
     LibraryProofs!Goes, Library!InCache, LibraryProofs!InCache, Library!Files,
     LibraryProofs!Files, Library!Tasks, LibraryProofs!Tasks
<1>12. \A t : Library!Open(t) => LibraryProofs!Open(t)
  BY DEF Library!Open, LibraryProofs!Open, Library!Digest, LibraryProofs!Digest,
     Library!InCache, LibraryProofs!InCache, Library!Ends, LibraryProofs!Ends,
     Library!WithoutCopy, LibraryProofs!WithoutCopy, Library!Goes, LibraryProofs!Goes,
     Library!Files, LibraryProofs!Files, Library!Tasks, LibraryProofs!Tasks
<1>13. \A t : Library!Fetch(t) => LibraryProofs!Fetch(t)
  BY DEF Library!Fetch, LibraryProofs!Fetch, Library!Digest, LibraryProofs!Digest,
     Library!Refused, LibraryProofs!Refused, Library!Ends, LibraryProofs!Ends,
     Library!HasRemote, LibraryProofs!HasRemote, Library!Copies, LibraryProofs!Copies,
     Library!Gets, LibraryProofs!Gets, Library!CheckFolder, LibraryProofs!CheckFolder,
     Library!ValidateFile, LibraryProofs!ValidateFile, Library!Goes, LibraryProofs!Goes,
     Library!Files, LibraryProofs!Files, Library!Tasks, LibraryProofs!Tasks
<1>14. Library!Die => LibraryProofs!Die
  BY DEF Library!Die, LibraryProofs!Die, Library!Free, LibraryProofs!Free,
     Library!Resting, LibraryProofs!Resting, Library!Files, LibraryProofs!Files,
     Library!Tasks, LibraryProofs!Tasks
<1>15. Library!Damage => LibraryProofs!Damage
  BY DEF Library!Damage, LibraryProofs!Damage, Library!Mishap, LibraryProofs!Mishap,
     Library!Digests, LibraryProofs!Digests, Library!Files, LibraryProofs!Files,
     Library!Tasks, LibraryProofs!Tasks
<1>16. Library!TimeOut => LibraryProofs!TimeOut
  BY DEF Library!TimeOut, LibraryProofs!TimeOut, Library!Mishap, LibraryProofs!Mishap,
     Library!Ends, LibraryProofs!Ends, Library!Digest, LibraryProofs!Digest,
     Library!Files, LibraryProofs!Files, Library!Tasks, LibraryProofs!Tasks
<1>17. \A d : Library!ArriveLate(d) => LibraryProofs!ArriveLate(d)
  BY DEF Library!ArriveLate, LibraryProofs!ArriveLate, Library!Stores,
     LibraryProofs!Stores, Library!NewFile, LibraryProofs!NewFile, Library!Files,
     LibraryProofs!Files, Library!Tasks, LibraryProofs!Tasks
<1>18. Library!Reconfigure => LibraryProofs!Reconfigure
  BY DEF Library!Reconfigure, LibraryProofs!Reconfigure, Library!Mishap,
     LibraryProofs!Mishap, Library!Free, LibraryProofs!Free, Library!Files,
     LibraryProofs!Files, Library!Tasks, LibraryProofs!Tasks
<1>19. Library!Tasks = LibraryProofs!Tasks /\ Library!Digests = LibraryProofs!Digests /\ LibraryProofs!libraryVars = libraryVars
  BY DEF Library!Tasks, LibraryProofs!Tasks, Library!Digests, LibraryProofs!Digests,
     LibraryProofs!libraryVars, libraryVars
<1>20. CASE UNCHANGED libraryVars
  BY <1>19, <1>20 DEF LibraryProofs!libraryVars, libraryVars
<1>21. CASE Library!Next
  <2>1. CASE Library!PutObject \/ Library!FindCopy \/ Library!Upload \/ Library!Insert
    BY <1>2, <1>3, <1>4, <1>5, <2>1 DEF LibraryProofs!Next
  <2>2. CASE Library!Die \/ Library!Damage \/ Library!TimeOut \/ Library!Reconfigure
    BY <1>14, <1>15, <1>16, <1>18, <2>2 DEF LibraryProofs!Next
  <2>3. CASE \E e \in Entries : Library!Import(e)
    BY <1>1, <2>3 DEF LibraryProofs!Next
  <2>4. CASE \E d \in Library!Digests : Library!ArriveLate(d)
    BY <1>17, <1>19, <2>4 DEF LibraryProofs!Next
  <2>5. CASE \E t \in Library!Tasks : Library!WriteCache(t) \/ Library!ListCache(t) \/ Library!Evict(t)
    BY <1>6, <1>7, <1>8, <1>19, <2>5 DEF LibraryProofs!Next
  <2>6. ASSUME NEW r \in Viewers,
               \/ Library!TakeLock(r) \/ Library!ReadObject(r) \/ Library!Open(r) \/ Library!Fetch(r)
               \/ \E d \in Library!Digests : Library!Content(r, d)
        PROVE  LibraryProofs!Next
    BY <1>9, <1>10, <1>11, <1>12, <1>13, <1>19, <2>6 DEF LibraryProofs!Next
  <2> QED
    BY <1>21, <2>1, <2>2, <2>3, <2>4, <2>5, <2>6 DEF Library!Next
<1> QED
  BY <1>20, <1>21

LEMMA SpoiledStep ==
    ASSUME [Spoiled!Next]_libraryVars
    PROVE  [SpoiledProofs!Next]_(SpoiledProofs!libraryVars)
<1>1. \A e : Spoiled!Import(e) => SpoiledProofs!Import(e)
  BY DEF Spoiled!Import, SpoiledProofs!Import, Spoiled!Free, SpoiledProofs!Free,
     Spoiled!Accepts, SpoiledProofs!Accepts, Spoiled!Row, SpoiledProofs!Row,
     Spoiled!Files, SpoiledProofs!Files, Spoiled!Tasks, SpoiledProofs!Tasks
<1>2. Spoiled!PutObject => SpoiledProofs!PutObject
  BY DEF Spoiled!PutObject, SpoiledProofs!PutObject, Spoiled!Digest,
     SpoiledProofs!Digest, Spoiled!Ends, SpoiledProofs!Ends, Spoiled!Goes,
     SpoiledProofs!Goes, Spoiled!Files, SpoiledProofs!Files, Spoiled!Tasks,
     SpoiledProofs!Tasks
<1>3. Spoiled!FindCopy => SpoiledProofs!FindCopy
  BY SameNumber DEF Spoiled!FindCopy, SpoiledProofs!FindCopy, Spoiled!Copies,
     SpoiledProofs!Copies, Spoiled!Digest, SpoiledProofs!Digest, Spoiled!Refused,
     SpoiledProofs!Refused, Spoiled!Ends, SpoiledProofs!Ends, Spoiled!Goes,
     SpoiledProofs!Goes, Spoiled!CheckFolder, SpoiledProofs!CheckFolder, Spoiled!Gets,
     SpoiledProofs!Gets, Spoiled!ValidateFile, SpoiledProofs!ValidateFile,
     Spoiled!HasId, SpoiledProofs!HasId, Spoiled!Files, SpoiledProofs!Files,
     Spoiled!Tasks, SpoiledProofs!Tasks
<1>4. Spoiled!Upload => SpoiledProofs!Upload
  BY DEF Spoiled!Upload, SpoiledProofs!Upload, Spoiled!Refused, SpoiledProofs!Refused,
     Spoiled!Ends, SpoiledProofs!Ends, Spoiled!Stores, SpoiledProofs!Stores,
     Spoiled!NewFile, SpoiledProofs!NewFile, Spoiled!Digest, SpoiledProofs!Digest,
     Spoiled!HasId, SpoiledProofs!HasId, Spoiled!Files, SpoiledProofs!Files,
     Spoiled!Tasks, SpoiledProofs!Tasks
<1>5. Spoiled!Insert => SpoiledProofs!Insert
  BY DEF Spoiled!Insert, SpoiledProofs!Insert, Spoiled!Ends, SpoiledProofs!Ends,
     Spoiled!Files, SpoiledProofs!Files, Spoiled!Tasks, SpoiledProofs!Tasks
<1>6. \A t : Spoiled!WriteCache(t) => SpoiledProofs!WriteCache(t)
  BY DEF Spoiled!WriteCache, SpoiledProofs!WriteCache, Spoiled!Done, SpoiledProofs!Done,
     Spoiled!Ends, SpoiledProofs!Ends, Spoiled!WithoutCopy, SpoiledProofs!WithoutCopy,
     Spoiled!Digest, SpoiledProofs!Digest, Spoiled!Copy, SpoiledProofs!Copy,
     Spoiled!Goes, SpoiledProofs!Goes, Spoiled!Files, SpoiledProofs!Files,
     Spoiled!Tasks, SpoiledProofs!Tasks
<1>7. \A t : Spoiled!ListCache(t) => SpoiledProofs!ListCache(t)
  BY DEF Spoiled!ListCache, SpoiledProofs!ListCache, Spoiled!WithoutCopy,
     SpoiledProofs!WithoutCopy, Spoiled!Done, SpoiledProofs!Done, Spoiled!Ends,
     SpoiledProofs!Ends, Spoiled!Files, SpoiledProofs!Files, Spoiled!Tasks,
     SpoiledProofs!Tasks
<1>8. \A t : Spoiled!Evict(t) => SpoiledProofs!Evict(t)
  BY DEF Spoiled!Evict, SpoiledProofs!Evict, Spoiled!InCache, SpoiledProofs!InCache,
     Spoiled!Done, SpoiledProofs!Done, Spoiled!Ends, SpoiledProofs!Ends,
     Spoiled!WithoutCopy, SpoiledProofs!WithoutCopy, Spoiled!Files, SpoiledProofs!Files,
     Spoiled!Tasks, SpoiledProofs!Tasks
<1>9. \A t, d : Spoiled!Content(t, d) => SpoiledProofs!Content(t, d)
  BY DEF Spoiled!Content, SpoiledProofs!Content, Spoiled!Free, SpoiledProofs!Free,
     Spoiled!Files, SpoiledProofs!Files, Spoiled!Tasks, SpoiledProofs!Tasks
<1>10. \A t : Spoiled!TakeLock(t) => SpoiledProofs!TakeLock(t)
  BY DEF Spoiled!TakeLock, SpoiledProofs!TakeLock, Spoiled!Reading,
     SpoiledProofs!Reading, Spoiled!Digest, SpoiledProofs!Digest, Spoiled!Goes,
     SpoiledProofs!Goes, Spoiled!Files, SpoiledProofs!Files, Spoiled!Tasks,
     SpoiledProofs!Tasks
<1>11. \A t : Spoiled!ReadObject(t) => SpoiledProofs!ReadObject(t)
  BY DEF Spoiled!ReadObject, SpoiledProofs!ReadObject, Spoiled!Digest,
     SpoiledProofs!Digest, Spoiled!Ends, SpoiledProofs!Ends, Spoiled!Goes,
     SpoiledProofs!Goes, Spoiled!InCache, SpoiledProofs!InCache, Spoiled!Files,
     SpoiledProofs!Files, Spoiled!Tasks, SpoiledProofs!Tasks
<1>12. \A t : Spoiled!Open(t) => SpoiledProofs!Open(t)
  BY DEF Spoiled!Open, SpoiledProofs!Open, Spoiled!Digest, SpoiledProofs!Digest,
     Spoiled!InCache, SpoiledProofs!InCache, Spoiled!Ends, SpoiledProofs!Ends,
     Spoiled!WithoutCopy, SpoiledProofs!WithoutCopy, Spoiled!Goes, SpoiledProofs!Goes,
     Spoiled!Files, SpoiledProofs!Files, Spoiled!Tasks, SpoiledProofs!Tasks
<1>13. \A t : Spoiled!Fetch(t) => SpoiledProofs!Fetch(t)
  BY DEF Spoiled!Fetch, SpoiledProofs!Fetch, Spoiled!Digest, SpoiledProofs!Digest,
     Spoiled!Refused, SpoiledProofs!Refused, Spoiled!Ends, SpoiledProofs!Ends,
     Spoiled!HasRemote, SpoiledProofs!HasRemote, Spoiled!Copies, SpoiledProofs!Copies,
     Spoiled!Gets, SpoiledProofs!Gets, Spoiled!CheckFolder, SpoiledProofs!CheckFolder,
     Spoiled!ValidateFile, SpoiledProofs!ValidateFile, Spoiled!Goes, SpoiledProofs!Goes,
     Spoiled!Files, SpoiledProofs!Files, Spoiled!Tasks, SpoiledProofs!Tasks
<1>14. Spoiled!Die => SpoiledProofs!Die
  BY DEF Spoiled!Die, SpoiledProofs!Die, Spoiled!Free, SpoiledProofs!Free,
     Spoiled!Resting, SpoiledProofs!Resting, Spoiled!Files, SpoiledProofs!Files,
     Spoiled!Tasks, SpoiledProofs!Tasks
<1>15. Spoiled!Damage => SpoiledProofs!Damage
  BY DEF Spoiled!Damage, SpoiledProofs!Damage, Spoiled!Mishap, SpoiledProofs!Mishap,
     Spoiled!Digests, SpoiledProofs!Digests, Spoiled!Files, SpoiledProofs!Files,
     Spoiled!Tasks, SpoiledProofs!Tasks
<1>16. Spoiled!TimeOut => SpoiledProofs!TimeOut
  BY DEF Spoiled!TimeOut, SpoiledProofs!TimeOut, Spoiled!Mishap, SpoiledProofs!Mishap,
     Spoiled!Ends, SpoiledProofs!Ends, Spoiled!Digest, SpoiledProofs!Digest,
     Spoiled!Files, SpoiledProofs!Files, Spoiled!Tasks, SpoiledProofs!Tasks
<1>17. \A d : Spoiled!ArriveLate(d) => SpoiledProofs!ArriveLate(d)
  BY DEF Spoiled!ArriveLate, SpoiledProofs!ArriveLate, Spoiled!Stores,
     SpoiledProofs!Stores, Spoiled!NewFile, SpoiledProofs!NewFile, Spoiled!Files,
     SpoiledProofs!Files, Spoiled!Tasks, SpoiledProofs!Tasks
<1>18. Spoiled!Reconfigure => SpoiledProofs!Reconfigure
  BY DEF Spoiled!Reconfigure, SpoiledProofs!Reconfigure, Spoiled!Mishap,
     SpoiledProofs!Mishap, Spoiled!Free, SpoiledProofs!Free, Spoiled!Files,
     SpoiledProofs!Files, Spoiled!Tasks, SpoiledProofs!Tasks
<1>19. Spoiled!Tasks = SpoiledProofs!Tasks /\ Spoiled!Digests = SpoiledProofs!Digests /\ SpoiledProofs!libraryVars = libraryVars
  BY DEF Spoiled!Tasks, SpoiledProofs!Tasks, Spoiled!Digests, SpoiledProofs!Digests,
     SpoiledProofs!libraryVars, libraryVars
<1>20. CASE UNCHANGED libraryVars
  BY <1>19, <1>20 DEF SpoiledProofs!libraryVars, libraryVars
<1>21. CASE Spoiled!Next
  <2>1. CASE Spoiled!PutObject \/ Spoiled!FindCopy \/ Spoiled!Upload \/ Spoiled!Insert
    BY <1>2, <1>3, <1>4, <1>5, <2>1 DEF SpoiledProofs!Next
  <2>2. CASE Spoiled!Die \/ Spoiled!Damage \/ Spoiled!TimeOut \/ Spoiled!Reconfigure
    BY <1>14, <1>15, <1>16, <1>18, <2>2 DEF SpoiledProofs!Next
  <2>3. CASE \E e \in Entries : Spoiled!Import(e)
    BY <1>1, <2>3 DEF SpoiledProofs!Next
  <2>4. CASE \E d \in Spoiled!Digests : Spoiled!ArriveLate(d)
    BY <1>17, <1>19, <2>4 DEF SpoiledProofs!Next
  <2>5. CASE \E t \in Spoiled!Tasks : Spoiled!WriteCache(t) \/ Spoiled!ListCache(t) \/ Spoiled!Evict(t)
    BY <1>6, <1>7, <1>8, <1>19, <2>5 DEF SpoiledProofs!Next
  <2>6. ASSUME NEW r \in OneViewer,
               \/ Spoiled!TakeLock(r) \/ Spoiled!ReadObject(r) \/ Spoiled!Open(r) \/ Spoiled!Fetch(r)
               \/ \E d \in Spoiled!Digests : Spoiled!Content(r, d)
        PROVE  SpoiledProofs!Next
    BY <1>9, <1>10, <1>11, <1>12, <1>13, <1>19, <2>6 DEF SpoiledProofs!Next
  <2> QED
    BY <1>21, <2>1, <2>2, <2>3, <2>4, <2>5, <2>6 DEF Spoiled!Next
<1> QED
  BY <1>20, <1>21

LEMMA LibraryInit ==
    /\ Library!Init => LibraryProofs!Init
    /\ Spoiled!Init => SpoiledProofs!Init
BY DEF Library!Init, LibraryProofs!Init, Library!Digests, LibraryProofs!Digests,
   Library!Tasks, LibraryProofs!Tasks, Library!Resting, LibraryProofs!Resting,
   Spoiled!Init, SpoiledProofs!Init, Spoiled!Digests, SpoiledProofs!Digests,
   Spoiled!Tasks, SpoiledProofs!Tasks, Spoiled!Resting, SpoiledProofs!Resting

LEMMA LibraryMeans ==
    ASSUME LibraryProofs!StoredIsReadable, LibraryProofs!ReadsAreTrue
    PROVE  Library!LibraryHolds
<1>1. \A d : Library!Readable(d) <=> LibraryProofs!Readable(d)
  BY DEF Library!Readable, LibraryProofs!Readable, Library!Copies, LibraryProofs!Copies, Library!Gets, LibraryProofs!Gets,
     Library!CheckFolder, LibraryProofs!CheckFolder, Library!ValidateFile, LibraryProofs!ValidateFile
<1>2. \A n : Library!Found(n) <=> LibraryProofs!Found(n)
  BY DEF Library!Found, LibraryProofs!Found, Library!HasRemote, LibraryProofs!HasRemote
<1>3. Library!Coverage = LibraryProofs!Coverage
  BY DEF Library!Coverage, LibraryProofs!Coverage, Library!CoveredEpisodes, LibraryProofs!CoveredEpisodes
<1>4. /\ \A d : Library!Copies(d) = LibraryProofs!Copies(d)
      /\ Library!Digests = LibraryProofs!Digests
  BY DEF Library!Copies, LibraryProofs!Copies, Library!Digests, LibraryProofs!Digests
<1>5. Library!StoredIsReadable
  BY <1>1, <1>2, <1>3, <1>4, SameNumber DEF Library!StoredIsReadable, LibraryProofs!StoredIsReadable
<1>6. Library!ReadsAreTrue
  BY DEF Library!ReadsAreTrue, LibraryProofs!ReadsAreTrue, Library!Digest, LibraryProofs!Digest
<1> QED
  BY <1>5, <1>6 DEF Library!LibraryHolds

LEMMA SpoiledMeans ==
    ASSUME SpoiledProofs!StoredIsReadable, SpoiledProofs!ReadsAreTrue
    PROVE  Spoiled!LibraryHolds
<1>1. \A d : Spoiled!Readable(d) <=> SpoiledProofs!Readable(d)
  BY DEF Spoiled!Readable, SpoiledProofs!Readable, Spoiled!Copies, SpoiledProofs!Copies, Spoiled!Gets, SpoiledProofs!Gets,
     Spoiled!CheckFolder, SpoiledProofs!CheckFolder, Spoiled!ValidateFile, SpoiledProofs!ValidateFile
<1>2. \A n : Spoiled!Found(n) <=> SpoiledProofs!Found(n)
  BY DEF Spoiled!Found, SpoiledProofs!Found, Spoiled!HasRemote, SpoiledProofs!HasRemote
<1>3. Spoiled!Coverage = SpoiledProofs!Coverage
  BY DEF Spoiled!Coverage, SpoiledProofs!Coverage, Spoiled!CoveredEpisodes, SpoiledProofs!CoveredEpisodes
<1>4. /\ \A d : Spoiled!Copies(d) = SpoiledProofs!Copies(d)
      /\ Spoiled!Digests = SpoiledProofs!Digests
  BY DEF Spoiled!Copies, SpoiledProofs!Copies, Spoiled!Digests, SpoiledProofs!Digests
<1>5. Spoiled!StoredIsReadable
  BY <1>1, <1>2, <1>3, <1>4, SameNumber DEF Spoiled!StoredIsReadable, SpoiledProofs!StoredIsReadable
<1>6. Spoiled!ReadsAreTrue
  BY DEF Spoiled!ReadsAreTrue, SpoiledProofs!ReadsAreTrue, Spoiled!Digest, SpoiledProofs!Digest
<1> QED
  BY <1>5, <1>6 DEF Spoiled!LibraryHolds

LibraryInv ==
    /\ part = "library" => LibraryProofs!IInv
    /\ part = "mishaps" => SpoiledProofs!IInv

\* For every set of entries, every number of readers and every size of the
\* cache: what was stored can be read until something goes wrong with files or
\* folder, and nothing is ever given that does not have its digest.
THEOREM SubtitlesCorrect == AllParts => []SubtitlesHold
<1>1. Start => LibraryInv
  BY LibraryInit, LibraryProofs!InitHolds, SpoiledProofs!InitHolds DEF Start, LibraryInv
<1>2. LibraryInv /\ [Step]_Everything => LibraryInv'
  <2> SUFFICES ASSUME LibraryInv, [Step]_Everything
               PROVE  LibraryInv'
    OBVIOUS
  <2>1. /\ UNCHANGED part
        /\ part = "library" => [Library!Next]_libraryVars
        /\ part = "mishaps" => [Spoiled!Next]_libraryVars
    BY DEF Step, Still, Everything
  <2>2. ASSUME part = "library" PROVE LibraryProofs!IInv'
    <3>1. [LibraryProofs!Next]_(LibraryProofs!libraryVars)
      BY <2>1, <2>2, LibraryStep
    <3>2. LibraryProofs!IInv
      BY <2>2 DEF LibraryInv
    <3> QED
      BY <3>1, <3>2, LibraryAssumption, LibraryProofs!NextKeeps
  <2>3. ASSUME part = "mishaps" PROVE SpoiledProofs!IInv'
    <3>1. [SpoiledProofs!Next]_(SpoiledProofs!libraryVars)
      BY <2>1, <2>3, SpoiledStep
    <3>2. SpoiledProofs!IInv
      BY <2>3 DEF LibraryInv
    <3> QED
      BY <3>1, <3>2, LibraryAssumption, SpoiledProofs!NextKeeps
  <2> QED
    BY <2>1, <2>2, <2>3 DEF LibraryInv
<1>3. LibraryInv => SubtitlesHold
  <2>1. LibraryProofs!IInv => Library!LibraryHolds
    <3>1. LibraryProofs!IInv => LibraryProofs!StoredIsReadable
      BY LibraryProofs!RowsAreReadable, LibraryProofs!OneCopy, LibraryProofs!CompleteIsReadable
         DEF LibraryProofs!StoredIsReadable
    <3> QED
      BY <3>1, LibraryProofs!ReadsFollow, LibraryMeans
  <2>2. SpoiledProofs!IInv => Spoiled!LibraryHolds
    <3>1. SpoiledProofs!IInv => SpoiledProofs!StoredIsReadable
      BY SpoiledProofs!RowsAreReadable, SpoiledProofs!OneCopy, SpoiledProofs!CompleteIsReadable
         DEF SpoiledProofs!StoredIsReadable
    <3> QED
      BY <3>1, SpoiledProofs!ReadsFollow, SpoiledMeans
  <2> QED
    BY <2>1, <2>2 DEF LibraryInv, SubtitlesHold
<1> QED
  BY <1>1, <1>2, <1>3, PTL DEF AllParts

=============================================================================
