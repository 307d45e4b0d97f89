----------------------------- MODULE Lifecycle -----------------------------
(***************************************************************************)
(* Starting and stopping the server (main.py): the loops of the scheduler  *)
(* (scheduler.py), the worker of the outbox, the tasks that playback and   *)
(* the catalog start for loops and requests, and the services they share,  *)
(* which are closed one after the other.                                   *)
(***************************************************************************)
EXTENDS Naturals, Sequences

CONSTANTS
    Loops,          \* of the scheduler, in the order in which they are started
    AtOnce,         \* those that work before they sleep for the first time
    ProvidersAreOn  \* _has_active_playback_provider

VARIABLES
    server,     \* "down", "starting", "serving", "stopping", "failed"
    stage,      \* how far the shutdown is
    task,       \* of each task "none", "asleep", "working", "cancelled", "ended"
    open        \* services that are not closed

vars == <<server, stage, task, open>>

Services == {"scrapers", "playback", "aggregator", "catalog", "resolver"}
LoopSet == {Loops[i] : i \in 1..Len(Loops)}
Detached == {"refresh", "home"}     \* of playback and of the catalog
Tasks == LoopSet \cup Detached \cup {"outbox"}

\* What a task calls while it works.
Uses(t) ==
    CASE t = "precache" -> {"playback", "catalog"}
      [] t = "cache_refresh" -> {"playback"}
      [] t = "metadata" -> {"catalog"}
      [] t = "health" -> {"scrapers"}
      [] t = "site_index" -> {"aggregator"}
      [] t = "refresh" -> {"aggregator", "catalog", "resolver"}
      [] t = "home" -> {"catalog"}
      [] OTHER -> {}

Alive(t) == task[t] \in {"asleep", "working", "cancelled"}

Init ==
    /\ server = "down" /\ stage = 1
    /\ task = [t \in Tasks |-> "none"] /\ open = Services

-----------------------------------------------------------------------------
(***************************************************************************)
(* Startup                                                                 *)
(***************************************************************************)
\* init_db refuses a schema that is not the one of the program.
InitDb ==
    /\ server = "down"
    /\ server' \in {"starting", "failed"}
    /\ UNCHANGED <<stage, task, open>>

Begun(t) == IF t \in AtOnce THEN "working" ELSE "asleep"

\* scheduler.start, and the worker of the outbox.
StartTasks ==
    /\ server = "starting" /\ server' = "serving"
    /\ task' = [t \in Tasks |-> IF t \in Detached THEN "none" ELSE Begun(t)]
    /\ UNCHANGED <<stage, open>>

-----------------------------------------------------------------------------
(***************************************************************************)
(* The tasks                                                               *)
(***************************************************************************)
Becomes(t, state) == task' = [task EXCEPT ![t] = state] /\ UNCHANGED <<server, stage, open>>

\* Without a provider only the outbox and the privacy loop have work.
Wake(t) ==
    /\ task[t] = "asleep"
    /\ ProvidersAreOn \/ t \in {"outbox", "privacy"}
    /\ Becomes(t, "working")

\* The work is done, or failed and is logged: a loop sleeps in either case.
Pause(t) ==
    /\ task[t] = "working"
    /\ Becomes(t, IF t \in Detached THEN "ended" ELSE "asleep")

\* A task of playback or of the catalog goes on when the loop or the request
\* that asked for it does not.  Playback starts none once it is being closed.
StartDetached(t, service) ==
    /\ task[t] \in {"none", "ended"} /\ service \in open
    /\ \/ server = "serving"
       \/ \E l \in LoopSet : task[l] = "working" /\ service \in Uses(l)
    /\ Becomes(t, "working")

\* A cancelled task has its `finally` blocks to run.
Unwind(t) == task[t] = "cancelled" /\ Becomes(t, "ended")

-----------------------------------------------------------------------------
(***************************************************************************)
(* Shutdown                                                                *)
(***************************************************************************)
Stop == server = "serving" /\ server' = "stopping" /\ UNCHANGED <<stage, task, open>>

\* Mutant: the aggregator is closed before playback.
MutantShutdown ==
    <<"outbox">> \o Loops \o <<"scrapers", "aggregator", "playback", "catalog", "resolver">>

\* lifespan, and inside it ContentScheduler.stop.
Shutdown ==
    <<"outbox">> \o Loops \o <<"scrapers", "playback", "aggregator", "catalog", "resolver">>

Stage == Shutdown[stage]

\* What is cancelled at a stage: a loop, or what the service has started.
OfStage ==
    CASE Stage \in Tasks -> {Stage}
      [] Stage = "playback" -> {"refresh"}
      [] Stage = "catalog" -> {"home"}
      [] OTHER -> {}

Stopping == server = "stopping" /\ stage <= Len(Shutdown)

Cancel ==
    /\ Stopping
    /\ \E t \in OfStage : task[t] \in {"asleep", "working"}
    /\ task' = [t \in Tasks |-> IF t \in OfStage /\ Alive(t) THEN "cancelled" ELSE task[t]]
    /\ open' = open \ ({Stage} \cap {"playback"})
    /\ UNCHANGED <<server, stage>>

\* The next stage begins when everything that was cancelled has ended.
NextStage ==
    /\ Stopping
    /\ \A t \in OfStage : ~Alive(t)
    /\ stage' = stage + 1 /\ open' = open \ {Stage}
    /\ UNCHANGED <<server, task>>

Exit ==
    /\ server = "stopping" /\ stage > Len(Shutdown)
    /\ server' = "down" /\ stage' = 1
    /\ task' = [t \in Tasks |-> "none"] /\ open' = Services

Next ==
    \/ InitDb \/ StartTasks \/ Stop \/ Cancel \/ NextStage \/ Exit
    \/ \E t \in Tasks : Wake(t) \/ Pause(t) \/ Unwind(t)
    \/ StartDetached("refresh", "playback") \/ StartDetached("home", "catalog")

-----------------------------------------------------------------------------
\* Nothing works with a service that is closed, whatever it was doing when the
\* shutdown began, and nothing is left when the process exits.
NothingOutlivesItsServices ==
    /\ \A t \in Tasks : task[t] = "working" => Uses(t) \subseteq open
    /\ Stopping \/ server = "serving" \/ \A t \in Tasks : ~Alive(t)
=============================================================================
