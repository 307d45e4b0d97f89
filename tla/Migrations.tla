----------------------------- MODULE Migrations -----------------------------
(***************************************************************************)
(* How the schema is brought up to date: the command that applies the      *)
(* migrations (tools/migrate.py, migrations/env.py), the start-up check    *)
(* and the creation of missing tables (database.py), with crashes between  *)
(* any two statements.                                                     *)
(*                                                                         *)
(* SQLite has no transactional DDL under Alembic: a CREATE, ALTER or DROP  *)
(* is durable at once, until the first INSERT, UPDATE or DELETE of a       *)
(* migration opens a transaction; from there on everything, the revision   *)
(* included, is committed together at the end of the migration.            *)
(***************************************************************************)
EXTENDS Schema

CONSTANTS Databases,        \* databases the first command may meet
          DowngradeGoals,   \* revisions an operator may go back to
          MaxCommands,      \* bound: commands
          MaxCrashes        \* bound: commands that die

-----------------------------------------------------------------------------
VARIABLES store,     \* what is durable: schema, revision, and what was cut short
          job,       \* the command under way
          work,      \* the schema inside the open transaction of a migration
          todo,      \* the statements the migration has left
          backups,   \* what tools/migrate.py has put aside before each upgrade
          server,    \* whether the program is serving
          outcome,   \* how the last command ended
          spent      \* commands and crashes so far

vars == <<store, job, work, todo, backups, server, outcome, spent>>

Idle == [does |-> "nothing", goal |-> 0, begun |-> FALSE, writes |-> FALSE]

\* An empty file; a complete database of before Alembic; one with the unique
\* constraint of its time; one that lacks a column; one that create_all made.
Baseline == ExpectedColumns \cup
    UNION {{Index(b[1], i) : i \in ToSet(b[2])} : b \in ToSet(BaselineTables)}
StartingSchema ==
    [empty |-> {}, legacy |-> Baseline, constrained |-> Baseline \cup {LegacyConstraint},
     partial |-> Baseline \ {Body("users")}, created |-> Declared]

Init ==
    /\ store \in {[schema |-> StartingSchema[d], revision |-> 0, torn |-> FALSE,
                   cut |-> FALSE] : d \in Databases}
    /\ job = Idle /\ work = {} /\ todo = <<>> /\ backups = {}
    /\ server = "down" /\ outcome = "none" /\ spent = [commands |-> 0, crashes |-> 0]

Command(does, goal) ==
    /\ job = Idle /\ server = "down" /\ spent.commands < MaxCommands
    /\ job' = [Idle EXCEPT !.does = does, !.goal = goal]
    /\ spent' = [spent EXCEPT !.commands = @ + 1]
    /\ outcome' = "none"
    /\ UNCHANGED <<store, work, todo, server>>

\* tools/migrate.py upgrade: a backup of the file there is, then the
\* revisions up to the head.
StartUpgrade ==
    /\ store.revision < HeadRevision
    /\ Command("upgrade", HeadRevision)
    /\ backups' = IF store.schema = {} THEN backups ELSE backups \cup {store}

\* alembic downgrade, which makes no backup.
StartDowngrade ==
    /\ \E goal \in DowngradeGoals : goal < store.revision /\ Command("downgrade", goal)
    /\ UNCHANGED backups

\* A start with DATABASE_AUTO_CREATE.
StartCreating == Command("create", HeadRevision) /\ UNCHANGED backups

Migrating == IF job.does = "upgrade" THEN store.revision + 1 ELSE store.revision

Statements(seen) ==
    CASE job.does = "upgrade" -> Upgrade(Migrating, seen)
      [] job.does = "downgrade" -> Downgrade(Migrating, seen)
      [] job.does = "create" -> CreateMissing(seen)

\* A migration inspects the database and knows what it has left to do.
Begin ==
    /\ job.does # "nothing" /\ ~job.begun
    /\ ~(job.does = "upgrade" /\ Refuses(Migrating, store.schema))
    /\ job' = [job EXCEPT !.begun = TRUE]
    /\ work' = store.schema
    /\ todo' = Statements(store.schema)
    /\ UNCHANGED <<store, backups, server, outcome, spent>>

Fails(s) == ~(s.needs \subseteq work) \/ s.adds \cap work # {}

\* One statement: durable at once, or inside the transaction that is open.
Execute ==
    /\ job.begun /\ todo # <<>> /\ ~Fails(Head(todo))
    /\ LET s == Head(todo) IN
          /\ work' = (work \ s.drops) \cup s.adds
          /\ job' = [job EXCEPT !.writes = @ \/ s.opens]
          /\ store' = IF job'.writes THEN store ELSE [store EXCEPT !.schema = work']
    /\ todo' = Tail(todo)
    /\ UNCHANGED <<backups, server, outcome, spent>>

\* Mutant: after one migration the revision of the goal is written.
MutantStamp ==
    /\ job.does \in {"upgrade", "downgrade"} /\ job.begun /\ todo = <<>>
    /\ store' = [store EXCEPT !.schema = work, !.revision = job.goal]
    /\ job' = Idle /\ outcome' = "done" /\ work' = {}
    /\ UNCHANGED <<todo, backups, server, spent>>

\* The revision is written and everything the migration left open committed.
Stamp ==
    /\ job.does \in {"upgrade", "downgrade"} /\ job.begun /\ todo = <<>>
    /\ LET reached == IF job.does = "upgrade" THEN Migrating ELSE Migrating - 1 IN
          /\ store' = [store EXCEPT !.schema = work, !.revision = reached]
          /\ IF reached = job.goal
             THEN job' = Idle /\ outcome' = "done"
             ELSE job' = [job EXCEPT !.begun = FALSE, !.writes = FALSE] /\ UNCHANGED outcome
    /\ work' = {}
    /\ UNCHANGED <<todo, backups, server, spent>>

Created ==
    /\ job.does = "create" /\ job.begun /\ todo = <<>>
    /\ job' = Idle /\ work' = {} /\ outcome' = "done" /\ server' = "up"
    /\ UNCHANGED <<store, todo, backups, spent>>

\* Whatever ends a command early loses the open transaction and keeps the
\* statements before it. `torn` and `cut` remember it.
EndEarly(how) ==
    /\ store' = [store EXCEPT !.torn = @ \/ (job.does = "downgrade" /\ job.begun),
                              !.cut = @ \/ job.begun]
    /\ job' = Idle /\ work' = {} /\ todo' = <<>> /\ outcome' = how
    /\ UNCHANGED <<backups, server>>

Raise ==
    /\ IF job.begun THEN todo # <<>> /\ Fails(Head(todo))
                    ELSE job.does = "upgrade" /\ Refuses(Migrating, store.schema)
    /\ EndEarly("raised") /\ UNCHANGED spent

Crash ==
    /\ job.does # "nothing" /\ spent.crashes < MaxCrashes
    /\ EndEarly("crashed") /\ spent' = [spent EXCEPT !.crashes = @ + 1]

\* An operator puts a backup back.
Restore ==
    /\ job = Idle /\ server = "down" /\ outcome \in {"raised", "crashed"}
    /\ store' \in backups /\ outcome' = "none"
    /\ UNCHANGED <<job, work, todo, backups, server, spent>>

\* The check at start-up: the revision must be the head, nothing else.
StartServer ==
    /\ job = Idle /\ server = "down" /\ store.revision = HeadRevision
    /\ server' = "up"
    /\ UNCHANGED <<store, job, work, todo, backups, outcome, spent>>

StopServer ==
    /\ server = "up" /\ server' = "down"
    /\ UNCHANGED <<store, job, work, todo, backups, outcome, spent>>

Next == \/ StartUpgrade \/ StartDowngrade \/ StartCreating
        \/ Begin \/ Execute \/ Stamp \/ Created \/ Raise \/ Crash \/ Restore
        \/ StartServer \/ StopServer

Spec == Init /\ [][Next]_vars

-----------------------------------------------------------------------------
Objects == Declared \cup {Scratch(o[2]) : o \in Declared} \cup {LegacyConstraint}

\* The commands, the schema and the statements are well formed.
TypeOK ==
    /\ job.does \in {"nothing", "upgrade", "downgrade", "create"}
    /\ store.revision \in 0..HeadRevision /\ store.schema \subseteq Objects
    /\ \A i \in DOMAIN todo : todo[i].adds \subseteq Objects
    /\ server \in {"up", "down"} /\ outcome \in {"none", "done", "raised", "crashed"}
    /\ job = Idle => work = {} /\ todo = <<>>

\* verify_database_schema looks at the revision alone. That is enough unless
\* a downgrade was cut short: a database at the head revision has every table
\* and column of the program's models, whatever crashes its upgrades have met.
\* One that no command was cut short on also has every index, and its old rows
\* carry what the migrations computed for them, from whichever database it
\* started.  The constraint of old databases has given way to the index
\* (test_migrations.py:535).
HeadIsComplete ==
    store.revision = HeadRevision /\ job = Idle /\ ~store.torn =>
        /\ {o \in Declared : o[1] \in {"table", "column"}} \subseteq store.schema
        /\ LegacyConstraint \notin store.schema
        /\ store.cut \/ Declared \subseteq store.schema

\* After a crash the upgrade can be run again: it stops with an error only
\* where migrations 0001 and 0007 refuse an unfinished schema, never because
\* a statement finds its work half done.
UpgradeCanBeRepeated ==
    job.does = "upgrade" /\ ~store.torn /\ todo # <<>> => ~Fails(Head(todo))
=============================================================================
