------------------------------- MODULE Schema -------------------------------
(***************************************************************************)
(* The schema of the server's SQLite database: what the program's models   *)
(* declare (database.py), and the fifteen Alembic migrations as lists of   *)
(* statements.                                                             *)
(*                                                                         *)
(* An object of the schema is <<kind, table, name>>; "filled" stands for   *)
(* old rows holding the value a migration computes for a new column, and   *)
(* "scratch" for the copy Alembic makes to drop columns.                   *)
(***************************************************************************)
EXTENDS Naturals, Sequences, FiniteSets, SequencesExt

HeadRevision == 15

Table(t) == <<"table", t, "">>
Body(t) == <<"column", t, "baseline">>
Column(t, c) == <<"column", t, c>>
Filled(t, c) == <<"filled", t, c>>
Index(t, i) == <<"index", t, i>>
Constraint(t, c) == <<"constraint", t, c>>
Scratch(t) == <<"scratch", t, "">>
Of(t, schema) == {o \in schema : o[2] = t}

-----------------------------------------------------------------------------
\* The tables the program's models declare: what create_all creates, and
\* what every query of the program expects at the head revision.
Model(t, columns, filled, indexes) ==
    [table |-> t,
     body |-> {Table(t)} \cup {Column(t, c) : c \in columns}
                         \cup {Filled(t, c) : c \in filled},
     indexes |-> {Index(t, i) : i \in indexes}]

AccountModels == <<
    Model("users", {"baseline", "deletion_requested_at", "deletion_due_at",
                    "deletion_attempts", "deletion_last_attempt_at",
                    "deletion_last_error_code"}, {}, {"email", "name"}),
    Model("user_tokens", {"baseline", "token_id", "expires_at", "session_id", "device_id",
                          "device_name", "platform", "token_family_id", "last_used_at",
                          "revoked_at", "refresh_rotated_at"}, {},
          {"token", "session_id", "token_family_id", "revoked_at"}),
    Model("refresh_token_history", {}, {},
          {"user_id", "session_id", "token_family_id", "digest"}),
    Model("email_outbox", {}, {},
          {"kind", "recipient", "status", "next_attempt_at", "claim_token"}),
    Model("verify_codes", {"baseline", "purpose", "failed_attempts"}, {}, {}) >>

AnimeModels == <<
    Model("bangumi", {"baseline"}, {}, {}), Model("bangumi_episodes", {"baseline"}, {}, {}),
    Model("bangumi_collections", {"baseline"}, {}, {}),
    Model("characters", {"baseline"}, {}, {}), Model("persons", {"baseline"}, {}, {}),
    Model("danmaku", {"baseline"}, {}, {}),
    Model("community_danmaku", {}, {}, {"created_at", "episode_cursor", "user_id"}) >>

CommunityModels == <<
    Model("threads", {"baseline"}, {}, {}), Model("thread_images", {"baseline"}, {}, {}),
    Model("thread_collections", {"baseline"}, {}, {}),
    Model("thread_likes", {"baseline"}, {}, {}), Model("comments", {"baseline"}, {}, {}),
    Model("comment_likes", {"baseline"}, {}, {}), Model("play_history", {"baseline"}, {}, {}) >>

PlaybackModels == <<
    Model("playback_cache", {"baseline", "scan_scope"}, {"scan_scope"},
          {"subject_id", "subject_episode"}),
    Model("managed_playback_lines", {}, {},
          {"stable_id", "status", "review_status", "enabled", "lookup"}),
    Model("premium_line_catalog", {}, {}, {"subject_stable_id", "lookup"}) >>

CatalogModels == <<
    Model("catalog_subjects", {"baseline", "ranking_json", "ranking_score", "ranked_at"}, {},
          {"media_type", "provider", "provider_id", "stable_id", "title", "updated_at",
           "home_rank"}),
    Model("source_bindings", {"baseline"}, {}, {"source_id", "source_name", "stable_id"}),
    Model("source_health", {"baseline", "last_error_category", "last_success_at",
                            "last_failure_at", "recent_success_rate"},
          {"recent_success_rate", "last_success_at", "last_failure_at"}, {"source_name"}) >>

SyncModels == <<
    Model("sync_revisions", {}, {}, {"user_id"}),
    Model("sync_records", {}, {}, {"revision", "user_id", "user_revision"}),
    Model("sync_mutations", {}, {}, {"revision", "user_id"}) >>

Models == AccountModels \o AnimeModels \o CommunityModels \o PlaybackModels
              \o CatalogModels \o SyncModels

Declared == UNION {Models[i].body \cup Models[i].indexes : i \in DOMAIN Models}

-----------------------------------------------------------------------------
\* A statement fails when something it needs is missing or something it
\* creates is there already; `opens` marks the writes of rows.
Statement(needs, adds, drops, opens) ==
    [needs |-> needs, adds |-> adds, drops |-> drops, opens |-> opens]

Mapped(Op(_), names) == [i \in DOMAIN names |-> Op(names[i])]
Missing(names, Object(_), seen) == SelectSeq(names, LAMBDA c : Object(c) \notin seen)
Present(names, Object(_), seen) == SelectSeq(names, LAMBDA c : Object(c) \in seen)

CreateIndexes(t, names) ==
    Mapped(LAMBDA i : Statement({Table(t)}, {Index(t, i)}, {}, FALSE), names)

CreateTable(t, names) ==
    <<Statement({}, {Table(t)}, {}, FALSE)>> \o CreateIndexes(t, names)

AddColumns(t, names) ==
    Mapped(LAMBDA c : Statement({Table(t)}, {Column(t, c)}, {}, FALSE), names)

\* Old rows: an UPDATE, which opens the transaction.
Fill(t, names) ==
    Mapped(LAMBDA c : Statement({Column(t, c)}, {Filled(t, c)}, {}, TRUE), names)

DropIndexes(t, names) ==
    Mapped(LAMBDA i : Statement({Index(t, i)}, {}, {Index(t, i)}, FALSE), names)

DropTable(t, seen) == <<Statement({Table(t)}, {}, Of(t, seen), FALSE)>>

\* Alembic's batch mode: a copy of the table without what is dropped is
\* created, filled by an INSERT and renamed over the table.
Rebuild(t, dropped, rows) ==
    << Statement(dropped, {Scratch(t)}, {}, FALSE), Statement({}, {}, {}, TRUE),
       Statement({}, {}, dropped \cup rows \cup {Scratch(t)}, FALSE) >>

DropColumns(t, names) ==
    IF names = <<>> THEN <<>>
    ELSE Rebuild(t, {Column(t, c) : c \in ToSet(names)}, {Filled(t, c) : c \in ToSet(names)})

-----------------------------------------------------------------------------
(* The migrations: statements for the schema inspected at their start. *)

RootTables == <<
    <<"bangumi", <<>>>>,
    <<"catalog_subjects",
      <<"media_type", "provider", "provider_id", "stable_id", "title", "updated_at">>>>,
    <<"playback_cache", <<"subject_id">>>>,
    <<"source_bindings", <<"source_id", "source_name", "stable_id">>>>,
    <<"source_health", <<"source_name">>>>, <<"users", <<"email", "name">>>>,
    <<"verify_codes", <<>>>> >>

\* Tables with a foreign key come after the tables they refer to.
DependentTables == <<
    <<"bangumi_collections", <<>>>>, <<"bangumi_episodes", <<>>>>, <<"characters", <<>>>>,
    <<"comments", <<>>>>, <<"persons", <<>>>>, <<"threads", <<>>>>,
    <<"user_tokens", <<"token">>>>, <<"comment_likes", <<>>>>, <<"danmaku", <<>>>>,
    <<"play_history", <<>>>>, <<"thread_collections", <<>>>>, <<"thread_images", <<>>>>,
    <<"thread_likes", <<>>>> >>

BaselineTables == RootTables \o DependentTables

ExpectedColumns == UNION {{Table(BaselineTables[i][1]), Body(BaselineTables[i][1])} :
                             i \in DOMAIN BaselineTables}

HasTables(schema) == \E o \in schema : o[1] \in {"table", "scratch"}

\* A database made before Alembic is adopted only when it is complete.
Adopts(seen) == ExpectedColumns \subseteq seen

CreateBaseline(b) ==
    <<Statement({}, {Table(b[1]), Body(b[1])}, {}, FALSE)>> \o CreateIndexes(b[1], b[2])

Upgrade0001(seen) ==
    IF HasTables(seen) THEN <<>> ELSE FlattenSeq(Mapped(CreateBaseline, BaselineTables))

Downgrade0001(seen) ==
    FlattenSeq(Mapped(LAMBDA b : DropIndexes(b[1], Reverse(b[2])) \o DropTable(b[1], seen),
                      Reverse(BaselineTables)))

\* An old database may say that episodes are unique in the table itself.
LegacyConstraint == Constraint("playback_cache", "subject_episode")

DropLegacyConstraint(seen) ==
    IF LegacyConstraint \in seen /\ Index("playback_cache", "subject_episode") \notin seen
    THEN Rebuild("playback_cache", {LegacyConstraint}, {}) ELSE <<>>

\* Mutant: the index is created without looking for it.
MutantUpgrade0002(seen) ==
    <<Statement({Table("playback_cache")}, {}, {}, TRUE)>>
        \o DropLegacyConstraint(seen)
        \o CreateIndexes("playback_cache", <<"subject_episode">>)

\* The DELETE of duplicate rows opens the transaction first.
Upgrade0002(seen) ==
    <<Statement({Table("playback_cache")}, {}, {}, TRUE)>>
        \o DropLegacyConstraint(seen)
        \o CreateIndexes("playback_cache",
               Missing(<<"subject_episode">>, LAMBDA i : Index("playback_cache", i), seen))

Downgrade0002(seen) ==
    DropIndexes("playback_cache",
        Present(<<"subject_episode">>, LAMBDA i : Index("playback_cache", i), seen))

Upgrade0003(seen) ==
    LET new(names) == Missing(names, LAMBDA c : Column("source_health", c), seen)
    IN  AddColumns("source_health", new(<<"last_error_category", "last_success_at",
                                          "last_failure_at", "recent_success_rate">>))
          \o Fill("source_health", new(<<"recent_success_rate", "last_success_at",
                                         "last_failure_at">>))

Downgrade0003(seen) ==
    DropColumns("source_health", <<"recent_success_rate", "last_failure_at",
                                   "last_success_at", "last_error_category">>)

\* The migrations that only add columns, and take away those there are.
Adding(t, names, seen) == AddColumns(t, Missing(names, LAMBDA c : Column(t, c), seen))
Removing(t, names, seen) == DropColumns(t, Present(names, LAMBDA c : Column(t, c), seen))

Upgrade0004(seen) == Adding("verify_codes", <<"purpose", "failed_attempts">>, seen)
Downgrade0004(seen) == Removing("verify_codes", <<"failed_attempts", "purpose">>, seen)

Upgrade0005(seen) == Adding("user_tokens", <<"token_id", "expires_at">>, seen)
Downgrade0005(seen) == Removing("user_tokens", <<"expires_at", "token_id">>, seen)

Upgrade0006(seen) == Adding("users", <<"deletion_requested_at", "deletion_due_at">>, seen)
Downgrade0006(seen) == Removing("users", <<"deletion_due_at", "deletion_requested_at">>, seen)

SyncTables == {Table("sync_revisions"), Table("sync_records"), Table("sync_mutations")}

Upgrade0007(seen) ==
    IF SyncTables \subseteq seen THEN <<>>
    ELSE CreateTable("sync_revisions", <<"user_id">>)
           \o CreateTable("sync_records", <<"revision", "user_id", "user_revision">>)
           \o CreateTable("sync_mutations", <<"revision", "user_id">>)

Downgrade0007(seen) ==
    DropIndexes("sync_mutations", <<"user_id", "revision">>)
        \o DropTable("sync_mutations", seen)
        \o DropIndexes("sync_records", <<"user_revision", "user_id", "revision">>)
        \o DropTable("sync_records", seen)
        \o DropIndexes("sync_revisions", <<"user_id">>) \o DropTable("sync_revisions", seen)

SessionColumns == <<"session_id", "device_id", "device_name", "platform", "token_family_id",
                    "last_used_at", "revoked_at", "refresh_rotated_at">>
SessionIndexes == <<"session_id", "token_family_id", "revoked_at">>
HistoryIndexes == <<"user_id", "session_id", "token_family_id", "digest">>

Upgrade0008(seen) ==
    Adding("user_tokens", SessionColumns, seen)
        \o CreateIndexes("user_tokens",
               Missing(SessionIndexes, LAMBDA i : Index("user_tokens", i), seen))
        \o (IF Table("refresh_token_history") \in seen THEN <<>>
            ELSE CreateTable("refresh_token_history", HistoryIndexes))

Downgrade0008(seen) ==
    (IF Table("refresh_token_history") \in seen
     THEN DropIndexes("refresh_token_history", Reverse(HistoryIndexes))
            \o DropTable("refresh_token_history", seen)
     ELSE <<>>)
        \o DropIndexes("user_tokens",
               Present(Reverse(SessionIndexes), LAMBDA i : Index("user_tokens", i), seen))
        \o FlattenSeq(Mapped(LAMBDA c : DropColumns("user_tokens", <<c>>),
               Present(Reverse(SessionColumns), LAMBDA c : Column("user_tokens", c), seen)))

OutboxIndexes == <<"kind", "recipient", "status", "next_attempt_at", "claim_token">>

Upgrade0009(seen) ==
    IF Table("email_outbox") \in seen THEN <<>> ELSE CreateTable("email_outbox", OutboxIndexes)

Downgrade0009(seen) ==
    IF Table("email_outbox") \notin seen THEN <<>>
    ELSE DropIndexes("email_outbox", Reverse(OutboxIndexes)) \o DropTable("email_outbox", seen)

DeletionColumns == <<"deletion_attempts", "deletion_last_attempt_at",
                     "deletion_last_error_code">>

Upgrade0010(seen) == Adding("users", DeletionColumns, seen)
Downgrade0010(seen) == Removing("users", Reverse(DeletionColumns), seen)

RankingColumns == <<"ranking_json", "ranking_score", "ranked_at">>
HomeRank(i) == Index("catalog_subjects", i)

Upgrade0011(seen) ==
    Adding("catalog_subjects", RankingColumns, seen)
        \o CreateIndexes("catalog_subjects", Missing(<<"home_rank">>, HomeRank, seen))

Downgrade0011(seen) ==
    DropIndexes("catalog_subjects", Present(<<"home_rank">>, HomeRank, seen))
        \o Removing("catalog_subjects", Reverse(RankingColumns), seen)

\* A table and, each on its own, the indexes it still lacks.
Completing(t, names, seen) ==
    (IF Table(t) \in seen THEN <<>> ELSE CreateTable(t, <<>>))
        \o CreateIndexes(t, Missing(names, LAMBDA i : Index(t, i), seen))

Upgrade0012(seen) ==
    Completing("community_danmaku", <<"created_at", "episode_cursor", "user_id">>, seen)

Downgrade0012(seen) ==
    IF Table("community_danmaku") \in seen THEN DropTable("community_danmaku", seen) ELSE <<>>

Upgrade0013(seen) ==
    Completing("managed_playback_lines",
               <<"stable_id", "status", "review_status", "enabled", "lookup">>, seen)

Downgrade0013(seen) ==
    IF Table("managed_playback_lines") \in seen
    THEN DropTable("managed_playback_lines", seen) ELSE <<>>

\* Rows written before the column existed may come from a quick scan and are
\* all marked so.
Upgrade0014(seen) ==
    IF Column("playback_cache", "scan_scope") \in seen THEN <<>>
    ELSE AddColumns("playback_cache", <<"scan_scope">>)
           \o Fill("playback_cache", <<"scan_scope">>)

Downgrade0014(seen) == DropColumns("playback_cache", <<"scan_scope">>)

PremiumIndexes == <<"subject_stable_id", "lookup">>

Upgrade0015(seen) ==
    IF Table("premium_line_catalog") \in seen THEN <<>>
    ELSE CreateTable("premium_line_catalog", PremiumIndexes)

Downgrade0015(seen) ==
    IF Table("premium_line_catalog") \notin seen THEN <<>>
    ELSE DropIndexes("premium_line_catalog", Reverse(PremiumIndexes))
           \o DropTable("premium_line_catalog", seen)

\* Two migrations look for an unfinished schema and refuse to go on.
Refuses(m, seen) ==
    \/ m = 1 /\ HasTables(seen) /\ ~Adopts(seen)
    \/ m = 7 /\ SyncTables \cap seen \notin {{}, SyncTables}

Upgrade(m, seen) ==
    << Upgrade0001(seen), Upgrade0002(seen), Upgrade0003(seen), Upgrade0004(seen),
       Upgrade0005(seen), Upgrade0006(seen), Upgrade0007(seen), Upgrade0008(seen),
       Upgrade0009(seen), Upgrade0010(seen), Upgrade0011(seen), Upgrade0012(seen),
       Upgrade0013(seen), Upgrade0014(seen), Upgrade0015(seen) >>[m]

Downgrade(m, seen) ==
    << Downgrade0001(seen), Downgrade0002(seen), Downgrade0003(seen), Downgrade0004(seen),
       Downgrade0005(seen), Downgrade0006(seen), Downgrade0007(seen), Downgrade0008(seen),
       Downgrade0009(seen), Downgrade0010(seen), Downgrade0011(seen), Downgrade0012(seen),
       Downgrade0013(seen), Downgrade0014(seen), Downgrade0015(seen) >>[m]

\* create_all: the tables that are missing, each with its indexes.
CreateMissing(seen) ==
    LET missing == SelectSeq(Models, LAMBDA model : Table(model.table) \notin seen)
    IN  FlattenSeq(Mapped(LAMBDA model :
            <<Statement({}, model.body, {}, FALSE)>>
              \o Mapped(LAMBDA i : Statement({}, {i}, {}, FALSE), SetToSeq(model.indexes)),
            missing))
=============================================================================
