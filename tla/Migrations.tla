------------------------------- MODULE Migrations -------------------------------
(***************************************************************************)
(* Opening the database (internal/database/init.go): createTables and the  *)
(* numbered migrations, statement by statement.  Every statement commits   *)
(* by itself, so that an opener may be killed between any two and another  *)
(* opener (a second server, `omnillm debug`, `omnillm sync-names`) may run *)
(* its own in between.  Rows are kept only of the tokens table, which is   *)
(* rebuilt; of the others the model says which still await an UPDATE.      *)
(* Indexes are left out, but for the one that needs a column.              *)
(***************************************************************************)
EXTENDS Naturals, Sequences, FiniteSets

CONSTANTS Openers,      \* processes that open the database
          Releases,     \* versions that databases from earlier releases have reached
          MaxKills      \* bound: openers killed on the way

\* The tables that createTables creates, of those that migrations touch.
CoreTables == {"tokens", "provider_instances", "virtual_model_upstreams",
               "provider_models_cache", "chat_sessions", "request_logs"}

\* The credentials stored in a database, which only a new one has none of.
Credentials == {"credential"}

\* The statements of a migration, by what they do.
Add(t, c) == [do |-> "add", table |-> t, column |-> c]
Fill(t, c) == [do |-> "update", table |-> t, column |-> c]
Create(t) == [do |-> "create", table |-> t, column |-> ""]
DropIfThere(t) == [do |-> "drop_if_exists", table |-> t, column |-> ""]
Drop(t) == [do |-> "drop", table |-> t, column |-> ""]
Copy(t) == [do |-> "copy", table |-> t, column |-> ""]
Rename(t) == [do |-> "rename", table |-> t, column |-> ""]
Index(t, c) == [do |-> "index", table |-> t, column |-> c]

\* Slip: the old table goes before its rows are copied.
RebuildTooEarly == <<Create("tokens_v5"), Drop("tokens"), Copy("tokens_v5"), Rename("tokens_v5")>>

\* v5 rebuilds the tokens table without its old provider_id column.
Rebuild == <<Create("tokens_v5"), Copy("tokens_v5"), Drop("tokens"), Rename("tokens_v5")>>

migrations == <<
  <<Add("provider_instances", "subtitle")>>,
  <<Add("virtual_model_upstreams", "provider_id")>>,
  <<Add("tokens", "provider_id")>>,
  <<Add("provider_models_cache", "updated_at"), Fill("provider_models_cache", "updated_at")>>,
  Rebuild,
  <<Add("virtual_model_upstreams", "updated_at"), Fill("virtual_model_upstreams", "updated_at")>>,
  <<Create("request_logs"), Index("request_logs", "client")>>,
  <<Add("request_logs", "client"), Index("request_logs", "client")>>,
  <<Create("access_tokens")>>,
  <<Add("access_tokens", "token_plaintext")>>,
  <<Fill("provider_instances", "provider_id")>>,
  <<Add("chat_sessions", "agent_backend")>>,
  <<Fill("chat_sessions", "api_shape"), Fill("chat_sessions", "agent_backend")>>,
  <<Add("provider_models_cache", "provider_id")>>,
  <<Create("response_cache")>>,
  <<Add("request_logs", "uncached"), Add("request_logs", "cache_read"),
    Add("request_logs", "cache_write"), Add("request_logs", "cache_write_5m"),
    Add("request_logs", "cache_write_1h")>>,
  <<DropIfThere("response_cache")>> >>

SchemaVersions == 1..Len(migrations)

ASSUME MigrationsAssumption == Releases \subseteq 0..Len(migrations) /\ MaxKills \in Nat

StatementsOf(versions) ==
  UNION {{migrations[v][i] : i \in DOMAIN migrations[v]} : v \in versions}

VARIABLES tables,     \* the tables there are
          columns,    \* the <<table, column>>s there are, of those that are added
          kept,       \* the credentials in the tokens table and in its copy
          original,   \* history: the credentials it held at first
          awaiting,   \* <<table, column>>s whose values an UPDATE has still to set
          recorded,   \* schema_migrations
          opener,     \* per process, where it is
          at,         \* per process, <<version, statement>> it is about to run
          kills, overlapped  \* history: two processes were migrating at once

migrationVars == <<tables, columns, kept, original, awaiting, recorded, opener, at, kills, overlapped>>

Touched(versions, verb) ==
  {<<s.table, s.column>> : s \in {x \in StatementsOf(versions) : x.do = verb}}
Added(versions) == Touched(versions, "add")
Filled(versions) == Touched(versions, "update")

MigrationsTypeOK ==
  /\ tables \subseteq CoreTables \cup {"tokens_v5", "access_tokens", "response_cache"}
  /\ columns \subseteq Added(SchemaVersions)
  /\ kept \in [{"tokens", "tokens_v5"} -> SUBSET Credentials] /\ original \subseteq Credentials
  /\ awaiting \subseteq Filled(SchemaVersions)
  /\ recorded \subseteq SchemaVersions
  /\ opener \in [Openers -> {"out", "creating", "checking", "migrating", "recording", "open", "failed"}]
  /\ at \in [Openers -> (1..Len(migrations) + 1) \X (1..6)]
  /\ kills \in 0..MaxKills /\ overlapped \in BOOLEAN

\* What a table has from its CREATE TABLE in createTables: every column that migrations
\* add, but for the one that v5 takes away.
Created(t) == {c \in Added(SchemaVersions) : c[1] = t /\ c # <<"tokens", "provider_id">>}

\* A database that an earlier release, which knew the first n migrations, left behind: all
\* of their columns, unfilled rows for the later ones, and a request log, if it has one,
\* whose client column may be younger than the table.
Legacy(n) ==
  /\ recorded = 1..n
  /\ tables = {t \in CoreTables : t = "request_logs" => n >= 7}
                         \cup {t \in {"access_tokens"} : n >= 9}
                         \cup {t \in {"response_cache"} : n \in 15..16}
  /\ \E client \in SUBSET {<<"request_logs", "client">>} :
       /\ n # 7 => client = {}
       /\ columns = {c \in Added(1..n) : c[1] = "tokens" => n < 5} \cup client
  /\ original = Credentials /\ awaiting = Filled(SchemaVersions) \ Filled(1..n)

\* There was no file.
New == recorded = {} /\ tables = {} /\ columns = {} /\ original = {} /\ awaiting = {}

MigrationsInit ==
  /\ New \/ \E n \in Releases : Legacy(n)
  /\ kept = [t \in {"tokens", "tokens_v5"} |-> IF t = "tokens" THEN original ELSE {}]
  /\ opener = [o \in Openers |-> "out"] /\ at = [o \in Openers |-> <<1, 1>>]
  /\ kills = 0 /\ overlapped = FALSE

Busy == {"creating", "checking", "migrating", "recording"}
schemaVars == <<tables, columns, kept, original, awaiting, recorded>>

\* InitializeDatabase, of a new process or of one that failed before.  Assumed: until the
\* rebuild is recorded a process is alone with its database, for two that rebuild the tokens
\* at once may drop the only copy.
Open(o) ==
  /\ opener[o] \in {"out", "failed"}
  /\ 5 \in recorded \/ \A p \in Openers : opener[p] \notin Busy
  /\ opener' = [opener EXCEPT ![o] = "creating"] /\ at' = [at EXCEPT ![o] = <<1, 1>>]
  /\ overlapped' = (overlapped \/ \E p \in Openers : opener[p] \in Busy)
  /\ UNCHANGED <<schemaVars, kills>>

\* createTables: CREATE TABLE IF NOT EXISTS of every table of the present schema.
CreateTables(o) ==
  /\ opener[o] = "creating"
  /\ LET new == CoreTables \ tables
     IN /\ tables' = tables \cup new
        /\ columns' = columns \cup UNION {Created(t) : t \in new}
  /\ opener' = [opener EXCEPT ![o] = "checking"]
  /\ UNCHANGED <<kept, original, awaiting, recorded, at, kills, overlapped>>

\* applyMigrations goes on to the next version that is not recorded.
Check(o) ==
  /\ opener[o] = "checking"
  /\ LET left == {v \in SchemaVersions : v >= at[o][1] /\ v \notin recorded}
     IN IF left = {}
        THEN opener' = [opener EXCEPT ![o] = "open"] /\ UNCHANGED at
        ELSE /\ opener' = [opener EXCEPT ![o] = "migrating"]
             /\ at' = [at EXCEPT ![o] = <<CHOOSE v \in left : \A w \in left : v <= w, 1>>]
  /\ UNCHANGED <<schemaVars, kills, overlapped>>

Statement(o) == migrations[at[o][1]][at[o][2]]

\* SQLite refuses a statement about a table or a column that is not there, and a rename to
\* a table that is; a column that is there already is no error to applyMigrations.
Refused(s) ==
  \/ s.do \notin {"create", "drop_if_exists"} /\ s.table \notin tables
  \/ s.do = "copy" /\ "tokens" \notin tables
  \/ s.do = "rename" /\ "tokens" \in tables
  \/ s.do \in {"index", "update"} /\ <<s.table, s.column>> \in Added(SchemaVersions) \ columns

\* Slip: the rebuild starts from an empty copy, and drops one that is left over.
CreatedAnew(t, old) == IF t = "tokens_v5" THEN [old EXCEPT ![t] = {}] ELSE old

\* CREATE TABLE IF NOT EXISTS: the credentials there are afterwards.
RowsCreated(t, old) == old

\* The effect of statement s.
Run(s) ==
  CASE s.do = "add" -> /\ columns' = columns \cup {<<s.table, s.column>>}
                              /\ UNCHANGED <<tables, kept, awaiting>>
    [] s.do = "update" -> /\ awaiting' = awaiting \ {<<s.table, s.column>>}
                          /\ UNCHANGED <<tables, columns, kept>>
    [] s.do = "create" -> /\ tables' = tables \cup {s.table}
                          /\ kept' = RowsCreated(s.table, kept)
                          /\ columns' = IF s.table = "request_logs" /\ s.table \notin tables
                                        THEN columns \cup {<<s.table, "client">>} ELSE columns
                          /\ UNCHANGED awaiting
    [] s.do \in {"drop", "drop_if_exists"} ->
                          /\ tables' = tables \ {s.table} /\ columns' = {c \in columns : c[1] # s.table}
                          /\ kept' = IF s.table = "tokens" THEN [kept EXCEPT !["tokens"] = {}] ELSE kept
                          /\ UNCHANGED awaiting
    [] s.do = "copy" -> /\ kept' = [kept EXCEPT ![s.table] = @ \cup kept["tokens"]]
                               /\ UNCHANGED <<tables, columns, awaiting>>
    [] s.do = "rename" -> /\ tables' = (tables \ {s.table}) \cup {"tokens"}
                                    /\ kept' = [kept EXCEPT !["tokens"] = kept[s.table], ![s.table] = {}]
                                    /\ UNCHANGED <<columns, awaiting>>
    [] OTHER -> UNCHANGED <<tables, columns, kept, awaiting>>

Migrate(o) ==
  /\ opener[o] = "migrating"
  /\ IF Refused(Statement(o))
     THEN opener' = [opener EXCEPT ![o] = "failed"] /\ UNCHANGED <<schemaVars, at>>
     ELSE /\ Run(Statement(o))
          /\ IF at[o][2] < Len(migrations[at[o][1]])
             THEN at' = [at EXCEPT ![o][2] = @ + 1] /\ UNCHANGED opener
             ELSE opener' = [opener EXCEPT ![o] = "recording"] /\ UNCHANGED at
          /\ UNCHANGED <<original, recorded>>
  /\ UNCHANGED <<kills, overlapped>>

\* The version is recorded once; a second INSERT of it fails.
Record(o) ==
  /\ opener[o] = "recording"
  /\ LET v == at[o][1]
     IN IF v \in recorded
        THEN opener' = [opener EXCEPT ![o] = "failed"] /\ UNCHANGED <<recorded, at>>
        ELSE /\ recorded' = recorded \cup {v}
             /\ opener' = [opener EXCEPT ![o] = "checking"] /\ at' = [at EXCEPT ![o] = <<v + 1, 1>>]
  /\ UNCHANGED <<tables, columns, kept, original, awaiting, kills, overlapped>>

\* The process is killed between two statements.
KillOpener(o) ==
  /\ opener[o] \in Busy /\ kills < MaxKills /\ kills' = kills + 1
  /\ opener' = [opener EXCEPT ![o] = "out"] /\ at' = [at EXCEPT ![o] = <<1, 1>>]
  /\ UNCHANGED <<schemaVars, overlapped>>

MigrationsNext == \E o \in Openers : \/ Open(o) \/ CreateTables(o) \/ Check(o) \/ Migrate(o)
                                     \/ Record(o) \/ KillOpener(o)

MigrationsSpec == MigrationsInit /\ [][MigrationsNext]_migrationVars

\* MIGRATIONS.  Whatever release a database comes from, wherever earlier openers were killed
\* and whoever migrates it at the same time, once it is open every column is there, no row
\* awaits an UPDATE and the stored credentials are where they belong.  A process alone with
\* it is never refused, and the old response cache is gone when it is done; of two, one may
\* have to try again and may bring that cache back.
UpgradesLoseNothing ==
  \A o \in Openers :
    /\ opener[o] = "open" => /\ columns = Added(SchemaVersions) \ {<<"tokens", "provider_id">>}
                             /\ awaiting = {} /\ recorded = SchemaVersions
                             /\ kept["tokens"] = original
                             /\ tables \ {"response_cache"} = CoreTables \cup {"access_tokens"}
    /\ ~overlapped => /\ opener[o] # "failed"
                      /\ opener[o] = "open" => "response_cache" \notin tables
=============================================================================
