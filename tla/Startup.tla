-------------------------------- MODULE Startup --------------------------------
(***************************************************************************)
(* How a node comes up: main (src/main.rs), the schema it builds first     *)
(* (db/migrations.rs) and the API server it ends in (web/mod.rs).  The     *)
(* processes share one database: a node, another one, or the same binary   *)
(* started with --migrate beside it.                                       *)
(*                                                                         *)
(* A statement here stands for neighbouring statements of one kind, and    *)
(* names the tables, the columns added to them, the indexes that need such *)
(* a column, and the trigger of message_counts.                            *)
(***************************************************************************)
EXTENDS Integers, Sequences, FiniteSets

CONSTANTS
    Process,
    MaxMishaps      \* bound: failures and crashes while migrating

ASSUME StartupAssumption == MaxMishaps \in Nat

VARIABLES
    schema,     \* what the database has
    main,       \* main[p]: where its main function is
    statement,  \* statement[p]: the statement of run_migrations it is at
    checked,    \* checked[p]: what that statement, under way, has found missing
    running,    \* running[p]: the tasks it has spawned, and the API
    mishaps,    \* so far
    round,      \* history of the start-ups that overlap: "on" until one gets
                \* "through", or "disturbed" from outside
    interrupted         \* history: one stopped between DROP and CREATE TRIGGER

startVars == <<schema, main, statement, checked, running, mishaps, round, interrupted>>

-----------------------------------------------------------------------------
(* The statements.  A table is <<t>>, a column <<t, c>>, the indexes that   *)
(* need the column <<t, c, "index">>.                                       *)

Columns(t, names) == {<<t, c>> : c \in names}
Indexed(columns) == {<<c[1], c[2], "index">> : c \in columns}

Create(kind, objects, needed) == [kind |-> kind, makes |-> objects, needs |-> needed]

BaseTables == Create("table",
    {<<t>> : t \in {"messages", "pending_messages", "rejected_messages",
                    "forgotten_messages", "aggregates", "aggregate_elements", "posts",
                    "balances", "credit_balances", "file_pins", "file_tags", "files"}}, {})

PinColumns == Columns("file_pins", {"pin_type", "ref_", "delete_by", "message_hash"})

alter_file_pins_v2 ==
    <<Create("column", PinColumns, {<<"file_pins">>}),
      Create("index", {<<"file_pins", "unique_typed", "index">>}, PinColumns)>>

\* Each with the table, and indexes over columns it was created with.
file_tags_v2 == Create("table", {<<"file_tags_v2">>}, {})
message_confirmations == Create("table", {<<"message_confirmations">>}, {})

VmTables == Create("table",
    {<<t>> : t \in {"programs", "instances", "vm_versions", "vm_machine_volumes"}}, {})
ChainTables == Create("table",
    {<<t>> : t \in {"chain_txs", "account_costs", "chain_sync_state", "pending_txs"}}, {})
PeerTable == Create("table", {<<"peers">>}, {})

\* widen_narrow_columns: whatever comes of it, .ok().
WideColumns == Create("widen", {}, {})

DenormColumns == Columns("messages",
    {"status", "reception_time", "owner", "content_type", "content_ref", "content_key",
     "content_item_hash", "first_confirmed_at", "first_confirmed_height", "payment_type"})
denormalize_messages == Create("column", DenormColumns, {<<"messages">>})

ConfirmedColumns == Columns("chain_txs", {"confirmed_at", "datetime", "content"})
alter_chain_txs == Create("column", ConfirmedColumns, {<<"chain_txs">>})

Trigger == <<"messages", "trg_message_counts">>
Function == <<"update_message_counts">>

DropTrigger == [kind |-> "drop", makes |-> {Trigger}, needs |-> {<<"messages">>}]
CreateTrigger == [kind |-> "trigger", makes |-> {Trigger}, needs |-> {<<"messages">>, Function}]

\* Wrong variant of the next: the trigger is dropped when it is made.
TriggerStatements_swapped == <<CreateTrigger, DropTrigger>>
TriggerStatements == <<DropTrigger, CreateTrigger>>

create_message_counts_table ==
    <<Create("table", {<<"message_counts">>}, {}),
      Create("replace", {Function}, {}),
      TriggerStatements[1], TriggerStatements[2]>>

\* Those over columns that were there from the start need just the tables.
create_indexes ==
    LET columns == (DenormColumns \ Columns("messages", {"content_item_hash",
                        "first_confirmed_at", "first_confirmed_height"}))
                   \cup Columns("file_pins", {"ref_"})
    IN  Create("index", Indexed(columns),
               columns \cup BaseTables.makes \cup VmTables.makes \cup ChainTables.makes
                       \cup PeerTable.makes)

\* run_migrations, statement by statement.
Migrations ==
    LET pins == alter_file_pins_v2
        counts == create_message_counts_table
    IN  <<BaseTables, pins[1], pins[2], file_tags_v2, VmTables, ChainTables, PeerTable,
          WideColumns, denormalize_messages, message_confirmations, alter_chain_txs,
          counts[1], counts[2], counts[3], counts[4], create_indexes>>

Schema == UNION {Migrations[i].makes : i \in DOMAIN Migrations}

-----------------------------------------------------------------------------
(* main                                                                    *)

StartupInit ==
    /\ schema = {} /\ mishaps = 0 /\ round = "through" /\ interrupted = FALSE
    /\ main = [p \in Process |-> "down"]
    /\ statement = [p \in Process |-> 0]
    /\ checked = [p \in Process |-> {}]
    /\ running = [p \in Process |-> {}]

Migrating(p) == main[p] \in {"migrate", "exit after migrate"}
Goes(p, where) == main' = [main EXCEPT ![p] = where]
Between(p) == statement[p] # 0 /\ Migrations[statement[p]].kind = "trigger"

Mishap == mishaps < MaxMishaps /\ mishaps' = mishaps + 1 /\ round' = "disturbed"

\* The process is gone, and what it had spawned with it.
Gone(p) ==
    /\ Goes(p, "down")
    /\ statement' = [statement EXCEPT ![p] = 0] /\ checked' = [checked EXCEPT ![p] = {}]
    /\ running' = [running EXCEPT ![p] = {}]
    /\ interrupted' = (interrupted \/ Between(p))

\* With --migrate, with --no-db, or to run.  Without a database a node serves
\* requests that need none.
start(p) ==
    /\ main[p] = "down"
    /\ \/ /\ \E where \in {"migrate", "exit after migrate"} : Goes(p, where)
          /\ statement' = [statement EXCEPT ![p] = 1]
          /\ round' = IF \E q \in Process : Migrating(q) THEN round ELSE "on"
          /\ UNCHANGED running
       \/ /\ Goes(p, "api only")
          /\ running' = [running EXCEPT ![p] = {"api"}]
          /\ UNCHANGED <<statement, round>>
    /\ UNCHANGED <<schema, checked, mishaps, interrupted>>

\* Wrong variant of the next: every statement as it would be without IF NOT EXISTS.
Missing_always(objects) == objects

\* IF NOT EXISTS.
Missing(objects) == objects \ schema

\* How PostgreSQL takes them: ALTER TABLE and the trigger's statements hold the table
\* for themselves; CREATE TABLE and CREATE INDEX look first and add to the catalogue
\* later; CREATE OR REPLACE writes the row of the function over.
Guarded(kind) == kind \in {"table", "index", "replace"}

look(p) ==
    /\ Migrating(p) /\ checked[p] = {}
    /\ LET s == Migrations[statement[p]]
           found == IF s.kind = "replace" THEN s.makes ELSE Missing(s.makes)
       IN  /\ Guarded(s.kind) /\ s.needs \subseteq schema /\ found # {}
           /\ checked' = [checked EXCEPT ![p] = found]
    /\ UNCHANGED <<schema, main, statement, running, mishaps, round, interrupted>>

\* After the last statement --migrate exits, and a node begins to spawn.
Advance(p) ==
    LET last == statement[p] = Len(Migrations) IN
    /\ statement' = [statement EXCEPT ![p] = IF last THEN 0 ELSE @ + 1]
    /\ checked' = [checked EXCEPT ![p] = {}]
    /\ round' = IF last /\ round = "on" THEN "through" ELSE round
    /\ main' = [main EXCEPT ![p] =
           CASE ~ last -> @ [] last /\ @ = "migrate" -> "spawn" [] OTHER -> "down"]
    /\ UNCHANGED <<running, mishaps>>

\* Nothing to make, or made at once.
execute(p) ==
    /\ Migrating(p) /\ checked[p] = {}
    /\ LET s == Migrations[statement[p]] IN
       /\ s.needs \subseteq schema
       /\ CASE s.kind = "drop" -> schema' = schema \ s.makes
            [] s.kind = "trigger" -> Trigger \notin schema /\ schema' = schema \cup s.makes
            [] Guarded(s.kind) -> s.kind # "replace" /\ Missing(s.makes) = {} /\ UNCHANGED schema
            [] OTHER -> schema' = schema \cup s.makes
       /\ interrupted' = (interrupted /\ s.kind # "trigger")
    /\ Advance(p)

\* Another process may be adding the same: whoever is second gets an error.
commit(p) ==
    /\ checked[p] # {}
    /\ Migrations[statement[p]].kind = "replace" \/ checked[p] \cap schema = {}
    /\ schema' = schema \cup checked[p]
    /\ UNCHANGED interrupted
    /\ Advance(p)

Refused(p) ==
    LET s == Migrations[statement[p]] IN
    \/ ~ s.needs \subseteq schema
    \/ s.kind = "trigger" /\ Trigger \in schema
    \/ s.kind # "replace" /\ checked[p] \cap schema # {}
    \/ s.kind = "replace" /\ \E q \in Process \ {p} : checked[q] = {Function}

\* Wrong variant of the next: the error is logged, and the node goes on.
init_db_fails_ignored(p) ==
    /\ Migrating(p)
    /\ (Refused(p) /\ UNCHANGED <<mishaps, round>>) \/ Mishap
    /\ Goes(p, IF main[p] = "migrate" THEN "spawn" ELSE "down")
    /\ statement' = [statement EXCEPT ![p] = 0]
    /\ checked' = [checked EXCEPT ![p] = {}]
    /\ interrupted' = (interrupted \/ Between(p))
    /\ UNCHANGED <<schema, running>>

\* init_db returns the error: a node starts in API-only mode, and --migrate exits.
init_db_fails(p) ==
    /\ Migrating(p)
    /\ (Refused(p) /\ UNCHANGED <<mishaps, round>>) \/ Mishap
    /\ LET node == main[p] = "migrate" IN
       /\ Goes(p, IF node THEN "api only" ELSE "down")
       /\ running' = [running EXCEPT ![p] = IF node THEN {"api"} ELSE {}]
    /\ statement' = [statement EXCEPT ![p] = 0]
    /\ checked' = [checked EXCEPT ![p] = {}]
    /\ interrupted' = (interrupted \/ Between(p))
    /\ UNCHANGED schema

\* The backfill, and at most one of the ways to follow the chains.
spawn_first(p) ==
    /\ main[p] = "spawn"
    /\ \E sync \in {{}, {"run_rpc_sync"}, {"run_indexer_sync"}, {"run_with_db"}} :
           running' = [running EXCEPT ![p] = {"backfill"} \cup sync]
    /\ Goes(p, "relay")
    /\ UNCHANGED <<schema, statement, checked, mishaps, round, interrupted>>

\* main waits for RabbitMQ to answer, or to refuse, if it is enabled; then it spawns the
\* rest: the consumer whether RabbitMQ answered or not.
spawn_rest(p) ==
    /\ main[p] = "relay"
    /\ \E consumers \in {{}, {"p2p_consumer"}} :
           running' = [running EXCEPT ![p] = @ \cup consumers \cup
               {"message_processor", "tidy", "discovery", "content_fetch", "cleanup", "gc"}]
    /\ Goes(p, "bind")
    /\ UNCHANGED <<schema, statement, checked, mishaps, round, interrupted>>

bind(p) ==
    /\ main[p] = "bind"
    /\ Goes(p, "serve")
    /\ running' = [running EXCEPT ![p] = @ \cup {"api"}]
    /\ UNCHANGED <<schema, statement, checked, mishaps, round, interrupted>>

\* main returns the error of the server, and the runtime takes the tasks with it.
bind_fails(p) ==
    /\ main[p] = "bind" /\ Gone(p)
    /\ UNCHANGED <<schema, mishaps, round>>

backfill_ends(p) ==
    /\ "backfill" \in running[p]
    /\ running' = [running EXCEPT ![p] = @ \ {"backfill"}]
    /\ UNCHANGED <<schema, main, statement, checked, mishaps, round, interrupted>>

\* A crash, or the operator: no start counts on a process to stay.
stop(p) ==
    /\ main[p] # "down"
    /\ IF Migrating(p) THEN Mishap ELSE UNCHANGED <<mishaps, round>>
    /\ Gone(p)
    /\ UNCHANGED schema

StartupNext == \E p \in Process :
    \/ start(p) \/ look(p) \/ execute(p) \/ commit(p) \/ init_db_fails(p)
    \/ spawn_first(p) \/ spawn_rest(p) \/ bind(p) \/ bind_fails(p)
    \/ backfill_ends(p) \/ stop(p)

StartupSpec == StartupInit /\ [][StartupNext]_startVars

-----------------------------------------------------------------------------
(* Properties                                                              *)

\* Start-ups that race for one database, over whatever an earlier one left of the
\* schema, do not all refuse each other: an attempt that failed was overtaken by one
\* that has got through, or is still on its way.
SomebodyGetsThrough == round = "on" => \E p \in Process : Migrating(p)

\* No task runs a query before all that the migrations make is there, whatever is
\* starting or has stopped beside it; the trigger alone comes and goes.
TasksFindTheirTables ==
    \A p \in Process : running[p] \ {"api"} # {} => Schema \ {Trigger} \subseteq schema

\* Once there, the trigger that counts messages is missing only while a process is
\* between its two statements, or after one was stopped there.
TriggerSurvivesStarts ==
    create_indexes.makes \subseteq schema /\ Trigger \notin schema => interrupted \/ \E p \in Process : Between(p)

\* Whatever starts, fails or is stopped beside it, a running node has its schema.
SchemaIsWhole == TasksFindTheirTables /\ TriggerSurvivesStarts

=============================================================================
