-------------------------------- MODULE Backfill -------------------------------
(***************************************************************************)
(* The backfill that every start runs beside the rest of the node          *)
(* (src/jobs/backfill.rs), and the trigger that keeps message_counts       *)
(* (src/db/migrations.rs), which the backfill disables for a while.        *)
(*                                                                         *)
(* Chain sync puts messages into the table bare, and queues them with a    *)
(* second statement: what a crash leaves between the two no processor will *)
(* ever see, and it is the backfill that derives its row and fills its     *)
(* columns.  It walks a table by time, some rows at a time.                *)
(*                                                                         *)
(* What latest_amend and the aggregates get of it is in Posts and          *)
(* Aggregate; the processor, in detail, is in MessageProcessor.            *)
(***************************************************************************)
EXTENDS Integers, FiniteSets

CONSTANTS
    Letter,         \* the messages
    TypeOf,         \* [Letter -> Walked \cup Swept]: its message_type
    Body,           \* [Letter -> {"good", "partial", "malformed", "empty"}], item_content:
                    \* partial lacks address or type, malformed is not JSON
    Broadcast,      \* messages that gossip may bring, others come by a chain
    Removable,      \* messages that a FORGET may name
    SentAt,         \* [Letter -> Nat \ {0}]: column time
    BatchSize,      \* BACKFILL_BATCH_SIZE
    MaxQueue,       \* a longer queue makes the start skip the backfill (10000)
    MaxCrashes,     \* bound: restarts
    MaxErrors       \* bound: statements that fail by chance

Walked == {"POST", "AGGREGATE"}    \* in batches, and
Swept == {"INSTANCE", "PROGRAM"}   \* in one statement

ASSUME BackfillAssumption ==
    /\ TypeOf \in [Letter -> Walked \cup Swept]
    /\ SentAt \in [Letter -> Nat \ {0}]
    /\ BatchSize \in Nat \ {0}

VARIABLES
    stored,    \* rows of messages; those with
    owned,     \* the columns that come from the content (owner, status, ...)
    derivedRows,   \* rows of posts, aggregate_elements, instances and programs
    queue,     \* rows of pending_messages
    counts,    \* message_counts, a partial function: rows "owned" and "none" by owner,
               \* "all" for the four counts that do not look at it
    trigger,   \* trg_message_counts is enabled
    at,        \* what the backfill does next
    cursor,    \* last_time
    errored,    \* statements of this backfill that failed; "short": a walk ended early
    syncing,   \* chain sync has inserted them and not yet queued them
    erasing,   \* FORGET has deleted their derived rows and not yet them
    crashes, errors,
    blind,     \* history: messages changed with no trigger after the last rebuild
    stood,     \* history: good rows that stand since the backfill began
    cut        \* history: messages deleted since

rowsVars == <<stored, owned, derivedRows, queue, counts, trigger>>
taskVars == <<syncing, erasing>>
passVars == <<at, cursor, errored, stood, cut>>
backfillVars == <<rowsVars, taskVars, passVars, crashes, errors, blind>>

Following(step) ==
    CASE step = "POST" -> "AGGREGATE" [] step = "AGGREGATE" -> "INSTANCE"
      [] step = "INSTANCE" -> "PROGRAM" [] step = "PROGRAM" -> "disable"

CursorOf(type) == IF type = "POST" THEN "POST cursor" ELSE "AGGREGATE cursor"

-----------------------------------------------------------------------------
(* The trigger                                                             *)

\* COALESCE(owner, '').
OwnerKey(m, owners) == IF m \in owners THEN "owned" ELSE "none"

\* Wrong variant of the next: WHERE ... = OLD.owner, which is never true of NULL.
Decremented_null(c, old) ==
    [k \in DOMAIN c |-> IF k \in (old \ {"none"}) \cup {"all"} THEN c[k] - 1 ELSE c[k]]

\* An UPDATE: a key that is not there stays away.
Decremented(c, old) == [k \in DOMAIN c |-> IF k \in old \cup {"all"} THEN c[k] - 1 ELSE c[k]]

\* ON CONFLICT ... count + 1.
Incremented(c, new) ==
    [k \in DOMAIN c \cup new \cup {"all"} |->
        (IF k \in DOMAIN c THEN c[k] ELSE 0) + (IF k \in new \cup {"all"} THEN 1 ELSE 0)]

\* A row of messages changes from the key old to new; {} stands for no row.
update_message_counts(old, new) ==
    /\ counts' = IF ~ trigger THEN counts
                 ELSE LET less == IF old = {} THEN counts ELSE Decremented(counts, old)
                      IN  IF new = {} THEN less ELSE Incremented(less, new)
    /\ blind' = (blind \/ ~ trigger)

KeyOf(m) == IF m \in stored THEN {OwnerKey(m, owned)} ELSE {}

-----------------------------------------------------------------------------
(* What runs beside it: chain sync, gossip, the processor and FORGET       *)

\* Whether or not gossip has queued it.
batch_insert_bare(m) ==
    /\ m \notin stored
    /\ stored' = stored \cup {m} /\ syncing' = syncing \cup {m}
    /\ update_message_counts({}, {"none"})
    /\ UNCHANGED <<owned, derivedRows, queue, trigger, erasing, passVars, crashes, errors>>

queue_bare(m) ==
    /\ m \in syncing
    /\ queue' = queue \cup {m} /\ syncing' = syncing \ {m}
    /\ UNCHANGED <<stored, owned, derivedRows, counts, trigger, erasing, passVars, crashes,
                   errors, blind>>

queue_gossip(m) ==
    /\ m \in Broadcast \ (stored \cup queue)
    /\ queue' = queue \cup {m}
    /\ UNCHANGED <<stored, owned, derivedRows, counts, trigger, taskVars, passVars, crashes, errors,
                   blind>>

\* Content that does not parse is rejected, and so is whatever a check is against.
\* A row of messages that chain sync inserted stays.
reject_letter(m) ==
    /\ m \in queue \ derivedRows
    /\ queue' = queue \ {m}
    /\ UNCHANGED <<stored, owned, derivedRows, counts, trigger, taskVars, passVars, crashes, errors,
                   blind>>

\* Handler and store_processed_message, one after the other (MessageProcessor).
process_letter(m) ==
    /\ m \in queue \ derivedRows /\ Body[m] = "good"
    /\ derivedRows' = derivedRows \cup {m}
    /\ update_message_counts(KeyOf(m), {"owned"})
    /\ stored' = stored \cup {m} /\ owned' = owned \cup {m}
    /\ queue' = queue \ {m}
    /\ UNCHANGED <<trigger, taskVars, passVars, crashes, errors>>

\* batch_check_duplicates takes a derived row for a processed message, even one
\* that the backfill put there.
drop_duplicate(m) ==
    /\ m \in queue \cap derivedRows
    /\ queue' = queue \ {m}
    /\ UNCHANGED <<stored, owned, derivedRows, counts, trigger, taskVars, passVars, crashes, errors,
                   blind>>

forget_derived(m) ==
    /\ m \in (Removable \cap stored) \ (queue \cup syncing \cup erasing)
    /\ derivedRows' = derivedRows \ {m} /\ erasing' = erasing \cup {m}
    /\ UNCHANGED <<stored, owned, queue, counts, trigger, syncing, passVars, crashes,
                   errors, blind>>

forget_letter(m) ==
    /\ m \in erasing
    /\ update_message_counts(KeyOf(m), {})
    /\ stored' = stored \ {m} /\ owned' = owned \ {m} /\ erasing' = erasing \ {m}
    /\ stood' = stood \ {m} /\ cut' = cut \cup (IF at = "ended" THEN {} ELSE {m})
    /\ UNCHANGED <<derivedRows, queue, trigger, syncing, at, cursor, errored, crashes, errors>>

-----------------------------------------------------------------------------
(* run_startup_backfill                                                    *)

Proceed(step) == at' = step

\* A statement fails: by chance, or because a row it reads is not JSON.
Errs == errors < MaxErrors /\ errors' = errors + 1

Unfilled(type) == {m \in stored : TypeOf[m] = type /\ m \notin derivedRows}
NoOwner == {m \in stored : m \notin owned /\ Body[m] # "empty"}

\* The counts look at empty contents too: once there is one, every start has work.
check_missing ==
    /\ at = "check"
    /\ LET crowded == Cardinality(queue) > MaxQueue
           complete == stored \subseteq derivedRows /\ NoOwner = {}
       IN  Proceed(IF crowded \/ complete THEN "ended" ELSE "POST")
    /\ stood' = {m \in stored : Body[m] = "good"} /\ cut' = {}
    /\ UNCHANGED <<rowsVars, taskVars, cursor, errored, crashes, errors, blind>>

check_fails ==
    /\ at = "check" /\ Errs
    /\ Proceed("ended")
    /\ UNCHANGED <<rowsVars, taskVars, cursor, errored, stood, cut, crashes, blind>>

\* Wrong variant of the next: the row of the cursor comes again.
After_again(m) == SentAt[m] >= cursor

After(m) == SentAt[m] > cursor

\* ORDER BY time LIMIT n: of rows with one time any may come.
FirstRows(rows) ==
    {w \in SUBSET rows :
        /\ Cardinality(w) = IF Cardinality(rows) < BatchSize THEN Cardinality(rows) ELSE BatchSize
        /\ \A m \in w, n \in rows \ w : SentAt[m] <= SentAt[n]}

LastTime(rows) == CHOOSE t \in {SentAt[m] : m \in rows} : \A m \in rows : SentAt[m] <= t

\* The rows that a batch of a type inserts; one that is malformed fails them all.
batch_derive(type) ==
    /\ at = type /\ type \in Walked
    /\ \E w \in FirstRows({m \in Unfilled(type) : Body[m] # "empty" /\ After(m)}) :
          /\ \A m \in w : Body[m] # "malformed"
          /\ derivedRows' = derivedRows \cup {m \in w : Body[m] = "good"}
    /\ Proceed(CursorOf(type))
    /\ UNCHANGED <<stored, owned, queue, counts, trigger, taskVars, cursor, errored, stood, cut,
                   crashes, errors, blind>>

\* Wrong variant of the next: the rows that are missing, once a batch is inserted.
CursorRows_missing(type) == {m \in Unfilled(type) : After(m)}

\* All rows of the type, derived or not: the cursor never passes what was not read.
CursorRows(type) == {m \in stored : TypeOf[m] = type /\ After(m)}

batch_cursor(type) ==
    /\ at = CursorOf(type)
    /\ \E w \in FirstRows(CursorRows(type)) :
          IF Cardinality(w) < BatchSize
          THEN cursor' = 0 /\ Proceed(Following(type))
          ELSE cursor' = LastTime(w) /\ Proceed(type)
    /\ UNCHANGED <<rowsVars, taskVars, errored, stood, cut, crashes, errors, blind>>

\* The one statement for all rows of a type.
sweep(type) ==
    /\ at = type /\ type \in Swept
    /\ LET w == {m \in Unfilled(type) : Body[m] # "empty"}
       IN  /\ \A m \in w : Body[m] # "malformed"
           /\ derivedRows' = derivedRows \cup w
    /\ Proceed(Following(type))
    /\ UNCHANGED <<stored, owned, queue, counts, trigger, taskVars, cursor, errored, stood, cut,
                   crashes, errors, blind>>

Poisoned(rows) == \E m \in rows : Body[m] = "malformed"

\* The backfill of the type ends with an error, those of the others still run.
backfill_fails(type) ==
    /\ \/ at = type
          /\ \/ Poisoned({m \in Unfilled(type) : After(m)}) /\ UNCHANGED errors
             \/ Errs
       \/ type \in Walked /\ at = CursorOf(type) /\ Errs
    /\ Proceed(Following(type)) /\ cursor' = 0 /\ errored' = errored \cup {type}
    /\ UNCHANGED <<rowsVars, taskVars, stood, cut, crashes, blind>>

-----------------------------------------------------------------------------
(* backfill_message_denorm                                                 *)

disable_trigger ==
    /\ at = "disable"
    /\ trigger' = FALSE /\ Proceed("denorm")
    /\ UNCHANGED <<stored, owned, derivedRows, queue, counts, taskVars, cursor, errored, stood, cut,
                   crashes, errors, blind>>

disable_fails ==
    /\ at = "disable" /\ Errs
    /\ Proceed("ended") /\ errored' = {"denorm"} /\ stood' = {} /\ cut' = {}
    /\ UNCHANGED <<rowsVars, taskVars, cursor, crashes, blind>>

\* One statement updates a batch and returns its last time and how many they were.
\* A partial content may have no address: its row is updated, and stays as it is.
denorm_batch ==
    /\ at = "denorm"
    /\ \E w \in FirstRows({m \in NoOwner : After(m)}) :
          /\ ~ Poisoned(w)
          /\ owned' = owned \cup {m \in w : Body[m] = "good"}
          /\ IF Cardinality(w) < BatchSize
             THEN cursor' = 0 /\ Proceed("truncate")
             ELSE cursor' = LastTime(w) /\ Proceed("denorm")
          /\ blind' = (blind \/ w # {})
    /\ UNCHANGED <<stored, derivedRows, queue, counts, trigger, taskVars, errored, stood, cut, crashes,
                   errors>>

\* FORGET deletes a row of the batch while the statement waits for it: it is one less
\* that is updated and counted, and a batch that is not full is taken for the last.
denorm_batch_short(m) ==
    /\ at = "denorm" /\ m \in erasing
    /\ \E w \in FirstRows({n \in NoOwner : After(n)}) :
          /\ m \in w /\ ~ Poisoned(w)
          /\ owned' = (owned \cup {n \in w : Body[n] = "good"}) \ {m}
    /\ stored' = stored \ {m} /\ erasing' = erasing \ {m}
    /\ stood' = stood \ {m} /\ cut' = cut \cup {m}
    /\ cursor' = 0 /\ Proceed("truncate") /\ errored' = errored \cup {"short"}
    /\ blind' = TRUE
    /\ UNCHANGED <<derivedRows, queue, counts, trigger, syncing, crashes, errors>>

DenormErrs ==
    /\ at = "denorm"
    /\ \/ Poisoned({m \in NoOwner : After(m)}) /\ UNCHANGED errors
       \/ Errs

\* Wrong variant of the next: `?' in the place of the wrapper.
denorm_fails_at_once ==
    /\ DenormErrs
    /\ Proceed("ended") /\ cursor' = 0 /\ errored' = errored \cup {"denorm"}
    /\ UNCHANGED <<rowsVars, taskVars, stood, cut, crashes, blind>>

\* The trigger is enabled all the same.
denorm_fails ==
    /\ DenormErrs
    /\ Proceed("enable") /\ cursor' = 0 /\ errored' = errored \cup {"denorm"}
    /\ UNCHANGED <<rowsVars, taskVars, stood, cut, crashes, blind>>

truncate_counts ==
    /\ at = "truncate"
    /\ \/ counts' = <<>> /\ blind' = TRUE /\ UNCHANGED errors
       \/ Errs /\ UNCHANGED <<counts, blind>>
    /\ Proceed("rebuild")
    /\ UNCHANGED <<stored, owned, derivedRows, queue, trigger, taskVars, cursor, errored, stood, cut,
                   crashes>>

\* The rows of the five SELECTs.
Grouped == [k \in (IF stored = {} THEN {} ELSE {"all"} \cup {OwnerKey(m, owned) : m \in stored}) |->
               Cardinality({m \in stored : k \in {"all", OwnerKey(m, owned)}})]

\* Counts that the table still has, of groups that are gone, stay.
rebuild_counts ==
    /\ at = "rebuild"
    /\ \/ /\ counts' = [k \in DOMAIN Grouped \cup DOMAIN counts |->
                            IF k \in DOMAIN Grouped THEN Grouped[k] ELSE counts[k]]
          /\ blind' = (counts # <<>>) /\ UNCHANGED errors
       \/ Errs /\ UNCHANGED <<counts, blind>>
    /\ Proceed("enable")
    /\ UNCHANGED <<stored, owned, derivedRows, queue, trigger, taskVars, cursor, errored, stood, cut,
                   crashes>>

enable_trigger ==
    /\ at = "enable"
    /\ \/ trigger' = TRUE /\ errored' = {} /\ UNCHANGED errors
       \/ Errs /\ errored' = {"enable"} /\ UNCHANGED trigger
    /\ Proceed("ended") /\ stood' = {} /\ cut' = {}
    /\ UNCHANGED <<stored, owned, derivedRows, queue, counts, taskVars, cursor, crashes, blind>>

-----------------------------------------------------------------------------

BackfillInit ==
    /\ stored = {} /\ owned = {} /\ derivedRows = {} /\ queue = {}
    /\ counts = <<>> /\ trigger = TRUE
    /\ at = "ended" /\ cursor = 0 /\ errored = {}    \* the first start finds no rows
    /\ syncing = {} /\ erasing = {}
    /\ crashes = 0 /\ errors = 0 /\ blind = FALSE /\ stood = {} /\ cut = {}

\* A start creates the trigger anew (create_message_counts_table).
restart_node ==
    /\ crashes < MaxCrashes
    /\ crashes' = crashes + 1
    /\ trigger' = TRUE
    /\ Proceed("check") /\ cursor' = 0 /\ errored' = {} /\ stood' = {} /\ cut' = {}
    /\ syncing' = {} /\ erasing' = {}
    /\ UNCHANGED <<stored, owned, derivedRows, queue, counts, errors, blind>>

run_startup_backfill ==
    \/ check_missing \/ check_fails
    \/ \E type \in Walked : batch_derive(type) \/ batch_cursor(type)
    \/ \E type \in Swept : sweep(type)
    \/ \E type \in Walked \cup Swept : backfill_fails(type)
    \/ disable_trigger \/ disable_fails \/ denorm_batch \/ denorm_fails
    \/ \E m \in Letter : denorm_batch_short(m)
    \/ truncate_counts \/ rebuild_counts \/ enable_trigger

BackfillNext ==
    \/ run_startup_backfill \/ restart_node
    \/ \E m \in Letter :
          \/ batch_insert_bare(m) \/ queue_bare(m) \/ queue_gossip(m)
          \/ reject_letter(m) \/ process_letter(m) \/ drop_duplicate(m)
          \/ forget_derived(m) \/ forget_letter(m)

BackfillSpec == BackfillInit /\ [][BackfillNext]_backfillVars

-----------------------------------------------------------------------------
(* Properties                                                              *)

Tie(m, rows) == \E n \in rows \ {m} : SentAt[n] = SentAt[m]

\* What a crash of chain sync stranded, a backfill that ends without an error has
\* derived, and has filled the columns of: but for rows that share their time with
\* another at the end of a batch, be that one deleted since, when a message was
\* deleted between the two statements of a batch, or, of the columns, during one.  The
\* next start comes back to those.
StandingAreRecovered ==
    at \in {"truncate", "rebuild"} =>
        \A m \in stood \ erasing :
            /\ \/ m \in derivedRows
               \/ TypeOf[m] \in errored
               \/ TypeOf[m] \in Walked
                  /\ \/ \E n \in cut : TypeOf[n] = TypeOf[m]
                     \/ Tie(m, {n \in stored : TypeOf[n] = TypeOf[m]})
            /\ m \in owned \/ "short" \in errored \/ Tie(m, stored \cup cut)

\* message_counts counts the messages, whatever stores, updates and deletes them,
\* unless one changed while the trigger was off and no rebuild came after.
CountsAreExact ==
    ~ blind =>
        /\ \A k \in {"owned", "none"} :
              (IF k \in DOMAIN counts THEN counts[k] ELSE 0)
                  = Cardinality({m \in stored : OwnerKey(m, owned) = k})
        /\ "all" \in DOMAIN counts => counts["all"] = Cardinality(stored)

\* However the backfill ends, the trigger is back, if it could be enabled.
TriggerIsBack == at = "ended" /\ ~ trigger => "enable" \in errored

Order == [step \in {"check", "POST", "POST cursor", "AGGREGATE", "AGGREGATE cursor", "INSTANCE",
                    "PROGRAM", "disable", "denorm", "truncate", "rebuild", "enable", "ended"} |->
    CASE step = "check" -> 0
      [] step \in {"POST", "POST cursor"} -> 1
      [] step \in {"AGGREGATE", "AGGREGATE cursor"} -> 2
      [] step = "INSTANCE" -> 3 [] step = "PROGRAM" -> 4 [] step = "disable" -> 5
      [] step = "denorm" -> 6 [] step = "truncate" -> 7 [] step = "rebuild" -> 8
      [] step = "enable" -> 9 [] step = "ended" -> 10]

\* The walk never comes back to a time it has been at: whatever rows come and go, a
\* backfill ends, though batches may insert nothing and times may be equal.
BackfillAdvances ==
    run_startup_backfill =>
        \/ Order[at'] > Order[at]
        \/ Order[at'] = Order[at] /\ cursor' > cursor
        \/ Order[at'] = Order[at] /\ cursor' = cursor /\ at \in Walked /\ at' = CursorOf(at)

\* A start makes up for what the last crash left: rows, columns, counts and trigger; and
\* it gets there, walking on and on.
BackfillRecovers ==
    [][StandingAreRecovered /\ CountsAreExact /\ TriggerIsBack /\ BackfillAdvances]_backfillVars

=============================================================================
