------------------------------- MODULE FilePins -------------------------------
(***************************************************************************)
(* Files and who pins them: the STORE handler (src/handlers/store.rs), the *)
(* part of FORGET that unpins (handlers/forget.rs), uploads through the    *)
(* API (web/handlers.rs) and the garbage collector, which main.rs starts   *)
(* (jobs/garbage_collector.rs), over files, file_pins, file_tags_v2,       *)
(* account_costs and messages, one SQL statement a step.                   *)
(*                                                                         *)
(* The primary key of file_pins is (item_hash, owner), so a file has one   *)
(* row for each owner, whatever its pin_type; its message_hash names one   *)
(* STORE.  Hashes of files are never hashes of messages here.              *)
(***************************************************************************)
EXTENDS Naturals, FiniteSets

CONSTANTS
    Store,       \* STORE messages
    File,        \* File[m]: the item_hash of the content m stores
    Files,       \* all of them
    Owner,       \* Owner[m]: content.address
    Owners,      \* addresses
    Anonymous,   \* the owner of files uploaded through the API
    Ref,         \* Ref[m]: content.ref of m, or the file's hash
    Forgetter,   \* Forgetter[m]: content.address of the FORGET of m; of the same sender,
                 \*   but not always of the same owner
    Time,        \* Time[m]: message.time
    Paid,        \* messages with a payment, which get a cost row
    Used,        \* hashes that a program or an instance refers to
    GcLimit,     \* the LIMIT of the collector's queries (100)
    MaxDeliveries, \* bound: deliveries of one STORE
    MaxFaults    \* bound: statements that fail

ASSUME ConstantsAssumption ==
    /\ File \in [Store -> Files]
    /\ Owner \in [Store -> Owners] /\ Forgetter \in [Store -> Owners]
    /\ Anonymous \in Owners
    /\ Time \in [Store -> Nat]
    /\ Paid \subseteq Store
    /\ Used \subseteq Store \cup Files
    /\ GcLimit \in Nat \ {0}
    /\ MaxDeliveries \in Nat
    /\ MaxFaults \in Nat

\* make_file_tag
Tags == {<<o, Ref[m]>> : o \in Owners, m \in Store}
Row == Files \X Owners
RowOf(m) == <<File[m], Owner[m]>>

\* FORGET puts its own address in the place of the STORE's.
GraceRow(m) == <<File[m], Forgetter[m]>>

VARIABLES
    files,      \* rows of files
    kind,       \* kind[r]: pin_type of the row of file_pins, "none" without row
    by,         \* by[r]: its message_hash, a set of at most one message
    old,        \* rows whose created_at is before the grace period
    lapsed,     \* rows whose delete_by has passed
    shows,      \* shows[t]: the file of tag t, a set of at most one
    costs,      \* messages with a row in account_costs
    messages,   \* STORE messages with a row in messages
    forgotten,  \* hashes with a row in forgotten_messages
    at,         \* at[m]: the next statement of the STORE handler of m
    fg,         \* fg[m]: the next statement of the FORGET of m
    next,       \* next[m]: what that FORGET's refresh_file_tag has read
    gc,         \* the collector: its step,
    todo,       \*   the rows it has selected,
    victim,     \*   and the file it is removing
    deliveries, \* deliveries so far
    faults,     \* faults so far
    collected,  \* history: files whose pins the collector deleted
    stopped,    \* history: tasks that an error stopped half way
    renewed     \* history: files with a new grace period in the row keep_file is to delete

pinVars  == <<kind, by, old, lapsed>>
gcVars   == <<gc, todo, victim>>
taskVars == <<at, fg, next, deliveries>>
rowVars  == <<files, pinVars, shows, costs, messages, forgotten>>
histVars == <<collected, stopped, renewed>>
vars == <<rowVars, taskVars, gcVars, faults, histVars>>

TypeOK ==
    /\ files \subseteq Files
    /\ kind \in [Row -> {"none", "message", "grace_period"}]
    /\ by \in [Row -> SUBSET Store]
    /\ old \subseteq Row /\ lapsed \subseteq Row
    /\ shows \in [Tags -> SUBSET Files]
    /\ costs \subseteq Store /\ messages \subseteq Store
    /\ forgotten \subseteq Store \cup Files
    /\ at \in [Store -> {"out", "file", "pin", "tag", "cost", "again", "record", "refused"}]
    /\ fg \in [Store -> {"out", "mark", "unpin", "select", "retag", "count", "grace", "delete"}]
    /\ next \in [Store -> SUBSET Files]
    /\ gc \in {"idle", "check", "remove", "sweep", "expired", "keep", "pins", "files", "tags"}
    /\ todo \subseteq Row /\ victim \subseteq Row
    /\ deliveries \in [Store -> 0..MaxDeliveries]
    /\ faults \in 0..MaxFaults
    /\ collected \subseteq Files /\ renewed \subseteq Files /\ stopped \subseteq Store

Init ==
    /\ files = {} /\ costs = {} /\ messages = {} /\ forgotten = {}
    /\ kind = [r \in Row |-> "none"] /\ by = [r \in Row |-> {}]
    /\ old = {} /\ lapsed = {}
    /\ shows = [t \in Tags |-> {}]
    /\ at = [m \in Store |-> "out"] /\ fg = [m \in Store |-> "out"]
    /\ next = [m \in Store |-> {}]
    /\ gc = "idle" /\ todo = {} /\ victim = {}
    /\ deliveries = [m \in Store |-> 0]
    /\ faults = 0 /\ collected = {} /\ stopped = {} /\ renewed = {}

-----------------------------------------------------------------------------
(***************************************************************************)
(* Statements on file_pins.                                                *)
(***************************************************************************)

RowsOf(f) == {r \in Row : r[1] = f /\ kind[r] # "none"}
Active(f) == {r \in RowsOf(f) : kind[r] # "grace_period"}

\* DELETE FROM file_pins
DeletePins(S) ==
    /\ kind' = [r \in Row |-> IF r \in S THEN "none" ELSE kind[r]]
    /\ by' = [r \in Row |-> IF r \in S THEN {} ELSE by[r]]
    /\ old' = old \ S
    /\ lapsed' = lapsed \ S

\* INSERT, or the DO UPDATE of the row that is there: created_at is kept.
PutPin(r, k, m) ==
    /\ kind' = [kind EXCEPT ![r] = k]
    /\ by' = [by EXCEPT ![r] = m]
    /\ lapsed' = lapsed \ {r}
    /\ UNCHANGED old

\* Time passes.
age(r) ==
    /\ kind[r] # "none" /\ r \notin old
    /\ old' = old \cup {r}
    /\ UNCHANGED <<files, kind, by, lapsed, shows, costs, messages, forgotten, taskVars,
                   gcVars, faults, histVars>>

lapse(r) ==
    /\ kind[r] = "grace_period" /\ r \notin lapsed
    /\ lapsed' = lapsed \cup {r}
    /\ UNCHANGED <<files, kind, by, old, shows, costs, messages, forgotten, taskVars,
                   gcVars, faults, histVars>>

Goto(m, where) == at' = [at EXCEPT ![m] = where]

-----------------------------------------------------------------------------
(***************************************************************************)
(* StoreHandler::process.  A STORE is never found to be a duplicate, so it *)
(* runs again whenever it is delivered again, until it is forgotten.       *)
(***************************************************************************)

store_start(m) ==
    /\ at[m] \in {"out", "refused"} /\ m \notin forgotten
    /\ deliveries[m] < MaxDeliveries
    /\ deliveries' = [deliveries EXCEPT ![m] = @ + 1]
    /\ Goto(m, "file")
    /\ UNCHANGED <<rowVars, fg, next, gcVars, faults, histVars>>

upsert_file(m) ==
    /\ at[m] = "file"
    /\ files' = files \cup {File[m]}
    /\ Goto(m, "pin")
    /\ UNCHANGED <<pinVars, shows, costs, messages, forgotten, fg, next, deliveries,
                   gcVars, faults, histVars>>

\* ON CONFLICT (item_hash, owner, pin_type) does not cover the primary key: a
\* row of the same owner with another pin_type is an error, and a rejection.
insert_file_pin_typed(m) ==
    /\ at[m] = "pin"
    /\ IF kind[RowOf(m)] = "grace_period"
       THEN /\ Goto(m, "refused")
            /\ UNCHANGED pinVars
       ELSE /\ PutPin(RowOf(m), "message", {m})
            /\ Goto(m, "tag")
    /\ UNCHANGED <<files, shows, costs, messages, forgotten, fg, next, deliveries, gcVars,
                   faults, histVars>>

upsert_file_tag(m) ==
    /\ at[m] = "tag"
    /\ shows' = [shows EXCEPT ![<<Owner[m], Ref[m]>>] = {File[m]}]
    /\ Goto(m, IF m \in Paid THEN "cost" ELSE "again")
    /\ UNCHANGED <<files, pinVars, costs, messages, forgotten, fg, next, deliveries, gcVars,
                   faults, histVars>>

store_account_costs(m) ==
    /\ at[m] = "cost"
    /\ costs' = costs \cup {m}
    /\ Goto(m, "again")
    /\ UNCHANGED <<files, pinVars, shows, messages, forgotten, fg, next, deliveries, gcVars,
                   faults, histVars>>

\* "Also write via raw pool": ON CONFLICT (item_hash, owner), which does cover
\* the primary key, and leaves the pin_type as it is.
store_raw_pin(m) ==
    /\ at[m] = "again"
    /\ IF kind[RowOf(m)] = "none"
       THEN PutPin(RowOf(m), "message", {m})
       ELSE /\ by' = [by EXCEPT ![RowOf(m)] = {m}]
            /\ UNCHANGED <<kind, old, lapsed>>
    /\ Goto(m, "record")
    /\ UNCHANGED <<files, shows, costs, messages, forgotten, fg, next, deliveries, gcVars,
                   faults, histVars>>

\* store_processed_message, after the handler.
store_record(m) ==
    /\ at[m] = "record"
    /\ messages' = messages \cup {m}
    /\ Goto(m, "out")
    /\ UNCHANGED <<files, pinVars, shows, costs, forgotten, fg, next, deliveries, gcVars,
                   faults, histVars>>

\* A file uploaded to POST /storage: INSERT ... ON CONFLICT DO NOTHING.
upload_file(f) ==
    /\ kind[<<f, Anonymous>>] = "none"
    /\ PutPin(<<f, Anonymous>>, "message", {})
    /\ UNCHANGED <<files, shows, costs, messages, forgotten, taskVars, gcVars, faults, histVars>>

-----------------------------------------------------------------------------
(***************************************************************************)
(* ForgetHandler on a STORE.                                               *)
(***************************************************************************)

GotoF(m, where) == fg' = [fg EXCEPT ![m] = where]

forget_validate(m) ==
    /\ fg[m] = "out"
    /\ m \in messages \ (forgotten \cup Used)
    /\ GotoF(m, "mark")
    /\ UNCHANGED <<rowVars, at, next, deliveries, gcVars, faults, histVars>>

mark_forgotten(m) ==
    /\ fg[m] = "mark"
    /\ forgotten' = forgotten \cup {m}
    /\ GotoF(m, "unpin")
    /\ UNCHANGED <<files, pinVars, shows, costs, messages, at, next, deliveries, gcVars,
                   faults, histVars>>

\* DELETE FROM file_pins WHERE message_hash = m
delete_file_pin_by_message(m) ==
    /\ fg[m] = "unpin"
    /\ DeletePins({r \in Row : m \in by[r]})
    /\ GotoF(m, "select")
    /\ UNCHANGED <<files, shows, costs, messages, forgotten, at, next, deliveries, gcVars,
                   faults, histVars>>

\* refresh_file_tag, of the tag that the FORGET's address makes: the newest message
\* pins of that owner whose message is stored, of any file.
Newest(o) ==
    LET pinned == {n \in messages : \E r \in Row : /\ r[2] = o
                                                   /\ kind[r] = "message"
                                                   /\ n \in by[r]}
    IN  {n \in pinned : \A p \in pinned : Time[p] <= Time[n]}

\* Wrong variant of refresh_select: takes the hash of the message.
refresh_select_message(m) ==
    /\ fg[m] = "select"
    /\ \/ Newest(Forgetter[m]) = {} /\ next' = [next EXCEPT ![m] = {}]
       \/ \E n \in Newest(Forgetter[m]) : next' = [next EXCEPT ![m] = {n}]
    /\ GotoF(m, "retag")
    /\ UNCHANGED <<rowVars, at, deliveries, gcVars, faults, histVars>>

refresh_select(m) ==
    /\ fg[m] = "select"
    /\ \/ Newest(Forgetter[m]) = {} /\ next' = [next EXCEPT ![m] = {}]
       \/ \E n \in Newest(Forgetter[m]) :
              next' = [next EXCEPT ![m] = {r[1] : r \in {s \in Row : n \in by[s]}}]
    /\ GotoF(m, "retag")
    /\ UNCHANGED <<rowVars, at, deliveries, gcVars, faults, histVars>>

\* UPDATE of the tag's row, if any, or DELETE.
refresh_file_tag(m) ==
    /\ fg[m] = "retag"
    /\ shows' = [shows EXCEPT ![<<Forgetter[m], Ref[m]>>] = IF @ = {} THEN {} ELSE next[m]]
    /\ GotoF(m, "count")
    /\ UNCHANGED <<files, pinVars, costs, messages, forgotten, at, next, deliveries, gcVars,
                   faults, histVars>>

\* Wrong variant of count_active_pins: the condition is inverted.
count_active_pins_inverted(m) ==
    /\ fg[m] = "count"
    /\ GotoF(m, IF Active(File[m]) = {} THEN "delete" ELSE "grace")
    /\ UNCHANGED <<rowVars, at, next, deliveries, gcVars, faults, histVars>>

count_active_pins(m) ==
    /\ fg[m] = "count"
    /\ GotoF(m, IF Active(File[m]) = {} THEN "grace" ELSE "delete")
    /\ UNCHANGED <<rowVars, at, next, deliveries, gcVars, faults, histVars>>

\* ON CONFLICT (item_hash, owner, pin_type): if a message pin of that owner has
\* appeared since the count, the primary key makes it an error.
insert_grace_period_pin(m) ==
    /\ fg[m] = "grace"
    /\ IF kind[GraceRow(m)] = "message"
       THEN /\ GotoF(m, "out")
            /\ stopped' = stopped \cup {m}
            /\ UNCHANGED <<pinVars, renewed>>
       ELSE /\ PutPin(GraceRow(m), "grace_period", by[GraceRow(m)])
            /\ GotoF(m, "delete")
            /\ renewed' = IF gc = "keep" /\ GraceRow(m) \in victim
                          THEN renewed \cup {File[m]} ELSE renewed
            /\ UNCHANGED stopped
    /\ UNCHANGED <<files, shows, costs, messages, forgotten, at, next, deliveries, gcVars,
                   faults, collected>>

\* delete_message.  The cascade has nothing to do for a STORE, and leaves its
\* row of account_costs.
delete_message(m) ==
    /\ fg[m] = "delete"
    /\ messages' = messages \ {m}
    /\ GotoF(m, "out")
    /\ UNCHANGED <<files, pinVars, shows, costs, forgotten, at, next, deliveries, gcVars,
                   faults, histVars>>

\* A FORGET that names the hash of a file.  check_ownership looks at one of the
\* file's pins; remove_file_pin ignores its owner argument.
forget_file(f) ==
    /\ f \notin forgotten \cup Used
    /\ \E r \in RowsOf(f) : r[2] # Anonymous
    /\ forgotten' = forgotten \cup {f}
    /\ DeletePins(RowsOf(f))
    /\ UNCHANGED <<files, shows, costs, messages, taskVars, gcVars, faults, histVars>>

\* A statement of either handler fails, or the task is cancelled.
task_error(m) ==
    /\ faults < MaxFaults
    /\ faults' = faults + 1
    /\ \/ /\ at[m] \notin {"out", "refused"}
          /\ Goto(m, "out")
          /\ UNCHANGED fg
       \/ /\ fg[m] # "out"
          /\ GotoF(m, "out")
          /\ UNCHANGED at
    /\ stopped' = stopped \cup {m}
    /\ UNCHANGED <<rowVars, next, deliveries, gcVars, collected, renewed>>

-----------------------------------------------------------------------------
(***************************************************************************)
(* run_gc_cycle                                                            *)
(***************************************************************************)

\* SELECT ... LIMIT
SelectRows(S) ==
    \E T \in SUBSET S :
        /\ Cardinality(T) <= GcLimit
        /\ T = S \/ Cardinality(T) = GcLimit
        /\ todo' = T

Referenced(f) == \E m \in messages : File[m] = f

OnlyGc == UNCHANGED <<rowVars, taskVars, faults, histVars>>

\* Step 1: pins whose file no STORE in messages names and no VM uses.
find_orphaned_files ==
    /\ gc = "idle"
    /\ gc' = "check"
    /\ SelectRows({r \in old : ~ Referenced(r[1]) /\ r[1] \notin Used})
    /\ victim' = {}
    /\ OnlyGc

\* Wrong variant of still_orphaned: a referenced file is tried again.
still_orphaned_retried(r) ==
    /\ gc = "check"
    /\ r \in todo
    /\ IF Referenced(r[1])
       THEN UNCHANGED <<gc, victim, todo>>
       ELSE gc' = "remove" /\ victim' = {r} /\ todo' = todo \ {r}
    /\ OnlyGc

\* Step 2: each is checked again.
still_orphaned(r) ==
    /\ gc = "check"
    /\ r \in todo
    /\ todo' = todo \ {r}
    /\ IF Referenced(r[1])
       THEN UNCHANGED <<gc, victim>>
       ELSE gc' = "remove" /\ victim' = {r}
    /\ OnlyGc

remove_file ==
    /\ gc = "remove"
    /\ gc' = "check"
    /\ DeletePins({r \in Row : r[1] \in {v[1] : v \in victim}})
    /\ victim' = {}
    /\ collected' = collected \cup {v[1] : v \in victim}
    /\ UNCHANGED <<files, shows, costs, messages, forgotten, taskVars, todo, faults, stopped,
                   renewed>>

\* Step 3: pins whose item_hash, the hash of a file, is no message's.
find_orphaned_pins ==
    /\ gc = "check" /\ todo = {}
    /\ gc' = "sweep"
    /\ SelectRows({r \in Row : kind[r] # "none" /\ r[1] \notin messages})
    /\ UNCHANGED victim
    /\ OnlyGc

clean_orphaned_pin(r) ==
    /\ gc = "sweep"
    /\ r \in todo
    /\ todo' = todo \ {r}
    /\ DeletePins(RowsOf(r[1]))
    /\ collected' = collected \cup {r[1]}
    /\ UNCHANGED <<files, shows, costs, messages, forgotten, taskVars, gc, victim, faults,
                   stopped, renewed>>

\* Wrong variant of ExpiredPins: any pin_type.
ExpiredPins_any == {r \in Row : kind[r] # "none" /\ r \in old}

ExpiredPins == {r \in lapsed : kind[r] = "grace_period"}

\* Steps 4 and 5 do not concern files.  Step 6: expired grace periods.
find_expired_grace_pins ==
    /\ gc = "sweep" /\ todo = {}
    /\ gc' = "expired"
    /\ SelectRows(ExpiredPins)
    /\ UNCHANGED victim
    /\ OnlyGc

\* SELECT COUNT(*) of the pins that are not grace periods.
count_active(r) ==
    /\ gc = "expired"
    /\ r \in todo
    /\ todo' = todo \ {r}
    /\ gc' = IF Active(r[1]) # {} THEN "keep" ELSE "pins"
    /\ victim' = {r}
    /\ OnlyGc

\* Re-pinned meanwhile: only the grace period's row goes.
keep_file ==
    /\ gc = "keep"
    /\ gc' = "expired"
    /\ DeletePins({r \in victim : kind[r] = "grace_period"})
    /\ UNCHANGED <<files, shows, costs, messages, forgotten, taskVars, todo, victim, faults,
                   histVars>>

drop_pins ==
    /\ gc = "pins"
    /\ gc' = "files"
    /\ DeletePins({r \in Row : r[1] \in {v[1] : v \in victim}})
    /\ collected' = collected \cup {v[1] : v \in victim}
    /\ UNCHANGED <<files, shows, costs, messages, forgotten, taskVars, todo, victim, faults,
                   stopped, renewed>>

drop_file ==
    /\ gc = "files"
    /\ gc' = "tags"
    /\ files' = files \ {v[1] : v \in victim}
    /\ UNCHANGED <<pinVars, shows, costs, messages, forgotten, taskVars, todo, victim, faults,
                   histVars>>

drop_tags ==
    /\ gc = "tags"
    /\ gc' = "expired"
    /\ shows' = [t \in Tags |-> shows[t] \ {v[1] : v \in victim}]
    /\ UNCHANGED <<files, pinVars, costs, messages, forgotten, taskVars, todo, victim, faults,
                   histVars>>

gc_cycle_ends ==
    /\ gc = "expired" /\ todo = {}
    /\ gc' = "idle" /\ victim' = {}
    /\ UNCHANGED todo
    /\ OnlyGc

\* A statement fails.  Steps 2 and 3 go on with the next row; anywhere else
\* the rest of the cycle is given up.
gc_error ==
    /\ faults < MaxFaults
    /\ faults' = faults + 1
    /\ \/ /\ gc = "remove"
          /\ gc' = "check" /\ victim' = {}
          /\ UNCHANGED todo
       \/ /\ gc \in {"check", "sweep"}
          /\ \E r \in todo : todo' = todo \ {r}
          /\ UNCHANGED <<gc, victim>>
       \/ /\ gc \in {"check", "sweep"} => todo = {}
          /\ gc \notin {"idle", "remove"}
          /\ gc' = "idle" /\ todo' = {} /\ victim' = {}
    /\ UNCHANGED <<rowVars, taskVars, histVars>>

StoreStep(m) ==
    \/ upsert_file(m) \/ insert_file_pin_typed(m) \/ upsert_file_tag(m)
    \/ store_account_costs(m) \/ store_raw_pin(m) \/ store_record(m)

ForgetStep(m) ==
    \/ mark_forgotten(m) \/ delete_file_pin_by_message(m) \/ refresh_select(m)
    \/ refresh_file_tag(m) \/ count_active_pins(m) \/ insert_grace_period_pin(m)
    \/ delete_message(m)

run_gc_cycle ==
    \/ find_orphaned_files \/ remove_file
    \/ find_orphaned_pins \/ find_expired_grace_pins
    \/ \E r \in Row : still_orphaned(r) \/ clean_orphaned_pin(r) \/ count_active(r)
    \/ keep_file \/ drop_pins \/ drop_file \/ drop_tags \/ gc_cycle_ends

Next ==
    \/ \E m \in Store : \/ store_start(m) \/ StoreStep(m)
                        \/ forget_validate(m) \/ ForgetStep(m) \/ task_error(m)
    \/ \E f \in Files : upload_file(f) \/ forget_file(f)
    \/ \E r \in Row : age(r) \/ lapse(r)
    \/ run_gc_cycle
    \/ gc_error

Spec == Init /\ [][Next]_vars

\* The collector's loop ticks for ever; a handler's statements return.
FairSpec == Spec /\ WF_vars(run_gc_cycle) /\ \A m \in Store : WF_vars(StoreStep(m) \/ ForgetStep(m))

-----------------------------------------------------------------------------

AtWork(f) == \E m \in Store : /\ File[m] = f
                              /\ at[m] \notin {"out", "refused"} \/ fg[m] # "out"

\* A file that STOREs put into files is pinned or has a grace period, however
\* STOREs and FORGETs of its owners interleave; except where an error stopped
\* one half way, a FORGET named the file itself, the collector deleted its pins,
\* or, having found it pinned again, the grace period that a FORGET began since.
FileIsAccounted ==
    \A f \in files \ (collected \cup forgotten \cup renewed) :
        \/ RowsOf(f) # {} \/ AtWork(f)
        \/ \E m \in stopped : File[m] = f

\* A stored STORE keeps the row of its file, whatever the collector does, as
\* long as nobody forgot a STORE of that file: only an expired grace period
\* deletes files, and only a FORGET begins one.
FileOutlivesStore ==
    \A m \in messages :
        File[m] \in files \/ \E n \in Store \cap forgotten : File[n] = File[m]

\* A grace period that has passed ends: the row becomes a pin again or goes.  (No
\* FORGET is for the owner of uploads.)
GraceEnds ==
    \A r \in {s \in Row : s[2] # Anonymous} : r \in lapsed ~> r \notin lapsed

\* db/migrations.rs says of the unique index on (item_hash, owner, pin_type):
\* "allows multiple pin types per file+owner".  Then no STORE is refused for
\* the grace period of an earlier one.
MultiplePinTypes == \A m \in Store : at[m] # "refused"

=============================================================================
