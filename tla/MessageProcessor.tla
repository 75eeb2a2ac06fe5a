--------------------------- MODULE MessageProcessor ---------------------------
(***************************************************************************)
(* The message pipeline of pyaleph-rs: rows enter pending_messages from    *)
(* the HTTP API, from the P2P consumer and from chain sync; the single     *)
(* processor loop (src/jobs/message_processor.rs) takes them in batches,   *)
(* runs the handlers of one batch concurrently, and moves every row to     *)
(* its outcome: messages, rejected_messages, forgotten_messages, or a      *)
(* later attempt.  Every SQL statement is a step of its own, any of them   *)
(* may fail, a task may be cancelled by its 30 s timeout at any await, and *)
(* the process may crash and restart.                                      *)
(*                                                                         *)
(* What a handler writes is abstracted to one bit per message, "derived":  *)
(* the row of posts, aggregate_elements, programs, instances (or the pin   *)
(* of file_pins whose message_hash is the message) exists.  FORGET, the    *)
(* one handler that undoes what others did, is kept step by step.          *)
(***************************************************************************)
EXTENDS Naturals, FiniteSets

CONSTANTS
    Msg,          \* the messages (item hashes) of the model
    Kind,         \* Kind[m]: the message type
    Original,     \* Original[m]: the post or VM an amend refers to, m itself otherwise
    Hashes,       \* Hashes[f]: the item hashes a FORGET names, {} otherwise
    Sender,       \* Sender[m]: the address that signed m
    BadSig,       \* messages whose signature does not verify
    BadHash,      \* inline messages whose item_hash does not match the content
    Malformed,    \* pending JSON that does not parse as a Message
    Remote,       \* item_type storage/ipfs: the content is not inline
    Blacklisted,  \* messages of a blacklisted sender
    Security,     \* AGGREGATE messages with key "security"
    Gossiped,     \* messages the P2P network or API clients deliver
    OnChain,      \* messages that chain sync finds in a chain batch
    MaxRetries,   \* MAX_RETRIES
    MaxFaults     \* bound: DB errors, fetch failures, timeouts and crashes

Kinds == {"POST", "AGGREGATE", "STORE", "PROGRAM", "INSTANCE", "FORGET"}

ASSUME ConstantsAssumption ==
    /\ Kind \in [Msg -> Kinds]
    /\ Original \in [Msg -> Msg]
    /\ Hashes \in [Msg -> SUBSET Msg]
    /\ BadSig \subseteq Msg
    /\ BadHash \subseteq Msg \ Remote
    /\ Malformed \subseteq Msg
    /\ Remote \subseteq Msg
    /\ Blacklisted \subseteq Msg
    /\ Security \subseteq Msg
    /\ Gossiped \subseteq Msg
    /\ OnChain \subseteq Msg \ Malformed
    /\ MaxRetries \in Nat \ {0}
    /\ MaxFaults \in Nat

VARIABLES
    pending,      \* item hashes with a row in pending_messages
    retries,      \* its retries column
    due,          \* its next_attempt has passed
    trusted,      \* its trusted_source column
    fetched,      \* its message JSON carries the item_content
    messages,     \* item hashes with a row in messages
    unfetched,    \* rows of messages whose item_content is NULL
    derived,      \* messages whose handler's row exists
    rejected,     \* item hashes with a row in rejected_messages
    forgotten,    \* item hashes with a row in forgotten_messages
    chainQ,       \* chain sync: inserted into messages, not yet queued
    resolving,    \* chain sync: contents its background task resolves
    fetching,     \* content_fetch: rows it read, contents on their way
    phase,        \* processor loop: "idle", or "busy" with a batch
    task,         \* per message: where its task is, or its result
    snap,         \* per message: the retries of the selected row
    snapTrusted,  \* trusted_source of the selected rows
    snapFetched,  \* selected rows that carried the content
    toDelete,     \* the to_delete list of the batch
    target,       \* per FORGET task: the hash being forgotten
    left,         \* per FORGET task: the hashes not yet done
    typed,        \* FORGET tasks whose target was found in messages
    faults,       \* faults so far
    received,     \* history: messages ever written to a table
    anchored      \* history: messages chain sync ever inserted

rowVars   == <<pending, retries, due, trusted, fetched>>
tableVars == <<messages, unfetched, derived, rejected, forgotten>>
syncVars  == <<chainQ, resolving, fetching>>
batchVars == <<phase, snap, snapTrusted, snapFetched, toDelete>>
forgetVars == <<target, left, typed>>
histVars  == <<received, anchored>>
vars == <<rowVars, tableVars, syncVars, batchVars, task, forgetVars, faults, histVars>>

Running == {"apply", "mark", "erase", "remove", "store"}
Results == {"processed", "rejected", "retry", "deferred"}
Tasks   == {"none", "queued"} \cup Running \cup Results

TypeOK ==
    /\ pending \subseteq Msg
    /\ retries \in [Msg -> Nat]
    /\ due \subseteq pending
    /\ trusted \subseteq pending
    /\ fetched \subseteq pending
    /\ messages \subseteq Msg
    /\ unfetched \subseteq messages
    /\ derived \subseteq Msg
    /\ rejected \subseteq Msg
    /\ forgotten \subseteq Msg
    /\ chainQ \subseteq Msg
    /\ resolving \subseteq Msg
    /\ fetching \subseteq Msg
    /\ phase \in {"idle", "busy"}
    /\ task \in [Msg -> Tasks]
    /\ snap \in [Msg -> Nat]
    /\ snapTrusted \subseteq Msg
    /\ snapFetched \subseteq Msg
    /\ toDelete \subseteq Msg
    /\ target \in [Msg -> Msg]
    /\ left \in [Msg -> SUBSET Msg]
    /\ typed \subseteq Msg
    /\ faults \in 0..MaxFaults
    /\ received \subseteq Msg
    /\ anchored \subseteq Msg

Init ==
    /\ pending = {} /\ due = {} /\ trusted = {} /\ fetched = {}
    /\ retries = [m \in Msg |-> 0]
    /\ messages = {} /\ unfetched = {} /\ derived = {}
    /\ rejected = {} /\ forgotten = {}
    /\ chainQ = {} /\ resolving = {} /\ fetching = {}
    /\ phase = "idle"
    /\ task = [m \in Msg |-> "none"]
    /\ snap = [m \in Msg |-> 0]
    /\ snapTrusted = {} /\ snapFetched = {} /\ toDelete = {}
    /\ target = [m \in Msg |-> m]
    /\ left = [m \in Msg |-> {}]
    /\ typed = {}
    /\ faults = 0
    /\ received = {} /\ anchored = {}

\* Something outside the program's control goes wrong in this step.
Fault ==
    /\ faults < MaxFaults
    /\ faults' = faults + 1

-----------------------------------------------------------------------------
(***************************************************************************)
(* Ingress: the writers of pending_messages.                               *)
(***************************************************************************)

\* Wrong variant of InsertPending: trusted_source defaults to true.
InsertPending_trusting(m, isTrusted) ==
    IF m \in pending
    THEN UNCHANGED rowVars
    ELSE /\ pending' = pending \cup {m}
         /\ retries' = [retries EXCEPT ![m] = 0]
         /\ due' = due \cup {m}
         /\ trusted' = trusted \cup {m}
         /\ fetched' = fetched \ {m}

\* INSERT INTO pending_messages ... ON CONFLICT (item_hash) DO NOTHING, of a
\* row that has no earlier attempt.  A row already there is left as it is.
InsertPending(m, isTrusted) ==
    IF m \in pending
    THEN UNCHANGED rowVars
    ELSE /\ pending' = pending \cup {m}
         /\ retries' = [retries EXCEPT ![m] = 0]
         /\ due' = due \cup {m}
         /\ trusted' = IF isTrusted THEN trusted \cup {m} ELSE trusted \ {m}
         /\ fetched' = fetched \ {m}

\* The P2P consumer stores a gossiped message, unverified.
insert_pending_message(m) ==
    /\ m \in Gossiped
    /\ InsertPending(m, FALSE)
    /\ received' = received \cup {m}
    /\ UNCHANGED <<tableVars, syncVars, batchVars, task, forgetVars, faults, anchored>>

\* POST /messages: parse, verify the signature and the hash, then store.
post_message(m) ==
    /\ m \in Gossiped \ (Malformed \cup BadSig \cup BadHash)
    /\ InsertPending(m, FALSE)
    /\ received' = received \cup {m}
    /\ UNCHANGED <<tableVars, syncVars, batchVars, task, forgetVars, faults, anchored>>

\* Chain sync: filter_new_messages drops what messages already holds, then
\* the rest is inserted into messages, before any handler has seen it.
filter_new_messages(m) == m \notin messages

batch_insert_messages(m) ==
    /\ m \in OnChain
    /\ filter_new_messages(m)
    /\ messages' = messages \cup {m}
    /\ unfetched' = IF m \in Remote THEN unfetched \cup {m} ELSE unfetched
    /\ chainQ' = chainQ \cup {m}
    /\ received' = received \cup {m}
    /\ anchored' = anchored \cup {m}
    /\ UNCHANGED <<rowVars, derived, rejected, forgotten, resolving, fetching, batchVars,
                   task, forgetVars, faults>>

\* The query of filter_new_messages fails, which skips it: the upsert returns
\* the rows whose content is still NULL, and they are queued again.
batch_insert_unfiltered(m) ==
    /\ m \in OnChain \cap unfetched
    /\ Fault
    /\ chainQ' = chainQ \cup {m}
    /\ UNCHANGED <<rowVars, tableVars, resolving, fetching, batchVars, task, forgetVars,
                   histVars>>

\* ... and a second statement queues the inserted rows as trusted; then a
\* background task is spawned to resolve the contents that are missing.
queue_messages_for_processing(m) ==
    /\ m \in chainQ
    /\ chainQ' = chainQ \ {m}
    /\ resolving' = IF m \in Remote THEN resolving \cup {m} ELSE resolving
    /\ InsertPending(m, TRUE)
    /\ UNCHANGED <<tableVars, fetching, batchVars, task, forgetVars, faults, histVars>>

\* That second statement fails: the sync cycle returns its error and drops them.
queue_messages_fails(m) ==
    /\ m \in chainQ
    /\ Fault
    /\ chainQ' = chainQ \ {m}
    /\ UNCHANGED <<rowVars, tableVars, resolving, fetching, batchVars, task, forgetVars,
                   histVars>>

-----------------------------------------------------------------------------
(***************************************************************************)
(* The content services: they complete rows of messages whose content is   *)
(* NULL, and touch pending rows while the processor may hold a snapshot.   *)
(* What they read is stale when the content arrives: the row may have been *)
(* completed, processed or forgotten since.                                *)
(***************************************************************************)

\* content_fetch reads the rows that lack their content, and asks the peers.
get_unfetched_messages(m) ==
    /\ m \in unfetched \ (Blacklisted \cup fetching)
    /\ fetching' = fetching \cup {m}
    /\ UNCHANGED <<rowVars, tableVars, chainQ, resolving, batchVars, task, forgetVars,
                   faults, histVars>>

\* A new JSON for a pending row: no attempt is behind it, and it is due.
Refresh(m) ==
    /\ retries' = [retries EXCEPT ![m] = 0]
    /\ due' = due \cup {m}
    /\ fetched' = fetched \cup {m}

\* The content arrives: store_fetched_content, then queue_for_processing
\* upserts the pending row from messages (nothing when the row is gone);
\* trusted only when the pending row is new.
content_fetch(m) ==
    /\ m \in fetching
    /\ fetching' = fetching \ {m}
    /\ unfetched' = unfetched \ {m}
    /\ IF m \in messages
       THEN /\ pending' = pending \cup {m}
            /\ trusted' = IF m \in pending THEN trusted ELSE trusted \cup {m}
            /\ Refresh(m)
       ELSE UNCHANGED rowVars
    /\ UNCHANGED <<messages, derived, rejected, forgotten, chainQ, resolving, batchVars,
                   task, forgetVars, faults, histVars>>

\* No peer has it; or it is stored but not queued (queue_for_processing
\* fails), or given up (mark_unfetchable writes the empty string).
content_fetch_fails(m) ==
    /\ m \in fetching
    /\ Fault
    /\ fetching' = fetching \ {m}
    /\ unfetched' \in {unfetched, unfetched \ {m}}
    /\ UNCHANGED <<rowVars, messages, derived, rejected, forgotten, chainQ, resolving,
                   batchVars, task, forgetVars, histVars>>

\* Wrong variant of resolve_and_update_content: the row is assumed to be there.
resolve_and_update_content_blind(m) ==
    /\ m \in resolving
    /\ resolving' = resolving \ {m}
    /\ unfetched' = unfetched \ {m}
    /\ Refresh(m)
    /\ UNCHANGED <<pending, trusted, messages, derived, rejected, forgotten, chainQ,
                   fetching, batchVars, task, forgetVars, faults, histVars>>

\* Chain sync's background task: the same, but an UPDATE of a pending row that
\* is still there, its JSON rebuilt from messages (NULL, so an error that is
\* ignored, when that row is gone).
resolve_and_update_content(m) ==
    /\ m \in resolving
    /\ resolving' = resolving \ {m}
    /\ unfetched' = unfetched \ {m}
    /\ IF m \in pending \cap messages
       THEN Refresh(m)
       ELSE UNCHANGED <<retries, due, fetched>>
    /\ UNCHANGED <<pending, trusted, messages, derived, rejected, forgotten, chainQ,
                   fetching, batchVars, task, forgetVars, faults, histVars>>

\* The gateway does not have it: the task moves on.
resolve_fails(m) ==
    /\ m \in resolving
    /\ Fault
    /\ resolving' = resolving \ {m}
    /\ UNCHANGED <<rowVars, tableVars, chainQ, fetching, batchVars, task, forgetVars, histVars>>

-----------------------------------------------------------------------------
(***************************************************************************)
(* process_batch, phases 1 and 2: select, pre-filter, classify.            *)
(***************************************************************************)

\* The tables keyed by item_hash that tell a message already processed.  A
\* STORE is never found (file_pins.item_hash is the hash of the file), nor is
\* a FORGET (it has no table).
batch_check_duplicates(S) ==
    {m \in S \cap derived : Kind[m] \notin {"STORE", "FORGET"}}

\* Wrong variant of batch_check_forgotten: the check is skipped.
batch_check_forgotten_skipped(S) == S \cap {}

\* The rows of forgotten_messages.
batch_check_forgotten(S) == S \cap forgotten

\* Rows the SELECT of process_batch returns.
DueRows == {m \in pending \cap due : retries[m] < MaxRetries}

process_batch ==
    LET rows    == DueRows
        dropped == batch_check_duplicates(rows) \cup batch_check_forgotten(rows)
                       \cup (rows \cap Blacklisted)
    IN  /\ phase = "idle"
        /\ rows # {}
        /\ phase' = "busy"
        /\ toDelete' = dropped
        /\ task' = [m \in Msg |-> IF m \in rows \ dropped THEN "queued" ELSE "none"]
        /\ snap' = [m \in Msg |-> IF m \in rows THEN retries[m] ELSE 0]
        /\ snapTrusted' = rows \cap trusted
        /\ snapFetched' = rows \cap fetched
        /\ UNCHANGED <<rowVars, tableVars, syncVars, forgetVars, faults, histVars>>

-----------------------------------------------------------------------------
(***************************************************************************)
(* Phase 3: one task per message, all of a batch concurrently.  Security   *)
(* aggregates start when every other task has ended, one at a time per     *)
(* address.                                                                *)
(***************************************************************************)

Ended(m) == task[m] \in {"none"} \cup Results

\* Wrong variant of MayStart: each waits for the other of its group.
MayStart_waiting(m) ==
    /\ task[m] = "queued"
    /\ m \in Security =>
          \A n \in Msg \ {m} :
              Ended(n) \/ (n \in Security /\ Sender[n] # Sender[m])

MayStart(m) ==
    /\ task[m] = "queued"
    /\ m \in Security =>
          \A n \in Msg \ {m} :
              Ended(n) \/ (n \in Security /\ (task[n] = "queued" \/ Sender[n] # Sender[m]))

Goto(m, where) == task' = [task EXCEPT ![m] = where]

needs_content_fetch(m) == m \in Remote \ snapFetched

\* serde_json::from_value fails: an error, hence a retry.
parse_fails(m) ==
    /\ MayStart(m)
    /\ m \in Malformed
    /\ Goto(m, "retry")
    /\ UNCHANGED <<rowVars, tableVars, syncVars, batchVars, forgetVars, faults, histVars>>

\* The content cannot be fetched: defer_pending moves next_attempt, and the
\* retry counter is not touched.
defer_pending(m) ==
    /\ MayStart(m)
    /\ m \notin Malformed
    /\ needs_content_fetch(m)
    /\ Fault
    /\ due' = due \ {m}
    /\ Goto(m, "deferred")
    /\ UNCHANGED <<pending, retries, trusted, fetched, tableVars, syncVars, batchVars,
                   forgetVars, histVars>>

\* Signature (of untrusted rows only) and item hash (of inline messages).
Verified(m) == /\ m \in snapTrusted \/ m \notin BadSig
               /\ m \notin BadHash

\* Wrong variant of check_ownership: whoever asks.
check_ownership_any(f, h) == h \in messages \/ (h \in derived /\ Kind[h] = "POST")

\* ForgetHandler::check_ownership: by the message, else by the post.
check_ownership(f, h) ==
    /\ h \in messages \/ (h \in derived /\ Kind[h] = "POST")
    /\ Sender[h] = Sender[f]

\* Wrong variant of forget_validate: the signature is left to the processor.
forget_validate_unsigned(f) ==
    /\ Hashes[f] # {}
    /\ \A h \in Hashes[f] :
          /\ ~ (h \in messages /\ Kind[h] = "FORGET")
          /\ h \notin forgotten
          /\ check_ownership(f, h)

\* ForgetHandler::validate; it verifies the signature of trusted rows too.
forget_validate(f) ==
    /\ Hashes[f] # {}
    /\ f \notin BadSig
    /\ \A h \in Hashes[f] :
          /\ ~ (h \in messages /\ Kind[h] = "FORGET")
          /\ h \notin forgotten
          /\ check_ownership(f, h)

\* PostHandler::validate_amend, vm_common::validate_amendment: the post or the
\* VM it amends is there, is of its kind, and is no amend.
validate_amend(m) ==
    Original[m] # m => /\ Original[m] \in derived
                       /\ Kind[Original[m]] = Kind[m]
                       /\ Original[Original[m]] = Original[m]

validate(m) == IF Kind[m] = "FORGET" THEN forget_validate(m) ELSE validate_amend(m)

\* A verified and valid message goes on to its handler's writes.
process_single_message(m) ==
    /\ MayStart(m)
    /\ m \notin Malformed
    /\ Verified(m)
    /\ validate(m)
    /\ IF Kind[m] = "FORGET"
       THEN /\ Goto(m, "mark")
            /\ left' = [left EXCEPT ![m] = Hashes[m]]
       ELSE /\ Goto(m, "apply")
            /\ UNCHANGED left
    /\ UNCHANGED <<rowVars, tableVars, syncVars, batchVars, target, typed, faults, histVars>>

\* Rejected before any write: a failed check, or one the model abstracts
\* (content format, permissions, balance, VM dependencies, a DB error while
\* validating: every HandlerError becomes "rejected").
reject_message(m) ==
    /\ MayStart(m)
    /\ m \notin Malformed
    /\ Goto(m, "rejected")
    /\ UNCHANGED <<rowVars, tableVars, syncVars, batchVars, forgetVars, faults, histVars>>

\* The handler of any type but FORGET writes its rows.
handler_process(m) ==
    /\ task[m] = "apply"
    /\ derived' = derived \cup {m}
    /\ Goto(m, "store")
    /\ UNCHANGED <<rowVars, messages, unfetched, rejected, forgotten, syncVars,
                   batchVars, forgetVars, faults, histVars>>

\* store_processed_message: upsert into messages.  On conflict the item_content
\* column is not updated, so a NULL content stays NULL.
store_processed_message(m) ==
    /\ task[m] = "store"
    /\ messages' = messages \cup {m}
    /\ Goto(m, "processed")
    /\ UNCHANGED <<rowVars, unfetched, derived, rejected, forgotten, syncVars,
                   batchVars, forgetVars, faults, histVars>>

-----------------------------------------------------------------------------
(***************************************************************************)
(* ForgetHandler::process, for each hash of the FORGET message.            *)
(***************************************************************************)

\* get_message (its type drives the rest) and mark_forgotten.
mark_forgotten(f, h) ==
    /\ task[f] = "mark"
    /\ h \in left[f]
    /\ forgotten' = forgotten \cup {h}
    /\ target' = [target EXCEPT ![f] = h]
    /\ typed' = IF h \in messages THEN typed \cup {f} ELSE typed \ {f}
    /\ Goto(f, "erase")
    /\ UNCHANGED <<rowVars, messages, unfetched, derived, rejected, syncVars,
                   batchVars, left, faults, histVars>>

\* The amends of a forgotten post, as cascade_forget finds them in posts.
AmendsOf(h) == {a \in derived \ {h} : Kind[h] = "POST" /\ Original[a] = h}

\* The amendment a is of the VM h: its column replaces says so.
IsUpdate(a, h) ==
    /\ {Kind[a], Kind[h]} \subseteq {"PROGRAM", "INSTANCE"}
    /\ a # h /\ Original[a] = h

\* The rows delete_vm_updates deletes of a forgotten VM: of the amendments
\* nothing else is touched, neither messages nor forgotten_messages.
VmUpdatesOf(h) == {a \in derived : IsUpdate(a, h)}

\* Wrong variant of EraseRows: amends are deleted without being marked.
EraseRows_unmarked(marked, stripped, removed) ==
    /\ UNCHANGED forgotten
    /\ derived' = derived \ stripped
    /\ messages' = messages \ removed
    /\ unfetched' = unfetched \ removed

\* What the statements of a FORGET erase, in that order: mark_forgotten,
\* delete_derived_data, delete_message.
EraseRows(marked, stripped, removed) ==
    /\ forgotten' = forgotten \cup marked
    /\ derived' = derived \ stripped
    /\ messages' = messages \ removed
    /\ unfetched' = unfetched \ removed

\* cascade_forget and delete_derived_data (for a STORE: its pin).  Nothing is
\* done when the message's type was not found.
cascade_forget(f) ==
    /\ task[f] = "erase"
    /\ IF f \in typed
       THEN LET amends == AmendsOf(target[f])
            IN  EraseRows(amends, amends \cup {target[f]} \cup VmUpdatesOf(target[f]), amends)
       ELSE UNCHANGED <<forgotten, messages, unfetched, derived>>
    /\ Goto(f, "remove")
    /\ UNCHANGED <<rowVars, rejected, syncVars, batchVars, forgetVars, faults, histVars>>

\* Wrong variant of delete_message: the row stays, as with a status update.
delete_message_status_only(f) ==
    /\ task[f] = "remove"
    /\ left' = [left EXCEPT ![f] = @ \ {target[f]}]
    /\ Goto(f, IF left[f] = {target[f]} THEN "store" ELSE "mark")
    /\ UNCHANGED <<rowVars, messages, unfetched, derived, rejected, forgotten, syncVars,
                   batchVars, target, typed, faults, histVars>>

\* delete_message, then the next hash.
delete_message(f) ==
    /\ task[f] = "remove"
    /\ messages' = messages \ {target[f]}
    /\ unfetched' = unfetched \ {target[f]}
    /\ left' = [left EXCEPT ![f] = @ \ {target[f]}]
    /\ Goto(f, IF left[f] = {target[f]} THEN "store" ELSE "mark")
    /\ UNCHANGED <<rowVars, derived, rejected, forgotten, syncVars, batchVars,
                   target, typed, faults, histVars>>

-----------------------------------------------------------------------------
(***************************************************************************)
(* What goes wrong inside a task.                                          *)
(***************************************************************************)

\* The cascade stops between two of its statements: the amends come first, each
\* marked, then stripped, then removed, or the updates of a VM, its instances and
\* then its programs; then the target's derived rows.
PartialErase(f) ==
    LET amends  == AmendsOf(target[f])
        updates == VmUpdatesOf(target[f])
    IN  \E marked \in SUBSET amends :
        \E removed \in SUBSET marked :
        \E stripped \in SUBSET (marked \cup {target[f]}) :
        \E gone \in {{}, {a \in updates : Kind[a] = "INSTANCE"}, updates} :
            /\ removed \subseteq stripped
            /\ target[f] \in stripped => removed = amends /\ gone = updates
            /\ EraseRows(marked, stripped \cup gone, removed)

\* The statements of a handler are no transaction: those before the one that
\* fails, or before the await where the task is cancelled, stay.
PartialWrites(m) ==
    \/ /\ task[m] = "apply"
       /\ derived' = derived \cup {m}
       /\ UNCHANGED <<forgotten, messages, unfetched>>
    \/ /\ task[m] = "erase" /\ m \in typed
       /\ PartialErase(m)
    \/ UNCHANGED <<forgotten, messages, unfetched, derived>>

\* Wrong variant of handler_db_error: the error is logged and the task goes on.
handler_db_error_swallowed(m) ==
    /\ task[m] \in Running \ {"store"}
    /\ Fault
    /\ Goto(m, "store")
    /\ PartialWrites(m)
    /\ UNCHANGED <<rowVars, rejected, syncVars, batchVars, forgetVars, histVars>>

\* A statement of the handler fails: HandlerError::Database is a rejection like
\* any other.
handler_db_error(m) ==
    /\ task[m] \in Running \ {"store"}
    /\ Fault
    /\ Goto(m, "rejected")
    /\ PartialWrites(m)
    /\ UNCHANGED <<rowVars, rejected, syncVars, batchVars, forgetVars, histVars>>

\* The 30 s timeout cancels the task at an await, or store_processed_message
\* fails: both are errors of process_single_message, hence a retry.
task_error(m) ==
    /\ task[m] \in Running \/ MayStart(m)
    /\ Fault
    /\ Goto(m, "retry")
    /\ PartialWrites(m)
    /\ UNCHANGED <<rowVars, rejected, syncVars, batchVars, forgetVars, histVars>>

-----------------------------------------------------------------------------
(***************************************************************************)
(* Phase 4: the results, once every task has ended.                        *)
(***************************************************************************)

AllEnded == phase = "busy" /\ \A m \in Msg : Ended(m)

\* DELETE FROM pending_messages.
DeletePending(S) ==
    /\ pending' = pending \ S
    /\ retries' = [m \in Msg |-> IF m \in S THEN 0 ELSE retries[m]]
    /\ due' = due \ S
    /\ trusted' = trusted \ S
    /\ fetched' = fetched \ S

collect_processed(m) ==
    /\ AllEnded
    /\ task[m] = "processed"
    /\ toDelete' = toDelete \cup {m}
    /\ Goto(m, "none")
    /\ UNCHANGED <<rowVars, tableVars, syncVars, phase, snap, snapTrusted, snapFetched,
                   forgetVars, faults, histVars>>

collect_deferred(m) ==
    /\ AllEnded
    /\ task[m] = "deferred"
    /\ Goto(m, "none")
    /\ UNCHANGED <<rowVars, tableVars, syncVars, batchVars, forgetVars, faults, histVars>>

\* Wrong variant of LastAttempt: one attempt too many.
LastAttempt_late(m) == snap[m] + 1 > MaxRetries

\* update_retry gives up at MAX_RETRIES attempts, counted from the snapshot.
LastAttempt(m) == snap[m] + 1 >= MaxRetries

Moves(m) == task[m] = "rejected" \/ (task[m] = "retry" /\ LastAttempt(m))

\* Wrong variant of move_to_rejected: the row is dropped, not moved.
move_to_rejected_dropped(m) ==
    /\ AllEnded
    /\ Moves(m)
    /\ DeletePending({m})
    /\ Goto(m, "none")
    /\ UNCHANGED <<tableVars, syncVars, batchVars, forgetVars, faults, histVars>>

\* Upsert into rejected_messages, then delete the pending row.
move_to_rejected(m) ==
    /\ AllEnded
    /\ Moves(m)
    /\ rejected' = rejected \cup {m}
    /\ DeletePending({m})
    /\ Goto(m, "none")
    /\ UNCHANGED <<messages, unfetched, derived, forgotten, syncVars, batchVars,
                   forgetVars, faults, histVars>>

\* UPDATE of the row, if it is there: the snapshot's retries plus one, and a
\* next_attempt in the future.
update_retry(m) ==
    /\ AllEnded
    /\ task[m] = "retry" /\ ~ LastAttempt(m)
    /\ IF m \in pending
       THEN /\ retries' = [retries EXCEPT ![m] = snap[m] + 1]
            /\ due' = due \ {m}
       ELSE UNCHANGED <<retries, due>>
    /\ Goto(m, "none")
    /\ UNCHANGED <<pending, trusted, fetched, tableVars, syncVars, batchVars, forgetVars,
                   faults, histVars>>

\* The error of move_to_rejected or update_retry is dropped ("let _ ="); the
\* rejected row may have been written and the pending row not deleted.
result_not_written(m) ==
    /\ AllEnded
    /\ task[m] \in {"rejected", "retry"}
    /\ Fault
    /\ \/ UNCHANGED rejected
       \/ Moves(m) /\ rejected' = rejected \cup {m}
    /\ Goto(m, "none")
    /\ UNCHANGED <<rowVars, messages, unfetched, derived, forgotten, syncVars,
                   batchVars, forgetVars, histVars>>

\* The loop is back at its tick: the batch's locals are gone.
EndBatch ==
    /\ phase' = "idle"
    /\ toDelete' = {}
    /\ snap' = [m \in Msg |-> 0]
    /\ snapTrusted' = {}
    /\ snapFetched' = {}
    /\ target' = [m \in Msg |-> m]
    /\ left' = [m \in Msg |-> {}]
    /\ typed' = {}

AllCollected == phase = "busy" /\ \A m \in Msg : task[m] = "none"

batch_delete_pending ==
    /\ AllCollected
    /\ DeletePending(toDelete)
    /\ EndBatch
    /\ UNCHANGED <<tableVars, syncVars, task, faults, histVars>>

batch_delete_fails ==
    /\ AllCollected
    /\ toDelete # {}
    /\ Fault
    /\ EndBatch
    /\ UNCHANGED <<rowVars, tableVars, syncVars, task, histVars>>

-----------------------------------------------------------------------------

\* The process dies and is restarted: only the tables survive.  (A handler cut
\* short by it is a task_error just before it.)
crash ==
    /\ phase = "busy" \/ chainQ \cup resolving \cup fetching # {}
    /\ Fault
    /\ EndBatch
    /\ task' = [m \in Msg |-> "none"]
    /\ chainQ' = {} /\ resolving' = {} /\ fetching' = {}
    /\ UNCHANGED <<rowVars, tableVars, histVars>>

\* Time passes until the next_attempt of a row.
elapse(m) ==
    /\ m \in pending \ due
    /\ due' = due \cup {m}
    /\ UNCHANGED <<pending, retries, trusted, fetched, tableVars, syncVars, batchVars,
                   task, forgetVars, faults, histVars>>

Ingress(m) ==
    \/ insert_pending_message(m)
    \/ post_message(m)
    \/ batch_insert_messages(m)
    \/ batch_insert_unfiltered(m)

Services(m) ==
    \/ queue_messages_for_processing(m)
    \/ queue_messages_fails(m)
    \/ get_unfetched_messages(m)
    \/ content_fetch(m)
    \/ content_fetch_fails(m)
    \/ resolve_and_update_content(m)
    \/ resolve_fails(m)

\* One step of a task, of the processor's own doing.
TaskStep(m) ==
    \/ parse_fails(m)
    \/ process_single_message(m)
    \/ reject_message(m)
    \/ handler_process(m)
    \/ store_processed_message(m)
    \/ \E h \in Msg : mark_forgotten(m, h)
    \/ cascade_forget(m)
    \/ delete_message(m)

TaskFault(m) ==
    \/ defer_pending(m)
    \/ handler_db_error(m)
    \/ task_error(m)
    \/ result_not_written(m)

Collect(m) ==
    \/ collect_processed(m)
    \/ collect_deferred(m)
    \/ move_to_rejected(m)
    \/ update_retry(m)

Next ==
    \/ \E m \in Msg : \/ Ingress(m) \/ Services(m) \/ elapse(m)
                      \/ TaskStep(m) \/ TaskFault(m) \/ Collect(m)
    \/ process_batch
    \/ batch_delete_pending
    \/ batch_delete_fails
    \/ crash

Spec == Init /\ [][Next]_vars

\* The processor loop ticks for ever and each of its awaits returns; a row's
\* next_attempt passes; chain sync runs its second statement.  Nothing is
\* assumed of the network, of clients or of the content services.
Fairness ==
    /\ WF_vars(process_batch \/ batch_delete_pending
                  \/ \E m \in Msg : TaskStep(m) \/ Collect(m))
    /\ \A m \in Msg : WF_vars(elapse(m)) /\ WF_vars(queue_messages_for_processing(m))

FairSpec == Spec /\ Fairness

-----------------------------------------------------------------------------
(***************************************************************************)
(* Properties.                                                             *)
(***************************************************************************)

\* Amendments of a VM that a FORGET has marked.
Orphaned == {m \in Msg : \E h \in forgotten : IsUpdate(m, h)}

\* A message that some table ever held is still accounted for: waiting in
\* pending_messages, recorded in messages, applied, rejected, forgotten, of a
\* blacklisted sender, or an amendment of a forgotten VM: its one row may have
\* been that of instances or programs, which delete_vm_updates deletes and
\* leaves no mark.  The rows process_batch deletes are chosen from checks made
\* long before the DELETE, concurrently with FORGET handlers that remove what
\* those checks saw, and with faults at every statement.
NoMessageLost ==
    received \subseteq pending \cup messages \cup derived \cup rejected
                         \cup forgotten \cup Blacklisted \cup Orphaned

\* A pending row never reaches MAX_RETRIES: the SELECT of process_batch would
\* skip it for ever.  update_retry writes the snapshot's counter plus one over
\* a row whose counter content_fetch may have reset meanwhile.
RetriesBelowMax == \A m \in pending : retries[m] < MaxRetries

\* A message whose signature does not verify has an effect or is recorded only
\* if chain sync inserted it: trusted_source cannot be gained on the way
\* through gossip, content_fetch's upsert and retries.
UnsignedOnlyFromChain == BadSig \cap (derived \cup messages) \subseteq anchored

\* f names g, both by one sender, and h is g or an amend of the post g.
Authorizes(f, h) ==
    /\ Kind[f] = "FORGET"
    /\ f \notin BadSig
    /\ \E g \in Hashes[f] : /\ Sender[g] = Sender[f]
                            /\ h = g \/ (Kind[g] = "POST" /\ Original[h] = g)

\* Whatever is marked forgotten is covered by a FORGET message that was received
\* and is signed, trusted source or not, by the same sender as the forgotten
\* content; a cascade reaches amends of that content only, and only posts.
ForgetIsAuthorized == \A h \in forgotten : \E f \in received : Authorizes(f, h)

\* A gossiped message is recorded in messages only after its handler's rows
\* were written, and those rows go away only by a FORGET: of the message, or of
\* the VM that it amends (the message is then still recorded, and not forgotten).
RecordedIsApplied ==
    \A m \in messages \ anchored :
        Kind[m] # "FORGET" => m \in derived \cup forgotten \cup Orphaned

\* Once a forgotten message's rows are erased and the batch is over, they never
\* come back, whatever the network, chain sync or content_fetch redeliver.
ForgottenStaysErased ==
    \A t \in Msg :
        [](t \in forgotten \ derived /\ phase = "idle" => [](t \notin derived))

\* Every pending row is resolved: however it fails, it is processed, rejected
\* or dropped in the end, and is not retried or deferred for ever (faults being
\* finitely many).
PendingIsResolved == \A m \in Msg : m \in pending ~> m \notin pending

\* A FORGET that has marked its target, while no other task of the batch works
\* on that target, ends with the target out of messages.  It holds as long as
\* nothing goes wrong between the mark and the delete: with faults it does not.
ForgetCompletes ==
    \A f \in Msg : \A h \in Hashes[f] :
        (task[f] = "erase" /\ target[f] = h /\ task[h] = "none") ~> h \notin messages

\* Where message m is in its life, as the tables show it: a FORGET has marked it or
\* not, its handler's row is there or not.
Stage(m) ==
    IF m \in forgotten THEN IF m \in derived THEN "leaving" ELSE "forgotten"
    ELSE IF m \in derived THEN "effective"
    ELSE IF m \in pending \cup messages \cup rejected THEN "waiting"
    ELSE "absent"

Life == [m \in Msg |-> Stage(m)]
Hand == {m \in Msg : task[m] # "none"}
Authorized == {fh \in Msg \X Msg : Authorizes(fh[1], fh[2])}
Updates == {ah \in Msg \X Msg : IsUpdate(ah[1], ah[2])}

Lifecycle == INSTANCE MessageLifecycle WITH life <- Life, hand <- Hand, Ignored <- Blacklisted

\* Statement by statement, with tasks that interleave, fail half-way or are cut, with
\* snapshots that are stale and rows that chain sync wrote first, the tables take a message
\* only along the life of MessageLifecycle.
FollowsLifecycle == Lifecycle!Spec

(***************************************************************************)
(* What the documentation says and the code does not do.                   *)
(***************************************************************************)

\* docs/ARCHITECTURE.md: a message whose handler processed it is "moved to
\* messages table".
AppliedIsRecorded ==
    phase = "idle" => derived \subseteq messages \cup pending \cup rejected \cup forgotten

=============================================================================
