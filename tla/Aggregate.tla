------------------------------- MODULE Aggregate -------------------------------
(***************************************************************************)
(* One aggregate, an (address, key) pair: its row in aggregates and its    *)
(* rows in aggregate_elements.  Written by the AGGREGATE handler           *)
(* (src/handlers/aggregate.rs), by FORGET's cascade (handlers/forget.rs),  *)
(* by the API's refresh of dirty rows (web/handlers.rs) and by the startup *)
(* backfill (jobs/backfill.rs), none of them in a transaction.             *)
(*                                                                         *)
(* JSON contents are abstracted to fields (paths of the document): an      *)
(* element writes some, and the merged content knows of each field which   *)
(* element's value it shows, as a set of at most one element.              *)
(***************************************************************************)
EXTENDS Naturals, FiniteSets

CONSTANTS
    Element,         \* AGGREGATE messages of this address and key
    Field,           \* fields of the content
    Writes,          \* Writes[e]: the fields e sets
    Time,            \* Time[e]: content.time
    Rank,            \* Rank[e]: the place of e's item_hash in the order of strings
    Anchored,        \* elements chain sync put into messages before their handler
    Forget,          \* FORGET messages
    Hashes,          \* Hashes[f]: the elements f names
    Reader,          \* API requests that read the aggregate
    Security,        \* the key is "security": handlers run one at a time
    DirtyThreshold,  \* more elements than this are not rebuilt at once (1000)
    MaxBackfills     \* bound: restarts, each of which runs the backfill

ASSUME ConstantsAssumption ==
    /\ Writes \in [Element -> SUBSET Field]
    /\ Time \in [Element -> Nat]
    /\ Rank \in [Element -> Nat]
    /\ \A d, e \in Element : Rank[d] = Rank[e] => d = e
    /\ Anchored \subseteq Element
    /\ Hashes \in [Forget -> SUBSET Element]
    /\ Element \cap Forget = {} /\ Element \cap Reader = {} /\ Forget \cap Reader = {}
    /\ Security \in BOOLEAN
    /\ DirtyThreshold \in Nat
    /\ MaxBackfills \in Nat

\* The elements are finitely many, so some element of any of them is the latest.
ASSUME LatestAssumption ==
    \A S \in SUBSET Element : S # {} => \E e \in S : \A d \in S : Time[d] <= Time[e]

Task == Element \cup Forget \cup Reader

VARIABLES
    elements,   \* rows of aggregate_elements
    exists,     \* the row of aggregates is there; its columns:
    content,    \*   content[x]: the element whose value field x shows, if any
    time,       \*   time
    dirty,      \*   dirty
    at,         \* at[t]: the next statement of task t
    seen,       \* seen[t]: the content t read
    snapshot,   \* snapshot[t]: the elements t read
    victim,     \* victim[f]: the element FORGET f is at
    left,       \* left[f]: the hashes f has not done
    backfills,  \* backfills so far
    raced       \* history: a refresh overlapped another writer

rowVars == <<exists, content, time, dirty>>
locals  == <<seen, snapshot, victim, left>>
vars == <<elements, rowVars, at, locals, backfills, raced>>

Content == [Field -> SUBSET Element]
Empty == [x \in Field |-> {}]

TypeOK ==
    /\ elements \subseteq Element
    /\ exists \in BOOLEAN /\ dirty \in BOOLEAN
    /\ content \in Content
    /\ time \in Nat
    /\ at \in [Task -> {"queued", "insert", "read", "merge", "count", "mark",
                        "fetch", "write", "lookup", "delete", "remaining", "drop", "done"}]
    /\ seen \in [Task -> Content]
    /\ snapshot \in [Task -> SUBSET Element]
    /\ victim \in [Forget -> SUBSET Element]
    /\ left \in [Forget -> SUBSET Element]
    /\ backfills \in 0..MaxBackfills
    /\ raced \in BOOLEAN

Init ==
    /\ elements = {}
    /\ exists = FALSE /\ content = Empty /\ time = 0 /\ dirty = FALSE
    /\ at = [t \in Task |-> "queued"]
    /\ seen = [t \in Task |-> Empty]
    /\ snapshot = [t \in Task |-> {}]
    /\ victim = [f \in Forget |-> {}]
    /\ left = Hashes
    /\ backfills = 0 /\ raced = FALSE

-----------------------------------------------------------------------------

\* ORDER BY time ASC, item_hash ASC
Before(d, e) == Time[d] < Time[e] \/ (Time[d] = Time[e] /\ Rank[d] < Rank[e])

\* deep_merge of one element's content onto another content.
deep_merge(base, e) == [x \in Field |-> IF x \in Writes[e] THEN {e} ELSE base[x]]

\* The merge of the elements S in chronological order: each field shows the
\* last of the elements that write it.
MergeOf(S) ==
    [x \in Field |-> {e \in S : /\ x \in Writes[e]
                                /\ \A d \in S : x \in Writes[d] => d = e \/ Before(d, e)}]

LatestTime(S) == CHOOSE t \in {Time[e] : e \in S} : \A e \in S : Time[e] <= t

\* UPDATE aggregates SET content, time, dirty = false: no row, no effect.
UpdateRow(c, t) ==
    IF exists
    THEN content' = c /\ time' = t /\ dirty' = FALSE /\ UNCHANGED exists
    ELSE UNCHANGED rowVars

Goto(t, where) == at' = [at EXCEPT ![t] = where]

\* A FORGET goes on to its next hash, an API request may come again.
Return(t) ==
    Goto(t, CASE t \in Element -> "done"
              [] t \in Forget  -> IF left[t] = {} THEN "done" ELSE "lookup"
              [] t \in Reader  -> "queued")

Idle(t) == at[t] \in {"queued", "done"}

\* A refresh is between its two statements while someone else writes.
Overlap(t) == raced' = (raced \/ \E r \in Reader \ {t} : ~ Idle(r))

-----------------------------------------------------------------------------
(***************************************************************************)
(* AggregateHandler::process                                               *)
(***************************************************************************)

\* Wrong variant of MayStart: security aggregates are not serialised.
MayStart_parallel(e) == at[e] = "queued"

\* process_batch runs security aggregates of one address one at a time, after
\* the parallel tasks of the batch, all others and FORGETs concurrently.
MayStart(e) == Security => \A t \in (Element \cup Forget) \ {e} : Idle(t)

insert_element(e) ==
    /\ at[e] = "queued" /\ MayStart(e)
    /\ elements' = elements \cup {e}
    /\ Goto(e, "insert")
    /\ Overlap(e)
    /\ UNCHANGED <<rowVars, locals, backfills>>

\* INSERT ... ON CONFLICT (address, key) DO NOTHING
optimistic_insert(e) ==
    /\ at[e] = "insert"
    /\ IF exists
       THEN /\ Goto(e, "read")
            /\ UNCHANGED rowVars
       ELSE /\ exists' = TRUE /\ dirty' = FALSE
            /\ content' = deep_merge(Empty, e)
            /\ time' = Time[e]
            /\ Return(e)
    /\ Overlap(e)
    /\ UNCHANGED <<elements, locals, backfills>>

\* Wrong variant of read_existing: no out-of-order detection.
read_existing_in_order(e) ==
    /\ at[e] = "read"
    /\ IF ~ exists \/ dirty THEN Return(e) ELSE Goto(e, "merge")
    /\ seen' = [seen EXCEPT ![e] = content]
    /\ UNCHANGED <<elements, rowVars, snapshot, victim, left, backfills, raced>>

\* A dirty row is left for the API to rebuild; a newer element is merged on
\* top of what was read, an older one needs a rebuild.
read_existing(e) ==
    /\ at[e] = "read"
    /\ IF ~ exists \/ dirty THEN Return(e)
       ELSE Goto(e, IF Time[e] >= time THEN "merge" ELSE "count")
    /\ seen' = [seen EXCEPT ![e] = content]
    /\ UNCHANGED <<elements, rowVars, snapshot, victim, left, backfills, raced>>

merge_update(e) ==
    /\ at[e] = "merge"
    /\ UpdateRow(deep_merge(seen[e], e), Time[e])
    /\ Return(e)
    /\ Overlap(e)
    /\ UNCHANGED <<elements, locals, backfills>>

count_elements(e) ==
    /\ at[e] = "count"
    /\ Goto(e, IF Cardinality(elements) > DirtyThreshold THEN "mark" ELSE "fetch")
    /\ UNCHANGED <<elements, rowVars, locals, backfills, raced>>

mark_dirty(e) ==
    /\ at[e] = "mark"
    /\ dirty' = exists
    /\ Return(e)
    /\ Overlap(e)
    /\ UNCHANGED <<elements, exists, content, time, locals, backfills>>

-----------------------------------------------------------------------------
(***************************************************************************)
(* rebuild_aggregate_from_elements, for a handler, a FORGET or a request.  *)
(***************************************************************************)

rebuild_fetch(t) ==
    /\ at[t] = "fetch"
    /\ snapshot' = [snapshot EXCEPT ![t] = elements]
    /\ IF elements = {} THEN Return(t) ELSE Goto(t, "write")
    /\ UNCHANGED <<elements, rowVars, seen, victim, left, backfills, raced>>

rebuild_write(t) ==
    /\ at[t] = "write"
    /\ UpdateRow(MergeOf(snapshot[t]), LatestTime(snapshot[t]))
    /\ Return(t)
    /\ Overlap(t)
    /\ UNCHANGED <<elements, locals, backfills>>

-----------------------------------------------------------------------------
(***************************************************************************)
(* FORGET: cascade_forget on AGGREGATE, for each of its hashes.            *)
(***************************************************************************)

\* validate has found every target in messages.  FORGETs run with the parallel
\* tasks of a batch, never beside a security aggregate.
forget_start(f) ==
    /\ at[f] = "queued"
    /\ left[f] # {}
    /\ \A e \in Hashes[f] : at[e] = "done" \/ e \in Anchored
    /\ Security => \A e \in Element : Idle(e)
    /\ Goto(f, "lookup")
    /\ UNCHANGED <<elements, rowVars, locals, backfills, raced>>

\* SELECT address, key of the element: nothing to rebuild when it is not there.
forget_lookup(f, e) ==
    /\ at[f] = "lookup"
    /\ e \in left[f]
    /\ left' = [left EXCEPT ![f] = @ \ {e}]
    /\ victim' = [victim EXCEPT ![f] = {e}]
    /\ snapshot' = [snapshot EXCEPT ![f] = elements \cap {e}]
    /\ Goto(f, "delete")
    /\ UNCHANGED <<elements, rowVars, seen, backfills, raced>>

forget_delete(f) ==
    /\ at[f] = "delete"
    /\ elements' = elements \ victim[f]
    /\ IF snapshot[f] = {} THEN Return(f) ELSE Goto(f, "remaining")
    /\ Overlap(f)
    /\ UNCHANGED <<rowVars, locals, backfills>>

\* Wrong variant of forget_remaining: an empty aggregate is rebuilt.
forget_remaining_rebuilds(f) ==
    /\ at[f] = "remaining"
    /\ Goto(f, "fetch")
    /\ UNCHANGED <<elements, rowVars, locals, backfills, raced>>

forget_remaining(f) ==
    /\ at[f] = "remaining"
    /\ Goto(f, IF elements = {} THEN "drop" ELSE "fetch")
    /\ UNCHANGED <<elements, rowVars, locals, backfills, raced>>

\* DELETE FROM aggregates
forget_drop(f) ==
    /\ at[f] = "drop"
    /\ exists' = FALSE /\ content' = Empty /\ time' = 0 /\ dirty' = FALSE
    /\ Return(f)
    /\ Overlap(f)
    /\ UNCHANGED <<elements, locals, backfills>>

-----------------------------------------------------------------------------

\* The API finds the row dirty and refreshes it before it answers.
lazy_refresh(r) ==
    /\ at[r] = "queued"
    /\ exists /\ dirty
    /\ Goto(r, "fetch")
    /\ raced' = (raced \/ \E t \in Element \cup Forget : ~ Idle(t))
    /\ UNCHANGED <<elements, rowVars, locals, backfills>>

\* backfill_aggregates: an upsert that marks the row dirty.  A row that was
\* missing shows the latest element only and the earliest time.
backfill_rebuild ==
    /\ backfills < MaxBackfills
    /\ backfills' = backfills + 1
    /\ elements # {}
    /\ dirty' = TRUE
    /\ exists' = TRUE
    /\ IF exists THEN UNCHANGED <<content, time>>
       ELSE /\ \E e \in elements :
                  /\ \A d \in elements : Time[d] <= Time[e]
                  /\ content' = deep_merge(Empty, e)
            /\ time' \in {Time[e] : e \in elements}
            /\ \A e \in elements : time' <= Time[e]
    /\ UNCHANGED <<elements, at, locals, raced>>

Handler(e) ==
    \/ insert_element(e) \/ optimistic_insert(e) \/ read_existing(e)
    \/ merge_update(e) \/ count_elements(e) \/ mark_dirty(e)

Cascade(f) ==
    \/ forget_start(f)
    \/ \E e \in Element : forget_lookup(f, e)
    \/ forget_delete(f) \/ forget_remaining(f) \/ forget_drop(f)

Next ==
    \/ \E e \in Element : Handler(e)
    \/ \E f \in Forget : Cascade(f)
    \/ \E r \in Reader : lazy_refresh(r)
    \/ \E t \in Task : rebuild_fetch(t) \/ rebuild_write(t)
    \/ backfill_rebuild

Spec == Init /\ [][Next]_vars

-----------------------------------------------------------------------------

Quiet == \A t \in Task : Idle(t)

\* Between batches the row shows every stored element in chronological order,
\* and none that was forgotten, or is marked dirty; unless a refresh by the API
\* overlapped another writer.  Each writer reads, then writes what it computed;
\* the claim is that serialising security aggregates is enough.
MergedOrDirty ==
    Quiet /\ exists /\ ~ raced => dirty \/ content = MergeOf(elements)

\* The row is there exactly when it has elements: an insert and a FORGET of the
\* last element never leave one without the other.
RowIffElements == Quiet => (exists <=> elements # {})

\* The time of the row, which decides what is out of order, never goes back
\* while nothing is forgotten.
TimeNeverRegresses ==
    [][exists /\ exists' /\ ~ raced' /\ (\A f \in Forget : at[f] = "queued" /\ at'[f] = "queued")
          => time <= time']_vars

=============================================================================
