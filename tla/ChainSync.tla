------------------------------- MODULE ChainSync -------------------------------
(***************************************************************************)
(* Reading messages from Ethereum (src/jobs/chain_sync.rs): a cycle of     *)
(* rpc_sync_cycle, which scans blocks with eth_getLogs in ranges it adapts *)
(* (chains/rpc_sync.rs), or of sync_chain_from_indexer_optimized, which    *)
(* reads pages of an indexer (chains/indexer.rs).  Both fetch the files of *)
(* messages that sync events name, filter them, insert and queue them in   *)
(* chunks, and save how far they came (db/sync_state.rs).  main.rs starts  *)
(* one of the two.                                                         *)
(*                                                                         *)
(* A position is a block height for one and a timestamp for the other.     *)
(* That a FORGET deletes rows of messages is left to MessageProcessor.     *)
(***************************************************************************)
EXTENDS Naturals, FiniteSets

CONSTANTS
    Msg,        \* messages
    Event, Position, File, Contents, Spam,    \* see SyncPromise
    Foreign,    \* events of other emitters, which decode_sync_event drops
    Garbled,    \* events whose text names no file
    Bare,       \* messages without inline content
    Top,        \* bound: the last position of the chain
    MaxRange,   \* max_block_range
    MinRange,   \* the smallest range (100)
    MaxLogs,    \* the most logs a node returns
    EventLimit, \* events after which a scan stops (10000)
    PageLimit,  \* INDEXER_LIMIT (200)
    ChunkSize,  \* DB_BATCH_SIZE (500)
    MaxFaults   \* bound: failures and restarts

ASSUME ConstantsAssumption ==
    /\ Position \in [Event -> 1..Top]
    /\ Contents \in [{File[e] : e \in Event} -> SUBSET Msg]
    /\ Foreign \subseteq Event /\ Garbled \subseteq Event
    /\ Bare \subseteq Msg /\ Spam \subseteq Msg
    /\ {Top, MaxLogs, EventLimit, MaxFaults} \subseteq Nat
    /\ {MaxRange, MinRange, PageLimit, ChunkSize} \subseteq Nat \ {0}
    /\ MinRange <= MaxRange

Files == {File[e] : e \in Event}
Void == Foreign \cup Garbled

VARIABLES
    source,     \* which of the two loops main.rs has started
    head,       \* the position the chain has reached
    known,      \* chain_sync_state has a row for the chain
    saved,      \* all up to this position is done, says that row
    pc,         \* the next step of the cycle
    from,       \* the position it reads next
    latest,     \* the head it saw when it began
    range,      \* block_range
    last,       \* the position it will save
    got,        \* the events it has read
    pulled,     \* the files it has fetched
    todo,       \* messages to insert
    chunk,      \* messages inserted and not yet queued
    messages, bare,    \* rows of messages, and those without content
    pending,    \* rows of pending_messages
    confirmed,  \* rows <<event, message>> of chain_txs
    queued,     \* history: messages that were ever in pending_messages
    missed,     \* history: files that could not be fetched
    unconfirmed, \* history: INSERTs into chain_txs that failed
    faults      \* failures so far

cycleVars == <<from, latest, range, last, got, pulled, todo, chunk>>
tableVars == <<messages, bare, pending, queued>>
chainVars == <<source, head>>
logVars == <<confirmed, unconfirmed>>
vars == <<chainVars, known, saved, pc, cycleVars, tableVars, logVars, missed, faults>>

Pairs == Event \X Msg

TypeOK ==
    /\ source \in {"rpc", "indexer"} /\ known \in BOOLEAN
    /\ head \in 0..Top /\ saved \in 0..Top
    /\ pc \in {"idle", "scan", "page", "fetch", "filter", "insert", "queue",
               "confirm", "save"}
    /\ from \in 0..(Top + 1) /\ latest \in 0..Top /\ last \in 0..Top
    /\ range \in 0..MaxRange
    /\ got \subseteq Event /\ pulled \subseteq Files
    /\ todo \subseteq Msg /\ chunk \subseteq Msg
    /\ messages \subseteq Msg /\ bare \subseteq Msg /\ pending \subseteq Msg
    /\ queued \subseteq Msg
    /\ confirmed \subseteq Pairs /\ unconfirmed \subseteq Pairs
    /\ missed \subseteq Files
    /\ faults \in 0..MaxFaults

Init ==
    /\ source \in {"rpc", "indexer"} /\ known \in BOOLEAN
    /\ head = 0 /\ saved = 0 /\ pc = "idle"
    /\ from = 0 /\ latest = 0 /\ range = 0 /\ last = 0
    /\ got = {} /\ pulled = {} /\ todo = {} /\ chunk = {}
    /\ messages = {} /\ bare = {} /\ pending = {} /\ queued = {}
    /\ confirmed = {} /\ unconfirmed = {} /\ missed = {} /\ faults = 0

Fault == faults < MaxFaults /\ faults' = faults + 1

Least(a, b) == IF a <= b THEN a ELSE b
Most(a, b) == IF a >= b THEN a ELSE b

-----------------------------------------------------------------------------
(***************************************************************************)
(* The chain, and the other writers of the two tables.                     *)
(***************************************************************************)

new_block ==
    /\ head < Top
    /\ head' = head + 1
    /\ UNCHANGED <<source, known, saved, pc, cycleVars, tableVars, logVars, missed, faults>>

\* A message arrives from the network (insert_pending_message), complete.
gossip(m) ==
    /\ m \notin pending
    /\ pending' = pending \cup {m}
    /\ queued' = queued \cup {m}
    /\ UNCHANGED <<chainVars, known, saved, pc, cycleVars, messages, bare, logVars, missed,
                   faults>>

\* The processor takes the message on and records it (store_processed_message).
process(m) ==
    /\ m \in pending
    /\ pending' = pending \ {m}
    /\ messages' = messages \cup {m}
    /\ UNCHANGED <<chainVars, known, saved, pc, cycleVars, bare, queued, logVars, missed, faults>>

\* The content of a row arrives (resolve_and_update_content, content_fetch).
resolve_content(m) ==
    /\ m \in bare
    /\ bare' = bare \ {m}
    /\ UNCHANGED <<chainVars, known, saved, pc, cycleVars, messages, pending, queued, logVars,
                   missed, faults>>

-----------------------------------------------------------------------------
(***************************************************************************)
(* RPC: RpcSyncClient::fetch_sync_events                                   *)
(***************************************************************************)

rpc_begin ==
    /\ pc = "idle" /\ source = "rpc"
    /\ saved < head
    /\ pc' = "scan"
    /\ from' = saved + 1 /\ last' = saved + 1
    /\ latest' = head
    /\ range' = MaxRange
    /\ got' = {} /\ pulled' = {} /\ todo' = {} /\ chunk' = {}
    /\ UNCHANGED <<chainVars, known, saved, tableVars, logVars, missed, faults>>

Scanned == from > latest \/ Cardinality(got) > EventLimit

Narrow == range' = Most(range \div 2, MinRange)

\* Wrong variant of get_logs_in_range: a dense range is passed over.
get_logs_in_range_skips ==
    /\ pc = "scan" /\ ~ Scanned
    /\ LET to == Least(from + range - 1, latest)
           logs == {e \in Event : Position[e] \in from..to}
       IN  /\ got' = IF Cardinality(logs) > MaxLogs THEN got ELSE got \cup (logs \ Foreign)
           /\ last' = to /\ from' = to + 1
           /\ range' = Least(range * 2, MaxRange)
    /\ UNCHANGED <<chainVars, known, saved, pc, latest, pulled, todo, chunk, tableVars, logVars,
                   missed, faults>>

\* Too many logs halve the range, and success doubles it again.  It never gets
\* below MinRange, so the branch that skips a chunk is never taken.
get_logs_in_range ==
    /\ pc = "scan" /\ ~ Scanned
    /\ LET to == Least(from + range - 1, latest)
           logs == {e \in Event : Position[e] \in from..to}
       IN  IF Cardinality(logs) > MaxLogs
           THEN Narrow /\ UNCHANGED <<from, last, got>>
           ELSE /\ got' = got \cup (logs \ Foreign)
                /\ last' = to /\ from' = to + 1
                /\ range' = Least(range * 2, MaxRange)
    /\ UNCHANGED <<chainVars, known, saved, pc, latest, pulled, todo, chunk, tableVars, logVars,
                   missed, faults>>

get_logs_fails ==
    /\ pc = "scan" /\ ~ Scanned
    /\ Fault
    /\ Narrow
    /\ UNCHANGED <<chainVars, known, saved, pc, from, latest, last, got, pulled, todo, chunk,
                   tableVars, logVars, missed>>

\* Without events the cycle ends and saves nothing; without files it saves.
scan_ends ==
    /\ pc = "scan" /\ Scanned
    /\ pc' = IF got = {} THEN "idle" ELSE IF got \subseteq Garbled THEN "save" ELSE "fetch"
    /\ UNCHANGED <<chainVars, known, saved, cycleVars, tableVars, logVars, missed, faults>>

-----------------------------------------------------------------------------
(***************************************************************************)
(* Indexer: the loop over pages                                            *)
(***************************************************************************)

\* Without a row there is no saved timestamp: the loop begins at 0.
indexer_begin ==
    /\ pc = "idle" /\ source = "indexer"
    /\ pc' = "page"
    /\ from' = IF known THEN saved + 1 ELSE 1
    /\ latest' = head
    /\ last' = 0 /\ range' = 0
    /\ got' = {} /\ pulled' = {} /\ todo' = {} /\ chunk' = {}
    /\ UNCHANGED <<chainVars, known, saved, tableVars, logVars, missed, faults>>

\* The first events of the window, PageLimit of them at most.
Pages ==
    LET window == {e \in Event \ Foreign : Position[e] \in from..latest}
    IN  {P \in SUBSET window :
            /\ Cardinality(P) = Least(PageLimit, Cardinality(window))
            /\ \A p \in P, e \in window \ P : Position[p] <= Position[e]}

fetch_sync_events ==
    /\ pc = "page"
    /\ \E P \in Pages :
        /\ got' = P
        /\ IF P = {}
           THEN pc' = "idle" /\ last' = last
           ELSE /\ pc' = "fetch"
                /\ \E e \in P : /\ \A p \in P : Position[p] <= Position[e]
                                /\ last' = Position[e]
    /\ UNCHANGED <<chainVars, known, saved, from, latest, range, pulled, todo, chunk, tableVars,
                   logVars, missed, faults>>

-----------------------------------------------------------------------------
(***************************************************************************)
(* The files, the filters and the inserts, the same for both.              *)
(***************************************************************************)

Named == {File[e] : e \in got \ Garbled}

\* In parallel, with retries; a file that cannot be had is passed over.
fetch_ipfs ==
    /\ pc = "fetch"
    /\ pc' = "filter"
    /\ \/ pulled' = Named /\ UNCHANGED <<missed, faults>>
       \/ /\ Fault
          /\ \E F \in SUBSET Named : pulled' = F /\ missed' = missed \cup (Named \ F)
    /\ UNCHANGED <<chainVars, known, saved, from, latest, range, last, got, todo, chunk,
                   tableVars, logVars>>

Collected == UNION {Contents[f] : f \in pulled}

\* Wrong variant of filter_new_messages: takes what is pending for stored.
filter_new_messages_pending ==
    /\ pc = "filter"
    /\ pc' = "insert"
    /\ todo' = Collected \ (Spam \cup messages \cup pending)
    /\ UNCHANGED <<chainVars, known, saved, from, latest, range, last, got, pulled, chunk,
                   tableVars, logVars, missed, faults>>

\* If the query fails nothing is filtered but the blacklist.
filter_new_messages ==
    /\ pc = "filter"
    /\ pc' = "insert"
    /\ \/ todo' = Collected \ (Spam \cup messages) /\ UNCHANGED faults
       \/ Fault /\ todo' = Collected \ Spam
    /\ UNCHANGED <<chainVars, known, saved, from, latest, range, last, got, pulled, chunk,
                   tableVars, logVars, missed>>

\* Messages with their content come first.
Chunks ==
    LET inline == todo \ Bare
        next == IF inline = {} THEN todo ELSE inline
    IN  {C \in SUBSET next : Cardinality(C) = Least(ChunkSize, Cardinality(next))}

\* ON CONFLICT DO UPDATE ... WHERE item_content IS NULL RETURNING item_hash
batch_insert_messages ==
    /\ pc = "insert" /\ todo # {}
    /\ \E C \in Chunks :
        /\ todo' = todo \ C
        /\ chunk' = C \ (messages \ bare)
        /\ messages' = messages \cup C
        /\ bare' = (bare \cup ((C \cap Bare) \ messages)) \ (C \ Bare)
    /\ pc' = "queue"
    /\ UNCHANGED <<chainVars, known, saved, from, latest, range, last, got, pulled, pending,
                   queued, logVars, missed, faults>>

\* ON CONFLICT DO NOTHING
queue_messages_for_processing ==
    /\ pc = "queue"
    /\ pending' = pending \cup chunk
    /\ queued' = queued \cup chunk
    /\ chunk' = {}
    /\ pc' = "insert"
    /\ UNCHANGED <<chainVars, known, saved, from, latest, range, last, got, pulled, todo,
                   messages, bare, logVars, missed, faults>>

inserted_all ==
    /\ pc = "insert" /\ todo = {}
    /\ pc' = IF source = "rpc" THEN "confirm" ELSE "save"
    /\ UNCHANGED <<chainVars, known, saved, cycleVars, tableVars, logVars, missed, faults>>

\* cid_event_map keeps the last event of a file.
Publisher(f) ==
    {e \in got \ Garbled : File[e] = f
        /\ \A d \in got \ Garbled : File[d] = f => Position[d] <= Position[e]}

\* Wrong variant of Confirmations: the messages that were new.
Confirmations_new ==
    UNION {Publisher(f) \X {m \in Contents[f] : m \in pending} : f \in pulled}

Confirmations == UNION {Publisher(f) \X Contents[f] : f \in pulled}

\* One INSERT each; one that fails is skipped.
record_confirmations ==
    /\ pc = "confirm"
    /\ pc' = "save"
    /\ \/ /\ confirmed' = confirmed \cup Confirmations
          /\ UNCHANGED <<unconfirmed, faults>>
       \/ /\ Fault
          /\ \E p \in Confirmations : /\ confirmed' = confirmed \cup (Confirmations \ {p})
                                      /\ unconfirmed' = unconfirmed \cup {p}
    /\ UNCHANGED <<chainVars, known, saved, cycleVars, tableVars, missed>>

\* Wrong variant of update_last_rpc_block: saves where to read next.
update_last_rpc_block_next ==
    /\ pc = "save" /\ source = "rpc"
    /\ saved' = from /\ known' = TRUE
    /\ pc' = "idle"
    /\ UNCHANGED <<chainVars, cycleVars, tableVars, logVars, missed, faults>>

\* update_last_rpc_block inserts the row if there is none.
update_last_rpc_block ==
    /\ pc = "save" /\ source = "rpc"
    /\ saved' = last /\ known' = TRUE
    /\ pc' = "idle"
    /\ UNCHANGED <<chainVars, cycleVars, tableVars, logVars, missed, faults>>

\* update_last_sync_timestamp is an UPDATE: without a row nothing is saved.
update_last_sync_timestamp ==
    /\ pc = "save" /\ source = "indexer"
    /\ saved' = IF known THEN last ELSE saved
    /\ from' = last + 1
    /\ pc' = IF Cardinality(got) < PageLimit THEN "idle" ELSE "page"
    /\ UNCHANGED <<chainVars, known, latest, range, last, got, pulled, todo, chunk, tableVars,
                   logVars, missed, faults>>

\* Any other error ends the cycle, and so does a restart.
cycle_fails ==
    /\ pc # "idle"
    /\ Fault
    /\ pc' = "idle"
    /\ UNCHANGED <<chainVars, known, saved, cycleVars, tableVars, logVars, missed>>

CycleStep ==
    \/ rpc_begin \/ get_logs_in_range \/ scan_ends
    \/ indexer_begin \/ fetch_sync_events
    \/ fetch_ipfs \/ filter_new_messages
    \/ batch_insert_messages \/ queue_messages_for_processing \/ inserted_all
    \/ record_confirmations
    \/ update_last_rpc_block \/ update_last_sync_timestamp

Next ==
    \/ new_block
    \/ \E m \in Msg : gossip(m) \/ process(m) \/ resolve_content(m)
    \/ CycleStep
    \/ get_logs_fails \/ cycle_fails

Spec == Init /\ [][Next]_vars

\* The loop ticks every 15 seconds for ever.
FairSpec == Spec /\ WF_vars(CycleStep)

-----------------------------------------------------------------------------

Promise == INSTANCE SyncPromise
    WITH Void <- Void, Spam <- Spam, saved <- saved, messages <- messages, missed <- missed

\* Both loops keep the promise of SyncPromise, with nodes that fail, files that
\* cannot be had, restarts at any step, and messages the processor records or
\* gossip queues in between.
KeepsPromise == Promise!Spec

\* When the saved position has passed an event of the RPC scan, each message
\* of its file is linked to a transaction that published it.
PassedIsConfirmed ==
    source = "rpc" =>
        \A e \in Event \ Void :
            Position[e] <= saved /\ File[e] \notin missed =>
                \A m \in Contents[File[e]] :
                    \E d \in Event : /\ File[d] = File[e]
                                     /\ <<d, m>> \in confirmed \cup unconfirmed

\* Every sync event of the chain is settled in the end, however its
\* neighbours crowd a range or a page, and even where no position is saved.
EventsAreSettled ==
    \A e \in Event : Position[e] <= head ~> Promise!Settled(e)

=============================================================================
