------------------------------ MODULE P2pConsumer ------------------------------
(***************************************************************************)
(* How gossip reaches pending_messages (src/jobs/p2p_consumer.rs): one     *)
(* delivery at a time is looked up in a cache of what came before,         *)
(* inserted, and acknowledged.  The loop is cut at any await when the      *)
(* connection is lost or the stream of alive messages ends beside it; the  *)
(* broker then delivers again what was not acknowledged.                   *)
(***************************************************************************)
EXTENDS Naturals, SequencesExt

CONSTANTS
    Copy,         \* deliveries as sent: one message may come in several copies
    ItemOf,       \* ItemOf[c]: its item_hash
    Garbage,      \* copies that do not parse as a message
    CacheSize,    \* DEDUP_CACHE_SIZE
    MaxCuts       \* bound: connections lost, queries that fail, and restarts

ASSUME P2pAssumption ==
    /\ Garbage \subseteq Copy /\ CacheSize \in Nat \ {0} /\ MaxCuts \in Nat

VARIABLES
    broker,       \* copies in the queue aleph-rs.messages
    up,           \* the consumer is connected
    consumer,     \* its next step for the first copy of the queue
    dedup_cache,  \* (sender, item_hash, signature) of recent copies, oldest first
    rows,         \* pending_messages, by item_hash
    cuts,
    tried,        \* history: copies that insert_pending_message has brought to the table
    failed,       \* history: copies whose INSERT failed
    severed,      \* history: copies whose INSERT was cut by a lost connection
    acked         \* history: copies acknowledged

p2pHistory == <<tried, failed, severed, acked>>
p2pVars == <<broker, up, consumer, dedup_cache, rows, cuts, p2pHistory>>

P2pTypeOK ==
    /\ broker \in Seq(Copy) /\ up \in BOOLEAN
    /\ consumer \in {"next", "insert", "ack"}
    /\ ToSet(dedup_cache) \subseteq Copy /\ Len(dedup_cache) <= CacheSize
    /\ rows \subseteq {ItemOf[c] : c \in Copy}
    /\ cuts \in 0..MaxCuts
    /\ tried \cup failed \cup severed \cup acked \subseteq Copy

P2pInit ==
    /\ broker = <<>> /\ up = FALSE /\ consumer = "next"
    /\ dedup_cache = <<>> /\ rows = {} /\ cuts = 0
    /\ tried = {} /\ failed = {} /\ severed = {} /\ acked = {}

Cut == cuts < MaxCuts /\ cuts' = cuts + 1

First == Head(broker)

-----------------------------------------------------------------------------

\* The exchange routes a copy to the durable queue, once for every copy in the network.
gossip_arrives ==
    \E c \in Copy :
        /\ c \notin ToSet(broker) \cup acked
        /\ broker' = Append(broker, c)
        /\ UNCHANGED <<up, consumer, dedup_cache, rows, cuts, p2pHistory>>

run_consumer_loop ==
    /\ ~ up /\ up' = TRUE
    /\ consumer' = "next"
    /\ UNCHANGED <<broker, dedup_cache, rows, cuts, p2pHistory>>

Working(step) == up /\ broker # <<>> /\ consumer = step

\* Mutant: the key of the cache is the item hash alone.
seen_before_by_item == \E c \in ToSet(dedup_cache) : ItemOf[c] = ItemOf[First]

seen_before == First \in ToSet(dedup_cache)

Remembered ==
    LET kept == RemoveFirst(dedup_cache, First)
        room == IF Len(kept) = CacheSize THEN Tail(kept) ELSE kept
    IN  Append(room, First)

\* What does not parse is acknowledged; so is what is in the cache, which a get makes the
\* most recent; the rest is in the cache before it is in the table.
process_message ==
    /\ Working("next")
    /\ consumer' = IF First \in Garbage \/ seen_before THEN "ack" ELSE "insert"
    /\ dedup_cache' = IF First \in Garbage THEN dedup_cache ELSE Remembered
    /\ UNCHANGED <<broker, up, rows, cuts, p2pHistory>>

Inserted == rows' = rows \cup {ItemOf[First]} /\ tried' = tried \cup {First}

\* ON CONFLICT (item_hash) DO NOTHING: another copy may be pending.
insert_delivery ==
    /\ Working("insert")
    /\ Inserted
    /\ consumer' = "ack"
    /\ UNCHANGED <<broker, up, dedup_cache, cuts, failed, severed, acked>>

\* The failure is logged, and the delivery acknowledged all the same.
insert_delivery_fails ==
    /\ Working("insert") /\ Cut
    /\ failed' = failed \cup {First}
    /\ consumer' = "ack"
    /\ UNCHANGED <<broker, up, dedup_cache, rows, tried, severed, acked>>

ack ==
    /\ Working("ack")
    /\ broker' = Tail(broker)
    /\ acked' = acked \cup {First}
    /\ consumer' = "next"
    /\ UNCHANGED <<up, dedup_cache, rows, cuts, tried, failed, severed>>

\* select! drops the stream where it stands: a query under way may have been executed.
stream_ends ==
    /\ up /\ up' = FALSE /\ Cut
    /\ consumer' = "next"
    /\ \/ Working("insert") /\ severed' = severed \cup {First}
          /\ (Inserted \/ UNCHANGED <<rows, tried>>)
       \/ ~ Working("insert") /\ UNCHANGED <<severed, rows, tried>>
    /\ UNCHANGED <<broker, dedup_cache, failed, acked>>

\* A restart empties the cache too.
p2p_restart ==
    /\ Cut
    /\ up' = FALSE /\ consumer' = "next" /\ dedup_cache' = <<>>
    /\ UNCHANGED <<broker, rows, p2pHistory>>

\* The message processor deletes the row in the end.
row_processed ==
    \E i \in rows :
        /\ rows' = rows \ {i}
        /\ UNCHANGED <<broker, up, consumer, dedup_cache, cuts, p2pHistory>>

P2pNext ==
    \/ gossip_arrives \/ run_consumer_loop \/ process_message
    \/ insert_delivery \/ insert_delivery_fails \/ ack
    \/ stream_ends \/ p2p_restart \/ row_processed

P2pSpec == P2pInit /\ [][P2pNext]_p2pVars

-----------------------------------------------------------------------------

\* A message is acknowledged only after it was brought to the table, each copy of it on
\* its own; the two ways to lose one are an INSERT that failed and a stream that ended
\* during the INSERT, as the cache then answers the second delivery
\* (process_message_stream puts into dedup_cache before it inserts).
AckedWasInserted == acked \subseteq tried \cup Garbage \cup failed \cup severed

=============================================================================
