------------------------------- MODULE WebSocket -------------------------------
(***************************************************************************)
(* How clients hear of messages: deliveries of the queue aleph-core-ws     *)
(* (src/network/rabbitmq.rs run_consumer) are relayed to a broadcast       *)
(* channel, from which each connection forwards what its filter matches    *)
(* (src/web/websocket.rs).  One client here; beside its forwarding task    *)
(* runs the loop that answers its requests, and both share the filter and  *)
(* the flag `subscribed`, each behind a lock of its own.                   *)
(***************************************************************************)
EXTENDS Naturals, FiniteSets, SequencesExt

CONSTANTS
    Message,      \* messages, by item_hash
    From,       \* From[m]
    Filter,       \* filters a client asks for: records of addresses and hashes
    Inbox,        \* capacity of the channel from the consumer to the relay
    Capacity,     \* capacity of the broadcast channel
    Limit,        \* how many messages of the past a client asks for
    MaxRequests,  \* bound: requests of the client
    MaxLosses     \* bound: connections of the consumer lost, and queries that fail

NoMessage == "none"

ASSUME WebSocketAssumption ==
    /\ NoMessage \notin Message /\ Inbox \in Nat \ {0} /\ Capacity \in Nat \ {0}
    /\ Limit \in Nat /\ MaxRequests \in Nat /\ MaxLosses \in Nat

VARIABLES
    incoming,    \* the queue, in the broker
    wired,       \* the consumer is connected
    handed,      \* it has sent the first delivery to the inbox, and not acknowledged it
    inbox,
    table,       \* messages in the table messages
    client,      \* "away", "history", "open" or "gone"
    filter, subscribed,
    buffer,      \* the client's part of the broadcast channel
    forward,     \* the forwarding task: "recv", "match" or "send"
    held,        \* the message it works on
    unsubscribing,  \* Unsubscribe has cleared `subscribed`, and not yet the filter
    requests, losses,
    past,        \* history: what the query at connection gave
    missing,     \* history: that query failed, or found more than Limit
    known,       \* history: rows of messages when the client connected
    aired,         \* history: messages broadcast since
    given,       \* history: messages forwarded
    lagged,      \* history: the channel has overflowed
    quiet,       \* history: the client is to be given nothing: so it was told, or asked
    unasked,     \* history: messages forwarded all the same
    stray        \* history: some message was forwarded that the filter did not match

wsRelay == <<incoming, wired, handed, inbox>>
wsShared == <<filter, subscribed, unsubscribing>>
wsTask == <<buffer, forward, held>>
wsHistory == <<past, missing, known, aired, given, lagged, quiet, unasked, stray>>
wsVars == <<wsRelay, table, client, wsShared, wsTask, requests, losses, wsHistory>>

Everything == [addresses |-> {}, hashes |-> {}]

WsTypeOK ==
    /\ incoming \in Seq(Message) /\ inbox \in Seq(Message) /\ Len(inbox) <= Inbox
    /\ wired \in BOOLEAN /\ handed \in BOOLEAN /\ (handed => wired)
    /\ client \in {"away", "history", "open", "gone"}
    /\ filter \in Filter \cup {Everything} /\ subscribed \in BOOLEAN /\ unsubscribing \in BOOLEAN
    /\ buffer \in Seq(Message) /\ Len(buffer) <= Capacity
    /\ forward \in {"recv", "match", "send"} /\ held \in Message \cup {NoMessage}
    /\ table \cup past \cup known \cup aired \cup given \subseteq Message
    /\ requests \in 0..MaxRequests /\ losses \in 0..MaxLosses
    /\ quiet \in BOOLEAN /\ unasked \in Nat

WsInit ==
    /\ incoming = <<>> /\ wired = FALSE /\ handed = FALSE /\ inbox = <<>>
    /\ table = {} /\ client = "away"
    /\ filter = Everything /\ subscribed = FALSE /\ unsubscribing = FALSE
    /\ buffer = <<>> /\ forward = "recv" /\ held = NoMessage
    /\ requests = 0 /\ losses = 0
    /\ past = {} /\ missing = FALSE /\ known = {} /\ aired = {} /\ given = {}
    /\ lagged = FALSE /\ quiet = FALSE /\ unasked = 0 /\ stray = FALSE

\* A hash that is asked for passes; one that is not passes too, when its sender does.
matches(f, m) ==
    \/ m \in f.hashes
    \/ f.addresses = {} \/ From[m] \in f.addresses

\* In the query the conditions add up.
HistoryOf(f) ==
    {m \in table : /\ f.hashes = {} \/ m \in f.hashes
                   /\ f.addresses = {} \/ From[m] \in f.addresses}

-----------------------------------------------------------------------------

message_stored ==
    \E m \in Message \ table :
        /\ table' = table \cup {m}
        /\ UNCHANGED <<wsRelay, client, wsShared, wsTask, requests, losses, wsHistory>>

\* The exchange routes a message to the queue once.
message_published ==
    \E m \in Message :
        /\ m \notin ToSet(incoming) \cup ToSet(inbox) \cup aired
        /\ incoming' = Append(incoming, m)
        /\ UNCHANGED <<wired, handed, inbox, table, client, wsShared, wsTask, requests,
                       losses, wsHistory>>

run_consumer ==
    /\ ~ wired /\ wired' = TRUE
    /\ UNCHANGED <<incoming, handed, inbox, table, client, wsShared, wsTask, requests,
                   losses, wsHistory>>

\* message_tx.send waits for room.
consumer_sends ==
    /\ wired /\ ~ handed /\ incoming # <<>> /\ Len(inbox) < Inbox
    /\ inbox' = Append(inbox, Head(incoming))
    /\ handed' = TRUE
    /\ UNCHANGED <<incoming, wired, table, client, wsShared, wsTask, requests, losses, wsHistory>>

consumer_acks ==
    /\ handed /\ handed' = FALSE
    /\ incoming' = Tail(incoming)
    /\ UNCHANGED <<wired, inbox, table, client, wsShared, wsTask, requests, losses, wsHistory>>

\* What is not acknowledged is delivered, and broadcast, again.
consumer_lost ==
    /\ wired /\ losses < MaxLosses
    /\ wired' = FALSE /\ handed' = FALSE
    /\ losses' = losses + 1
    /\ UNCHANGED <<incoming, inbox, table, client, wsShared, wsTask, requests, wsHistory>>

\* Mutant: the receiver is made where the forwarding task is, after the query.
Receiving_late == client = "open"

\* message_tx.subscribe() comes first.
Receiving == client \in {"history", "open"}

\* The slowest messages fall out of a channel that is full; a receiver is told of it later.
connect_to_rabbitmq ==
    /\ inbox # <<>>
    /\ inbox' = Tail(inbox)
    /\ LET m == Head(inbox)
           room == IF Len(buffer) = Capacity THEN Tail(buffer) ELSE buffer
       IN  /\ buffer' = IF Receiving THEN Append(room, m) ELSE buffer
           /\ lagged' = (lagged \/ (Receiving /\ Len(buffer) = Capacity))
           /\ aired' = IF client \in {"history", "open"} THEN aired \cup {m} ELSE aired
    /\ UNCHANGED <<incoming, wired, handed, table, client, wsShared, forward, held, requests,
                   losses, past, missing, known, given, quiet, unasked, stray>>

-----------------------------------------------------------------------------

\* A client without filters is not subscribed, and gets no history.
handle_socket(f) ==
    /\ client = "away"
    /\ client' = IF f = Everything THEN "open" ELSE "history"
    /\ filter' = f /\ subscribed' = (f # Everything)
    /\ known' = table /\ quiet' = ~ subscribed'
    /\ UNCHANGED <<wsRelay, table, unsubscribing, wsTask, requests, losses, past, missing,
                   aired, given, lagged, unasked, stray>>

\* LIMIT rows, the latest by time: which ones is not told apart here.
history_query ==
    /\ client = "history" /\ client' = "open"
    /\ \E S \in SUBSET HistoryOf(filter) :
           /\ Cardinality(S) = Limit \/ (S = HistoryOf(filter) /\ Cardinality(S) < Limit)
           /\ past' = S /\ missing' = (Cardinality(S) = Limit)
    /\ UNCHANGED <<wsRelay, table, wsShared, wsTask, requests, losses, known, aired, given,
                   lagged, quiet, unasked, stray>>

\* The client is not told.
history_query_fails ==
    /\ client = "history" /\ client' = "open"
    /\ losses < MaxLosses /\ losses' = losses + 1
    /\ missing' = TRUE
    /\ UNCHANGED <<wsRelay, table, wsShared, wsTask, requests, past, known, aired, given,
                   lagged, quiet, unasked, stray>>

\* forward_task reads `subscribed`, and lets go of it.
forward_recv ==
    /\ client = "open" /\ forward = "recv" /\ buffer # <<>>
    /\ buffer' = Tail(buffer)
    /\ IF subscribed
         THEN forward' = "match" /\ held' = Head(buffer)
         ELSE UNCHANGED <<forward, held>>
    /\ UNCHANGED <<wsRelay, table, client, wsShared, requests, losses, wsHistory>>

\* It reads the filter, which it keeps locked while it sends.
forward_match ==
    /\ client = "open" /\ forward = "match"
    /\ IF matches(filter, held)
         THEN forward' = "send" /\ UNCHANGED held
         ELSE forward' = "recv" /\ held' = NoMessage
    /\ UNCHANGED <<wsRelay, table, client, wsShared, buffer, requests, losses, wsHistory>>

forward_send ==
    /\ client = "open" /\ forward = "send"
    /\ forward' = "recv" /\ held' = NoMessage
    /\ given' = given \cup {held}
    /\ unasked' = IF quiet THEN unasked + 1 ELSE unasked
    /\ stray' = (stray \/ ~ matches(filter, held))
    /\ UNCHANGED <<wsRelay, table, client, wsShared, buffer, requests, losses, past, missing,
                   known, aired, lagged, quiet>>

\* Mutant: the filter is cloned, not locked, while a message is sent.
FilterIsFree_always == TRUE

FilterIsFree == forward # "send"

\* The requests of a client are answered one after the other.
Requested ==
    /\ client = "open" /\ ~ unsubscribing
    /\ requests < MaxRequests /\ requests' = requests + 1

Subscribe(f) ==
    /\ Requested /\ FilterIsFree
    /\ filter' = f /\ subscribed' = TRUE
    /\ quiet' = FALSE /\ unasked' = 0
    /\ UNCHANGED <<wsRelay, table, client, unsubscribing, wsTask, losses, past, missing, known,
                   aired, given, lagged, stray>>

\* To take the last address away leaves a filter that matches every sender.
Update(add, remove) ==
    /\ Requested /\ FilterIsFree
    /\ filter' = [filter EXCEPT !.addresses = (@ \cup add) \ remove]
    /\ filter' \in Filter \cup {Everything}
    /\ UNCHANGED <<wsRelay, table, client, subscribed, unsubscribing, wsTask, losses, wsHistory>>

\* Mutant: only the filter is reset.
Unsubscribe_filter_only ==
    /\ Requested
    /\ unsubscribing' = TRUE
    /\ UNCHANGED <<wsRelay, table, client, filter, subscribed, wsTask, losses, wsHistory>>

Unsubscribe ==
    /\ Requested
    /\ subscribed' = FALSE /\ unsubscribing' = TRUE
    /\ UNCHANGED <<wsRelay, table, client, filter, wsTask, losses, wsHistory>>

\* The second lock; the answer follows.
Unsubscribed ==
    /\ unsubscribing /\ client = "open" /\ FilterIsFree
    /\ filter' = Everything /\ unsubscribing' = FALSE /\ quiet' = TRUE
    /\ UNCHANGED <<wsRelay, table, client, subscribed, wsTask, requests, losses, past, missing,
                   known, aired, given, lagged, unasked, stray>>

\* The forwarding task is aborted, and the channel forgets its receiver.
disconnect ==
    /\ client \in {"history", "open"}
    /\ client' = "gone"
    /\ buffer' = <<>> /\ forward' = "recv" /\ held' = NoMessage
    /\ UNCHANGED <<wsRelay, table, wsShared, requests, losses, wsHistory>>

Asks ==
    \/ \E f \in Filter : Subscribe(f)
    \/ \E add, remove \in {f.addresses : f \in Filter} : Update(add, remove)
    \/ Unsubscribe

WsNext ==
    \/ message_stored \/ message_published
    \/ run_consumer \/ consumer_sends \/ consumer_acks \/ consumer_lost \/ connect_to_rabbitmq
    \/ \E f \in Filter \cup {Everything} : handle_socket(f)
    \/ history_query \/ history_query_fails
    \/ forward_recv \/ forward_match \/ forward_send
    \/ Asks \/ Unsubscribed \/ disconnect

WsSpec == WsInit /\ [][WsNext]_wsVars

-----------------------------------------------------------------------------

\* A client that has asked for nothing since it connected is given, or is about to be
\* given, every message its filter matches that was broadcast since, if the channel never
\* overflowed; and a history shorter than its limit has all that was stored before
\* (handle_socket subscribes before it queries).
NothingIsMissed ==
    client = "open" /\ subscribed /\ requests = 0
    => /\ ~ lagged => \A m \in aired : matches(filter, m) =>
                          m \in given \cup {held} \cup ToSet(buffer)
       /\ ~ missing => known \cap HistoryOf(filter) \subseteq past

\* After the answer Unsubscribed one message may still come, the one the forwarding task
\* had in hand when it read `subscribed` (handle_request, forward_task).
UnsubscribedIsQuiet == unasked <= 1

\* What is forwarded matches the filter in force, though a request may replace it at any
\* time (the guard of the filter lives until the message is sent).
ForwardedMatches == ~ stray

\* What a client can rely on, whatever it asks for and whoever it shares the channel with.
ClientIsServed == NothingIsMissed /\ UnsubscribedIsQuiet /\ ForwardedMatches

=============================================================================
