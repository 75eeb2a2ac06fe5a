--------------------------------- MODULE Peers ---------------------------------
(***************************************************************************)
(* How a node knows its peers (src/services/peers.rs): the discovery job   *)
(* writes the nodes of the corechannel aggregate to the table peers and    *)
(* rebuilds the ring of content from them; the tidy job asks every address *)
(* of the table and keeps those that answer in api_servers, which content  *)
(* fetch reads.  The two run beside each other on one table.               *)
(***************************************************************************)
EXTENDS ContentRing

CONSTANTS
    Bootstrap,      \* BOOTSTRAP_API_SERVERS
    MaxMoves,       \* bound: nodes that join, leave or move
    MaxMisses       \* bound: requests and queries that fail, and restarts

Peer == Node \cup Address

ASSUME PeersAssumption ==
    /\ Bootstrap \subseteq Address /\ Node \cap Address = {}
    /\ MaxMoves \in Nat /\ MaxMisses \in Nat

VARIABLES
    peers,        \* table peers, type HTTP: the address of each peer_id
    listed,       \* the aggregate: the address of each active node
    online,       \* addresses that answer /api/v0/version
    api_servers,  \* addresses found online
    found,        \* discovery: nodes already written in this pass
    undiscovered,         \* discovery: nodes still to write, with the address read
    discovering,
    tidy,         \* the next step of the tidy job
    asked,        \* tidy: addresses of the table, as read
    up,           \* tidy: those that answered
    moves, misses

discovery == <<found, undiscovered, discovering>>
tidying == <<tidy, asked, up>>
bounds == <<moves, misses>>
peerVars == <<nodes, peers, listed, online, api_servers, discovery, tidying, bounds>>

PeersTypeOK ==
    /\ nodes \in [Node -> Address \cup {NoAddress}]
    /\ peers \in [Peer -> Address \cup {NoAddress}]
    /\ listed \in [Node -> Address \cup {NoAddress}]
    /\ online \subseteq Address /\ api_servers \subseteq Address
    /\ ToSet(found) \subseteq Node \X Address
    /\ undiscovered \in [Node -> Address \cup {NoAddress}]
    /\ discovering \in BOOLEAN
    /\ tidy \in {"seed", "idle", "ask", "apply", "touch"}
    /\ asked \subseteq Address /\ up \subseteq Address
    /\ moves \in 0..MaxMoves /\ misses \in 0..MaxMisses

PeersInit ==
    /\ peers = [p \in Peer |-> NoAddress]
    /\ listed \in [Node -> Address \cup {NoAddress}]
    /\ online \in SUBSET Address
    /\ nodes = Nobody /\ api_servers = {}
    /\ found = <<>> /\ undiscovered = Nobody /\ discovering = FALSE
    /\ tidy = "seed" /\ asked = {} /\ up = {}
    /\ moves = 0 /\ misses = 0

Miss == misses < MaxMisses /\ misses' = misses + 1

-----------------------------------------------------------------------------

\* One of the servers gives the nodes; without an active one the list is empty.
discover_fetch ==
    /\ ~ discovering
    /\ discovering' = TRUE /\ undiscovered' = listed /\ found' = <<>>
    /\ UNCHANGED <<nodes, peers, listed, online, api_servers, tidying, bounds>>

\* None of the servers does: the list is empty all the same.
discover_fetch_fails ==
    /\ ~ discovering /\ Miss
    /\ discovering' = TRUE /\ undiscovered' = Nobody /\ found' = <<>>
    /\ UNCHANGED <<nodes, peers, listed, online, api_servers, tidying, moves>>

Left == {n \in Node : undiscovered[n] # NoAddress}

\* In the order of the list, whichever that is.
Following == CHOOSE n \in Left : TRUE

discover_upsert ==
    /\ Left # {}
    /\ undiscovered' = [undiscovered EXCEPT ![Following] = NoAddress]
    /\ peers' = [peers EXCEPT ![Following] = undiscovered[Following]]
    /\ found' = Append(found, <<Following, undiscovered[Following]>>)
    /\ UNCHANGED <<nodes, listed, online, api_servers, discovering, tidying, bounds>>

\* A node whose row could not be written is left out of the ring too.
discover_upsert_fails ==
    /\ Left # {} /\ Miss
    /\ undiscovered' = [undiscovered EXCEPT ![Following] = NoAddress]
    /\ UNCHANGED <<nodes, peers, listed, online, api_servers, found, discovering, tidying,
                   moves>>

discover_rebuild ==
    /\ discovering /\ Left = {}
    /\ rebuild_from_peers(found)
    /\ discovering' = FALSE /\ found' = <<>>
    /\ UNCHANGED <<peers, listed, online, api_servers, undiscovered, tidying, bounds>>

Discovery ==
    \/ discover_fetch \/ discover_fetch_fails
    \/ discover_upsert \/ discover_upsert_fails \/ discover_rebuild

-----------------------------------------------------------------------------

Known == {peers[p] : p \in Peer} \ {NoAddress}

Seeded == peers' = [p \in Peer |-> IF p \in Bootstrap THEN p ELSE peers[p]]

\* Once, at startup: the bootstrap servers, unless the table is seen to have a peer.
seed_bootstrap_peers ==
    /\ tidy = "seed"
    /\ tidy' = "idle"
    /\ \/ Known = {} /\ Seeded /\ UNCHANGED misses
       \/ Known # {} /\ UNCHANGED <<peers, misses>>
       \/ Known # {} /\ Seeded /\ Miss
    /\ UNCHANGED <<nodes, listed, online, api_servers, discovery, asked, up, moves>>

\* One pass of check_all_http_peers: the addresses, their answers, the set, the table.
tidy_list ==
    /\ tidy = "idle" /\ Known # {}
    /\ tidy' = "ask" /\ asked' = Known /\ up' = {}
    /\ UNCHANGED <<nodes, peers, listed, online, api_servers, discovery, bounds>>

check_peer_online ==
    /\ tidy = "ask"
    /\ tidy' = "apply"
    /\ up' = asked \cap online
    /\ UNCHANGED <<nodes, peers, listed, online, api_servers, discovery, asked, bounds>>

check_peer_times_out ==
    \E a \in asked \cap online :
        /\ tidy = "ask" /\ Miss
        /\ tidy' = "apply"
        /\ up' = (asked \cap online) \ {a}
        /\ UNCHANGED <<nodes, peers, listed, online, api_servers, discovery, asked, moves>>

tidy_apply ==
    /\ tidy = "apply"
    /\ tidy' = "touch"
    /\ api_servers' = (api_servers \ asked) \cup up
    /\ UNCHANGED <<nodes, peers, listed, online, discovery, asked, up, bounds>>

\* Mutant: servers do not get rows of their own.
tidy_touch_not ==
    /\ tidy = "touch"
    /\ tidy' = "idle" /\ asked' = {} /\ up' = {}
    /\ UNCHANGED <<nodes, peers, listed, online, api_servers, discovery, bounds>>

\* Every server of the set, also one that this pass did not ask, is its own peer.
tidy_touch ==
    /\ tidy = "touch"
    /\ tidy' = "idle" /\ asked' = {} /\ up' = {}
    /\ peers' = [p \in Peer |-> IF p \in api_servers THEN p ELSE peers[p]]
    /\ UNCHANGED <<nodes, listed, online, api_servers, discovery, bounds>>

\* The results of these queries are not looked at.
tidy_touch_fails ==
    \E a \in api_servers :
        /\ tidy = "touch" /\ Miss
        /\ tidy' = "idle" /\ asked' = {} /\ up' = {}
        /\ peers' = [p \in Peer |-> IF p \in api_servers \ {a} THEN p ELSE peers[p]]
        /\ UNCHANGED <<nodes, listed, online, api_servers, discovery, moves>>

Tidy ==
    \/ seed_bootstrap_peers \/ tidy_list \/ check_peer_online \/ check_peer_times_out
    \/ tidy_apply \/ tidy_touch \/ tidy_touch_fails

-----------------------------------------------------------------------------

\* What other nodes do: they register, move and retire, come and go.
node_moves ==
    \E n \in Node, a \in Address \cup {NoAddress} :
        /\ moves < MaxMoves /\ moves' = moves + 1
        /\ listed[n] # a
        /\ listed' = [listed EXCEPT ![n] = a]
        /\ UNCHANGED <<nodes, peers, online, api_servers, discovery, tidying, misses>>

address_switches ==
    \E a \in Address :
        /\ moves < MaxMoves /\ moves' = moves + 1
        /\ online' = IF a \in online THEN online \ {a} ELSE online \cup {a}
        /\ UNCHANGED <<nodes, peers, listed, api_servers, discovery, tidying, misses>>

\* Ring, servers and jobs are in memory; the table stays.
peers_restart ==
    /\ Miss
    /\ nodes' = Nobody /\ api_servers' = {}
    /\ found' = <<>> /\ undiscovered' = Nobody /\ discovering' = FALSE
    /\ tidy' = "seed" /\ asked' = {} /\ up' = {}
    /\ UNCHANGED <<peers, listed, online, moves>>

PeersNext == Discovery \/ Tidy \/ node_moves \/ address_switches \/ peers_restart

\* Both jobs are loops on a timer.
PeersFairness == WF_peerVars(Discovery) /\ WF_peerVars(Tidy)

PeersSpec == PeersInit /\ [][PeersNext]_peerVars /\ PeersFairness

-----------------------------------------------------------------------------

\* Once nodes no longer move and requests no longer fail, the ring is made of the active
\* nodes of the aggregate with their addresses (discovery rebuilds it in every pass), and
\* the servers are addresses that are online, each active node among them: the tidy job
\* meets the new rows of discovery, and forgets an address that no row of discovery
\* names any more, because a node has moved away, as it has written a row of its own.
PeersSettle ==
    <>[]/\ nodes = listed
        /\ online \cap {listed[n] : n \in Node} \subseteq api_servers
        /\ api_servers \subseteq online

=============================================================================
