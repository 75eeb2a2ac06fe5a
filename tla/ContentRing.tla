------------------------------ MODULE ContentRing ------------------------------
(***************************************************************************)
(* Which nodes keep which content (ContentRing and ShardingService in      *)
(* src/services/sharding.rs): every node has some places on a ring, a      *)
(* content belongs to the first nodes met clockwise from its own place.    *)
(***************************************************************************)
EXTENDS Integers, SequencesExt

CONSTANTS
    Hash,          \* hashes of contents
    Node,          \* peer ids
    Address,       \* http addresses of nodes
    RingSize,      \* 2^64 in the code
    Places,        \* Places[n]: sip_hash_64 of the virtual nodes of n
    Home,          \* Home[h]: sip_hash_64 of h
    Replication    \* replication_factor

NoAddress == "unknown"

\* Two keys of one place would be a collision of 64-bit hashes.
ASSUME ContentRingAssumption ==
    /\ IsFiniteSet(Node)
    /\ RingSize \in Nat \ {0} /\ Replication \in Nat
    /\ Places \in [Node -> (SUBSET (0..RingSize - 1)) \ {{}}]
    /\ \A m, n \in Node : m # n => Places[m] \cap Places[n] = {}
    /\ Home \in [Hash -> 0..RingSize - 1]
    /\ NoAddress \notin Address

VARIABLE nodes    \* nodes[n]: the address of n on the ring

Nobody == [n \in Node |-> NoAddress]

Members == {n \in Node : nodes[n] # NoAddress}

-----------------------------------------------------------------------------

\* Mutant: a place goes to the node whose number it is, modulo how many there are.
RingOf_modulo(N) ==
    LET order == SetToSeq(N)
    IN  IF N = {} THEN <<>> ELSE [p \in 0..RingSize - 1 |-> order[1 + (p % Len(order))]]

\* The ring of nodes N: the node at each place that is taken.
RingOf(N) == [p \in UNION {Places[n] : n \in N} |-> CHOOSE n \in N : p \in Places[n]]

\* get_responsible_nodes stops after the first node even if the factor is 0.
Wanted == IF Replication = 0 THEN 1 ELSE Replication

\* Mutant: a node is collected at each of its places.
get_responsible_nodes_repeated(N, h) ==
    LET ring == RingOf(N)
        walk[k \in 0..RingSize] ==
            IF k = 0 THEN <<>>
            ELSE LET seen == walk[k - 1]
                     place == (Home[h] + k - 1) % RingSize
                 IN  IF place \in DOMAIN ring /\ Len(seen) < Wanted
                     THEN Append(seen, ring[place])
                     ELSE seen
    IN  walk[RingSize]

\* What has been collected after k places of the ring, clockwise from the place of h.
get_responsible_nodes(N, h) ==
    LET ring == RingOf(N)
        walk[k \in 0..RingSize] ==
            IF k = 0 THEN <<>>
            ELSE LET seen == walk[k - 1]
                     place == (Home[h] + k - 1) % RingSize
                 IN  IF /\ place \in DOMAIN ring
                        /\ Len(seen) < Wanted
                        /\ ~ Contains(seen, ring[place])
                     THEN Append(seen, ring[place])
                     ELSE seen
    IN  walk[RingSize]

is_responsible(n, N, h) == Contains(get_responsible_nodes(N, h), n)

Latest(found, n) == SelectLastInSeq(found, LAMBDA f : f[1] = n)

\* The list of discovered nodes, each at its last address.
rebuild_from_peers(found) ==
    nodes' = [n \in Node |-> IF Latest(found, n) = 0 THEN NoAddress
                             ELSE found[Latest(found, n)][2]]

RingInit == nodes = Nobody

\* The ring alone: any nodes may be discovered next.
RingNext ==
    \E next \in [Node -> Address \cup {NoAddress}] :
        rebuild_from_peers(SelectSeq(SetToSeq({<<n, next[n]>> : n \in Node}),
                                     LAMBDA f : f[2] # NoAddress))

-----------------------------------------------------------------------------

\* How far the nearest place of n lies clockwise of h.
Distance(n, h) ==
    LET away == {(p - Home[h]) % RingSize : p \in Places[n]}
    IN  CHOOSE d \in away : \A e \in away : d <= e

\* Every content belongs to as many distinct nodes as the factor asks for, or to all if
\* they are fewer, nearest first, and to none that is farther than one left out
\* (get_responsible_nodes with its wrap and its seen_nodes).
WalkIsNearest ==
    \A h \in Hash :
        LET chosen == get_responsible_nodes(Members, h)
            far(n) == Distance(n, h)
        IN  /\ IsInjective(chosen) /\ ToSet(chosen) \subseteq Members
            /\ Len(chosen) = IF Wanted <= Cardinality(Members) THEN Wanted
                             ELSE Cardinality(Members)
            /\ \A i \in 1..Len(chosen) - 1 : far(chosen[i]) < far(chosen[i + 1])
            /\ \A n \in Members \ ToSet(chosen), m \in ToSet(chosen) : far(m) < far(n)

\* A rebuilt ring moves no content between two nodes that were on it and stay: a node
\* loses a content to one that joined, and gains one from a node that left.
StableOwnership ==
    LET Later == {n \in Node : nodes'[n] # NoAddress}
    IN  \A h \in Hash, n \in Members \cap Later :
          /\ is_responsible(n, Members, h) /\ ~ is_responsible(n, Later, h)
                 => \E m \in Later \ Members : is_responsible(m, Later, h)
          /\ ~ is_responsible(n, Members, h) /\ is_responsible(n, Later, h)
                 => \E m \in Members \ Later : is_responsible(m, Members, h)

\* In every ring the owners of a content are the nearest nodes, and from one ring to the
\* next only joining and leaving nodes move it.
OwnershipIsSound == [][Members' # Members => WalkIsNearest /\ StableOwnership]_nodes

=============================================================================
