------------------------------ MODULE ContentFetch -----------------------------
(***************************************************************************)
(* Contents that messages only name are asked from the responsible nodes,  *)
(* then from a few servers, then from IPFS (src/services/content_fetch.rs, *)
(* run and fetch_and_verify).  The job works from a copy of api_servers,   *)
(* and chain sync may write the same content first.                        *)
(***************************************************************************)
EXTENDS ContentRing

CONSTANTS
    ItemType,          \* ItemType[h]: "storage" or "ipfs"
    Binary,            \* contents that are not UTF-8
    FETCH_BATCH_SIZE,
    MAX_PEER_ATTEMPTS,
    MAX_RETRIES,
    MaxLosses          \* bound: queries that fail, and restarts

ASSUME ContentFetchAssumption ==
    /\ ItemType \in [Hash -> {"storage", "ipfs"}] /\ Binary \subseteq Hash
    /\ FETCH_BATCH_SIZE \in Nat \ {0} /\ MAX_PEER_ATTEMPTS \in Nat
    /\ MAX_RETRIES \in Nat \ {0} /\ MaxLosses \in Nat

VARIABLES
    api_servers, \* addresses to ask; module Peers has the job that keeps them
    content,     \* item_content of the message of h; "empty" marks it unfetchable
    batch,       \* items of this round that have no result yet
    servers,     \* this round's copy of api_servers
    answers,     \* results of this round
    failure_counts,
    losses

whomToAsk == <<nodes, api_servers>>
fetchVars == <<whomToAsk, content, batch, servers, answers, failure_counts, losses>>

Replies == {"whole", "forged", "none"}

FetchTypeOK ==
    /\ content \in [Hash -> {"null", "whole", "forged", "empty"}]
    /\ api_servers \subseteq Address
    /\ batch \subseteq Hash /\ servers \subseteq Address
    /\ answers \in [Hash -> {"none", "whole", "forged", "error"}]
    /\ failure_counts \in [Hash -> 0..MAX_RETRIES - 1]
    /\ losses \in 0..MaxLosses

FetchInit ==
    /\ RingInit /\ api_servers = {}
    /\ content = [h \in Hash |-> "null"]
    /\ batch = {} /\ servers = {}
    /\ answers = [h \in Hash |-> "none"]
    /\ failure_counts = [h \in Hash |-> 0]
    /\ losses = 0

Loss == losses < MaxLosses /\ losses' = losses + 1

Unfetched == {h \in Hash : content[h] = "null"}
Done == {h \in Hash : answers[h] # "none"}

-----------------------------------------------------------------------------

\* A tick: rows in random order, up to the size of a batch, and who is there to ask.
fetch_tick(h) ==
    /\ batch = {} /\ Done = {} /\ api_servers # {}
    /\ \E S \in SUBSET Unfetched :
          /\ h \in S
          /\ Cardinality(S) = IF Cardinality(Unfetched) <= FETCH_BATCH_SIZE
                              THEN Cardinality(Unfetched) ELSE FETCH_BATCH_SIZE
          /\ batch' = S
    /\ servers' = api_servers
    /\ UNCHANGED <<content, answers, failure_counts, losses, whomToAsk>>

\* Mutant: what a peer sends is taken for what its hash says.
verify_hash_skipped(h, reply) == reply # "none"

\* Of an ipfs item any answer is taken: its CID is not computed.
verify_hash(h, reply) ==
    \/ reply = "whole"
    \/ reply = "forged" /\ ItemType[h] = "ipfs"

Attempts(h) ==
    Len(get_responsible_nodes(Members, h))
      + IF Cardinality(servers) <= MAX_PEER_ATTEMPTS THEN Cardinality(servers)
        ELSE MAX_PEER_ATTEMPTS

\* The first answer that passes decides, even if it is not text; IPFS comes last.
Outcome(h, replies, ipfs) ==
    LET first == SelectInSeq(replies, LAMBDA r : verify_hash(h, r))
        reply == CASE first > 0 -> replies[first]
                   [] first = 0 /\ ItemType[h] = "ipfs" -> ipfs
                   [] OTHER -> "none"
    IN  IF reply = "none" \/ h \in Binary THEN "error" ELSE reply

fetch_and_verify ==
    \E h \in batch, ipfs \in {"whole", "none"} :
      \E replies \in [1..Attempts(h) -> Replies] :
        /\ batch' = batch \ {h}
        /\ answers' = [answers EXCEPT ![h] = Outcome(h, replies, ipfs)]
        /\ servers' = IF batch' = {} THEN {} ELSE servers
        /\ UNCHANGED <<content, failure_counts, losses, whomToAsk>>

Apply(h) ==
    /\ batch = {} /\ h \in Done
    /\ answers' = [answers EXCEPT ![h] = "none"]
    /\ UNCHANGED <<batch, servers, whomToAsk>>

\* UPDATE ... WHERE item_content IS NULL, here and below.
Fill(h, c) == content' = [content EXCEPT ![h] = IF @ = "null" THEN c ELSE @]

store_fetched_content ==
    \E h \in Hash :
        /\ Apply(h) /\ answers[h] # "error"
        /\ Fill(h, answers[h])
        /\ failure_counts' = [failure_counts EXCEPT ![h] = 0]
        /\ UNCHANGED losses

store_fetched_content_fails ==
    \E h \in Hash :
        /\ Apply(h) /\ answers[h] # "error"
        /\ Loss
        /\ UNCHANGED <<content, failure_counts>>

\* Mutant: failures do not add up from round to round.
fetch_error_uncounted ==
    \E h \in Hash :
        /\ Apply(h) /\ answers[h] = "error"
        /\ content' = [content EXCEPT ![h] = IF MAX_RETRIES <= 1 THEN "empty" ELSE @]
        /\ UNCHANGED <<failure_counts, losses>>

fetch_error ==
    \E h \in Hash :
        /\ Apply(h) /\ answers[h] = "error"
        /\ failure_counts[h] + 1 < MAX_RETRIES
        /\ failure_counts' = [failure_counts EXCEPT ![h] = @ + 1]
        /\ UNCHANGED <<content, losses>>

\* Mutant: without AND item_content IS NULL.
mark_unfetchable_always ==
    \E h \in Hash :
        /\ Apply(h) /\ answers[h] = "error"
        /\ failure_counts[h] + 1 >= MAX_RETRIES
        /\ content' = [content EXCEPT ![h] = "empty"]
        /\ failure_counts' = [failure_counts EXCEPT ![h] = 0]
        /\ UNCHANGED losses

mark_unfetchable ==
    \E h \in Hash :
        /\ Apply(h) /\ answers[h] = "error"
        /\ failure_counts[h] + 1 >= MAX_RETRIES
        /\ \/ Fill(h, "empty") /\ UNCHANGED losses
           \/ Loss /\ UNCHANGED content
        /\ failure_counts' = [failure_counts EXCEPT ![h] = 0]

FetchRound ==
    \/ fetch_and_verify \/ store_fetched_content \/ store_fetched_content_fails
    \/ fetch_error \/ mark_unfetchable

-----------------------------------------------------------------------------

\* Chain sync brings the content, or finds it at its gateway.
content_arrives ==
    \E h \in Hash :
        /\ content[h] = "null"
        /\ Fill(h, "whole")
        /\ UNCHANGED <<batch, servers, answers, failure_counts, losses, whomToAsk>>

\* The tidy and discovery jobs, seen from here: any servers, any nodes, at any time.  The
\* addresses of nodes make no difference, an answer may be anything.
peers_change ==
    /\ \/ api_servers' \in SUBSET Address /\ UNCHANGED nodes
       \/ \E N \in SUBSET Node :
            /\ nodes' = [n \in Node |-> IF n \in N THEN CHOOSE a \in Address : TRUE
                                       ELSE NoAddress]
            /\ UNCHANGED api_servers
    /\ UNCHANGED <<content, batch, servers, answers, failure_counts, losses>>

fetch_restart ==
    /\ Loss
    /\ batch' = {} /\ servers' = {}
    /\ answers' = [h \in Hash |-> "none"] /\ failure_counts' = [h \in Hash |-> 0]
    /\ UNCHANGED <<content, whomToAsk>>

FetchNext ==
    \/ \E h \in Hash : fetch_tick(h)
    \/ FetchRound \/ content_arrives \/ peers_change \/ fetch_restart

\* The job ticks for ever, and a random order leaves no row out for ever.
FetchFairness ==
    /\ WF_fetchVars(FetchRound)
    /\ \A h \in Hash : SF_fetchVars(fetch_tick(h))

FetchSpec == FetchInit /\ [][FetchNext]_fetchVars /\ FetchFairness

-----------------------------------------------------------------------------

\* No peer can make this node take another content for a storage item: what is stored has
\* the hash it was asked for (verify_hash).  Of ipfs items the code does not know.
StorageIsGenuine == \A h \in Hash : ItemType[h] = "storage" => content[h] # "forged"

\* A round that failed for an item does not wipe out the content that chain sync has found
\* in the meantime, nor does a late answer replace it.
ContentIsKept ==
    \A h \in Hash : content[h] \in {"whole", "forged"} => content'[h] = content[h]

\* If there is a server to ask time and again, every item gets its content or is given up:
\* no row is tried for ever, and none is left out (failure_counts, ORDER BY RANDOM()).
FetchEnds == []<>(api_servers # {}) => <>(Unfetched = {})

\* No content is taken that its hash refutes, and none that is had is lost.
FetchedIsKept == [][StorageIsGenuine' /\ ContentIsKept]_content

=============================================================================
