------------------------------- MODULE MCNetwork -------------------------------
(***************************************************************************)
(* What a node takes from the network: chain synchronisation (MCChainSync) *)
(* and the jobs that keep its peers.  A behaviour is one of the two, with  *)
(* the other at rest.                                                      *)
(***************************************************************************)
EXTENDS MCChainSync, Peers

VARIABLE part

MCPlaces == [n \in Node |-> IF n = "n1" THEN {0, 3} ELSE {1}]
MCHome == [h \in Hash |-> IF h = "h" THEN 2 ELSE 0]

MCInit ==
    /\ part \in {"sync", "peers"}
    /\ Init /\ (part # "sync" => source = "rpc")
    /\ PeersInit
    /\ \/ part = "sync" /\ listed = Nobody /\ online = {}
       \/ /\ part = "peers"
          /\ listed = [n \in Node |-> IF n = "n1" THEN "a" ELSE "c"] /\ online = {"a", "c"}

MCNext ==
    /\ UNCHANGED part
    /\ \/ part = "sync" /\ Next /\ UNCHANGED peerVars
       \/ part = "peers" /\ PeersNext /\ UNCHANGED vars

MCFairSpec ==
    /\ MCInit /\ [][MCNext]_<<part, vars, peerVars>>
    /\ WF_vars(part = "sync" /\ CycleStep)
    /\ WF_peerVars(part = "peers" /\ Discovery)
    /\ WF_peerVars(part = "peers" /\ Tidy)

=============================================================================
