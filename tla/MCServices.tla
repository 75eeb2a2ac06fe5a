------------------------------- MODULE MCServices ------------------------------
(***************************************************************************)
(* The message processor (MCMessageProcessor), the job that fetches        *)
(* contents for it, a client that asks what became of a message, and       *)
(* processes that start over one database.  A behaviour is one of the      *)
(* four, with the others at rest.                                          *)
(***************************************************************************)
EXTENDS MCMessageProcessor, ContentFetch, MessageStatus, Startup

VARIABLE part

MCPlaces == [n \in Node |-> {0, 3}]
MCHome == [h \in Hash |-> IF h = "h" THEN 2 ELSE 0]
MCItemType == [h \in Hash |-> IF h = "g" THEN "ipfs" ELSE "storage"]

MCInit ==
    /\ part \in {"processor", "fetch", "status", "startup"}
    /\ Init /\ FetchInit /\ StatusInit /\ StartupInit

MCNext ==
    /\ UNCHANGED part
    /\ \/ part = "processor" /\ Next /\ UNCHANGED <<fetchVars, statusVars, startVars>>
       \/ part = "fetch" /\ FetchNext /\ UNCHANGED <<vars, statusVars, startVars>>
       \/ part = "status" /\ StatusNext /\ UNCHANGED <<vars, fetchVars, startVars>>
       \/ part = "startup" /\ StartupNext /\ UNCHANGED <<vars, fetchVars, statusVars>>

\* At rest none has anything to do: no message is pending, no server is there to ask.
MCFairSpec ==
    /\ MCInit /\ [][MCNext]_<<part, vars, fetchVars, statusVars, startVars>>
    /\ Fairness /\ FetchFairness

=============================================================================
