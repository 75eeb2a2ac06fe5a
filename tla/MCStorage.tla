------------------------------- MODULE MCStorage -------------------------------
(***************************************************************************)
(* The handlers of VMs (MCVm) and what their files depend on: the file     *)
(* store of a node, its warm cache, and the ring that says which contents  *)
(* are its own.  They share no state here: a behaviour is one of the four. *)
(***************************************************************************)
EXTENDS MCVm, WarmCache, FileStore, ContentRing

VARIABLE part

MCBytes == [b \in Blob |-> IF b = "big" THEN 2 ELSE 1]
MCPlaces == [n \in Node |-> CASE n = "n1" -> {0, 5} [] n = "n2" -> {2, 3}
                              [] n = "n3" -> {4, 7} [] n = "n4" -> {1}]
MCHome == [h \in Hash |-> IF h = "h" THEN 2 ELSE 6]

MCInit ==
    /\ part \in {"vms", "warm", "files", "ring"}
    /\ Init /\ WarmInit /\ FileStoreInit /\ RingInit

AllVars == <<vars, warmVars, fileVars, nodes>>

MCNext ==
    /\ UNCHANGED part
    /\ \/ part = "vms" /\ Next
          /\ UNCHANGED <<warmVars, fileVars, nodes>>
       \/ part = "warm" /\ WarmNext
          /\ UNCHANGED <<vars, fileVars, nodes>>
       \/ part = "files" /\ FileStoreNext
          /\ UNCHANGED <<vars, warmVars, nodes>>
       \/ part = "ring" /\ RingNext
          /\ UNCHANGED <<vars, warmVars, fileVars>>

MCSpec == MCInit /\ [][MCNext]_<<part, AllVars>>

=============================================================================
