----------------------------- MODULE MCFilePins -----------------------------
(***************************************************************************)
(* One file that one address stores twice.                                 *)
(***************************************************************************)
EXTENDS FilePins

MCFile == [m \in Store |-> "data"]
MCOwner == [m \in Store |-> "alice"]
MCRef == [m \in Store |-> "data"]

\* The FORGET of the second is for another address than the STORE.
MCForgetter == [m \in Store |-> IF m = "first" THEN "alice" ELSE "bob"]
MCTime == [m \in Store |-> IF m = "again" THEN 2 ELSE 1]
MCPaid == Store \cap {"first"}

=============================================================================
