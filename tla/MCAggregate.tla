----------------------------- MODULE MCAggregate -----------------------------
(***************************************************************************)
(* Three updates of one aggregate: the second is older than the first in   *)
(* the order they are named, and each field has two writers.               *)
(***************************************************************************)
EXTENDS Aggregate

MCWrites == [e \in Element |->
    CASE e = "base"  -> {"x", "y"}
      [] e = "left"  -> {"x"}
      [] e = "right" -> {"y"}]

MCTime == [e \in Element |-> CASE e = "base" -> 1 [] e = "left" -> 2 [] e = "right" -> 3]
MCRank == [e \in Element |-> CASE e = "base" -> 3 [] e = "left" -> 2 [] e = "right" -> 1]
MCHashes == [f \in Forget |-> Element \ {"base"}]

=============================================================================
