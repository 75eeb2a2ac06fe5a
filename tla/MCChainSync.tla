------------------------------ MODULE MCChainSync ------------------------------
(***************************************************************************)
(* Five sync events at four positions: two files, one of them published    *)
(* twice, a foreign emitter and a garbled text.                            *)
(***************************************************************************)
EXTENDS ChainSync

MCPosition == [e \in Event |->
    CASE e = "first" -> 1
      [] e \in {"noise", "other"} -> 2
      [] e = "junk" -> 3
      [] e = "again" -> 4]
MCFile == [e \in Event |-> IF e = "other" THEN "g" ELSE "f"]
MCContents == [f \in {MCFile[e] : e \in Event} |->
    Msg \cap (IF f = "g" THEN {"remote", "spam"} ELSE {"post", "remote"})]
MCForeign == Event \cap {"noise"}
MCGarbled == Event \cap {"junk"}
MCBare == Msg \cap {"remote"}
MCSpam == Msg \cap {"spam"}

=============================================================================
