-------------------------- MODULE MCMessageProcessor --------------------------
(***************************************************************************)
(* The messages the runs of MessageProcessor choose from.  A cfg picks the *)
(* subset of a scenario as Msg and says who delivers which of them.        *)
(***************************************************************************)
EXTENDS MessageProcessor

\* A FORGET is named for what it names: wipe forgets the post and the store,
\* retire the VM, of which fix is an amendment.
MCKind == [m \in Msg |->
    CASE m \in {"post", "amend", "remote", "spam"} -> "POST"
      [] m \in {"store", "blob"} -> "STORE"
      [] m \in {"forget", "wipe", "drop", "thief", "forgery", "retire"} -> "FORGET"
      [] m \in {"vm", "fix"} -> "INSTANCE"
      [] OTHER -> "AGGREGATE"]

MCOriginal == [m \in Msg |-> CASE m = "amend" -> "post" [] m = "fix" -> "vm" [] OTHER -> m]

MCHashes == [m \in Msg |->
    CASE m \in {"forget", "forgery", "thief"} -> Msg \cap {"post", "remote"}
      [] m = "drop" -> Msg \cap {"store", "blob"}
      [] m = "retire" -> Msg \cap {"vm"}
      [] m = "wipe" -> Msg \cap {"post", "store", "remote", "blob"}
      [] OTHER -> {}]

MCSender == [m \in Msg |-> IF m = "thief" THEN "mallory" ELSE "alice"]

MCBadSig == Msg \cap {"forged", "forgery"}
MCBadHash == Msg \cap {"tampered"}
MCMalformed == Msg \cap {"junk"}
MCRemote == Msg \cap {"remote", "blob"}
MCBlacklisted == Msg \cap {"spam"}
MCSecurity == Msg \cap {"sec1", "sec2"}

\* Bound of the runs gossip and chain: what arrives in a behaviour is of one of these
\* casts.  A post and its amend; a post and a thief beside its owner; an instance and
\* its amendment; a file that chain sync finds; what is no message at all; a post that
\* chain sync finds, its FORGET, and an unsigned FORGET or an unsigned aggregate.
Casts == {{"post", "amend", "forget"}, {"post", "forget", "thief"}, {"vm", "fix", "retire"},
          {"blob", "drop"}, {"junk"},
          {"remote", "wipe", "forgery"}, {"remote", "wipe", "forged"}}

OneCast == \E cast \in Casts : received' \subseteq cast

=============================================================================
