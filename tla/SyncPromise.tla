------------------------------ MODULE SyncPromise ------------------------------
(***************************************************************************)
(* What a chain synchronisation promises, whatever it reads and however it *)
(* fails: the position it has saved only grows, and only over sync events  *)
(* whose messages are stored or whose file could not be had.               *)
(***************************************************************************)
EXTENDS Naturals

CONSTANTS
    Event,      \* sync events of the chain
    Position,   \* Position[e]: its block height, or its timestamp
    File,       \* File[e]: the IPFS file of messages it names
    Contents,   \* Contents[f]: the messages of a file
    Void,       \* events that are not followed: a foreign emitter, garbled text
    Spam        \* messages of blacklisted senders

VARIABLES saved, messages, missed

Settled(e) ==
    e \in Void \/ File[e] \in missed \/ Contents[File[e]] \subseteq messages \cup Spam

Init == saved = 0 /\ messages = {} /\ missed = {}

Take ==
    /\ messages \subseteq messages' /\ missed \subseteq missed'
    /\ saved' = saved

Advance ==
    /\ saved' \in Nat /\ saved' >= saved
    /\ \A e \in Event : Position[e] <= saved' => Settled(e)
    /\ UNCHANGED <<messages, missed>>

Spec == Init /\ [][Take \/ Advance]_<<saved, messages, missed>>

================================================================================
