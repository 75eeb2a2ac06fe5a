------------------------------- MODULE MCIngress -------------------------------
(***************************************************************************)
(* The message processor (MCMessageProcessor), the queue gossip comes in   *)
(* by, the socket by which a client hears of it, and the backfill of what  *)
(* a crash left bare.  They share no state here: a behaviour is one of the *)
(* four.                                                                   *)
(***************************************************************************)
EXTENDS MCMessageProcessor, P2pConsumer, WebSocket, Backfill

VARIABLE part

MCItemOf == [c \in Copy |-> IF c \in {"good", "copy"} THEN "i" ELSE "j"]
MCFrom == [m \in Message |-> IF m = "m2" THEN "b" ELSE "a"]
MCFilter == {[addresses |-> {"a"}, hashes |-> {}], [addresses |-> {"b"}, hashes |-> {}],
             [addresses |-> {}, hashes |-> {"m2"}]}

\* "first" and "second" are posts, the walk of two steps; "junk" is an instance
\* that is not JSON, sent at the time of "second".
MCTypeOf == [m \in Letter |-> IF m = "junk" THEN "INSTANCE" ELSE "POST"]
MCBody == [m \in Letter |-> IF m = "junk" THEN "malformed" ELSE "good"]
MCSentAt == [m \in Letter |-> IF m = "first" THEN 1 ELSE 2]

MCInit ==
    /\ part \in {"processor", "p2p", "socket", "backfill"}
    /\ Init /\ P2pInit /\ WsInit /\ BackfillInit

\* The copies and the messages of a behaviour are few: their queues may run dry for good.
MCNext ==
    /\ UNCHANGED part
    /\ \/ part = "processor" /\ Next /\ UNCHANGED <<p2pVars, wsVars, backfillVars>>
       \/ part = "p2p" /\ P2pNext /\ UNCHANGED <<vars, wsVars, backfillVars>>
       \/ part = "socket" /\ WsNext /\ UNCHANGED <<vars, p2pVars, backfillVars>>
       \/ part = "backfill" /\ BackfillNext /\ UNCHANGED <<vars, p2pVars, wsVars>>
       \/ part # "processor" /\ UNCHANGED <<vars, p2pVars, wsVars, backfillVars>>

MCSpec == MCInit /\ [][MCNext]_<<part, vars, p2pVars, wsVars, backfillVars>>

=============================================================================
