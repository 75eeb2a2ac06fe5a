--------------------------- MODULE MessageLifecycle ----------------------------
(***************************************************************************)
(* What a node promises about the life of a message, whatever brings it,   *)
(* however often, and however batches fail:                                *)
(*                                                                         *)
(*   absent --> waiting --> effective --> leaving <--> forgotten           *)
(*                 |            |                          ^               *)
(*                 +------------+--------------------------+               *)
(*                                                                         *)
(* A message takes effect only in a batch that took it up, and loses its   *)
(* effect only to a FORGET of the same batch that is authorized.  Once     *)
(* forgotten, only a batch that took it up before can still write its rows *)
(* (it is then leaving); no later batch takes it up.                       *)
(*                                                                         *)
(* The one way back is that of an update: the FORGET of what it updates    *)
(* undoes its effect and does not forget it, so that it waits again, or is *)
(* absent, and may be received and taken up once more.                     *)
(***************************************************************************)
CONSTANTS
    Msg,
    Authorized,  \* pairs of a FORGET and a message it may forget
    Updates,     \* pairs of an update and what it updates
    Ignored      \* messages that may be dropped: of blacklisted senders

VARIABLES
    life,   \* life[m]: the stage of m
    hand    \* messages of the batch that is under way

Stages == {"absent", "waiting", "effective", "leaving", "forgotten"}

Init == life = [m \in Msg |-> "absent"] /\ hand = {}

Receive(m) ==
    /\ life[m] = "absent"
    /\ life' = [life EXCEPT ![m] = "waiting"]
    /\ UNCHANGED hand

\* A batch begins, of messages that wait or may be processed again, none forgotten.
TakeUp ==
    /\ hand = {}
    /\ hand' \subseteq {m \in Msg : life[m] \in {"waiting", "effective"}}
    /\ UNCHANGED life

Apply(m) ==
    /\ m \in hand
    /\ life' = [life EXCEPT ![m] = IF @ \in {"leaving", "forgotten"} THEN "leaving"
                                   ELSE "effective"]
    /\ UNCHANGED hand

Forgotten(m) == life[m] \in {"leaving", "forgotten"}

\* Message m is marked, or erased, or both at once.
MayLose(f, m) ==
    /\ <<f, m>> \in Authorized
    /\ <<life[m], life'[m]>> \in {<<"waiting", "forgotten">>, <<"effective", "leaving">>,
                                  <<"effective", "forgotten">>, <<"leaving", "forgotten">>}

\* Message m updates what f forgets, and is undone with it.
MayUndo(f, m) ==
    /\ \E o \in Msg : <<m, o>> \in Updates /\ <<f, o>> \in Authorized /\ Forgotten(o)
    /\ <<life[m], life'[m]>> \in {<<"effective", "waiting">>, <<"effective", "absent">>,
                                  <<"leaving", "forgotten">>}

\* The FORGET f takes its effect, on some of what it may forget.
Forget(f) ==
    /\ f \in hand
    /\ life' \in [Msg -> Stages]
    /\ \A m \in Msg : life'[m] # life[m] => MayLose(f, m) \/ MayUndo(f, m)
    /\ UNCHANGED hand

\* The batch has done with some of its messages, or has been cut.
PutDown ==
    /\ hand' \subseteq hand
    /\ UNCHANGED life

\* The only messages that disappear: ignored ones, and updates of what is forgotten.
Ignore ==
    /\ life' \in [Msg -> Stages]
    /\ \A m \in Msg : life'[m] # life[m] =>
          /\ m \in Ignored \/ \E o \in Msg : <<m, o>> \in Updates /\ Forgotten(o)
          /\ life[m] = "waiting" /\ life'[m] = "absent"
    /\ UNCHANGED hand

Next ==
    \/ \E m \in Msg : Receive(m) \/ Apply(m) \/ Forget(m)
    \/ TakeUp \/ PutDown \/ Ignore

Spec == Init /\ [][Next]_<<life, hand>>

================================================================================
