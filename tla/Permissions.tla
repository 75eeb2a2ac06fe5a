------------------------------ MODULE Permissions ------------------------------
(***************************************************************************)
(* Delegated authorization (src/permissions.rs).  An address grants others *)
(* the right to send messages for it in its aggregate "security".  This    *)
(* module says what one check decides of what it reads; the handlers that  *)
(* check, and what changes between two reads, are in Posts.                *)
(*                                                                         *)
(* Addresses are compared in lower case: an address here is a class of     *)
(* spellings.                                                              *)
(***************************************************************************)
EXTENDS FiniteSets

CONSTANTS
    Address,     \* addresses
    Label        \* chains, channels, types, post types and keys of messages

NoLabel == "none"   \* a field the content does not have

\* A message as the check sees it: the envelope, content.address, and the
\* fields content.type and content.key.
Envelope == [sender: Address, address: Address, chain: Label, channel: Label,
             type: {"POST", "AGGREGATE", "FORGET"},
             post_type: Label \cup {NoLabel}, key: Label \cup {NoLabel}]

\* One entry of authorizations.  An empty list allows everything.  The code has
\* an optional chain, which is a list of at most one.
SecurityAuthorization ==
    [address: Address, chain: SUBSET Label, channels: SUBSET Label,
     types: SUBSET {"POST", "AGGREGATE", "FORGET"},
     post_types: SUBSET Label, aggregate_keys: SUBSET Label]

-----------------------------------------------------------------------------

Allows(list, value) == list # {} => value \in list

\* One entry of the list covers what the sender does with message m.  A filter
\* on a field that the content lacks passes.
Covers(auth, sender, m) ==
    /\ auth.address = sender
    /\ Allows(auth.chain, m.chain)
    /\ Allows(auth.channels, m.channel)
    /\ Allows(auth.types, m.type)
    /\ m.type = "POST" /\ m.post_type # NoLabel => Allows(auth.post_types, m.post_type)
    /\ m.type = "AGGREGATE" /\ m.key # NoLabel => Allows(auth.aggregate_keys, m.key)

\* Wrong variant of check_delegated_authorization: the filters are not looked at.
check_delegated_authorization_unfiltered(authorizations, sender, owner, m) ==
    \/ sender = owner
    \/ \E auth \in authorizations : auth.address = sender

\* authorizations is the content of the owner's row of aggregates at the time of
\* the read; no row, or one that does not parse, has none.
check_delegated_authorization(authorizations, sender, owner, m) ==
    \/ sender = owner
    \/ \E auth \in authorizations : Covers(auth, sender, m)

=============================================================================
