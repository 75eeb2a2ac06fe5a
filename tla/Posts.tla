--------------------------------- MODULE Posts ---------------------------------
(***************************************************************************)
(* Posts, their amends and who may write them: the table posts, written by *)
(* the POST handler (src/handlers/post.rs), by FORGET's cascade            *)
(* (handlers/forget.rs) and by the startup backfill (jobs/backfill.rs),    *)
(* and the aggregate "security" that the permission check reads            *)
(* (permissions.rs).                                                       *)
(*                                                                         *)
(* Every statement is a step; the tasks of a batch run concurrently, the   *)
(* updates of "security" after them and one at a time per address          *)
(* (jobs/message_processor.rs, see Aggregate for how the row is written).  *)
(***************************************************************************)
EXTENDS Naturals, Permissions

CONSTANTS
    Post,            \* POST messages that are not amends
    Amend,           \* POST messages whose type is "amend"
    Grant,           \* AGGREGATE messages with the key "security"
    Removal,         \* FORGET messages, of one hash each
    Attr,            \* Attr[m]: the envelope of m
    Ref,             \* Ref[a]: content.ref of amend a
    Target,          \* Target[f]: the hash f names
    Stamp,           \* Stamp[m]: content.time of a post, amend or grant
    Authorizations,  \* Authorizations[g]: the list in the content of g
    Trusted,         \* messages that come from chain sync, of which no handler checks the
                     \*   permissions: posts, amends and updates of "security" alike
    MaxFaults        \* bound: tasks that fail or time out, and backfills

Item == Post \cup Amend \cup Grant \cup Removal

ASSUME PostsAssumption ==
    /\ Post \cap Amend = {} /\ (Post \cup Amend) \cap Grant = {}
    /\ (Post \cup Amend \cup Grant) \cap Removal = {}
    /\ Attr \in [Item -> Envelope]
    /\ \A p \in Post \cup Amend : Attr[p].type = "POST"
    /\ \A g \in Grant : Attr[g].type = "AGGREGATE" /\ Attr[g].key = "security"
    /\ Ref \in [Amend -> Post \cup Amend]
    /\ Target \in [Removal -> Post \cup Amend]
    /\ Stamp \in [Post \cup Amend \cup Grant -> Nat]
    /\ \A g, h \in Grant : Stamp[g] = Stamp[h] => g = h
    /\ Authorizations \in [Grant -> SUBSET SecurityAuthorization]
    /\ Trusted \subseteq Post \cup Amend \cup Grant
    /\ MaxFaults \in Nat

VARIABLES
    posts,      \* rows of posts
    latest,     \* latest[p]: column latest_amend of the row of p, if it is set
    grants,     \* rows of aggregate_elements with the key "security"
    messages,   \* rows of messages, of posts and amends (no handler here reads others)
    forgotten,  \* rows of forgotten_messages
    step,       \* step[m]: the next statement of m's task
    found,      \* found[a]: get_message has returned the original of amend a
    cascade,    \* cascade[f]: amends f has selected and not yet erased
    erasing,     \* erasing[f]: the amend f is erasing
    refill,     \* the backfill has inserted rows and not yet set latest_amend
    faults,     \* failed tasks and backfills so far
    ever,       \* history: ever[o], every authorization that was in force for o
    beside,     \* history: beside[f], the tasks that ran when f looked its target
                \*   up, all of them if its message was not there
    refilled,   \* history: rows the backfill inserted
    finished    \* history: FORGETs that came to their end

tables  == <<posts, latest, grants, messages, forgotten>>
postLocals  == <<found, cascade, erasing>>
counts  == <<refill, faults>>
history == <<ever, beside, refilled, finished>>
postVars == <<tables, step, postLocals, counts, history>>

Steps == {"out", "validate", "lookup", "permit", "owner", "insert", "latest", "queued",
          "merge", "mark", "select", "amend", "amend_message", "row", "message", "store"}

PostsTypeOK ==
    /\ posts \subseteq Post \cup Amend
    /\ latest \in [Post \cup Amend -> SUBSET Amend]
    /\ grants \subseteq Grant
    /\ messages \cup forgotten \subseteq Post \cup Amend
    /\ step \in [Item -> Steps]
    /\ found \in [Amend -> BOOLEAN]
    /\ cascade \in [Removal -> SUBSET Amend] /\ erasing \in [Removal -> SUBSET Amend]
    /\ refill \in BOOLEAN /\ faults \in 0..MaxFaults
    /\ ever \in [Address -> SUBSET SecurityAuthorization]
    /\ beside \in [Removal -> SUBSET Item]
    /\ refilled \subseteq Post \cup Amend
    /\ finished \subseteq Removal

PostsInit ==
    /\ posts = {} /\ latest = [p \in Post \cup Amend |-> {}]
    /\ grants = {} /\ messages = {} /\ forgotten = {}
    /\ step = [m \in Item |-> "out"]
    /\ found = [a \in Amend |-> FALSE]
    /\ cascade = [f \in Removal |-> {}] /\ erasing = [f \in Removal |-> {}]
    /\ refill = FALSE /\ faults = 0
    /\ ever = [o \in Address |-> {}]
    /\ beside = [f \in Removal |-> {}]
    /\ refilled = {} /\ finished = {}

-----------------------------------------------------------------------------

Delegated(m) == Attr[m].sender # Attr[m].address

\* process_message: whose permissions a handler looks up.
NeedsGrant(m) == Delegated(m) /\ m \notin Trusted

\* The content of the owner's row of "security": the list of the newest element,
\* as deep_merge replaces arrays.
SecurityOf(o, rows) ==
    {auth \in UNION {Authorizations[g] : g \in rows} :
        \E g \in rows : /\ Attr[g].address = o
                        /\ auth \in Authorizations[g]
                        /\ \A h \in rows : Attr[h].address = o => Stamp[h] <= Stamp[g]}

Advance(m, to) == step' = [step EXCEPT ![m] = to]

\* The task ends: processed, or rejected by one of its checks.
End(m) == Advance(m, "out")

\* What a batch begins with: validate of a post looks only at its content, and
\* permissions of its own sender need no query.
FirstStep(m) ==
    CASE m \in Amend \cup Removal -> "validate"
      [] m \in Grant -> "queued"
      [] m \in Post  -> IF NeedsGrant(m) THEN "permit" ELSE "insert"

\* process_batch drops what has derived rows and what was forgotten.
process_posts ==
    /\ \A m \in Item : step[m] = "out"
    /\ \E batch \in SUBSET (Item \ (posts \cup grants \cup forgotten)) \ {{}} :
           step' = [m \in Item |-> IF m \in batch THEN FirstStep(m) ELSE "out"]
    /\ UNCHANGED <<tables, postLocals, counts, history>>

\* A database error is a rejection, a timeout a retry: what was written stays,
\* and the message may come again.
post_task_fails(m) ==
    /\ step[m] # "out"
    /\ faults < MaxFaults
    /\ faults' = faults + 1
    /\ End(m)
    /\ UNCHANGED <<tables, postLocals, refill, history>>

\* Chain sync puts a message it has not seen into messages before its handler.
insert_anchored(m) ==
    /\ m \in (Trusted \cap (Post \cup Amend)) \ messages
    /\ messages' = messages \cup {m}
    /\ UNCHANGED <<posts, latest, grants, forgotten, step, postLocals, counts, history>>

-----------------------------------------------------------------------------
(***************************************************************************)
(* PostHandler                                                             *)
(***************************************************************************)

\* validate_amend: the target is there and is not itself an amend.
validate_amend(a) ==
    /\ step[a] = "validate"
    /\ IF Ref[a] \in posts \ Amend
       THEN Advance(a, CASE a \in Trusted -> "insert"
                         [] a \notin Trusted /\ Delegated(a) -> "lookup"
                         [] a \notin Trusted /\ ~ Delegated(a) -> "owner")
       ELSE End(a)
    /\ UNCHANGED <<tables, postLocals, counts, history>>

\* check_sender_authorization of an amend: the message of the original, if it
\* is there, must be of the same owner.
lookup_original(a) ==
    /\ step[a] = "lookup"
    /\ found' = [found EXCEPT ![a] = Ref[a] \in messages]
    /\ IF Ref[a] \in messages /\ Attr[Ref[a]].address # Attr[a].address
       THEN End(a)
       ELSE Advance(a, "permit")
    /\ UNCHANGED <<tables, cascade, erasing, counts, history>>

\* The message whose chain, channel and type the filters are compared with: for
\* an amend the original, unless its message was not found.
Checked(m) == IF m \in Amend /\ found[m] THEN Attr[Ref[m]] ELSE Attr[m]

\* The read of the owner's authorizations decides.
check_permissions(m) ==
    /\ step[m] = "permit"
    /\ IF check_delegated_authorization(SecurityOf(Attr[m].address, grants),
              Attr[m].sender, Attr[m].address, Checked(m))
       THEN Advance(m, CASE m \in Amend -> "owner" [] m \in Post -> "insert"
                         [] m \in Grant -> "merge")
       ELSE End(m)
    /\ UNCHANGED <<tables, postLocals, counts, history>>

\* Wrong variant of check_amend_owner: any owner will do.
check_amend_owner_skipped(a) ==
    /\ step[a] = "owner"
    /\ Advance(a, "insert")
    /\ UNCHANGED <<tables, postLocals, counts, history>>

\* get_post: an original that is gone by now is not compared.
check_amend_owner(a) ==
    /\ step[a] = "owner"
    /\ IF Ref[a] \in posts /\ Attr[Ref[a]].address # Attr[a].address
       THEN End(a)
       ELSE Advance(a, "insert")
    /\ UNCHANGED <<tables, postLocals, counts, history>>

insert_post(m) ==
    /\ step[m] = "insert"
    /\ posts' = posts \cup {m}
    /\ Advance(m, IF m \in Amend THEN "latest" ELSE "store")
    /\ UNCHANGED <<latest, grants, messages, forgotten, postLocals, counts, history>>

\* The amend processed last is the one that is shown, whatever its time.
update_latest_amend(a) ==
    /\ step[a] = "latest"
    /\ latest' = [latest EXCEPT ![Ref[a]] = IF Ref[a] \in posts THEN {a} ELSE @]
    /\ Advance(a, "store")
    /\ UNCHANGED <<posts, grants, messages, forgotten, postLocals, counts, history>>

store_post(m) ==
    /\ step[m] = "store"
    /\ messages' = messages \cup ({m} \cap (Post \cup Amend))
    /\ End(m)
    /\ finished' = finished \cup ({m} \cap Removal)
    /\ UNCHANGED <<posts, latest, grants, forgotten, postLocals, counts, ever, beside, refilled>>

-----------------------------------------------------------------------------
(***************************************************************************)
(* Updates of "security"                                                   *)
(***************************************************************************)

\* Wrong variant of start_security: updates of "security" are not checked.
start_security_unchecked(g) ==
    /\ step[g] = "queued"
    /\ \A m \in Item \ Grant : step[m] = "out"
    /\ Advance(g, "merge")
    /\ UNCHANGED <<tables, postLocals, counts, history>>

\* After the parallel tasks, one at a time for each address.  What chain sync
\* delivers is merged whoever signed it.
start_security(g) ==
    /\ step[g] = "queued"
    /\ \A m \in Item \ Grant : step[m] = "out"
    /\ \A h \in Grant \ {g} : Attr[h].address = Attr[g].address => step[h] \in {"out", "queued"}
    /\ Advance(g, IF NeedsGrant(g) THEN "permit" ELSE "merge")
    /\ UNCHANGED <<tables, postLocals, counts, history>>

merge_security(g) ==
    /\ step[g] = "merge"
    /\ grants' = grants \cup {g}
    /\ ever' = [ever EXCEPT ![Attr[g].address] = @ \cup SecurityOf(Attr[g].address, grants')]
    /\ Advance(g, "store")
    /\ UNCHANGED <<posts, latest, messages, forgotten, postLocals, counts, beside, refilled,
                   finished>>

-----------------------------------------------------------------------------
(***************************************************************************)
(* FORGET of a post, cascade_forget                                        *)
(***************************************************************************)

\* validate and check_ownership: the message's sender, or the row's address.
validate_removal(f) ==
    /\ step[f] = "validate"
    /\ LET t == Target[f]
           owns == IF t \in messages THEN Attr[t].sender = Attr[f].sender
                   ELSE t \in posts /\ Attr[t].address = Attr[f].sender
       IN IF t \notin forgotten /\ owns
          THEN Advance(f, "mark") ELSE End(f)
    /\ UNCHANGED <<tables, postLocals, counts, history>>

\* get_message, then mark_forgotten, which nothing reads before the next batch.
\* A message that is not there has no type: nothing is derived from it to erase.
mark_removed(f) ==
    /\ step[f] = "mark"
    /\ forgotten' = forgotten \cup {Target[f]}
    /\ Advance(f, IF Target[f] \in messages THEN "select" ELSE "message")
    /\ beside' = [beside EXCEPT ![f] =
                     IF Target[f] \in messages THEN {m \in Item : step[m] # "out"} ELSE Item]
    /\ UNCHANGED <<posts, latest, grants, messages, postLocals, counts, ever, refilled, finished>>

\* Wrong variant of select_amends: the amends of a post are left alone.
select_amends_skipped(f) ==
    /\ step[f] = "select"
    /\ Advance(f, "row")
    /\ UNCHANGED <<tables, postLocals, counts, history>>

select_amends(f) ==
    /\ step[f] = "select"
    /\ cascade' = [cascade EXCEPT ![f] = {a \in posts \cap Amend : Ref[a] = Target[f]}]
    /\ Advance(f, IF cascade'[f] = {} THEN "row" ELSE "amend")
    /\ UNCHANGED <<tables, found, erasing, counts, history>>

\* One amend: mark_forgotten and the DELETE of its row ...
erase_amend(f, a) ==
    /\ step[f] = "amend"
    /\ a \in cascade[f]
    /\ forgotten' = forgotten \cup {a}
    /\ posts' = posts \ {a}
    /\ latest' = [latest EXCEPT ![a] = {}]
    /\ erasing' = [erasing EXCEPT ![f] = {a}]
    /\ Advance(f, "amend_message")
    /\ UNCHANGED <<grants, messages, found, cascade, counts, history>>

\* ... and of its message.
erase_amend_message(f) ==
    /\ step[f] = "amend_message"
    /\ messages' = messages \ erasing[f]
    /\ cascade' = [cascade EXCEPT ![f] = @ \ erasing[f]]
    /\ Advance(f, IF cascade'[f] = {} THEN "row" ELSE "amend")
    /\ UNCHANGED <<posts, latest, grants, forgotten, found, erasing, counts, history>>

\* delete_derived_data
delete_post(f) ==
    /\ step[f] = "row"
    /\ posts' = posts \ {Target[f]}
    /\ latest' = [latest EXCEPT ![Target[f]] = {}]
    /\ Advance(f, "message")
    /\ UNCHANGED <<grants, messages, forgotten, postLocals, counts, history>>

delete_post_message(f) ==
    /\ step[f] = "message"
    /\ messages' = messages \ {Target[f]}
    /\ Advance(f, "store")
    /\ UNCHANGED <<posts, latest, grants, forgotten, postLocals, counts, history>>

-----------------------------------------------------------------------------
(***************************************************************************)
(* backfill_posts, on a restart: rows for messages that lack one, without  *)
(* the handler's checks, then latest_amend by time.                        *)
(***************************************************************************)

backfill_insert ==
    /\ ~ refill /\ faults < MaxFaults
    /\ LET lacking == messages \ posts
       IN /\ posts' = posts \cup lacking
          /\ refilled' = refilled \cup lacking
    /\ refill' = TRUE
    /\ faults' = faults + 1
    /\ UNCHANGED <<latest, grants, messages, forgotten, step, postLocals, ever, beside,
                   finished>>

AmendsOf(p) == {a \in posts \cap Amend : Ref[a] = p}

\* DISTINCT ON ... ORDER BY time DESC: of two amends of one time, either.
backfill_latest ==
    /\ refill
    /\ \E newest \in [{p \in posts : AmendsOf(p) # {}} -> posts \cap Amend] :
           /\ \A p \in DOMAIN newest : /\ newest[p] \in AmendsOf(p)
                                      /\ \A b \in AmendsOf(p) : Stamp[b] <= Stamp[newest[p]]
           /\ latest' = [p \in Post \cup Amend |->
                           IF p \in DOMAIN newest THEN {newest[p]} ELSE latest[p]]
    /\ refill' = FALSE
    /\ UNCHANGED <<posts, grants, messages, forgotten, step, postLocals, faults, history>>

PostTask(m) == insert_post(m) \/ check_permissions(m) \/ store_post(m) \/ post_task_fails(m)

AmendTask(a) ==
    \/ validate_amend(a) \/ lookup_original(a)
    \/ check_amend_owner(a) \/ update_latest_amend(a)

RemovalTask(f) ==
    \/ validate_removal(f) \/ mark_removed(f) \/ select_amends(f)
    \/ \E a \in Amend : erase_amend(f, a)
    \/ erase_amend_message(f) \/ delete_post(f) \/ delete_post_message(f)

PostsNext ==
    \/ process_posts
    \/ \E m \in Item : PostTask(m)
    \/ \E a \in Amend : AmendTask(a)
    \/ \E g \in Grant : start_security(g) \/ merge_security(g)
    \/ \E f \in Removal : RemovalTask(f)
    \/ \E m \in Trusted : insert_anchored(m)
    \/ backfill_insert \/ backfill_latest

PostsSpec == PostsInit /\ [][PostsNext]_postVars

-----------------------------------------------------------------------------

\* What the API shows for a post is its own or of its owner: handlers check the
\* owner of an amend in three reads of two tables, none of them locked, while
\* FORGETs delete what they read.  Rows the backfill put in, and amends from
\* chain sync, have passed no check.
AmendOfOwner ==
    \A p \in posts \ refilled : \A a \in (latest[p] \cap posts) \ (refilled \cup Trusted) :
        Attr[a].address = Attr[p].address

\* A post a delegate wrote or amended is one that a list of the owner in force at
\* some time granted: for an amend the list covers the original, or amends as
\* such.  Lists from chain sync count, whoever signed them.
DelegateHadGrant ==
    \A m \in posts \ (refilled \cup Trusted) :
        Delegated(m) =>
            \E auth \in ever[Attr[m].address] :
                \/ Covers(auth, Attr[m].sender, Attr[m])
                \/ m \in Amend /\ Covers(auth, Attr[m].sender, Attr[Ref[m]])

\* Apart from the updates of "security" that no handler checks, the owner's own
\* and whatever chain sync delivers, nobody writes an owner's authorizations as
\* long as none of those lets them write that aggregate, through whatever chain
\* of delegated updates.
OnlyOwnerGrants ==
    \A o \in Address :
        LET unchecked == {g \in Grant : Attr[g].address = o /\ ~ NeedsGrant(g)}
            foreign == {g \in Grant : Attr[g].address = o} \ unchecked
        IN (\A g \in unchecked, h \in foreign : \A auth \in Authorizations[g] :
               ~ Covers(auth, Attr[h].sender, Attr[h]))
           => foreign \cap grants = {}

\* After the FORGET of a post its thread is gone: the post and every amend, but
\* for amends whose tasks ran beside the FORGET.  Nothing is claimed of a post
\* whose message is not there when the FORGET looks it up (its own task is not
\* over or has failed: the row stays), nor of one the backfill restored.
ForgottenThreadIsGone ==
    \A f \in finished :
        Target[f] \notin beside[f] \cup refilled =>
            posts \cap ({Target[f]} \cup {a \in Amend : Ref[a] = Target[f]})
                \subseteq beside[f] \cup refilled

\* Whoever wrote a post, an amend or a list of authorizations had the right to,
\* as far as a handler checks it: chain sync and the backfill are believed.
WritersHadTheRight == AmendOfOwner /\ DelegateHadGrant /\ OnlyOwnerGrants

=============================================================================
