----------------------------- MODULE MessageStatus -----------------------------
(***************************************************************************)
(* What a client is told of a message while it moves between tables: the   *)
(* requests of src/web/handlers.rs that look for it in one table after the *)
(* other, each by a query of its own, beside the processor, chain sync,    *)
(* FORGET and the garbage collector, whose statements move it (how those   *)
(* choose is in MessageProcessor).  One message, a PROGRAM that may amend  *)
(* another, and one client that asks again and again.                      *)
(***************************************************************************)
EXTENDS Integers, Sequences

VARIABLES
    held,     \* the tables that have a row of the message
    proc,     \* what the processor does with it next, if it is in a batch
    erase,    \* the steps left of a FORGET that names it
    bare,     \* chain sync has inserted it into messages and not yet queued it
    ask,      \* the request of the client,
    read,     \* the read it is at,
    answer,   \* and its answer
    unhandled, \* history: the row of messages is that of chain sync
    orphaned, \* history: its derived row was last deleted by the FORGET of the VM it amends
    told,     \* history: the node had the message when the request began, and no
              \* duplicate was dropped nor rejection purged since that was all it had,
    missed,   \* a table that it had read got its row,
    misread   \* a query of the request failed

placeVars == <<held, proc, erase, bare>>
requestVars == <<ask, read, answer, misread>>
rowHistory == <<unhandled, orphaned>>
statusVars == <<placeVars, requestVars, rowHistory, told, missed>>

Requests == {"status", "message", "content", "price", "sync"}

\* programs is the table of rows that the handler derives.
MessageTables == {"messages", "pending", "rejected", "forgotten"}
Table == MessageTables \cup {"programs"}

StatusInit ==
    /\ held = {} /\ proc = "idle" /\ erase = <<>> /\ bare = FALSE
    /\ ask = "none" /\ read = 0 /\ answer = "none"
    /\ unhandled = FALSE /\ orphaned = FALSE /\ told = FALSE /\ missed = FALSE /\ misread = FALSE

\* The tables that a request reads, in order.
StatusReads == <<"messages", "pending", "rejected", "forgotten">>
MessageReads == <<"messages", "pending", "forgotten", "rejected">>
ContentReads == <<"messages">>
PriceReads == <<"pending", "messages", "programs">>
SyncReads == <<"messages", "rejected">>

Reads(request) ==
    CASE request = "status"  -> StatusReads
      [] request = "message" -> MessageReads
      [] request = "content" -> ContentReads
      [] request = "price"   -> PriceReads
      [] request = "sync"    -> SyncReads

Passed(tables) == missed' = (missed \/ \E i \in 1..(read - 1) : Reads(ask)[i] \in tables)
Insert(tables) == held' = held \cup tables /\ Passed(tables)
Delete(tables) == held' = held \ tables /\ UNCHANGED missed

\* The node lets go of a message of which it has no other row.
LetsGo(table) == told' = (told /\ MessageTables \cap held # {table})

-----------------------------------------------------------------------------
(* Where the message comes from                                            *)

\* insert_pending_message and post_message: ON CONFLICT DO NOTHING.
queue_message ==
    /\ Insert({"pending"})
    /\ UNCHANGED <<told, rowHistory, proc, erase, bare, requestVars>>

bare_insert ==
    /\ "messages" \notin held
    /\ Insert({"messages"}) /\ bare' = TRUE /\ unhandled' = TRUE
    /\ UNCHANGED <<orphaned, told, proc, erase, requestVars>>

bare_queue ==
    /\ bare
    /\ Insert({"pending"}) /\ bare' = FALSE
    /\ UNCHANGED <<rowHistory, proc, erase, requestVars, told>>

bare_stranded ==
    /\ bare /\ bare' = FALSE
    /\ UNCHANGED <<rowHistory, held, proc, erase, requestVars, told, missed>>

-----------------------------------------------------------------------------
(* The processor, FORGET and the garbage collector                         *)

take_pending ==
    /\ "pending" \in held /\ proc = "idle"
    /\ proc' = IF {"programs", "forgotten"} \cap held = {} THEN "handle" ELSE "drop"
    /\ UNCHANGED <<rowHistory, held, erase, bare, requestVars, told, missed>>

\* A duplicate of which there is only the derived row was all the node had.
drop_pending ==
    /\ proc = "drop"
    /\ Delete({"pending"}) /\ proc' = "idle"
    /\ LetsGo("pending")
    /\ UNCHANGED <<rowHistory, erase, bare, requestVars>>

handler_derives ==
    /\ proc = "handle"
    /\ Insert({"programs"}) /\ proc' = "store" /\ orphaned' = FALSE
    /\ UNCHANGED <<unhandled, erase, bare, requestVars, told>>

store_row ==
    /\ proc = "store"
    /\ Insert({"messages"}) /\ proc' = "collect" /\ unhandled' = FALSE
    /\ UNCHANGED <<orphaned, erase, bare, requestVars, told>>

collect_row ==
    /\ proc = "collect"
    /\ Delete({"pending"}) /\ proc' = "idle"
    /\ UNCHANGED <<rowHistory, erase, bare, requestVars, told>>

\* Rejected by its handler, or out of retries.
reject_row ==
    /\ proc \in {"handle", "store"}
    /\ proc' = "reject"
    /\ UNCHANGED <<rowHistory, held, erase, bare, requestVars, told, missed>>

\* Wrong variant of the next: the row is taken from pending_messages first.
RejectSteps_swapped == <<"delete", "insert">>

RejectSteps == <<"insert", "delete">>

Rejects(step) == IF step = "insert" THEN Insert({"rejected"}) ELSE Delete({"pending"})

move_to_rejected_first ==
    /\ proc = "reject"
    /\ Rejects(RejectSteps[1]) /\ proc' = "rejected"
    /\ UNCHANGED <<rowHistory, erase, bare, requestVars, told>>

move_to_rejected_second ==
    /\ proc = "rejected"
    /\ Rejects(RejectSteps[2]) /\ proc' = "idle"
    /\ UNCHANGED <<rowHistory, erase, bare, requestVars, told>>

\* A crash, a timeout or a database error: the message stays pending.
processor_stops ==
    /\ proc # "idle" /\ proc' = "idle"
    /\ UNCHANGED <<rowHistory, held, erase, bare, requestVars, told, missed>>

\* Wrong variant of the next: forgotten_messages comes last.
ForgetSteps_marked_last == <<"programs", "messages", "mark">>

\* mark_forgotten, delete_derived_data, delete_message.
ForgetSteps == <<"mark", "programs", "messages">>

\* Of a message that is not there nothing is derived that FORGET would know of.
forget_lookup ==
    /\ erase = <<>>
    /\ erase' = IF "messages" \in held THEN ForgetSteps
                ELSE SelectSeq(ForgetSteps, LAMBDA s : s # "programs")
    /\ UNCHANGED <<rowHistory, held, proc, bare, requestVars, told, missed>>

forget_step ==
    /\ erase # <<>>
    /\ IF Head(erase) = "mark" THEN Insert({"forgotten"}) ELSE Delete({Head(erase)})
    /\ erase' = Tail(erase)
    /\ UNCHANGED <<told, rowHistory, proc, bare, requestVars>>

forget_stops ==
    /\ erase # <<>> /\ erase' = <<>>
    /\ UNCHANGED <<rowHistory, held, proc, bare, requestVars, told, missed>>

\* delete_vm_updates of another message's FORGET: the rows of the amendments go with
\* the VM they replace.  Their messages stay, and are not marked as forgotten.
forget_original ==
    /\ "programs" \in held
    /\ Delete({"programs"}) /\ orphaned' = TRUE
    /\ UNCHANGED <<unhandled, proc, erase, bare, requestVars, told>>

\* One statement: a row whose retries are used up.
clean_expired_pending ==
    /\ "pending" \in held /\ proc = "idle"
    /\ held' = (held \ {"pending"}) \cup {"rejected"} /\ Passed({"rejected"})
    /\ UNCHANGED <<rowHistory, proc, erase, bare, requestVars, told>>

\* After seven days: not a row just written.
clean_old_rejected ==
    /\ "rejected" \in held /\ proc # "rejected"
    /\ Delete({"rejected"})
    /\ LetsGo("rejected")
    /\ UNCHANGED <<rowHistory, proc, erase, bare, requestVars>>

-----------------------------------------------------------------------------
(* The requests                                                            *)

\* A content is given of posts only.
Status(table) ==
    CASE ask = "content" -> "no post"
      [] table = "messages" -> "processed"
      [] table = "programs" -> "priced"
      [] OTHER -> table

\* A sync POST queues the message first; that the insert fails is only logged.
request_begins(request) ==
    /\ ask = "none"
    /\ ask' = request /\ read' = 1
    /\ told' = (MessageTables \cap held # {}) /\ misread' = FALSE
    /\ missed' = FALSE /\ answer' = "none"
    /\ held' \in IF request = "sync" THEN {held, held \cup {"pending"}} ELSE {held}
    /\ UNCHANGED <<rowHistory, proc, erase, bare>>

Answers(text) ==
    /\ answer' = text /\ ask' = "none" /\ read' = 0
    /\ told' = FALSE /\ missed' = FALSE

ReadsOn(next) == read' = next /\ UNCHANGED <<ask, answer, told, missed>>

\* A price needs its message, then the row of its program; sync polls for ever, or
\* until its time is up.
NotThere(table) ==
    CASE ask = "content" \/ (ask = "price" /\ table = "messages") -> Answers("unknown")
      [] ask = "price" /\ table = "programs" -> Answers("not in programs table")
      [] ask \in {"status", "message"} /\ read = Len(Reads(ask)) -> Answers("unknown")
      [] OTHER -> ReadsOn(IF read = Len(Reads(ask)) THEN 1 ELSE read + 1)

Found(table) ==
    IF ask = "price" /\ table = "messages" THEN ReadsOn(read + 1)
    ELSE Answers(Status(table))

query ==
    /\ ask # "none"
    /\ LET table == Reads(ask)[read]
       IN  IF table \in held THEN Found(table) ELSE NotThere(table)
    /\ UNCHANGED <<rowHistory, placeVars, misread>>

\* .ok().flatten() and unwrap_or: an error is the same as no row, but for the message
\* itself, and the program, which give a status of 500.
query_fails ==
    /\ ask # "none"
    /\ LET table == Reads(ask)[read]
       IN  IF (ask \in {"message", "content", "price"} /\ table = "messages") \/ table = "programs"
           THEN Answers("error")
           ELSE NotThere(table)
    /\ misread' = TRUE
    /\ UNCHANGED <<rowHistory, placeVars>>

sync_times_out ==
    /\ ask = "sync" /\ read = 1
    /\ Answers("pending")
    /\ UNCHANGED <<rowHistory, placeVars, misread>>

StatusNext ==
    \/ queue_message \/ bare_insert \/ bare_queue \/ bare_stranded
    \/ take_pending \/ drop_pending \/ handler_derives \/ store_row \/ collect_row
    \/ reject_row \/ move_to_rejected_first \/ move_to_rejected_second \/ processor_stops
    \/ forget_lookup \/ forget_step \/ forget_stops \/ forget_original
    \/ clean_expired_pending \/ clean_old_rejected
    \/ \E request \in Requests : request_begins(request)
    \/ query \/ query_fails \/ sync_times_out

StatusSpec == StatusInit /\ [][StatusNext]_statusVars

-----------------------------------------------------------------------------
(* Properties                                                              *)

\* A message the node has is "unknown" to nobody: neither of the GET requests, which
\* look for it in four tables in two orders, misses it while processor, FORGET and
\* collector move it, unless it came back to a table that was already read.
UnknownIsExplained ==
    ask' = "none" /\ ask \in {"status", "message"} /\ answer' = "unknown" =>
        ~ told \/ misread' \/ missed

\* The row of a program is written before its message and deleted after it is marked
\* forgotten: a price is refused for the lack of it only of what chain sync put into
\* messages before any handler, of what FORGET is erasing, or of an amendment whose
\* row went with the VM it amends, though it is itself processed and not forgotten.
PricedOnceStored ==
    ask' = "none" /\ ask = "price" /\ answer' = "not in programs table" =>
        unhandled \/ orphaned \/ "forgotten" \in held

\* Both kinds of "there is none" have such an explanation.
AnswersAreExplained == [][UnknownIsExplained /\ PricedOnceStored]_statusVars

=============================================================================
