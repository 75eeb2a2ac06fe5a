-------------------------------- MODULE Listing --------------------------------
(***************************************************************************)
(* The lists of the API (src/web/handlers.rs): a client fetches one of     *)
(* them page by page, each page a request of its own, and the rows change  *)
(* between the requests and between the statements of one request.         *)
(*                                                                         *)
(* A row is its unique column, a number; `key' is the column it is sorted  *)
(* by.  Which filters a request has is left out: the rows are those that   *)
(* pass them.                                                              *)
(***************************************************************************)
EXTENDS Integers, Sequences, FiniteSets

CONSTANTS
    Row,          \* rows, by their unique column (item_hash)
    MaxKey,       \* sort keys are 1..MaxKey
    Sizes,        \* what clients ask for as limit or pagination; 0 is "no limit"
    SizeCap,      \* the handler's own limit of it (1000)
    Word,         \* page and per_page are u32: products are modulo Word (2^32)
    MaxChanges    \* bound: changes of the table

ASSUME ListingAssumption ==
    /\ Row \subseteq Nat /\ IsFiniteSet(Row)
    /\ MaxKey \in Nat \ {0} /\ Sizes \subseteq Nat
    /\ SizeCap \in Nat \ {0} /\ Word \in Nat \ {0} /\ MaxChanges \in Nat

(***************************************************************************)
(* One record for each list.                                               *)
(*   order  "total": the key, then the unique column; "key": rows of equal *)
(*          keys come in any order; "none": no ORDER BY                    *)
(*   moves  a statement elsewhere changes the key of a row that is listed  *)
(*   total  how pagination_total comes about: COUNT "before" or "after"    *)
(*          the rows, "short" (computed when the page is short, else       *)
(*          COUNT), or "none"                                              *)
(*   zero   pagination=0 means "all" rows, the "cap", or an "empty" page   *)
(*   clamp  page 0 is taken as page 1                                      *)
(***************************************************************************)

List(order, moves, total, zero, clamp) ==
    [order |-> order, moves |-> moves, total |-> total, zero |-> zero, clamp |-> clamp]

list_messages == List("total", FALSE, "short", "all", FALSE)
list_messages_cursor == List("total", FALSE, "none", "all", FALSE)

\* The earliest confirmation of a message comes later than the message.
list_messages_tx_time == List("total", TRUE, "short", "all", FALSE)
get_message_hashes == List("total", FALSE, "before", "all", TRUE)

\* A post is listed at the time of its latest amend.
get_posts == List("total", TRUE, "before", "all", FALSE)
get_posts_v1 == List("total", TRUE, "before", "cap", FALSE)

\* time of an aggregate, a balance, an address's number of messages: all change.
list_aggregates == List("key", TRUE, "before", "empty", TRUE)
get_balances == List("key", TRUE, "before", "empty", TRUE)
get_addresses_stats_v1 == List("key", TRUE, "before", "empty", TRUE)
get_credit_balances == List("none", FALSE, "after", "empty", FALSE)

\* created_at and message_timestamp: rows of one statement share them.
list_programs == List("key", FALSE, "after", "empty", FALSE)
list_instances == List("key", FALSE, "after", "empty", FALSE)
get_address_files == List("key", FALSE, "after", "empty", TRUE)
get_address_credit_history == List("key", FALSE, "after", "cap", TRUE)

Lists == {list_messages, list_messages_cursor, list_messages_tx_time, get_message_hashes,
          get_posts, get_posts_v1,
          list_aggregates, get_balances, get_addresses_stats_v1, get_credit_balances,
          list_programs, list_instances, get_address_files, get_address_credit_history}

VARIABLES
    list,      \* the list this client reads, in
    asc,       \* ascending order of the key or not, with
    size,      \* this limit or pagination
    rows,      \* rows there are now
    key,       \* key[r]
    changes,   \* changes so far
    client,    \* what the client's request does next
    page,      \* the page it asks for
    cursor,    \* where the page before ended: a key and a row
    shown,     \* the last page
    more,      \* has_more of the last page
    total,     \* pagination_total of the last answer
    got,       \* rows the client has been given
    first,     \* history: the page it began with
    stayed,    \* history: rows there all the time, with one key
    gone,      \* rows that have gone, or moved on in the order
    failed,    \* history: a query has failed
    changed,   \* history: the table has changed, or a query failed, in this request
    repeated   \* history: a row was given twice

asked == <<list, asc, size>>
listTable == <<rows, key, changes>>
answer == <<shown, more, got, repeated>>
listHistory == <<first, stayed, gone, failed, changed>>
listVars == <<asked, listTable, client, page, cursor, answer, total, listHistory>>

ListingTypeOK ==
    /\ list \in Lists /\ asc \in BOOLEAN /\ size \in Sizes
    /\ rows \subseteq Row /\ key \in [Row -> 1..MaxKey] /\ changes \in 0..MaxChanges
    /\ client \in {"idle", "before", "rows", "after", "answered", "over"}
    /\ page \in Nat /\ cursor \in (0..MaxKey + 1) \X (Row \cup {0})
    /\ shown \in Seq(Row) /\ more \in BOOLEAN /\ total \in Int /\ got \subseteq Row
    /\ first \in Nat /\ stayed \subseteq Row
    /\ gone \subseteq Row /\ failed \in BOOLEAN /\ changed \in BOOLEAN /\ repeated \in BOOLEAN

ListingInit ==
    /\ list \in Lists /\ asc \in BOOLEAN /\ size \in Sizes
    /\ rows \in SUBSET Row /\ changes = 0
    /\ key \in {k \in [Row -> 1..MaxKey] : \A r \in Row \ rows : k[r] = 1}
    /\ client = "idle" /\ page = 1 /\ cursor = <<0, 0>>
    /\ shown = <<>> /\ more = FALSE /\ total = 0 /\ got = {}
    /\ first = 1 /\ stayed = rows
    /\ gone = {} /\ failed = FALSE /\ changed = FALSE /\ repeated = FALSE

-----------------------------------------------------------------------------

ByCursor == list = list_messages_cursor

\* The handler's per_page, and whether there is a LIMIT at all.
PerPage == IF size = 0 /\ list.zero = "cap" THEN SizeCap
           ELSE IF size < SizeCap THEN size ELSE SizeCap

Unlimited == size = 0 /\ list.zero = "all"

\* Wrong variant of Offset: pages count from 0.
Offset_from_zero == IF Unlimited THEN 0 ELSE (page * PerPage) % Word

\* ((page - 1) * per_page) as i64: the product is one of u32.
Offset ==
    LET p == IF list.clamp /\ page = 0 THEN 1 ELSE page
    IN  IF Unlimited THEN 0 ELSE ((p - 1) * PerPage) % Word

KeyBefore(j, k) == IF asc THEN j < k ELSE j > k

\* What ORDER BY may make of a set of rows.
Results(S) ==
    {s \in [1..Cardinality(S) -> S] :
        \A i, j \in DOMAIN s : i < j =>
            /\ s[i] # s[j]
            /\ list.order # "none" => ~ KeyBefore(key[s[j]], key[s[i]])
            /\ list.order = "total" /\ key[s[i]] = key[s[j]] => s[i] < s[j]}

\* Wrong variant of and_cursor_keyset: rows with the cursor's key are passed.
and_cursor_keyset_key_only(r) == KeyBefore(cursor[1], key[r])

\* The unique column ascends in both directions.
and_cursor_keyset(r) ==
    \/ KeyBefore(cursor[1], key[r])
    \/ cursor[1] = key[r] /\ cursor[2] < r

-----------------------------------------------------------------------------

Ask == client' = IF list.total = "before" THEN "before" ELSE "rows"

\* A client begins with the page it likes, or with a cursor of its own making, as
\* only pages after a cursor come with the next one.
begin_sweep ==
    /\ client = "idle"
    /\ Ask
    /\ page' \in IF ByCursor THEN {1} ELSE 0..2
    /\ first' = page'
    /\ cursor' = <<IF asc THEN 0 ELSE MaxKey + 1, 0>>
    /\ UNCHANGED <<asked, listTable, answer, total, stayed, gone, failed, changed>>

count_before ==
    /\ client = "before"
    /\ total' = Cardinality(rows)
    /\ client' = "rows"
    /\ UNCHANGED <<asked, listTable, page, cursor, answer, listHistory>>

Deliver(s) ==
    /\ shown' = s
    /\ got' = got \cup {s[i] : i \in DOMAIN s}
    /\ repeated' = (repeated \/ \E i \in DOMAIN s : s[i] \in got)
    /\ client' = IF list.total \in {"short", "after"} THEN "after" ELSE "answered"

Slice(s, offset, limit) ==
    SubSeq(s, offset + 1, IF offset + limit < Len(s) THEN offset + limit ELSE Len(s))

\* LIMIT and OFFSET
fetch_page ==
    /\ client = "rows" /\ ~ ByCursor
    /\ \E s \in Results(rows) :
           Deliver(IF Unlimited THEN s ELSE Slice(s, Offset, PerPage))
    /\ UNCHANGED <<asked, listTable, page, cursor, more, total, listHistory>>

\* One row more than the page is fetched to know whether there is a next one.
fetch_after_cursor ==
    /\ client = "rows" /\ ByCursor
    /\ \E s \in Results({r \in rows : and_cursor_keyset(r)}) :
           /\ Deliver(IF Unlimited THEN s ELSE Slice(s, 0, PerPage))
           /\ more' = (~ Unlimited /\ Len(s) > PerPage)
    /\ cursor' = IF more' THEN <<key[shown'[PerPage]], shown'[PerPage]>> ELSE cursor
    /\ UNCHANGED <<asked, listTable, page, total, listHistory>>

\* unwrap_or_default: a database error is an empty page, and a last one.
fetch_fails ==
    /\ client = "rows"
    /\ Deliver(<<>>)
    /\ more' = FALSE
    /\ failed' = TRUE /\ changed' = TRUE
    /\ UNCHANGED <<asked, listTable, page, cursor, total, first, stayed, gone>>

\* Wrong variant of skip_count: a full page is taken for the last one.
skip_count_full == list.total = "short" /\ ~ Unlimited /\ Len(shown) <= PerPage

\* A page that is not full spares the COUNT.
skip_count == list.total = "short" /\ ~ Unlimited /\ Len(shown) < PerPage

\* In i64, and for whatever page was asked for.
count_after ==
    /\ client = "after"
    /\ total' = IF skip_count THEN (page - 1) * PerPage + Len(shown) ELSE Cardinality(rows)
    /\ client' = "answered"
    /\ UNCHANGED <<asked, listTable, page, cursor, answer, listHistory>>

\* The client goes on until a page is not full, or there is no next cursor.
next_page ==
    /\ client = "answered"
    /\ IF IF ByCursor THEN more ELSE ~ Unlimited /\ PerPage > 0 /\ Len(shown) = PerPage
       THEN Ask /\ page' = page + 1
       ELSE client' = "over" /\ UNCHANGED page
    /\ changed' = FALSE
    /\ UNCHANGED <<asked, listTable, cursor, answer, total, first, stayed, gone, failed>>

-----------------------------------------------------------------------------
(***************************************************************************)
(* What the processor and the jobs do to the table meanwhile.              *)
(***************************************************************************)

Change ==
    /\ client \notin {"idle", "over"}
    /\ changes < MaxChanges
    /\ changes' = changes + 1
    /\ changed' = TRUE
    /\ UNCHANGED <<asked, client, page, cursor, answer, total, first, failed>>

\* What is forgotten does not come back.
row_inserted(r) ==
    /\ r \in Row \ (rows \cup gone)
    /\ rows' = rows \cup {r}
    /\ \E k \in 1..MaxKey : key' = [key EXCEPT ![r] = k]
    /\ Change
    /\ UNCHANGED <<stayed, gone>>

\* A FORGET: messages leave their list as soon as they are marked.
row_deleted(r) ==
    /\ r \in rows
    /\ rows' = rows \ {r}
    /\ stayed' = stayed \ {r}
    /\ gone' = gone \cup {r}
    /\ Change
    /\ UNCHANGED key

row_moved(r) ==
    /\ list.moves
    /\ r \in rows
    /\ \E k \in 1..MaxKey \ {key[r]} :
           /\ key' = [key EXCEPT ![r] = k]
           /\ gone' = IF KeyBefore(key[r], k) THEN gone \cup {r} ELSE gone
    /\ stayed' = stayed \ {r}
    /\ Change
    /\ UNCHANGED rows

ListingNext ==
    \/ begin_sweep \/ count_before \/ fetch_page \/ fetch_after_cursor \/ fetch_fails
    \/ count_after \/ next_page
    \/ \E r \in Row : row_inserted(r) \/ row_deleted(r) \/ row_moved(r)

ListingSpec == ListingInit /\ [][ListingNext]_listVars

-----------------------------------------------------------------------------

\* A client that reads a list with a unique order from its first page to its last
\* is given every row that was there all the time, whatever rows come meanwhile; it
\* may miss some if a row goes, or moves on in the order, or a query fails (the
\* rows after it move up, a failed query looks like the end).
PagingMissesNothing ==
    client = "over" /\ ~ ByCursor /\ list.order = "total" /\ first = 1
        /\ gone = {} /\ ~ failed
        => stayed \subseteq got

\* With cursors (list_messages) rows may also go: every row that was there all the
\* time is given, and none is given twice, unless a query fails.
CursorIsExact ==
    ByCursor => /\ ~ repeated
                /\ client = "over" /\ ~ failed => stayed \subseteq got

\* pagination_total is the number of rows, if nothing changed during the request:
\* also where the COUNT was spared, unless the page was 0 or past the end.
TotalIsExact ==
    client = "answered" /\ ~ changed /\ list.total # "none" /\ page > 0
        /\ (page = 1 \/ shown # <<>>)
    => total = Cardinality(rows)

\* Every list gives what was there throughout, and a total that is right.
ListIsExact == PagingMissesNothing /\ CursorIsExact /\ TotalIsExact

=============================================================================
