------------------------------- MODULE WarmCache -------------------------------
(***************************************************************************)
(* The cache of content other nodes are responsible for (WarmCache in      *)
(* src/storage/tiered.rs, over LocalStorage in storage/mod.rs): an index   *)
(* in memory behind a lock, and files beside it that are written without   *)
(* the lock.  Every put and get is a task of its own.                      *)
(***************************************************************************)
EXTENDS Integers, SequencesExt

CONSTANTS
    Blob,         \* hashes of contents
    Bytes,        \* Bytes[b]: the size of b
    MaxBytes,     \* warm_cache_max_bytes
    Put,          \* tasks that put
    Get,          \* tasks that get
    MaxTroubles   \* bound: puts that fail or are cancelled, removals that fail, restarts

NoBlob == "nothing"

ASSUME WarmCacheAssumption ==
    /\ NoBlob \notin Blob /\ Put \cap Get = {}
    /\ Bytes \in [Blob -> Nat \ {0}]
    /\ MaxBytes \in Nat /\ MaxTroubles \in Nat

VARIABLES
    index,     \* keys of the index, by inserted_at
    old,       \* how many of them, from the first, are past their TTL
    disk,      \* disk[b]: what a read of the file of b would give
    put,       \* put[p]: the next step of p
    item,      \* item[t]: what task t puts or gets
    linked,    \* puts whose open file still has its name
    get,       \* get[g]: the next step of g
    troubles,  \* failures and restarts so far
    crowded,   \* history: a put made room while another one was under way
    spoiled,   \* history: blobs with a put that failed, or that a restart cut
    leaked,    \* history: blobs whose file could not be removed
    torn       \* history: blobs of which a get has returned a part

warmTasks == <<put, item, linked, get>>
warmHistory == <<crowded, spoiled, leaked, torn>>
warmVars == <<index, old, disk, warmTasks, troubles, warmHistory>>

WarmTypeOK ==
    /\ index \in Seq(Blob) /\ IsInjective(index)
    /\ old \in 0..Len(index)
    /\ disk \in [Blob -> {"none", "part", "whole"}]
    /\ put \in [Put -> {"idle", "create", "write", "insert"}]
    /\ item \in [Put \cup Get -> Blob \cup {NoBlob}]
    /\ linked \subseteq Put
    /\ get \in [Get -> {"idle", "read"}]
    /\ troubles \in 0..MaxTroubles
    /\ crowded \in BOOLEAN
    /\ spoiled \subseteq Blob /\ leaked \subseteq Blob /\ torn \subseteq Blob

WarmInit ==
    /\ index = <<>> /\ old = 0
    /\ disk = [b \in Blob |-> "none"]
    /\ put = [p \in Put |-> "idle"] /\ get = [g \in Get |-> "idle"]
    /\ item = [t \in Put \cup Get |-> NoBlob]
    /\ linked = {} /\ troubles = 0
    /\ crowded = FALSE /\ spoiled = {} /\ leaked = {} /\ torn = {}

-----------------------------------------------------------------------------

\* What the entries of S take, and all of them.
Size(S) == MapThenSumSet(LAMBDA b : Bytes[b], S)
Taken == Size(ToSet(index))

Busy(b) == {p \in Put : put[p] # "idle" /\ item[p] = b}

\* Files lose their names; who has one open writes on into nothing.  The result is
\* ignored: a file that cannot be removed stays.
Unlink(S) ==
    \E kept \in SUBSET {b \in S : disk[b] # "none"} :
        /\ kept # {} => troubles < MaxTroubles
        /\ troubles' = IF kept = {} THEN troubles ELSE troubles + 1
        /\ leaked' = leaked \cup kept
        /\ disk' = [b \in Blob |-> IF b \in S \ kept THEN "none" ELSE disk[b]]
        /\ linked' = linked \ UNION {Busy(b) : b \in S \ kept}

\* The index without the keys in S.
Without(S) ==
    LET left[n \in 0..Len(index)] ==
            IF n = 0 THEN <<>>
            ELSE IF index[n] \in S THEN left[n - 1]
            ELSE Append(left[n - 1], index[n])
    IN  left[Len(index)]

Drop(S) ==
    /\ index' = Without(S)
    /\ old' = Cardinality({i \in 1..old : index[i] \notin S})

\* How many of the oldest entries go: `freed' must reach the target, which takes
\* no account of how far the cache is above its limit already.
Oldest(n) == {index[i] : i \in 1..n}

Evicted(needed) ==
    LET free   == IF Taken < MaxBytes THEN MaxBytes - Taken ELSE 0
        target == IF needed > free THEN needed - free ELSE 0
        number == CHOOSE n \in 0..Len(index) :
                      /\ n = Len(index) \/ Size(Oldest(n)) >= target
                      /\ \A m \in 0..(n - 1) : Size(Oldest(m)) < target
    IN  Oldest(number)

\* Wrong variant of ensure_capacity: room is made once the cache is full.
ensure_capacity_late(needed) ==
    IF Taken <= MaxBytes
    THEN UNCHANGED <<index, old, disk, linked, troubles, leaked>>
    ELSE Drop(Evicted(needed)) /\ Unlink(Evicted(needed))

\* Under the lock of the index, files included.
ensure_capacity(needed) ==
    IF Taken + needed <= MaxBytes
    THEN UNCHANGED <<index, old, disk, linked, troubles, leaked>>
    ELSE Drop(Evicted(needed)) /\ Unlink(Evicted(needed))

put_begin(p, b) ==
    /\ put[p] = "idle"
    /\ ensure_capacity(Bytes[b])
    /\ put' = [put EXCEPT ![p] = "create"]
    /\ item' = [item EXCEPT ![p] = b]
    /\ crowded' = (crowded \/ \E q \in Put : put[q] # "idle")
    /\ UNCHANGED <<get, spoiled, torn>>

\* File::create truncates what is there.
put_create(p) ==
    /\ put[p] = "create"
    /\ disk' = [disk EXCEPT ![item[p]] = "part"]
    /\ linked' = linked \cup {p}
    /\ put' = [put EXCEPT ![p] = "write"]
    /\ UNCHANGED <<index, old, item, get, troubles, warmHistory>>

\* Wrong variant of put_write: no flush, so that the task may end before the write.
put_write_unflushed(p) ==
    /\ put[p] = "write"
    /\ put' = [put EXCEPT ![p] = "insert"]
    /\ UNCHANGED <<index, old, disk, item, linked, get, troubles, warmHistory>>

put_write(p) ==
    /\ put[p] = "write"
    /\ disk' = IF p \in linked THEN [disk EXCEPT ![item[p]] = "whole"] ELSE disk
    /\ put' = [put EXCEPT ![p] = "insert"]
    /\ UNCHANGED <<index, old, item, linked, get, troubles, warmHistory>>

\* Insert anew, or with a new inserted_at.
put_insert(p) ==
    /\ put[p] = "insert"
    /\ index' = Append(Without({item[p]}), item[p])
    /\ old' = Cardinality({i \in 1..old : index[i] # item[p]})
    /\ put' = [put EXCEPT ![p] = "idle"]
    /\ item' = [item EXCEPT ![p] = NoBlob]
    /\ linked' = linked \ {p}
    /\ UNCHANGED <<disk, get, troubles, warmHistory>>

\* An I/O error, or the request behind the task is gone.
put_fails(p) ==
    /\ put[p] # "idle" /\ troubles < MaxTroubles
    /\ troubles' = troubles + 1
    /\ spoiled' = spoiled \cup {item[p]}
    /\ put' = [put EXCEPT ![p] = "idle"]
    /\ item' = [item EXCEPT ![p] = NoBlob]
    /\ linked' = linked \ {p}
    /\ UNCHANGED <<index, old, disk, get, crowded, leaked, torn>>

\* The index says whether there is an entry that is not past its TTL ...
get_begin(g, b) ==
    /\ get[g] = "idle"
    /\ \E i \in (old + 1)..Len(index) : index[i] = b
    /\ get' = [get EXCEPT ![g] = "read"]
    /\ item' = [item EXCEPT ![g] = b]
    /\ UNCHANGED <<index, old, disk, put, linked, troubles, warmHistory>>

\* ... and the file is read without the lock, and given as it is.
get_read(g) ==
    /\ get[g] = "read"
    /\ torn' = IF disk[item[g]] = "part" /\ Busy(item[g]) = {} THEN torn \cup {item[g]} ELSE torn
    /\ get' = [get EXCEPT ![g] = "idle"]
    /\ item' = [item EXCEPT ![g] = NoBlob]
    /\ UNCHANGED <<index, old, disk, put, linked, troubles, crowded, spoiled, leaked>>

remove(b) ==
    /\ b \in ToSet(index) \/ disk[b] # "none"
    /\ Drop({b}) /\ Unlink({b})
    /\ UNCHANGED <<put, item, get, crowded, spoiled, torn>>

\* Wrong variant of evict_expired: the files are left.
evict_expired_index_only ==
    /\ old > 0
    /\ Drop(Oldest(old))
    /\ UNCHANGED <<disk, put, item, linked, get, troubles, warmHistory>>

evict_expired ==
    /\ old > 0
    /\ Drop(Oldest(old)) /\ Unlink(Oldest(old))
    /\ UNCHANGED <<put, item, get, crowded, spoiled, torn>>

expire ==
    /\ old < Len(index)
    /\ old' = old + 1
    /\ UNCHANGED <<index, disk, warmTasks, troubles, warmHistory>>

\* The index is gone, the files are not: nothing reads them in again.
warm_restart ==
    /\ troubles < MaxTroubles
    /\ troubles' = troubles + 1
    /\ index' = <<>> /\ old' = 0
    /\ spoiled' = spoiled \cup ToSet(index) \cup {item[p] : p \in {q \in Put : put[q] # "idle"}}
    /\ put' = [p \in Put |-> "idle"] /\ get' = [g \in Get |-> "idle"]
    /\ item' = [t \in Put \cup Get |-> NoBlob]
    /\ linked' = {}
    /\ UNCHANGED <<disk, crowded, leaked, torn>>

WarmNext ==
    \/ \E p \in Put : \/ \E b \in Blob : put_begin(p, b)
                      \/ put_create(p) \/ put_write(p) \/ put_insert(p) \/ put_fails(p)
    \/ \E g \in Get : (\E b \in Blob : get_begin(g, b)) \/ get_read(g)
    \/ \E b \in Blob : remove(b)
    \/ evict_expired \/ expire \/ warm_restart

WarmSpec == WarmInit /\ [][WarmNext]_warmVars

-----------------------------------------------------------------------------

\* The cache stays within warm_cache_max_bytes as long as no put makes room while
\* another is under way and no content alone is larger.  (Once it is above the
\* limit, each put frees only what it needs itself, so it stays there.)
WarmWithinLimit ==
    ~ crowded /\ (\A b \in ToSet(index) : Bytes[b] <= MaxBytes) => Taken <= MaxBytes

\* With no put under way, every file has an entry in the index, so that it can
\* still expire or be evicted, unless a put or a removal of it failed or the index was lost.
NoFileLeaks ==
    \A b \in Blob \ (spoiled \cup leaked) :
        disk[b] # "none" /\ Busy(b) = {} => b \in ToSet(index)

\* A get gives nothing or the whole content, unless at that moment a put of the
\* same content truncates the file, or one was cut short before.
WarmGetIsWhole == torn \subseteq spoiled

\* The index, the limit and the files agree, as far as nothing was cut short.
WarmCacheIsSound == WarmWithinLimit /\ NoFileLeaks /\ WarmGetIsWhole

=============================================================================
