------------------------------- MODULE FileStore -------------------------------
(***************************************************************************)
(* Files by the SHA-256 of their content, and a cache directory beside     *)
(* them (StorageService in src/services/storage.rs): every call is a task, *)
(* nothing is locked, no write is atomic, and any of them may fail, or be  *)
(* left half-way by a request that is dropped or by a restart.             *)
(***************************************************************************)
EXTENDS Naturals

CONSTANTS
    File,          \* hashes of contents
    Caller,        \* calls under way
    Caching,       \* enable_cache
    MaxUpsets      \* bound: restarts in the middle of calls, I/O errors, dropped requests

ASSUME FileStoreAssumption == Caching \in BOOLEAN /\ MaxUpsets \in Nat

VARIABLES
    file,     \* file[h]: what a read of the file gives
    cache,    \* cache[h]: the same for the cache directory
    call,     \* call[t]: the next step of t
    of,       \* of[t]: the hash t is about
    open,     \* tasks whose open file still has its name
    upsets,   \* restarts, I/O errors and dropped requests so far
    stored,   \* history: hashes a store has returned, and no delete has begun since
    deleted,  \* history: hashes whose delete has returned, and no store began since
    mixed,    \* history: hashes with a delete beside another call
    cut,      \* history: hashes with a write, or a cache removal, that was cut short
    wrong     \* history: hashes for which a get has returned something else

fileHistory == <<stored, deleted, mixed, cut, wrong>>
fileVars == <<file, cache, call, of, open, upsets, fileHistory>>

Contents == {"none", "part", "whole"}
Calls == {"idle", "create", "write", "lookup", "cached", "read", "fill", "filling", "delete",
          "purge"}

FileStoreTypeOK ==
    /\ file \in [File -> Contents] /\ cache \in [File -> Contents]
    /\ call \in [Caller -> Calls] /\ of \in [Caller -> File] /\ open \subseteq Caller
    /\ upsets \in 0..MaxUpsets
    /\ stored \subseteq File /\ deleted \subseteq File /\ mixed \subseteq File
    /\ cut \subseteq File /\ wrong \subseteq File

FileStoreInit ==
    /\ file = [h \in File |-> "none"] /\ cache = [h \in File |-> "none"]
    /\ call = [t \in Caller |-> "idle"] /\ of \in [Caller -> File] /\ open = {}
    /\ upsets = 0
    /\ stored = {} /\ deleted = {} /\ mixed = {} /\ cut = {} /\ wrong = {}

-----------------------------------------------------------------------------

Beside(t, h) == {u \in Caller \ {t} : call[u] # "idle" /\ of[u] = h}

To(t, step) == call' = [call EXCEPT ![t] = step]

\* A call about h begins; removes says that it is a delete.
Begin(t, h, step, removes) ==
    /\ call[t] = "idle"
    /\ To(t, step)
    /\ of' = [of EXCEPT ![t] = h]
    /\ mixed' = IF \E u \in Beside(t, h) : removes \/ call[u] \in {"delete", "purge"}
                THEN mixed \cup {h} ELSE mixed

\* What is there is not written again, nor looked at.
store(t, h) ==
    /\ Begin(t, h, IF file[h] = "none" THEN "create" ELSE "idle", FALSE)
    /\ stored' = IF file[h] = "none" THEN stored ELSE stored \cup {h}
    /\ deleted' = deleted \ {h}
    /\ UNCHANGED <<file, cache, open, upsets, cut, wrong>>

\* File::create truncates what another store has begun since.
store_create(t) ==
    /\ call[t] = "create"
    /\ file' = [file EXCEPT ![of[t]] = "part"]
    /\ open' = open \cup {t}
    /\ To(t, "write")
    /\ UNCHANGED <<cache, of, upsets, fileHistory>>

\* Wrong variant of store_write: without sync_all the task may be over before.
store_write_unsynced(t) ==
    /\ call[t] = "write"
    /\ open' = open \ {t}
    /\ stored' = stored \cup {of[t]}
    /\ To(t, "idle")
    /\ UNCHANGED <<file, cache, of, upsets, deleted, mixed, cut, wrong>>

store_write(t) ==
    /\ call[t] = "write"
    /\ file' = IF t \in open THEN [file EXCEPT ![of[t]] = "whole"] ELSE file
    /\ open' = open \ {t}
    /\ stored' = stored \cup {of[t]}
    /\ To(t, "idle")
    /\ UNCHANGED <<cache, of, upsets, deleted, mixed, cut, wrong>>

get_file(t, h) ==
    /\ Begin(t, h, IF Caching /\ cache[h] # "none" THEN "cached" ELSE "lookup", FALSE)
    /\ UNCHANGED <<file, cache, open, upsets, stored, deleted, cut, wrong>>

\* What the cache has is given as it is.  (A file that has gone since is an error.)
get_cached(t) ==
    /\ call[t] = "cached"
    /\ wrong' = IF cache[of[t]] = "part" /\ ~ \E u \in Beside(t, of[t]) : call[u] = "filling"
                THEN wrong \cup {of[t]} ELSE wrong
    /\ To(t, "idle")
    /\ UNCHANGED <<file, cache, of, open, upsets, stored, deleted, mixed, cut>>

get_lookup(t) ==
    /\ call[t] = "lookup"
    /\ To(t, IF file[of[t]] = "none" THEN "idle" ELSE "read")
    /\ UNCHANGED <<file, cache, of, open, upsets, fileHistory>>

\* Wrong variant of get_verified: what was read is given, and cached.
get_unverified(t) ==
    /\ call[t] = "read"
    /\ wrong' = IF file[of[t]] = "part" THEN wrong \cup {of[t]} ELSE wrong
    /\ To(t, IF file[of[t]] # "none" /\ Caching THEN "fill" ELSE "idle")
    /\ UNCHANGED <<file, cache, of, open, upsets, stored, deleted, mixed, cut>>

\* The hash of what was read decides between the content and an error.
get_verified(t) ==
    /\ call[t] = "read"
    /\ To(t, IF file[of[t]] = "whole" /\ Caching THEN "fill" ELSE "idle")
    /\ UNCHANGED <<file, cache, of, open, upsets, fileHistory>>

\* fs::write of the verified content: create or truncate, then write.
cache_create(t) ==
    /\ call[t] = "fill"
    /\ cache' = [cache EXCEPT ![of[t]] = "part"]
    /\ open' = open \cup {t}
    /\ To(t, "filling")
    /\ UNCHANGED <<file, of, upsets, fileHistory>>

cache_write(t) ==
    /\ call[t] = "filling"
    /\ cache' = IF t \in open THEN [cache EXCEPT ![of[t]] = "whole"] ELSE cache
    /\ open' = open \ {t}
    /\ To(t, "idle")
    /\ UNCHANGED <<file, of, upsets, fileHistory>>

\* A file that is not there is not removed, but its cached copy is.
delete(t, h) ==
    /\ Begin(t, h, IF file[h] # "none" THEN "delete" ELSE IF Caching THEN "purge" ELSE "idle",
             TRUE)
    /\ stored' = stored \ {h}
    /\ deleted' = IF file[h] = "none" /\ ~ Caching THEN deleted \cup {h} ELSE deleted
    /\ UNCHANGED <<file, cache, open, upsets, cut, wrong>>

\* remove_file of the file that was there; gone since, it is an error, and the
\* call returns before it comes to the cache.
delete_file(t) ==
    /\ call[t] = "delete"
    /\ file' = [file EXCEPT ![of[t]] = "none"]
    /\ open' = open \ {u \in Beside(t, of[t]) : call[u] = "write"}
    /\ IF file[of[t]] = "none"
       THEN To(t, "idle") /\ UNCHANGED deleted
       ELSE /\ deleted' = IF Caching THEN deleted ELSE deleted \cup {of[t]}
            /\ To(t, IF Caching THEN "purge" ELSE "idle")
    /\ UNCHANGED <<cache, of, upsets, stored, mixed, cut, wrong>>

\* Wrong variant of delete_cached: only if the file was still there.
delete_cached_skipped(t) ==
    /\ call[t] = "purge"
    /\ deleted' = deleted \cup {of[t]}
    /\ To(t, "idle")
    /\ UNCHANGED <<file, cache, of, open, upsets, stored, mixed, cut, wrong>>

delete_cached(t) ==
    /\ call[t] = "purge"
    /\ cache' = [cache EXCEPT ![of[t]] = "none"]
    /\ open' = open \ {u \in Beside(t, of[t]) : call[u] = "filling"}
    /\ deleted' = deleted \cup {of[t]}
    /\ To(t, "idle")
    /\ UNCHANGED <<file, of, upsets, stored, mixed, cut, wrong>>

\* What a statement cut short leaves: a write that has begun all of its content
\* or a part; an error of remove_file on the cache, which is ignored, its file.
StopsShort(t) ==
    \/ /\ call[t] = "write"
       /\ file' \in {file, IF t \in open THEN [file EXCEPT ![of[t]] = "whole"] ELSE file}
       /\ cut' = cut \cup {of[t]}
       /\ UNCHANGED <<cache, deleted>>
    \/ /\ call[t] = "filling"
       /\ cache' \in {cache, IF t \in open THEN [cache EXCEPT ![of[t]] = "whole"] ELSE cache}
       /\ cut' = cut \cup {of[t]}
       /\ UNCHANGED <<file, deleted>>
    \/ /\ call[t] = "purge"
       /\ deleted' = deleted \cup {of[t]}
       /\ cut' = cut \cup {of[t]}
       /\ UNCHANGED <<file, cache>>
    \/ /\ call[t] \notin {"idle", "write", "filling"}
       /\ UNCHANGED <<file, cache, deleted, cut>>

\* A statement fails, or the request is dropped at it: the call is over, with an
\* error or, where the error is ignored, without.
io_fails(t) ==
    /\ upsets < MaxUpsets
    /\ upsets' = upsets + 1
    /\ StopsShort(t)
    /\ open' = open \ {t}
    /\ To(t, "idle")
    /\ UNCHANGED <<of, stored, mixed, wrong>>

\* A restart ends every call; files stay as they are.
store_crash ==
    /\ upsets < MaxUpsets
    /\ upsets' = upsets + 1
    /\ cut' = cut \cup {of[t] : t \in {u \in Caller : call[u] # "idle"}}
    /\ call' = [t \in Caller |-> "idle"]
    /\ open' = {}
    /\ UNCHANGED <<file, cache, of, stored, deleted, mixed, wrong>>

FileStoreNext ==
    \/ \E t \in Caller :
           \/ \E h \in File : store(t, h) \/ get_file(t, h) \/ delete(t, h)
           \/ store_create(t) \/ store_write(t)
           \/ get_cached(t) \/ get_lookup(t) \/ get_verified(t) \/ cache_create(t) \/ cache_write(t)
           \/ delete_file(t) \/ delete_cached(t) \/ io_fails(t)
    \/ store_crash

FileStoreSpec == FileStoreInit /\ [][FileStoreNext]_fileVars

-----------------------------------------------------------------------------

\* A get returns the content with that hash or none: what comes from the files is
\* verified, what comes from the cache was; but another get may be writing the
\* cached file at that moment, or its write may have been cut short by a restart,
\* a dropped request or an error, which nobody looks at.
GetIsGenuine == wrong \subseteq cut

\* What a store has returned is there, whole, when no call about it is under way,
\* unless a delete ran beside another call, or a restart, a dropped request or an
\* error cut one: a store that finds the file of one that was cut, its own retry
\* for instance, returns its hash all the same.
StoredIsWhole ==
    \A h \in stored \ (mixed \cup cut) :
        (\A t \in Caller : of[t] = h => call[t] = "idle") => file[h] = "whole"

\* After a delete nothing is left, in neither directory, unless it ran beside a get
\* or a store: a get that read the file before puts it into the cache afterwards;
\* or the removal of the cached copy failed, which delete does not tell.
DeletedIsGone ==
    \A h \in deleted \ (mixed \cup cut) : file[h] = "none" /\ cache[h] = "none"

\* What the three calls of the store promise each other.
FilesAreSound == GetIsGenuine /\ StoredIsWhole /\ DeletedIsGone

=============================================================================
