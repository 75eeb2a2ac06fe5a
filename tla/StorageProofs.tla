----------------------------- MODULE StorageProofs -----------------------------
(***************************************************************************)
(* What holds of the stores and of those who fill them, for any constants: *)
(* the calls of the file store keep their promises to each other without a *)
(* lock, the content ring gives a content to the nearest nodes, the fetch  *)
(* job keeps what it has and takes nothing that a hash refutes, and the    *)
(* warm cache keeps its index, its files and its limit in step.            *)
(* VmProofs gives the sums over finite sets.                               *)
(***************************************************************************)
EXTENDS VmProofs, WarmCache, FileStore, ContentFetch

-----------------------------------------------------------------------------
(***************************************************************************)
(* FileStore.                                                              *)
(***************************************************************************)

\* A file that is only begun has a writer who will end it, and whose name it still has.
BegunIsOpen ==
    \A h \in File \ cut :
        /\ file[h] = "part" => \E u \in open : call[u] = "write" /\ of[u] = h
        /\ cache[h] = "part" => \E u \in open : call[u] = "filling" /\ of[u] = h

Deleting(t) == call[t] \in {"delete", "purge"}

\* A delete beside another call is on record,
BesideIsMixed ==
    \A t, u \in Caller :
        Deleting(t) /\ u # t /\ call[u] # "idle" /\ of[u] = of[t] => of[t] \in mixed

\* and so is a writer who has lost the name of its file.
LostIsMixed == \A t \in Caller \ open : call[t] = "write" => of[t] \in mixed

\* What has been stored is there, and is not being deleted.
StoredIsThere ==
    /\ \A h \in stored \ (mixed \cup cut) : file[h] # "none"
    /\ \A t \in Caller : Deleting(t) => of[t] \notin stored \/ of[t] \in mixed

\* What has been deleted is gone, and nobody is about to write it; nor does anybody write
\* it between the two statements of a delete.
DeletedStaysGone ==
    /\ \A h \in deleted \ (mixed \cup cut) :
          /\ file[h] = "none" /\ cache[h] = "none"
          /\ \A t \in Caller : of[t] = h =>
                call[t] \in {"idle", "lookup", "delete", "purge"}
    /\ \A t \in Caller : call[t] = "purge" => file[of[t]] = "none" \/ of[t] \in mixed

\* Without a cache nothing is in it.
CacheIsUsed ==
    ~ Caching => /\ \A h \in File : cache[h] = "none"
                 /\ \A t \in Caller : call[t] \notin {"cached", "fill", "filling", "purge"}

FilesInv ==
    /\ FileStoreTypeOK /\ BegunIsOpen /\ BesideIsMixed /\ LostIsMixed /\ StoredIsThere
    /\ DeletedStaysGone /\ CacheIsUsed /\ GetIsGenuine

\* The invariant holds at the start.
LEMMA FilesInit == FileStoreInit => FilesInv
BY FileStoreAssumption DEF FileStoreInit, FilesInv, FileStoreTypeOK, Contents, Calls, BegunIsOpen,
   BesideIsMixed, Deleting, LostIsMixed, StoredIsThere, DeletedStaysGone, CacheIsUsed, GetIsGenuine

\* Every step of every call preserves it.
LEMMA FilesNext == FilesInv /\ [FileStoreNext]_fileVars => FilesInv'
<1> SUFFICES ASSUME FilesInv, [FileStoreNext]_fileVars PROVE FilesInv'
  OBVIOUS
<1> USE FileStoreAssumption
    DEF FilesInv, FileStoreTypeOK, Contents, Calls, BegunIsOpen, BesideIsMixed, Deleting,
        LostIsMixed, StoredIsThere, DeletedStaysGone, CacheIsUsed, GetIsGenuine,
        fileHistory, To, Begin, Beside
<1>1. ASSUME NEW t \in Caller, NEW h \in File, store(t, h) PROVE FilesInv'
  BY <1>1 DEF store
<1>2. ASSUME NEW t \in Caller, NEW h \in File, get_file(t, h) PROVE FilesInv'
  BY <1>2 DEF get_file
<1>3. ASSUME NEW t \in Caller, NEW h \in File, delete(t, h) PROVE FilesInv'
  BY <1>3 DEF delete
<1>4. ASSUME NEW t \in Caller, store_create(t) PROVE FilesInv'
  BY <1>4 DEF store_create
<1>5. ASSUME NEW t \in Caller, store_write(t) PROVE FilesInv'
  BY <1>5 DEF store_write
<1>6. ASSUME NEW t \in Caller, get_cached(t) PROVE FilesInv'
  BY <1>6 DEF get_cached
<1>7. ASSUME NEW t \in Caller, get_lookup(t) PROVE FilesInv'
  BY <1>7 DEF get_lookup
<1>8. ASSUME NEW t \in Caller, get_verified(t) PROVE FilesInv'
  BY <1>8 DEF get_verified
<1>9. ASSUME NEW t \in Caller, cache_create(t) PROVE FilesInv'
  BY <1>9 DEF cache_create
<1>10. ASSUME NEW t \in Caller, cache_write(t) PROVE FilesInv'
  BY <1>10 DEF cache_write
<1>11. ASSUME NEW t \in Caller, delete_file(t) PROVE FilesInv'
  BY <1>11 DEF delete_file
<1>12. ASSUME NEW t \in Caller, delete_cached(t) PROVE FilesInv'
  BY <1>12 DEF delete_cached
<1>13. CASE store_crash
  BY <1>13 DEF store_crash
<1>14. ASSUME NEW t \in Caller, io_fails(t) PROVE FilesInv'
  BY <1>14 DEF io_fails, StopsShort
<1>15. CASE UNCHANGED fileVars
  BY <1>15 DEF fileVars
<1>. QED
  BY <1>1, <1>2, <1>3, <1>4, <1>5, <1>6, <1>7, <1>8, <1>9, <1>10, <1>11, <1>12, <1>13, <1>14,
     <1>15 DEF FileStoreNext

\* Whatever callers store, read and delete beside each other, and wherever a restart, an
\* I/O error or a dropped request cuts them: a get is genuine, what is stored stays whole and what is deleted is gone, with the
\* exceptions that FilesAreSound names.
THEOREM FilesSound == FileStoreSpec => []FilesAreSound
<1>1. FilesInv => FilesAreSound
  BY DEF FilesInv, FileStoreTypeOK, Contents, BegunIsOpen, StoredIsThere, DeletedStaysGone,
     FilesAreSound, GetIsGenuine, StoredIsWhole, DeletedIsGone
<1>. QED
  BY <1>1, FilesInit, FilesNext, PTL DEF FileStoreSpec

-----------------------------------------------------------------------------
(***************************************************************************)
(* Facts about numbers and sequences.                                      *)
(***************************************************************************)

\* A set of numbers has a least element.
LEMMA LeastOf == ASSUME NEW T \in SUBSET Nat, T # {} PROVE \E n \in T : \A m \in T : n <= m
<1> DEFINE R == OpToRel(<, Nat)
<1>1. IsWellFoundedOn(R, Nat)
  BY NatLessThanWellFounded
<1>2. \A x, y \in Nat : <<x, y>> \in R <=> x < y
  BY DEF OpToRel
<1> HIDE DEF R
<1>3. PICK n \in T : \A m \in T : ~ (<<m, n>> \in R)
  BY <1>1, WFMin
<1>4. \A m \in T : ~ (m < n)
  BY <1>2, <1>3
<1> QED
  BY <1>4

\* What holds of 0 and of the successor of each number it holds of, holds of all.
LEMMA CountUp == ASSUME NEW T, 0 \in T, \A n \in Nat : n \in T => n + 1 \in T PROVE Nat \subseteq T
<1> SUFFICES ASSUME Nat \ T # {} PROVE FALSE
  OBVIOUS
<1>1. PICK n \in Nat \ T : \A m \in Nat \ T : n <= m
  BY LeastOf
<1>2. n - 1 \in Nat /\ n - 1 \in T
  BY <1>1
<1> QED
  BY <1>1, <1>2

\* The members of a sequence.
LEMMA InToSet == ASSUME NEW S, NEW s \in Seq(S), NEW m
                 PROVE  m \in ToSet(s) <=> \E i \in 1..Len(s) : m = s[i]
BY DEF ToSet

\* One more of them.
LEMMA ToSetAppend == ASSUME NEW S, NEW s \in Seq(S), NEW e \in S
                     PROVE  /\ ToSet(Append(s, e)) = ToSet(s) \cup {e}
                            /\ Append(s, e) \in Seq(S)
<1>1. /\ Append(s, e) \in Seq(S) /\ Len(Append(s, e)) = Len(s) + 1 /\ Len(s) \in Nat
      /\ \A i \in 1..Len(s) : Append(s, e)[i] = s[i]
      /\ Append(s, e)[Len(s) + 1] = e
  OBVIOUS
<1>2. ASSUME NEW m PROVE m \in ToSet(Append(s, e)) <=> m \in ToSet(s) \/ m = e
  <2>1. m \in ToSet(s) <=> \E i \in 1..Len(s) : m = s[i]
    BY InToSet
  <2>2. m \in ToSet(Append(s, e)) <=> \E i \in 1..Len(Append(s, e)) : m = Append(s, e)[i]
    <3> DEFINE t == Append(s, e)
    <3>1. t \in Seq(S)
      BY <1>1
    <3> HIDE DEF t
    <3>2. m \in ToSet(t) <=> \E i \in 1..Len(t) : m = t[i]
      BY <3>1, InToSet
    <3> QED
      BY <3>2 DEF t
  <2> QED
    BY <2>1, <2>2, <1>1
<1> QED
  BY <1>1, <1>2

-----------------------------------------------------------------------------
(***************************************************************************)
(* The ring.                                                               *)
(***************************************************************************)

\* One turn of the ring.
LEMMA Turn ==
  ASSUME NEW R \in Nat \ {0}, NEW a \in Int
  PROVE  /\ 0 <= a /\ a < R => a % R = a
         /\ R <= a /\ a < 2 * R => a % R = a - R
         /\ - R <= a /\ a < 0 => a % R = a + R
OBVIOUS

\* How far the place p lies clockwise of h, and the place that lies k beyond h.
Offset(p, h) == (p - Home[h]) % RingSize
Beyond(h, k) == (Home[h] + k) % RingSize

\* The place that lies beyond h by the offset of p is p.
LEMMA OffsetIs ==
  ASSUME NEW h \in Hash, NEW p \in 0..RingSize - 1
  PROVE  /\ Offset(p, h) \in 0..RingSize - 1
         /\ Beyond(h, Offset(p, h)) = p
<1>1. RingSize \in Nat \ {0} /\ Home[h] \in 0..RingSize - 1
  BY ContentRingAssumption
<1>2. Offset(p, h) = IF p >= Home[h] THEN p - Home[h] ELSE p - Home[h] + RingSize
  <2> DEFINE a == p - Home[h]
  <2>1. a \in Int /\ - RingSize <= a /\ a < RingSize
    BY <1>1
  <2>2. a % RingSize = IF a >= 0 THEN a ELSE a + RingSize
    <3> HIDE DEF a
    <3>1. CASE 0 <= a
      BY <1>1, <2>1, <3>1, Turn
    <3>2. CASE a < 0
      BY <1>1, <2>1, <3>2, Turn
    <3> QED  BY <2>1, <3>1, <3>2
  <2>3. Offset(p, h) = IF a >= 0 THEN a ELSE a + RingSize
    BY <2>2 DEF Offset
  <2> QED  BY <1>1, <2>3
<1>3. Offset(p, h) \in 0..RingSize - 1
  BY <1>1, <1>2
<1>4. Home[h] + Offset(p, h) \in {p, p + RingSize}
  BY <1>1, <1>2
<1>5. p % RingSize = p /\ (p + RingSize) % RingSize = p
  <2>1. p \in Int /\ p + RingSize \in Int /\ RingSize <= p + RingSize /\ p + RingSize < 2 * RingSize
    BY <1>1
  <2> QED  BY <1>1, <2>1, Turn
<1> QED  BY <1>3, <1>4, <1>5 DEF Beyond

\* The place beyond h by k has the offset k.
LEMMA BeyondIs ==
  ASSUME NEW h \in Hash, NEW k \in 0..RingSize - 1
  PROVE  /\ Beyond(h, k) \in 0..RingSize - 1
         /\ Offset(Beyond(h, k), h) = k
<1>1. RingSize \in Nat \ {0} /\ Home[h] \in 0..RingSize - 1
  BY ContentRingAssumption
<1>2. Beyond(h, k) = IF Home[h] + k < RingSize THEN Home[h] + k ELSE Home[h] + k - RingSize
  <2>1. Home[h] + k \in Int /\ 0 <= Home[h] + k /\ Home[h] + k < 2 * RingSize
    BY <1>1
  <2> QED  BY <1>1, <2>1, Turn DEF Beyond
<1>3. Beyond(h, k) \in 0..RingSize - 1
  BY <1>1, <1>2
<1>4. Beyond(h, k) - Home[h] \in {k, k - RingSize}
  BY <1>1, <1>2
<1>5. k % RingSize = k /\ (k - RingSize) % RingSize = k
  <2> DEFINE a == k - RingSize
  <2>1. a \in Int /\ - RingSize <= a /\ a < 0 /\ a + RingSize = k
    BY <1>1
  <2>2. a % RingSize = k
    <3> HIDE DEF a
    <3> QED  BY <1>1, <2>1, Turn
  <2>3. k % RingSize = k
    <3>1. k \in Int /\ 0 <= k /\ k < RingSize
      BY <1>1
    <3> QED  BY <1>1, <3>1, Turn
  <2> QED  BY <2>2, <2>3
<1> QED  BY <1>3, <1>4, <1>5 DEF Offset

\* The distance of a node is the offset of one of its places, and of no other node's.
LEMMA DistanceIs ==
  ASSUME NEW h \in Hash, NEW n \in Node
  PROVE  /\ Distance(n, h) \in 0..RingSize - 1
         /\ Beyond(h, Distance(n, h)) \in Places[n]
         /\ \A p \in Places[n] : Distance(n, h) <= Offset(p, h)
<1> DEFINE away == {(p - Home[h]) % RingSize : p \in Places[n]}
<1>1. \A p \in Places[n] : p \in 0..RingSize - 1
  BY ContentRingAssumption
<1>2. away \in SUBSET Nat /\ away # {}
  BY <1>1, OffsetIs, ContentRingAssumption DEF Offset
<1>3. Distance(n, h) \in away /\ \A e \in away : Distance(n, h) <= e
  <2>1. \E d \in away : \A e \in away : d <= e
    <3> HIDE DEF away
    <3> QED  BY <1>2, LeastOf
  <2>2. Distance(n, h) = CHOOSE d \in away : \A e \in away : d <= e
    BY DEF Distance
  <2> HIDE DEF away
  <2> QED  BY <2>1, <2>2
<1>4. PICK p \in Places[n] : Distance(n, h) = Offset(p, h)
  BY <1>3 DEF Offset
<1>5. \A q \in Places[n] : Distance(n, h) <= Offset(q, h)
  BY <1>3 DEF Offset
<1> QED  BY <1>1, <1>4, <1>5, OffsetIs

\* No two nodes are equally far.
LEMMA DistanceTells ==
  ASSUME NEW h \in Hash, NEW m \in Node, NEW n \in Node, m # n
  PROVE  Distance(m, h) # Distance(n, h)
BY DistanceIs, ContentRingAssumption

\* Each place of a node of N leads to that node, and no other place is taken.
LEMMA RingOfIs ==
  ASSUME NEW N \in SUBSET Node
  PROVE  /\ \A n \in N : \A p \in Places[n] : p \in DOMAIN RingOf(N) /\ RingOf(N)[p] = n
         /\ \A p \in DOMAIN RingOf(N) : RingOf(N)[p] \in N /\ p \in Places[RingOf(N)[p]]
<1>1. ASSUME NEW n \in N, NEW p \in Places[n]
      PROVE  p \in DOMAIN RingOf(N) /\ RingOf(N)[p] = n
  <2>1. p \in DOMAIN RingOf(N)
    BY DEF RingOf
  <2>2. RingOf(N)[p] = CHOOSE m \in N : p \in Places[m]
    BY <2>1 DEF RingOf
  <2>3. \A m \in N : p \in Places[m] => m = n
    BY ContentRingAssumption
  <2> QED  BY <2>1, <2>2, <2>3
<1>2. ASSUME NEW p \in DOMAIN RingOf(N) PROVE \E n \in N : p \in Places[n]
  BY DEF RingOf
<1> QED  BY <1>1, <1>2

-----------------------------------------------------------------------------
(***************************************************************************)
(* The walk: get_responsible_nodes, place by place.                        *)
(***************************************************************************)

\* What has been collected after one more place.
Onward(N, h, seen, k) ==
    LET place == (Home[h] + k - 1) % RingSize
    IN  IF /\ place \in DOMAIN RingOf(N)
           /\ Len(seen) < Wanted
           /\ ~ Contains(seen, RingOf(N)[place])
        THEN Append(seen, RingOf(N)[place])
        ELSE seen

\* w is the walk over the first j places.
Walks(w, N, h, j) ==
    w = [k \in 0..j |-> IF k = 0 THEN <<>> ELSE Onward(N, h, w[k - 1], k)]

\* One place of it.
LEMMA WalkUnfolds ==
  ASSUME NEW N, NEW h, NEW j \in Nat, NEW w, Walks(w, N, h, j)
  PROVE  w[0] = <<>> /\ \A k \in 1..j : w[k] = Onward(N, h, w[k - 1], k)
BY DEF Walks

\* There is one, however long.
LEMMA WalkExists ==
  ASSUME NEW N, NEW h, NEW j \in Nat
  PROVE  \E w : Walks(w, N, h, j)
<1> DEFINE T == {i \in Nat : \E w : Walks(w, N, h, i)}
<1>1. 0 \in T
  <2>1. Walks([k \in 0..0 |-> <<>>], N, h, 0)
    BY DEF Walks
  <2> QED  BY <2>1
<1>2. ASSUME NEW i \in Nat, i \in T PROVE i + 1 \in T
  <2>1. PICK w : Walks(w, N, h, i)
    BY <1>2
  <2> DEFINE v == [k \in 0..i + 1 |-> IF k = i + 1 THEN Onward(N, h, w[i], i + 1) ELSE w[k]]
  <2>2. ASSUME NEW k \in 0..i + 1
        PROVE  v[k] = IF k = 0 THEN <<>> ELSE Onward(N, h, v[k - 1], k)
    <3>1. CASE k = i + 1
      BY <3>1
    <3>2. CASE k # i + 1
      <4>1. k \in 0..i /\ v[k] = w[k] /\ (k # 0 => v[k - 1] = w[k - 1])
        BY <3>2
      <4> HIDE DEF v
      <4>2. w[k] = IF k = 0 THEN <<>> ELSE Onward(N, h, w[k - 1], k)
        <5>1. w[0] = <<>> /\ \A l \in 1..i : w[l] = Onward(N, h, w[l - 1], l)
          BY <2>1, WalkUnfolds
        <5>2. k = 0 \/ k \in 1..i
          BY <4>1
        <5> QED  BY <5>1, <5>2
      <4> QED  BY <4>1, <4>2
    <3> QED  BY <3>1, <3>2
  <2>3. v = [k \in 0..i + 1 |-> v[k]]
    OBVIOUS
  <2>4. Walks(v, N, h, i + 1)
    <3> HIDE DEF v
    <3> QED  BY <2>2, <2>3 DEF Walks
  <2> QED  BY <2>4
<1>3. Nat \subseteq T
  <2> HIDE DEF T
  <2> QED  BY <1>1, <1>2, CountUp
<1> QED  BY <1>3

\* It is what get_responsible_nodes computes.
LEMMA WalkIs ==
  ASSUME NEW N, NEW h
  PROVE  \E w : Walks(w, N, h, RingSize) /\ get_responsible_nodes(N, h) = w[RingSize]
<1> DEFINE w == CHOOSE v : Walks(v, N, h, RingSize)
<1>1. Walks(w, N, h, RingSize)
  <2>1. \E v : Walks(v, N, h, RingSize)
    BY WalkExists, ContentRingAssumption
  <2> QED  BY <2>1, Zenon
<1>2. get_responsible_nodes(N, h) = w[RingSize]
  BY DEF get_responsible_nodes, Walks, Onward
<1> QED  BY <1>1, <1>2

\* The first nodes met within k places, nearest first.
Collected(seen, N, h, k) ==
    /\ seen \in Seq(N) /\ Len(seen) <= Wanted
    /\ \A i, j \in 1..Len(seen) : i < j => Distance(seen[i], h) < Distance(seen[j], h)
    /\ \A i \in 1..Len(seen) : Distance(seen[i], h) < k
    /\ \/ \A n \in N : Distance(n, h) < k => Contains(seen, n)
       \/ /\ Len(seen) = Wanted
          /\ \A n \in N, i \in 1..Len(seen) :
                ~ Contains(seen, n) => Distance(seen[i], h) < Distance(n, h)

\* The next place keeps it so: the node there is the next in distance, or was met before.
LEMMA OnwardCollects ==
  ASSUME NEW N \in SUBSET Node, NEW h \in Hash, NEW k \in 0..RingSize - 1,
         NEW seen, Collected(seen, N, h, k)
  PROVE  Collected(Onward(N, h, seen, k + 1), N, h, k + 1)
<1> DEFINE place == Beyond(h, k)
           n == RingOf(N)[place]
           Takes == place \in DOMAIN RingOf(N) /\ Len(seen) < Wanted /\ ~ Contains(seen, n)
<1>1. Onward(N, h, seen, k + 1) = IF Takes THEN Append(seen, n) ELSE seen
  <2>1. Home[h] + (k + 1) - 1 = Home[h] + k
    BY ContentRingAssumption
  <2> QED  BY <2>1 DEF Onward, Beyond
<1>2. \A m \in N : Distance(m, h) \in Nat
  BY DistanceIs
<1>3. \A m \in N : Distance(m, h) = k => place \in DOMAIN RingOf(N) /\ m = n
  BY DistanceIs, RingOfIs
<1>4. place \in DOMAIN RingOf(N) => n \in N /\ Distance(n, h) <= k
  BY BeyondIs, RingOfIs, DistanceIs
<1>5. \A i \in 1..Len(seen) : seen[i] \in N
  BY DEF Collected
<1>0. Len(seen) \in Nat /\ Wanted \in Nat /\ Len(seen) <= Wanted
  BY ContentRingAssumption DEF Collected, Wanted
<1> HIDE DEF place, n
<1>6. CASE ~ Takes
  <2>1. \A i \in 1..Len(seen) : Distance(seen[i], h) < k + 1
    BY <1>2, <1>5 DEF Collected
  <2>2. CASE \A m \in N : Distance(m, h) < k => Contains(seen, m)
    <3>1. CASE Len(seen) < Wanted
      <4>1. \A m \in N : Distance(m, h) < k + 1 => Contains(seen, m)
        BY <1>2, <1>3, <1>6, <2>2, <3>1
      <4> QED  BY <1>1, <1>6, <2>1, <4>1 DEF Collected
    <3>2. CASE Len(seen) = Wanted
      <4>1. \A m \in N, i \in 1..Len(seen) :
                ~ Contains(seen, m) => Distance(seen[i], h) < Distance(m, h)
        BY <1>2, <1>5, <2>2 DEF Collected
      <4> QED  BY <1>1, <1>6, <2>1, <3>2, <4>1 DEF Collected
    <3>3. Len(seen) < Wanted \/ Len(seen) = Wanted
      BY <1>0
    <3> QED  BY <3>1, <3>2, <3>3
  <2>3. CASE ~ (\A m \in N : Distance(m, h) < k => Contains(seen, m))
    BY <1>1, <1>6, <2>1, <2>3 DEF Collected
  <2> QED  BY <2>2, <2>3
<1>7. CASE Takes
  <2> DEFINE now == Append(seen, n)
  <2>1. /\ now \in Seq(N) /\ Len(now) = Len(seen) + 1
        /\ now[Len(seen) + 1] = n /\ \A i \in 1..Len(seen) : now[i] = seen[i]
    BY <1>4, <1>7 DEF Collected
  <2> HIDE DEF now
  <2>2. Len(seen) \in Nat /\ Len(now) <= Wanted
    BY <1>7, <1>0, <2>1
  <2>3. \A m \in N : Distance(m, h) < k => Contains(seen, m)
    BY <1>7, <1>0 DEF Collected
  <2>4. Distance(n, h) = k
    BY <1>2, <1>4, <1>7, <2>3
  <2>5. \A i, j \in 1..Len(now) : i < j => Distance(now[i], h) < Distance(now[j], h)
    <3> SUFFICES ASSUME NEW i \in 1..Len(now), NEW j \in 1..Len(now), i < j
                 PROVE  Distance(now[i], h) < Distance(now[j], h)
      OBVIOUS
    <3>1. i \in 1..Len(seen) /\ now[i] = seen[i]
      BY <2>1, <2>2
    <3>2. CASE j = Len(seen) + 1
      BY <2>1, <2>4, <3>1, <3>2 DEF Collected
    <3>3. CASE j \in 1..Len(seen)
      BY <2>1, <3>1, <3>3 DEF Collected
    <3> QED  BY <2>1, <2>2, <3>2, <3>3
  <2>6. \A i \in 1..Len(now) : Distance(now[i], h) < k + 1
    <3> SUFFICES ASSUME NEW i \in 1..Len(now) PROVE Distance(now[i], h) < k + 1
      OBVIOUS
    <3>1. CASE i = Len(seen) + 1
      BY <2>1, <2>4, <3>1
    <3>2. CASE i \in 1..Len(seen)
      BY <1>2, <1>5, <2>1, <3>2 DEF Collected
    <3> QED  BY <2>1, <2>2, <3>1, <3>2
  <2>7. \A m \in N : Distance(m, h) < k + 1 => Contains(now, m)
    <3> SUFFICES ASSUME NEW m \in N, Distance(m, h) < k + 1 PROVE Contains(now, m)
      OBVIOUS
    <3>1. CASE Distance(m, h) < k
      <4>1. PICK i \in 1..Len(seen) : seen[i] = m
        BY <2>3, <3>1 DEF Contains
      <4> QED  BY <2>1, <2>2, <4>1 DEF Contains
    <3>2. CASE Distance(m, h) = k
      <4>1. m = n
        BY <1>3, <3>2
      <4> QED  BY <2>1, <2>2, <4>1 DEF Contains
    <3> QED  BY <1>2, <3>1, <3>2
  <2>8. Onward(N, h, seen, k + 1) = now
    BY <1>1, <1>7 DEF now
  <2> QED  BY <2>1, <2>2, <2>5, <2>6, <2>7, <2>8 DEF Collected
<1> QED  BY <1>6, <1>7

\* After a whole turn.
LEMMA AllCollected ==
  ASSUME NEW N \in SUBSET Node, NEW h \in Hash
  PROVE  Collected(get_responsible_nodes(N, h), N, h, RingSize)
<1>1. PICK w : Walks(w, N, h, RingSize) /\ get_responsible_nodes(N, h) = w[RingSize]
  BY WalkIs
<1>2. RingSize \in Nat
  BY ContentRingAssumption
<1>3. w[0] = <<>> /\ \A k \in 1..RingSize : w[k] = Onward(N, h, w[k - 1], k)
  BY <1>1, <1>2, WalkUnfolds
<1> DEFINE T == {k \in Nat : k <= RingSize => Collected(w[k], N, h, k)}
<1>4. 0 \in T
  <2>1. Wanted \in Nat /\ \A n \in N : Distance(n, h) \in Nat
    BY DistanceIs, ContentRingAssumption DEF Wanted
  <2>2. <<>> \in Seq(N) /\ Len(<<>>) = 0
    OBVIOUS
  <2>3. Collected(<<>>, N, h, 0)
    BY <2>1, <2>2 DEF Collected
  <2> QED  BY <1>3, <2>3
<1>5. ASSUME NEW k \in Nat, k \in T PROVE k + 1 \in T
  <2> SUFFICES ASSUME k + 1 <= RingSize PROVE Collected(w[k + 1], N, h, k + 1)
    OBVIOUS
  <2>1. k \in 0..RingSize - 1 /\ k + 1 \in 1..RingSize /\ (k + 1) - 1 = k
    BY <1>2
  <2>2. Collected(w[k], N, h, k)
    <3>1. k <= RingSize
      BY <2>1, <1>2
    <3> QED  BY <1>5, <3>1
  <2>3. Collected(Onward(N, h, w[k], k + 1), N, h, k + 1)
    BY <2>1, <2>2, OnwardCollects
  <2>4. w[k + 1] = Onward(N, h, w[k], k + 1)
    BY <1>3, <2>1
  <2> QED  BY <2>3, <2>4
<1>6. Nat \subseteq T
  <2> HIDE DEF T
  <2> QED  BY <1>4, <1>5, CountUp
<1> QED  BY <1>1, <1>2, <1>6

\* As many as the factor asks for, or all.
Share(N) == IF Wanted <= Cardinality(N) THEN Wanted ELSE Cardinality(N)

\* What the walk gives: the nodes that are nearest.
LEMMA OwnersAreNearest ==
  ASSUME NEW N \in SUBSET Node, NEW h \in Hash, NEW chosen, chosen = get_responsible_nodes(N, h)
  PROVE  /\ chosen \in Seq(N) /\ IsInjective(chosen)
         /\ IsFiniteSet(ToSet(chosen)) /\ Cardinality(ToSet(chosen)) = Len(chosen)
         /\ Len(chosen) = Share(N)
         /\ \A i \in 1..Len(chosen) - 1 : Distance(chosen[i], h) < Distance(chosen[i + 1], h)
         /\ \A n \in N \ ToSet(chosen), m \in ToSet(chosen) : Distance(m, h) < Distance(n, h)
<1>1. Collected(chosen, N, h, RingSize)
  BY AllCollected
<1>2. chosen \in Seq(N) /\ Len(chosen) \in Nat /\ DOMAIN chosen = 1..Len(chosen)
  BY <1>1 DEF Collected
<1>3. \A n \in N : Distance(n, h) \in Nat /\ Distance(n, h) < RingSize
  BY DistanceIs, ContentRingAssumption
<1>4. \A i, j \in 1..Len(chosen) : i < j => Distance(chosen[i], h) < Distance(chosen[j], h)
  BY <1>1 DEF Collected
<1>5. IsInjective(chosen)
  <2> SUFFICES ASSUME NEW i \in 1..Len(chosen), NEW j \in 1..Len(chosen), chosen[i] = chosen[j]
               PROVE  i = j
    BY <1>2 DEF IsInjective
  <2>1. chosen[i] \in N
    BY <1>2
  <2>2. ~ (i < j) /\ ~ (j < i)
    BY <1>3, <1>4, <2>1
  <2> QED  BY <2>2
<1>6. IsFiniteSet(ToSet(chosen)) /\ Cardinality(ToSet(chosen)) = Len(chosen)
  <2>1. chosen \in Bijection(1..Len(chosen), ToSet(chosen))
    BY <1>2, <1>5 DEF Bijection, Injection, Surjection, IsInjective, ToSet
  <2>2. ExistsBijection(1..Len(chosen), ToSet(chosen))
    BY <2>1 DEF ExistsBijection
  <2> QED  BY <1>2, <2>2, FS_CountingElements, FS_NatBijection
<1>7. IsFiniteSet(N) /\ ToSet(chosen) \subseteq N
  BY <1>2, FS_Subset, ContentRingAssumption DEF ToSet
<1>8. Cardinality(N) \in Nat /\ Len(chosen) <= Cardinality(N)
  BY <1>6, <1>7, FS_CardinalityType, FS_Subset
<1>9. \A n \in N : Contains(chosen, n) <=> n \in ToSet(chosen)
  BY <1>2 DEF Contains, ToSet
<1>10. \A i \in 1..Len(chosen) - 1 : Distance(chosen[i], h) < Distance(chosen[i + 1], h)
  BY <1>2, <1>4
<1>11. CASE \A n \in N : Distance(n, h) < RingSize => Contains(chosen, n)
  <2>1. ToSet(chosen) = N
    BY <1>3, <1>7, <1>9, <1>11
  <2>2. Len(chosen) = Cardinality(N) /\ Len(chosen) <= Wanted
    BY <1>1, <1>6, <2>1 DEF Collected
  <2>3. Wanted \in Nat
    BY ContentRingAssumption DEF Wanted
  <2> QED  BY <1>2, <1>5, <1>6, <1>8, <1>10, <2>1, <2>2, <2>3 DEF Share
<1>12. CASE ~ (\A n \in N : Distance(n, h) < RingSize => Contains(chosen, n))
  <2>1. /\ Len(chosen) = Wanted
        /\ \A n \in N, i \in 1..Len(chosen) :
                ~ Contains(chosen, n) => Distance(chosen[i], h) < Distance(n, h)
    BY <1>1, <1>12 DEF Collected
  <2>2. \A n \in N \ ToSet(chosen), m \in ToSet(chosen) : Distance(m, h) < Distance(n, h)
    BY <1>2, <1>9, <2>1 DEF ToSet
  <2> QED  BY <1>2, <1>5, <1>6, <1>8, <1>10, <2>1, <2>2 DEF Share
<1> QED  BY <1>11, <1>12

\* A node of both rings that loses a content loses it to one that joined.
LEMMA LostToNewcomer ==
  ASSUME NEW A \in SUBSET Node, NEW B \in SUBSET Node, NEW h \in Hash, NEW n \in A \cap B,
         is_responsible(n, A, h), ~ is_responsible(n, B, h)
  PROVE  \E m \in B \ A : is_responsible(m, B, h)
<1> DEFINE a == get_responsible_nodes(A, h)
           b == get_responsible_nodes(B, h)
           S == ToSet(a)
           T == ToSet(b)
<1>1. /\ a \in Seq(A) /\ IsFiniteSet(S) /\ Cardinality(S) = Share(A)
      /\ \A l \in A \ S, m \in S : Distance(m, h) < Distance(l, h)
  BY OwnersAreNearest
<1>2. /\ b \in Seq(B) /\ IsFiniteSet(T) /\ Cardinality(T) = Share(B)
      /\ \A l \in B \ T, m \in T : Distance(m, h) < Distance(l, h)
  BY OwnersAreNearest
<1>3. n \in S /\ n \notin T /\ S \subseteq A /\ T \subseteq B
  BY <1>1, <1>2 DEF is_responsible, Contains, ToSet
<1>4. \A m \in T : is_responsible(m, B, h)
  BY <1>2 DEF is_responsible, Contains, ToSet
<1> HIDE DEF a, b, S, T
<1> SUFFICES ASSUME T \subseteq A PROVE FALSE
  BY <1>3, <1>4
<1>5. \A m \in Node : Distance(m, h) \in Nat
  BY DistanceIs
<1>6. T \subseteq S
  <2> SUFFICES ASSUME NEW m \in T, m \notin S PROVE FALSE
    OBVIOUS
  <2>1. Distance(m, h) < Distance(n, h)
    BY <1>2, <1>3
  <2>2. Distance(n, h) < Distance(m, h)
    BY <1>1, <1>3
  <2>3. Distance(m, h) \in Nat /\ Distance(n, h) \in Nat
    BY <1>3, <1>5
  <2> QED  BY <2>1, <2>2, <2>3
<1>7. Cardinality(T) < Cardinality(S)
  <2>1. T # S
    BY <1>3
  <2>2. Cardinality(S) \in Nat /\ Cardinality(T) \in Nat
    BY <1>1, <1>2, FS_CardinalityType
  <2>3. Cardinality(T) <= Cardinality(S) /\ Cardinality(T) # Cardinality(S)
    BY <1>1, <1>6, <2>1, FS_Subset
  <2> QED  BY <2>2, <2>3
<1>8. Cardinality(T) < Cardinality(B) /\ Cardinality(B) \in Nat
  <2>1. IsFiniteSet(B)
    BY FS_Subset, ContentRingAssumption
  <2> QED  BY <1>3, <2>1, FS_Subset, FS_CardinalityType
<1>9. Cardinality(A) \in Nat /\ Wanted \in Nat
  <2>1. IsFiniteSet(A)
    BY FS_Subset, ContentRingAssumption
  <2> QED  BY <2>1, FS_CardinalityType, ContentRingAssumption DEF Wanted
<1> QED  BY <1>1, <1>2, <1>7, <1>8, <1>9 DEF Share

\* In every ring the owners of a content are the nearest nodes, and from one ring to the
\* next only joining and leaving nodes move it: for any places on the ring, any factor and
\* any two sets of nodes.
THEOREM OwnershipHolds == RingInit /\ [][RingNext]_nodes => OwnershipIsSound
<1>1. WalkIsNearest
  <2> SUFFICES ASSUME NEW h \in Hash, NEW chosen, chosen = get_responsible_nodes(Members, h)
               PROVE  /\ IsInjective(chosen) /\ ToSet(chosen) \subseteq Members
                      /\ Len(chosen) = Share(Members)
                      /\ \A i \in 1..Len(chosen) - 1 :
                            Distance(chosen[i], h) < Distance(chosen[i + 1], h)
                      /\ \A n \in Members \ ToSet(chosen), m \in ToSet(chosen) :
                            Distance(m, h) < Distance(n, h)
    BY DEF WalkIsNearest, Share
  <2>1. Members \in SUBSET Node
    BY DEF Members
  <2>2. chosen \in Seq(Members)
    BY <2>1, OwnersAreNearest
  <2>3. ToSet(chosen) \subseteq Members
    BY <2>2 DEF ToSet
  <2> QED  BY <2>1, <2>3, OwnersAreNearest
<1>2. StableOwnership
  <2> DEFINE Later == {n \in Node : nodes'[n] # NoAddress}
  <2>1. Members \in SUBSET Node /\ Later \in SUBSET Node
    BY DEF Members
  <2> HIDE DEF Later
  <2>2. ASSUME NEW h \in Hash, NEW n \in Members \cap Later
        PROVE  /\ is_responsible(n, Members, h) /\ ~ is_responsible(n, Later, h)
                    => \E m \in Later \ Members : is_responsible(m, Later, h)
               /\ ~ is_responsible(n, Members, h) /\ is_responsible(n, Later, h)
                    => \E m \in Members \ Later : is_responsible(m, Members, h)
    BY <2>1, LostToNewcomer
  <2> QED  BY <2>2 DEF StableOwnership, Later
<1>3. [Members' # Members => WalkIsNearest /\ StableOwnership]_nodes
  BY <1>1, <1>2
<1> QED  BY <1>3, PTL DEF OwnershipIsSound

-----------------------------------------------------------------------------
(***************************************************************************)
(* ContentFetch.                                                           *)
(***************************************************************************)

\* Forged content comes only of items whose hash the code does not know, at any step.
ForgedAreIpfs ==
    /\ DOMAIN content = Hash /\ DOMAIN answers = Hash
    /\ \A h \in Hash : content[h] = "forged" \/ answers[h] = "forged" => ItemType[h] # "storage"

\* What decides a fetch is an answer that passed, or IPFS.
LEMMA OutcomePasses ==
  ASSUME NEW h, NEW replies, NEW ipfs \in {"whole", "none"}, Outcome(h, replies, ipfs) = "forged"
  PROVE  ItemType[h] = "ipfs"
<1> DEFINE I == {i \in 1..Len(replies) : verify_hash(h, replies[i])}
           first == SelectInSeq(replies, LAMBDA r : verify_hash(h, r))
<1>1. CASE I = {}
  <2>1. first = 0
    BY <1>1 DEF SelectInSeq
  <2> QED  BY <2>1 DEF Outcome
<1>2. CASE I # {}
  <2>1. first = Min(I)
    BY <1>2 DEF SelectInSeq
  <2>2. I \in SUBSET Nat
    OBVIOUS
  <2>3. first \in I
    <3>1. \E n \in I : \A m \in I : n <= m
      <4> HIDE DEF I
      <4> QED  BY <1>2, <2>2, LeastOf
    <3> HIDE DEF I, first
    <3> QED  BY <2>1, <3>1 DEF Min
  <2>4. first > 0 /\ verify_hash(h, replies[first])
    BY <2>2, <2>3
  <2>5. replies[first] = "forged"
    <3> HIDE DEF I
    <3>1. Outcome(h, replies, ipfs) \in {"error", replies[first]}
      BY <2>4 DEF Outcome
    <3> QED  BY <3>1
  <2> QED  BY <2>4, <2>5 DEF verify_hash
<1> QED  BY <1>1, <1>2

\* Every step of the job keeps that, and what content there is.
LEMMA FetchStep ==
  ASSUME ForgedAreIpfs, [FetchNext]_fetchVars
  PROVE  ForgedAreIpfs' /\ ContentIsKept
<1> USE DEF ForgedAreIpfs, ContentIsKept, Fill
<1>1. ASSUME NEW h \in Hash, fetch_tick(h) PROVE ForgedAreIpfs' /\ ContentIsKept
  BY <1>1 DEF fetch_tick
<1>2. CASE fetch_and_verify
  <2>1. PICK h \in batch : \E ipfs \in {"whole", "none"} : \E replies :
            answers' = [answers EXCEPT ![h] = Outcome(h, replies, ipfs)]
    BY <1>2 DEF fetch_and_verify
  <2>2. PICK ipfs \in {"whole", "none"} : \E replies :
            answers' = [answers EXCEPT ![h] = Outcome(h, replies, ipfs)]
    BY <2>1
  <2>3. PICK replies : answers' = [answers EXCEPT ![h] = Outcome(h, replies, ipfs)]
    BY <2>2
  <2>4. content' = content
    BY <1>2 DEF fetch_and_verify
  <2>5. Outcome(h, replies, ipfs) = "forged" => ItemType[h] # "storage"
    BY OutcomePasses
  <2> QED  BY <2>3, <2>4, <2>5
<1>3. CASE store_fetched_content
  BY <1>3 DEF store_fetched_content, Apply
<1>4. CASE store_fetched_content_fails
  BY <1>4 DEF store_fetched_content_fails, Apply
<1>5. CASE fetch_error
  BY <1>5 DEF fetch_error, Apply
<1>6. CASE mark_unfetchable
  BY <1>6 DEF mark_unfetchable, Apply
<1>7. CASE content_arrives
  BY <1>7 DEF content_arrives
<1>8. CASE peers_change
  BY <1>8 DEF peers_change
<1>9. CASE fetch_restart
  BY <1>9 DEF fetch_restart
<1>10. CASE UNCHANGED fetchVars
  BY <1>10 DEF fetchVars
<1> QED
  BY <1>1, <1>2, <1>3, <1>4, <1>5, <1>6, <1>7, <1>8, <1>9, <1>10 DEF FetchNext, FetchRound

\* No peer makes this node store another content for the hash of a storage item, and a
\* content once stored is neither replaced nor given up.
THEOREM FetchKeeps == FetchSpec => FetchedIsKept
<1>1. FetchInit => ForgedAreIpfs
  BY DEF FetchInit, ForgedAreIpfs
<1>2. ForgedAreIpfs /\ [FetchNext]_fetchVars =>
          ForgedAreIpfs' /\ [StorageIsGenuine' /\ ContentIsKept]_content
  BY FetchStep DEF ForgedAreIpfs, StorageIsGenuine
<1> QED  BY <1>1, <1>2, PTL DEF FetchSpec, FetchedIsKept

-----------------------------------------------------------------------------
(***************************************************************************)
(* WarmCache.                                                              *)
(***************************************************************************)

\* The sums of the module are such sums.
LEMMA SizeIsSum ==
  ASSUME NEW S \in SUBSET Blob, IsFiniteSet(S)
  PROVE  \E g : Sums(g, [b \in S |-> Bytes[b]], S) /\ g[S] = Size(S)
<1> DEFINE h == [b \in S |-> Bytes[b]]
           Eq(g) == g = [T \in SUBSET S |->
               IF T = {} THEN 0
               ELSE LET x == CHOOSE x \in T : TRUE IN Bytes[x] + g[T \ {x}]]
           it == CHOOSE g : Eq(g)
<1>1. ASSUME NEW g PROVE Sums(g, h, S) <=> Eq(g)
  <2>1. ASSUME NEW T \in SUBSET S, T # {} PROVE h[Picked(T)] = Bytes[Picked(T)]
    BY <2>1, PickedIs
  <2> QED  BY <2>1 DEF Sums, Picked
<1>2. Size(S) = it[S]
  BY DEF Size, MapThenSumSet, MapThenFoldSet
<1>3. \E g : Eq(g)
  <2> HIDE DEF Eq, h
  <2> QED  BY <1>1, SumExists
<1>4. Eq(it)
  <2> HIDE DEF Eq
  <2> QED  BY <1>3, Zenon
<1> QED  BY <1>1, <1>2, <1>4

\* What blobs take together.
LEMMA Sizes ==
  ASSUME NEW S \in SUBSET Blob, IsFiniteSet(S)
  PROVE  /\ Size(S) \in Nat /\ Size({}) = 0
         /\ \A T \in SUBSET S : Size(T) \in Nat /\ Size(T) <= Size(S)
         /\ \A b \in S : Size(S) = Bytes[b] + Size(S \ {b})
<1> DEFINE h == [b \in S |-> Bytes[b]]
<1>1. h \in [S -> Nat]
  BY WarmCacheAssumption
<1>2. PICK g : Sums(g, h, S) /\ g[S] = Size(S)
  BY SizeIsSum
<1>3. ASSUME NEW T \in SUBSET S PROVE Size(T) = g[T]
  <2> DEFINE i == [b \in T |-> Bytes[b]]
  <2>1. IsFiniteSet(T)
    BY FS_Subset
  <2>2. PICK k : Sums(k, i, T) /\ k[T] = Size(T)
    BY <2>1, SizeIsSum
  <2>3. \A x \in T : h[x] = i[x]
    OBVIOUS
  <2> HIDE DEF h, i
  <2>4. k[T] = g[T]
    BY <1>2, <2>2, <2>3, SumAgrees
  <2> QED  BY <2>2, <2>4
<1>4. \A T \in SUBSET S : g[T] \in Nat
  <2> HIDE DEF h
  <2> QED  BY <1>1, <1>2, SumNat
<1>5. \A T \in SUBSET S : g[T] <= g[S]
  <2> HIDE DEF h
  <2> QED  BY <1>1, <1>2, SumGrows
<1>6. ASSUME NEW b \in S PROVE g[S] = Bytes[b] + g[S \ {b}]
  <2>1. h[b] = Bytes[b]
    OBVIOUS
  <2> HIDE DEF h
  <2>2. \A A \in SUBSET S : \A a \in A : g[A] = h[a] + g[A \ {a}]
    <3> SUFFICES ASSUME NEW A \in SUBSET S, NEW a \in A PROVE g[A] = h[a] + g[A \ {a}]
      OBVIOUS
    <3> QED  BY <1>1, <1>2, SumSplits
  <2> QED  BY <2>1, <2>2
<1>7. g[{}] = 0
  <2> HIDE DEF h
  <2> QED  BY <1>2, SumUnfolds
<1> HIDE DEF h
<1>8. \A b \in S : Size(S \ {b}) = g[S \ {b}]
  BY <1>3
<1> QED  BY <1>3, <1>4, <1>5, <1>6, <1>7, <1>8

\* A part and the rest.
LEMMA SizeParts ==
  ASSUME NEW S \in SUBSET Blob, IsFiniteSet(S), NEW A \in SUBSET S
  PROVE  Size(S) = Size(A) + Size(S \ A)
<1> DEFINE F == {T \in SUBSET S : Size(S) = Size(T) + Size(S \ T)}
<1>1. ASSUME NEW T \in SUBSET S, \A U \in SUBSET T : U # T => U \in F PROVE T \in F
  <2>1. CASE T = {}
    <3>1. S \ T = S /\ Size(S) \in Nat /\ Size({}) = 0
      BY <2>1, Sizes
    <3> QED  BY <2>1, <3>1
  <2>2. CASE T # {}
    <3>1. PICK x \in T : TRUE
      BY <2>2
    <3> DEFINE U == T \ {x}
               R == S \ T
    <3>2. Size(S) = Size(U) + Size(S \ U)
      <4>1. U \in F
        BY <1>1, <3>1
      <4> QED  BY <4>1
    <3>3. IsFiniteSet(T) /\ IsFiniteSet(S \ U) /\ IsFiniteSet(R) /\ T \in SUBSET Blob
          /\ S \ U \in SUBSET Blob /\ R \in SUBSET Blob
      BY FS_Subset
    <3>4. Size(T) = Bytes[x] + Size(U) /\ Size(U) \in Nat
      BY <3>1, <3>3, Sizes
    <3>5. x \in S \ U /\ (S \ U) \ {x} = R
      BY <3>1
    <3>6. Size(S \ U) = Bytes[x] + Size(R) /\ Size(R) \in Nat
      <4>1. Size(S \ U) = Bytes[x] + Size((S \ U) \ {x})
        BY <3>3, <3>5, Sizes
      <4> QED  BY <3>3, <3>5, <4>1, Sizes
    <3>7. Bytes[x] \in Nat
      BY <3>1, WarmCacheAssumption
    <3> HIDE DEF U, R
    <3>8. Size(S) = Size(T) + Size(R)
      BY <3>2, <3>4, <3>6, <3>7
    <3> QED  BY <3>8 DEF R
  <2> QED  BY <2>1, <2>2
<1>2. SUBSET S \subseteq F
  <2> HIDE DEF F
  <2> QED  BY <1>1, SubsetInduction
<1> QED  BY <1>2

\* What is left of s and the k-th key,
Left(s, S, k) == IF index[k] \in S THEN s ELSE Append(s, index[k])

\* and of the first n, place by place.
Leaves(w, S, n) == w = [k \in 0..n |-> IF k = 0 THEN <<>> ELSE Left(w[k - 1], S, k)]

LEMMA LeavesUnfolds ==
  ASSUME NEW S, NEW n \in Nat, NEW w, Leaves(w, S, n)
  PROVE  w[0] = <<>> /\ \A k \in 1..n : w[k] = Left(w[k - 1], S, k)
BY DEF Leaves

LEMMA LeavesExists ==
  ASSUME NEW S, NEW n \in Nat PROVE \E w : Leaves(w, S, n)
<1> DEFINE T == {i \in Nat : \E w : Leaves(w, S, i)}
<1>1. 0 \in T
  <2>1. Leaves([k \in 0..0 |-> <<>>], S, 0)
    BY DEF Leaves
  <2> QED  BY <2>1
<1>2. ASSUME NEW i \in Nat, i \in T PROVE i + 1 \in T
  <2>1. PICK w : Leaves(w, S, i)
    BY <1>2
  <2> DEFINE v == [k \in 0..i + 1 |-> IF k = i + 1 THEN Left(w[i], S, i + 1) ELSE w[k]]
  <2>2. w[0] = <<>> /\ \A k \in 1..i : w[k] = Left(w[k - 1], S, k)
    BY <2>1, LeavesUnfolds
  <2>3. ASSUME NEW k \in 0..i + 1
        PROVE  v[k] = IF k = 0 THEN <<>> ELSE Left(v[k - 1], S, k)
    <3>1. CASE k = i + 1
      BY <3>1
    <3>2. CASE k # i + 1
      <4>1. k \in 0..i /\ v[k] = w[k] /\ (k # 0 => v[k - 1] = w[k - 1])
        BY <3>2
      <4> HIDE DEF v
      <4>2. k = 0 \/ k \in 1..i
        BY <4>1
      <4> QED  BY <2>2, <4>1, <4>2
    <3> QED  BY <3>1, <3>2
  <2>4. v = [k \in 0..i + 1 |-> v[k]]
    OBVIOUS
  <2>5. Leaves(v, S, i + 1)
    <3> HIDE DEF v
    <3> QED  BY <2>3, <2>4 DEF Leaves
  <2> QED  BY <2>5
<1>3. Nat \subseteq T
  <2> HIDE DEF T
  <2> QED  BY <1>1, <1>2, CountUp
<1> QED  BY <1>3

\* Dropping keys leaves the other ones.
LEMMA WithoutIs ==
  ASSUME index \in Seq(Blob), NEW S
  PROVE  Without(S) \in Seq(Blob) /\ ToSet(Without(S)) = ToSet(index) \ S
<1> DEFINE n == Len(index)
           w == CHOOSE v : Leaves(v, S, n)
<1>1. n \in Nat /\ \A k \in 1..n : index[k] \in Blob
  OBVIOUS
<1>2. Leaves(w, S, n)
  <2>1. \E v : Leaves(v, S, n)
    BY <1>1, LeavesExists
  <2> QED  BY <2>1, Zenon
<1>3. Without(S) = w[n]
  BY DEF Without, Leaves, Left
<1> HIDE DEF w, n
<1>4. w[0] = <<>> /\ \A k \in 1..n : w[k] = Left(w[k - 1], S, k)
  BY <1>1, <1>2, LeavesUnfolds
<1> DEFINE Right(k) == w[k] \in Seq(Blob) /\ ToSet(w[k]) = {index[j] : j \in 1..k} \ S
           T == {k \in Nat : k <= n => Right(k)}
<1>5. Right(0)
  BY <1>4 DEF ToSet
<1>6. ASSUME NEW k \in Nat, k \in T PROVE k + 1 \in T
  <2> SUFFICES ASSUME k + 1 <= n PROVE Right(k + 1)
    OBVIOUS
  <2>1. Right(k) /\ k + 1 \in 1..n /\ index[k + 1] \in Blob
    BY <1>1, <1>6
  <2>2. w[k + 1] = IF index[k + 1] \in S THEN w[k] ELSE Append(w[k], index[k + 1])
    <3>1. k + 1 - 1 = k
      OBVIOUS
    <3> QED  BY <1>4, <2>1, <3>1 DEF Left
  <2>3. {index[j] : j \in 1..k + 1} = {index[j] : j \in 1..k} \cup {index[k + 1]}
    <3>1. 1..k + 1 = (1..k) \cup {k + 1}
      OBVIOUS
    <3> QED  BY <3>1
  <2>4. CASE index[k + 1] \in S
    BY <2>1, <2>2, <2>3, <2>4
  <2>5. CASE index[k + 1] \notin S
    <3>1. ToSet(Append(w[k], index[k + 1])) = ToSet(w[k]) \cup {index[k + 1]}
          /\ Append(w[k], index[k + 1]) \in Seq(Blob)
      BY <2>1, ToSetAppend
    <3> QED  BY <2>1, <2>2, <2>3, <2>5, <3>1
  <2> QED  BY <2>4, <2>5
<1>7. Right(n)
  <2> HIDE DEF Right
  <2>1. 0 \in T
    BY <1>5
  <2>2. Nat \subseteq T
    <3> HIDE DEF T
    <3> QED  BY <1>6, <2>1, CountUp
  <2> QED  BY <1>1, <2>2
<1>8. ToSet(index) = {index[j] : j \in 1..n}
  <2>1. DOMAIN index = 1..n
    BY DEF n
  <2> QED  BY <2>1 DEF ToSet
<1> QED  BY <1>3, <1>7, <1>8

Keys == ToSet(index)

WarmSets ==
    /\ index \in Seq(Blob) /\ old \in Nat
    /\ disk \in [Blob -> {"none", "part", "whole"}]
    /\ put \in [Put -> {"idle", "create", "write", "insert"}]
    /\ item \in [Put \cup Get -> Blob \cup {NoBlob}]
    /\ linked \subseteq Put
    /\ get \in [Get -> {"idle", "read"}]
    /\ \A p \in Put : put[p] # "idle" => item[p] \in Blob
    /\ \A g \in Get : get[g] = "read" => item[g] \in Blob

\* There is room, or one content that is larger than the cache.
Roomy == Taken <= MaxBytes \/ \E b \in Blob : Keys = {b} /\ Bytes[b] > MaxBytes

\* As long as no put is beside another, there is room for the one under way, unless its
\* content alone is larger than the cache: then there is nothing else.
RoomIsMade ==
    ~ crowded =>
        /\ \A p, q \in Put : put[p] # "idle" /\ put[q] # "idle" => p = q
        /\ Roomy
        /\ \A p \in Put : put[p] # "idle" =>
              \/ Taken + Bytes[item[p]] <= MaxBytes
              \/ Bytes[item[p]] > MaxBytes /\ Keys = {}

\* A file that is only begun has a put that will write it, or was cut short.
BegunIsWritten ==
    \A b \in Blob : disk[b] = "part" =>
        b \in spoiled \/ \E p \in linked : put[p] = "write" /\ item[p] = b

WarmInv == WarmSets /\ RoomIsMade /\ NoFileLeaks /\ BegunIsWritten /\ WarmGetIsWhole

LEMMA KeysAre ==
  ASSUME index \in Seq(Blob)
  PROVE  Keys \in SUBSET Blob /\ IsFiniteSet(Keys)
<1>1. Keys = {index[i] : i \in 1..Len(index)} /\ Len(index) \in Nat
  BY DEF Keys, ToSet
<1>2. Keys \in SUBSET Blob
  BY <1>1
<1>3. IsFiniteSet(Keys)
  <2> DEFINE f == [i \in 1..Len(index) |-> index[i]]
  <2>1. IsFiniteSet(1..Len(index))
    BY <1>1, FS_Interval
  <2>2. f \in Surjection(1..Len(index), Keys)
    BY <1>1 DEF Surjection
  <2> QED  BY <2>1, <2>2, FS_Surjection
<1> QED  BY <1>2, <1>3

\* Dropping keys frees what they took.
LEMMA DropIs ==
  ASSUME WarmSets, NEW S, Drop(S)
  PROVE  /\ index' \in Seq(Blob) /\ old' \in Nat /\ Keys' = Keys \ S
         /\ Taken' = Size(Keys \ S) /\ Taken' <= Taken /\ Taken \in Nat /\ Taken' \in Nat
<1>1. index' \in Seq(Blob) /\ Keys' = Keys \ S
  BY WithoutIs DEF Drop, WarmSets, Keys
<1>2. old' \in Nat
  <2>1. IsFiniteSet(1..old)
    BY FS_Interval DEF WarmSets
  <2>2. IsFiniteSet({i \in 1..old : index[i] \notin S})
    BY <2>1, FS_Subset
  <2> QED  BY <2>2, FS_CardinalityType DEF Drop
<1>3. Taken = Size(Keys) /\ Taken' = Size(Keys \ S)
  BY <1>1 DEF Taken, Keys
<1>4. /\ Size(Keys) \in Nat /\ Size(Keys \ S) \in Nat /\ Size(Keys \ S) <= Size(Keys)
  <2>1. Keys \in SUBSET Blob /\ IsFiniteSet(Keys) /\ Keys \ S \in SUBSET Keys
    BY KeysAre DEF WarmSets
  <2> QED  BY <2>1, Sizes
<1> QED  BY <1>1, <1>2, <1>3, <1>4

\* The oldest entries go until what is needed fits, or all are gone.
LEMMA EvictedIs ==
  ASSUME WarmSets, Roomy, NEW needed \in Nat \ {0}, ~ (Taken + needed <= MaxBytes)
  PROVE  \/ Keys \ Evicted(needed) = {}
         \/ Size(Keys \ Evicted(needed)) + needed <= MaxBytes /\ needed <= MaxBytes
<1> DEFINE length == Len(index)
           free   == IF Taken < MaxBytes THEN MaxBytes - Taken ELSE 0
           target == IF needed > free THEN needed - free ELSE 0
           Enough(n) == n = length \/ Size(Oldest(n)) >= target
           number == CHOOSE n \in 0..length :
                        Enough(n) /\ \A m \in 0..(n - 1) : Size(Oldest(m)) < target
           rest == Keys \ Oldest(number)
<1>1. Evicted(needed) = Oldest(number)
  BY DEF Evicted
<1>2. Keys \in SUBSET Blob /\ IsFiniteSet(Keys) /\ MaxBytes \in Nat /\ length \in Nat
  BY KeysAre, WarmCacheAssumption DEF WarmSets
<1>3. Keys = Oldest(length)
  BY <1>2 DEF Keys, ToSet, Oldest, WarmSets
<1>4. \A n \in 0..length : Oldest(n) \in SUBSET Keys
  BY <1>2, <1>3 DEF Oldest
<1>5. Taken = Size(Keys) /\ Taken \in Nat /\ Size({}) = 0
  BY <1>2, Sizes DEF Taken, Keys
<1>6. \A n \in 0..length : Size(Oldest(n)) \in Nat /\ Size(Oldest(n)) <= Taken
  BY <1>2, <1>4, <1>5, Sizes
<1>7. free \in Nat /\ target \in Nat
  BY <1>2, <1>5
<1> HIDE DEF length, free, target
<1>8. \E n \in 0..length : Enough(n) /\ \A m \in 0..(n - 1) : Size(Oldest(m)) < target
  <2> DEFINE T == {n \in 0..length : Enough(n)}
  <2>1. length \in T /\ T \in SUBSET Nat
    BY <1>2
  <2> HIDE DEF T
  <2>2. PICK n \in T : \A m \in T : n <= m
    BY <2>1, LeastOf
  <2>3. n \in 0..length /\ Enough(n)
    BY <2>2 DEF T
  <2>4. ASSUME NEW m \in 0..(n - 1) PROVE Size(Oldest(m)) < target
    <3>1. m \in 0..length /\ m < n /\ m \in Nat
      BY <1>2, <2>3
    <3>2. m \notin T
      BY <2>1, <2>2, <3>1
    <3>3. ~ (Size(Oldest(m)) >= target)
      BY <3>1, <3>2 DEF T
    <3> QED  BY <1>6, <1>7, <3>1, <3>3
  <2> QED  BY <2>3, <2>4
<1>9. number \in 0..length /\ Enough(number)
  <2> HIDE DEF Enough
  <2> QED  BY <1>8, Zenon
<1> DEFINE A == Oldest(number)
<1>10. A \in SUBSET Keys /\ Size(A) \in Nat /\ Size(A) <= Taken
  BY <1>4, <1>6, <1>9
<1>11. Taken = Size(A) + Size(rest) /\ Size(rest) \in Nat
  <2>1. Size(Keys) = Size(A) + Size(Keys \ A)
    BY <1>2, <1>10, SizeParts
  <2>2. Keys \ A \in SUBSET Keys
    OBVIOUS
  <2> QED  BY <1>2, <1>5, <2>1, <2>2, Sizes
<1>12. number = length => A = Keys
  BY <1>3
<1> HIDE DEF number
<1>13. CASE number = length
  BY <1>1, <1>12, <1>13
<1>14. CASE Size(A) >= target /\ Taken <= MaxBytes
  <2>1. Size(A) >= needed - (MaxBytes - Taken)
    BY <1>2, <1>5, <1>7, <1>14 DEF target, free
  <2> HIDE DEF A, rest
  <2>2. Size(rest) + needed <= MaxBytes /\ needed <= MaxBytes
    BY <1>2, <1>5, <1>10, <1>11, <1>14, <2>1
  <2> QED  BY <1>1, <2>2 DEF rest, A
<1>15. CASE Size(A) >= target /\ ~ (Taken <= MaxBytes)
  <2>1. PICK b \in Blob : Keys = {b}
    BY <1>15 DEF Roomy
  <2>2. target >= 1
    BY <1>2, <1>5, <1>15 DEF target, free
  <2>3. A # {}
    BY <1>5, <1>7, <1>15, <2>2
  <2>4. A = Keys
    BY <1>10, <2>1, <2>3
  <2> QED  BY <1>1, <2>4
<1> QED  BY <1>9, <1>13, <1>14, <1>15

\* Files that lose their names go with their entries, and a writer whose file stays has it.
LEMMA UnlinkIs ==
  ASSUME WarmInv, NEW S, Drop(S), Unlink(S)
  PROVE  /\ disk' \in [Blob -> {"none", "part", "whole"}] /\ linked' \subseteq Put
         /\ leaked \subseteq leaked'
         /\ \A b \in Blob : disk'[b] # "none" =>
               disk'[b] = disk[b] /\ (b \in Keys \ leaked' => b \in Keys')
         /\ \A p \in linked : item[p] \in Blob /\ disk'[item[p]] # "none" => p \in linked'
<1>1. WarmSets
  BY DEF WarmInv
<1>2. Keys' = Keys \ S
  BY <1>1, DropIs
<1>3. PICK kept \in SUBSET {b \in S : disk[b] # "none"} :
        /\ leaked' = leaked \cup kept
        /\ disk' = [b \in Blob |-> IF b \in S \ kept THEN "none" ELSE disk[b]]
        /\ linked' = linked \ UNION {Busy(b) : b \in S \ kept}
  BY DEF Unlink
<1>4. \A b : \A p \in Busy(b) : item[p] = b
  BY DEF Busy
<1>5. ASSUME NEW p \in linked, item[p] \in Blob, disk'[item[p]] # "none" PROVE p \in linked'
  <2>1. item[p] \notin S \ kept
    BY <1>3, <1>5
  <2> QED  BY <1>3, <1>4, <2>1
<1>6. ASSUME NEW b \in Blob, disk'[b] # "none"
      PROVE  disk'[b] = disk[b] /\ (b \in Keys \ leaked' => b \in Keys')
  BY <1>2, <1>3, <1>6
<1>7. disk' \in [Blob -> {"none", "part", "whole"}] /\ linked' \subseteq Put
  BY <1>1, <1>3 DEF WarmSets
<1> QED  BY <1>3, <1>5, <1>6, <1>7

\* No entries in an empty index.
LEMMA EmptyKeys == ToSet(<<>>) = {}
BY DEF ToSet

LEMMA WarmStart == ASSUME WarmInit PROVE WarmInv
<1>1. WarmSets
  BY DEF WarmInit, WarmSets
<1>2. Taken = 0 /\ MaxBytes \in Nat
  <2>1. Taken = Size({})
    BY EmptyKeys DEF WarmInit, Taken
  <2>2. IsFiniteSet({})
    BY FS_EmptySet
  <2>3. Size({}) = 0
    BY <2>2, Sizes
  <2> QED  BY <2>1, <2>3, WarmCacheAssumption
<1>3. RoomIsMade
  BY <1>2 DEF WarmInit, RoomIsMade, Roomy
<1>4. NoFileLeaks /\ BegunIsWritten /\ WarmGetIsWhole
  BY DEF WarmInit, NoFileLeaks, BegunIsWritten, WarmGetIsWhole
<1> QED
  BY <1>1, <1>3, <1>4 DEF WarmInv

\* Entries and files that go, with the puts as they are.
LEMMA GoneKeeps ==
  ASSUME WarmInv, NEW S, Drop(S), Unlink(S),
         UNCHANGED <<put, item, get, crowded, spoiled, torn>>
  PROVE  WarmInv'
<1>1. WarmSets
  BY DEF WarmInv
<1>2. /\ index' \in Seq(Blob) /\ old' \in Nat /\ Keys' = Keys \ S
      /\ Taken' = Size(Keys \ S) /\ Taken' <= Taken /\ Taken \in Nat /\ Taken' \in Nat
  BY <1>1, DropIs
<1>3. /\ disk' \in [Blob -> {"none", "part", "whole"}] /\ linked' \subseteq Put
      /\ leaked \subseteq leaked'
      /\ \A b \in Blob : disk'[b] # "none" =>
            disk'[b] = disk[b] /\ (b \in Keys \ leaked' => b \in Keys')
      /\ \A p \in linked : item[p] \in Blob /\ disk'[item[p]] # "none" => p \in linked'
  BY UnlinkIs
<1>4. WarmSets'
  BY <1>1, <1>2, <1>3 DEF WarmSets
<1>5. RoomIsMade'
  <2> SUFFICES ASSUME ~ crowded
      PROVE  /\ \A p, q \in Put : put[p] # "idle" /\ put[q] # "idle" => p = q
             /\ Taken' <= MaxBytes \/ \E b \in Blob : Keys' = {b} /\ Bytes[b] > MaxBytes
             /\ \A p \in Put : put[p] # "idle" =>
                   \/ Taken' + Bytes[item[p]] <= MaxBytes
                   \/ Bytes[item[p]] > MaxBytes /\ Keys' = {}
    BY DEF RoomIsMade, Roomy
  <2>1. RoomIsMade
    BY DEF WarmInv
  <2>2. \A p, q \in Put : put[p] # "idle" /\ put[q] # "idle" => p = q
    BY <2>1 DEF RoomIsMade, Roomy
  <2>3. Taken' <= MaxBytes \/ \E b \in Blob : Keys' = {b} /\ Bytes[b] > MaxBytes
    <3>1. CASE Taken <= MaxBytes
      BY <1>2, <3>1, WarmCacheAssumption
    <3>2. CASE \E b \in Blob : Keys = {b} /\ Bytes[b] > MaxBytes
      <4>1. PICK b \in Blob : Keys = {b} /\ Bytes[b] > MaxBytes
        BY <3>2
      <4>2. CASE Keys' = Keys
        BY <4>1, <4>2
      <4>3. CASE Keys' # Keys
        <5>1. Keys \ S = {}
          BY <1>2, <4>1, <4>3
        <5>2. Taken' = Size({})
          BY <1>2, <5>1
        <5>3. Size({}) = 0
          BY FS_EmptySet, Sizes
        <5> QED  BY <5>2, <5>3, WarmCacheAssumption
      <4> QED  BY <4>2, <4>3
    <3> QED  BY <2>1, <3>1, <3>2 DEF RoomIsMade, Roomy
  <2>4. ASSUME NEW p \in Put, put[p] # "idle"
        PROVE  \/ Taken' + Bytes[item[p]] <= MaxBytes
               \/ Bytes[item[p]] > MaxBytes /\ Keys' = {}
    <3>1. Bytes[item[p]] \in Nat /\ MaxBytes \in Nat
      BY <1>1, <2>4, WarmCacheAssumption DEF WarmSets
    <3>2. \/ Taken + Bytes[item[p]] <= MaxBytes
          \/ Bytes[item[p]] > MaxBytes /\ Keys = {}
      BY <2>1, <2>4 DEF RoomIsMade, Roomy
    <3> QED  BY <1>2, <3>1, <3>2
  <2> QED  BY <2>2, <2>3, <2>4
<1>6. NoFileLeaks'
  <2>1. \A b : Busy(b)' = Busy(b)
    BY DEF Busy
  <2> QED  BY <1>3, <2>1 DEF WarmInv, NoFileLeaks, Keys
<1>7. BegunIsWritten'
  <2> SUFFICES ASSUME NEW b \in Blob, disk'[b] = "part", b \notin spoiled
               PROVE  \E p \in linked' : put[p] = "write" /\ item[p] = b
    BY DEF BegunIsWritten
  <2>1. disk[b] = "part" /\ disk'[b] # "none"
    BY <1>3
  <2>2. PICK p \in linked : put[p] = "write" /\ item[p] = b
    BY <2>1 DEF WarmInv, BegunIsWritten
  <2> QED  BY <1>3, <2>1, <2>2
<1>8. WarmGetIsWhole'
  BY DEF WarmInv, WarmGetIsWhole
<1> QED
  BY <1>4, <1>5, <1>6, <1>7, <1>8 DEF WarmInv

\* A put begins: with room as it is, or with room it makes.
LEMMA BeginKeeps ==
  ASSUME WarmInv, NEW p \in Put, NEW b \in Blob, put_begin(p, b)
  PROVE  WarmInv'
<1>1. WarmSets /\ RoomIsMade
  BY DEF WarmInv
<1>2. /\ put[p] = "idle" /\ put' = [put EXCEPT ![p] = "create"]
      /\ item' = [item EXCEPT ![p] = b]
      /\ crowded' = (crowded \/ \E q \in Put : put[q] # "idle")
      /\ UNCHANGED <<get, spoiled, torn>>
  BY DEF put_begin
<1>3. /\ p \notin Get
      /\ \A q \in Put : put'[q] = IF q = p THEN "create" ELSE put[q]
      /\ \A q \in Put : item'[q] = IF q = p THEN b ELSE item[q]
      /\ \A g \in Get : item'[g] = item[g]
  BY <1>1, <1>2, WarmCacheAssumption DEF WarmSets
<1>4. /\ Taken \in Nat /\ Bytes[b] \in Nat \ {0} /\ MaxBytes \in Nat /\ Size({}) = 0
      /\ Taken = Size(Keys)
  BY <1>1, KeysAre, Sizes, FS_EmptySet, WarmCacheAssumption DEF WarmSets, Taken, Keys
<1> DEFINE S == Evicted(Bytes[b])
           Room == Taken + Bytes[b] <= MaxBytes
<1>5. /\ index' \in Seq(Blob) /\ old' \in Nat
      /\ disk' \in [Blob -> {"none", "part", "whole"}] /\ linked' \subseteq Put
      /\ leaked \subseteq leaked'
      /\ \A c \in Blob : disk'[c] # "none" =>
            disk'[c] = disk[c] /\ (c \in Keys \ leaked' => c \in Keys')
      /\ \A q \in linked : item[q] \in Blob /\ disk'[item[q]] # "none" => q \in linked'
  <2>1. CASE Room
    BY <1>1, <2>1 DEF put_begin, ensure_capacity, WarmSets, Keys
  <2>2. CASE ~ Room
    <3>1. Drop(S) /\ Unlink(S)
      BY <2>2 DEF put_begin, ensure_capacity
    <3> HIDE DEF S
    <3>2. index' \in Seq(Blob) /\ old' \in Nat
      BY <1>1, <3>1, DropIs
    <3> QED  BY <3>1, <3>2, UnlinkIs
  <2> QED  BY <2>1, <2>2
<1>6. WarmSets'
  BY <1>1, <1>2, <1>3, <1>5 DEF WarmSets
<1>7. RoomIsMade'
  <2> SUFFICES ASSUME ~ crowded'
      PROVE  /\ \A q, r \in Put : put'[q] # "idle" /\ put'[r] # "idle" => q = r
             /\ Taken' <= MaxBytes \/ \E c \in Blob : Keys' = {c} /\ Bytes[c] > MaxBytes
             /\ \A q \in Put : put'[q] # "idle" =>
                   \/ Taken' + Bytes[item'[q]] <= MaxBytes
                   \/ Bytes[item'[q]] > MaxBytes /\ Keys' = {}
    BY DEF RoomIsMade, Roomy
  <2>1. ~ crowded /\ \A q \in Put : put[q] = "idle"
    BY <1>2
  <2>2. \A q \in Put : put'[q] # "idle" => q = p /\ item'[q] = b
    BY <1>3, <2>1
  <2>3. Roomy
    BY <1>1, <2>1 DEF RoomIsMade, Roomy
  <2>4. CASE Room
    <3>1. Taken' = Taken /\ Keys' = Keys
      BY <2>4 DEF put_begin, ensure_capacity, Taken, Keys
    <3>2. Taken' <= MaxBytes /\ Taken' + Bytes[b] <= MaxBytes
      BY <1>4, <2>4, <3>1
    <3> QED  BY <2>2, <3>2
  <2>5. CASE ~ Room
    <3>1. Drop(S)
      BY <2>5 DEF put_begin, ensure_capacity
    <3>2. \/ Keys \ S = {}
          \/ Size(Keys \ S) + Bytes[b] <= MaxBytes /\ Bytes[b] <= MaxBytes
      BY <1>1, <1>4, <2>3, <2>5, EvictedIs
    <3> HIDE DEF S
    <3>3. Keys' = Keys \ S /\ Taken' = Size(Keys \ S) /\ Taken' \in Nat
      BY <1>1, <3>1, DropIs
    <3>4. CASE Keys \ S = {}
      <4>1. Keys' = {} /\ Taken' = 0
        BY <1>4, <3>3, <3>4
      <4>2. Taken' + Bytes[b] <= MaxBytes \/ Bytes[b] > MaxBytes
        BY <1>4, <4>1
      <4>3. Taken' <= MaxBytes
        BY <1>4, <4>1
      <4> QED  BY <2>2, <4>1, <4>2, <4>3
    <3>5. CASE Size(Keys \ S) + Bytes[b] <= MaxBytes
      <4>1. Taken' + Bytes[b] <= MaxBytes /\ Taken' <= MaxBytes
        BY <1>4, <3>3, <3>5
      <4> QED  BY <2>2, <4>1
    <3> QED  BY <3>2, <3>4, <3>5
  <2> QED  BY <2>4, <2>5
<1>8. NoFileLeaks'
  <2>1. \A c : Busy(c) \subseteq Busy(c)'
    BY <1>2, <1>3 DEF Busy
  <2>2. \A c \in Blob : disk[c] # "none" /\ Busy(c) = {} /\ c \notin spoiled \cup leaked => c \in Keys
    BY DEF WarmInv, NoFileLeaks, Keys
  <2>3. \A c \in Blob : disk'[c] # "none" /\ Busy(c)' = {} /\ c \notin spoiled' \cup leaked' => c \in Keys'
    BY <1>2, <1>5, <2>1, <2>2
  <2> QED  BY <2>3 DEF NoFileLeaks, Keys
<1>9. BegunIsWritten'
  <2> SUFFICES ASSUME NEW c \in Blob, disk'[c] = "part", c \notin spoiled
               PROVE  \E q \in linked' : put'[q] = "write" /\ item'[q] = c
    BY <1>2 DEF BegunIsWritten
  <2>1. PICK q \in linked : put[q] = "write" /\ item[q] = c
    BY <1>5 DEF WarmInv, BegunIsWritten
  <2>2. q \in linked' /\ q \in Put /\ q # p
    BY <1>1, <1>2, <1>5, <2>1 DEF WarmSets
  <2> QED  BY <1>3, <2>1, <2>2
<1>10. WarmGetIsWhole'
  BY <1>2 DEF WarmInv, WarmGetIsWhole
<1> QED
  BY <1>6, <1>7, <1>8, <1>9, <1>10 DEF WarmInv

\* Every step keeps the cache in order.
LEMMA WarmStep == ASSUME WarmInv, [WarmNext]_warmVars PROVE WarmInv'
<1>1. WarmSets /\ RoomIsMade /\ NoFileLeaks /\ BegunIsWritten /\ WarmGetIsWhole
  BY DEF WarmInv
<1>2. ASSUME UNCHANGED index PROVE Keys' = Keys /\ Taken' = Taken
  BY <1>2 DEF Keys, Taken
<1>3. ASSUME UNCHANGED <<put, item>>, NEW b PROVE Busy(b)' = Busy(b)
  BY <1>3 DEF Busy
<1>4. ASSUME UNCHANGED <<index, put, item, crowded>> PROVE RoomIsMade'
  <2>1. Keys' = Keys /\ Taken' = Taken
    BY <1>2, <1>4
  <2> QED  BY <1>1, <1>4, <2>1 DEF RoomIsMade, Roomy
<1>5. ASSUME NEW p \in Put, NEW b \in Blob, put_begin(p, b) PROVE WarmInv'
  BY <1>5, BeginKeeps
<1>6. ASSUME NEW p \in Put, put_create(p) PROVE WarmInv'
  <2>1. /\ put[p] = "create" /\ item[p] \in Blob
        /\ disk' = [disk EXCEPT ![item[p]] = "part"] /\ linked' = linked \cup {p}
        /\ put' = [put EXCEPT ![p] = "write"]
        /\ UNCHANGED <<index, old, item, get, troubles, crowded, spoiled, leaked, torn>>
    BY <1>1, <1>6 DEF put_create, WarmSets, warmHistory
  <2>2. /\ \A b \in Blob : disk'[b] = IF b = item[p] THEN "part" ELSE disk[b]
        /\ \A q \in Put : put'[q] = IF q = p THEN "write" ELSE put[q]
    BY <1>1, <2>1 DEF WarmSets
  <2>3. WarmSets'
    BY <1>1, <2>1, <2>2 DEF WarmSets
  <2>4. RoomIsMade'
    <3>1. Keys' = Keys /\ Taken' = Taken
      BY <1>2, <2>1
    <3>2. \A q \in Put : put'[q] # "idle" <=> put[q] # "idle"
      BY <2>1, <2>2
    <3> QED  BY <1>1, <2>1, <3>1, <3>2 DEF RoomIsMade, Roomy
  <2>5. NoFileLeaks'
    <3>1. \A b \in Blob : Busy(b)' = Busy(b)
      BY <2>1, <2>2 DEF Busy
    <3>2. p \in Busy(item[p])
      BY <2>1 DEF Busy
    <3> QED  BY <1>1, <2>1, <2>2, <3>1, <3>2 DEF NoFileLeaks
  <2>6. BegunIsWritten'
    <3> SUFFICES ASSUME NEW b \in Blob, disk'[b] = "part", b \notin spoiled
                 PROVE  \E q \in linked' : put'[q] = "write" /\ item'[q] = b
      BY <2>1 DEF BegunIsWritten
    <3>1. CASE b = item[p]
      BY <2>1, <2>2, <3>1
    <3>2. CASE b # item[p]
      <4>1. PICK q \in linked : put[q] = "write" /\ item[q] = b
        BY <1>1, <2>2, <3>2 DEF BegunIsWritten
      <4> QED  BY <1>1, <2>1, <2>2, <4>1 DEF WarmSets
    <3> QED  BY <3>1, <3>2
  <2> QED
    BY <1>1, <2>1, <2>3, <2>4, <2>5, <2>6 DEF WarmInv, WarmGetIsWhole
<1>7. ASSUME NEW p \in Put, put_write(p) PROVE WarmInv'
  <2>1. /\ put[p] = "write" /\ item[p] \in Blob
        /\ disk' = IF p \in linked THEN [disk EXCEPT ![item[p]] = "whole"] ELSE disk
        /\ put' = [put EXCEPT ![p] = "insert"]
        /\ UNCHANGED <<index, old, item, linked, get, troubles, crowded, spoiled, leaked, torn>>
    BY <1>1, <1>7 DEF put_write, WarmSets, warmHistory
  <2>2. /\ \A b \in Blob : disk'[b] = IF p \in linked /\ b = item[p] THEN "whole" ELSE disk[b]
        /\ \A q \in Put : put'[q] = IF q = p THEN "insert" ELSE put[q]
    BY <1>1, <2>1 DEF WarmSets
  <2>3. WarmSets'
    BY <1>1, <2>1, <2>2 DEF WarmSets
  <2>4. RoomIsMade'
    <3>1. Keys' = Keys /\ Taken' = Taken
      BY <1>2, <2>1
    <3>2. \A q \in Put : put'[q] # "idle" <=> put[q] # "idle"
      BY <2>1, <2>2
    <3> QED  BY <1>1, <2>1, <3>1, <3>2 DEF RoomIsMade, Roomy
  <2>5. NoFileLeaks'
    <3>1. \A b \in Blob : Busy(b)' = Busy(b)
      BY <2>1, <2>2 DEF Busy
    <3>2. p \in Busy(item[p])
      BY <2>1 DEF Busy
    <3> QED  BY <1>1, <2>1, <2>2, <3>1, <3>2 DEF NoFileLeaks
  <2>6. BegunIsWritten'
    <3> SUFFICES ASSUME NEW b \in Blob, disk'[b] = "part", b \notin spoiled
                 PROVE  \E q \in linked : put'[q] = "write" /\ item[q] = b
      BY <2>1 DEF BegunIsWritten
    <3>1. disk[b] = "part" /\ (p \in linked => b # item[p])
      BY <2>2
    <3>2. PICK q \in linked : put[q] = "write" /\ item[q] = b
      BY <1>1, <3>1 DEF BegunIsWritten
    <3> QED  BY <1>1, <2>2, <3>1, <3>2 DEF WarmSets
  <2> QED
    BY <1>1, <2>1, <2>3, <2>4, <2>5, <2>6 DEF WarmInv, WarmGetIsWhole
<1>8. ASSUME NEW p \in Put, put_insert(p) PROVE WarmInv'
  <2>1. /\ put[p] = "insert" /\ item[p] \in Blob
        /\ index' = Append(Without({item[p]}), item[p])
        /\ old' = Cardinality({i \in 1..old : index[i] # item[p]})
        /\ put' = [put EXCEPT ![p] = "idle"] /\ item' = [item EXCEPT ![p] = NoBlob]
        /\ linked' = linked \ {p}
        /\ UNCHANGED <<disk, get, troubles, crowded, spoiled, leaked, torn>>
    BY <1>1, <1>8 DEF put_insert, WarmSets, warmHistory
  <2>2. /\ p \notin Get
        /\ \A q \in Put : put'[q] = IF q = p THEN "idle" ELSE put[q]
        /\ \A q \in Put : item'[q] = IF q = p THEN NoBlob ELSE item[q]
        /\ \A g \in Get : item'[g] = item[g]
    BY <1>1, <2>1, WarmCacheAssumption DEF WarmSets
  <2>3. index' \in Seq(Blob) /\ Keys' = Keys \cup {item[p]}
    <3>1. Without({item[p]}) \in Seq(Blob) /\ ToSet(Without({item[p]})) = Keys \ {item[p]}
      BY <1>1, WithoutIs DEF WarmSets, Keys
    <3> DEFINE rest == Without({item[p]})
    <3>2. index' = Append(rest, item[p]) /\ rest \in Seq(Blob) /\ ToSet(rest) = Keys \ {item[p]}
      BY <2>1, <3>1
    <3> HIDE DEF rest
    <3>3. /\ ToSet(Append(rest, item[p])) = ToSet(rest) \cup {item[p]}
          /\ Append(rest, item[p]) \in Seq(Blob)
      BY <2>1, <3>2, ToSetAppend
    <3>4. Keys' = ToSet(index')
      BY DEF Keys
    <3> QED  BY <2>1, <3>2, <3>3, <3>4
  <2>4. old' \in Nat
    <3>1. IsFiniteSet(1..old)
      BY <1>1, FS_Interval DEF WarmSets
    <3>2. IsFiniteSet({i \in 1..old : index[i] # item[p]})
      BY <3>1, FS_Subset
    <3> QED  BY <2>1, <3>2, FS_CardinalityType
  <2>5. WarmSets'
    BY <1>1, <2>1, <2>2, <2>3, <2>4 DEF WarmSets
  <2>6. RoomIsMade'
    <3> SUFFICES ASSUME ~ crowded
        PROVE  /\ \A q, r \in Put : put'[q] # "idle" /\ put'[r] # "idle" => q = r
               /\ Taken' <= MaxBytes \/ \E b \in Blob : Keys' = {b} /\ Bytes[b] > MaxBytes
               /\ \A q \in Put : put'[q] # "idle" =>
                     \/ Taken' + Bytes[item'[q]] <= MaxBytes
                     \/ Bytes[item'[q]] > MaxBytes /\ Keys' = {}
      BY <2>1 DEF RoomIsMade, Roomy
    <3>1. \A q \in Put : put'[q] = "idle"
      BY <1>1, <2>1, <2>2 DEF RoomIsMade, Roomy
    <3>2. CASE Bytes[item[p]] > MaxBytes /\ Keys = {}
      BY <2>1, <2>3, <3>1, <3>2
    <3>3. CASE Taken + Bytes[item[p]] <= MaxBytes
      <4>1. Keys' \in SUBSET Blob /\ IsFiniteSet(Keys') /\ item[p] \in Keys'
            /\ Keys \in SUBSET Blob /\ IsFiniteSet(Keys)
        <5>1. Keys \in SUBSET Blob /\ IsFiniteSet(Keys)
          BY <1>1, KeysAre DEF WarmSets
        <5>2. IsFiniteSet(Keys \cup {item[p]})
          BY <5>1, FS_AddElement
        <5> QED  BY <2>1, <2>3, <5>1, <5>2
      <4>2. Size(Keys') = Bytes[item[p]] + Size(Keys' \ {item[p]})
        BY <4>1, Sizes
      <4>3. Keys' \ {item[p]} \in SUBSET Keys
        BY <2>3
      <4>4. Size(Keys' \ {item[p]}) \in Nat /\ Size(Keys' \ {item[p]}) <= Size(Keys)
            /\ Size(Keys) \in Nat
        BY <4>1, <4>3, Sizes
      <4>5. Taken' = Size(Keys') /\ Taken = Size(Keys)
        BY DEF Taken, Keys
      <4>6. Bytes[item[p]] \in Nat /\ MaxBytes \in Nat
        BY <2>1, WarmCacheAssumption
      <4>7. Taken' <= MaxBytes
        BY <3>3, <4>2, <4>4, <4>5, <4>6
      <4> QED  BY <3>1, <4>7
    <3> QED  BY <1>1, <2>1, <3>2, <3>3 DEF RoomIsMade, Roomy
  <2>7. NoFileLeaks'
    <3>1. ASSUME NEW b \in Blob, b # item[p] PROVE Busy(b)' = Busy(b)
      <4>1. \A q \in Put : put'[q] # "idle" /\ item'[q] = b <=> put[q] # "idle" /\ item[q] = b
        BY <2>2, <3>1
      <4> QED  BY <4>1 DEF Busy
    <3>2. \A b \in Blob : disk'[b] # "none" /\ Busy(b)' = {} /\ b \notin spoiled' \cup leaked' => b \in Keys'
      BY <1>1, <2>1, <2>3, <3>1 DEF NoFileLeaks, Keys
    <3> QED  BY <3>2 DEF NoFileLeaks, Keys
  <2>8. BegunIsWritten'
    <3> SUFFICES ASSUME NEW b \in Blob, disk[b] = "part", b \notin spoiled
                 PROVE  \E q \in linked' : put'[q] = "write" /\ item'[q] = b
      BY <2>1 DEF BegunIsWritten
    <3>1. PICK q \in linked : put[q] = "write" /\ item[q] = b
      BY <1>1 DEF BegunIsWritten
    <3>2. q \in Put /\ q # p
      BY <1>1, <2>1, <3>1 DEF WarmSets
    <3> QED  BY <2>1, <2>2, <3>1, <3>2
  <2> QED
    BY <1>1, <2>1, <2>5, <2>6, <2>7, <2>8 DEF WarmInv, WarmGetIsWhole
<1>9. ASSUME NEW p \in Put, put_fails(p) PROVE WarmInv'
  <2>1. /\ put[p] # "idle" /\ item[p] \in Blob /\ spoiled' = spoiled \cup {item[p]}
        /\ put' = [put EXCEPT ![p] = "idle"] /\ item' = [item EXCEPT ![p] = NoBlob]
        /\ linked' = linked \ {p}
        /\ UNCHANGED <<index, old, disk, get, crowded, leaked, torn>>
    BY <1>1, <1>9 DEF put_fails, WarmSets
  <2>2. /\ p \notin Get
        /\ \A q \in Put : put'[q] = IF q = p THEN "idle" ELSE put[q]
        /\ \A q \in Put : item'[q] = IF q = p THEN NoBlob ELSE item[q]
        /\ \A g \in Get : item'[g] = item[g]
    BY <1>1, <2>1, WarmCacheAssumption DEF WarmSets
  <2>3. WarmSets'
    BY <1>1, <2>1, <2>2 DEF WarmSets
  <2>4. RoomIsMade'
    <3>1. Keys' = Keys /\ Taken' = Taken
      BY <1>2, <2>1
    <3>2. \A q \in Put : put'[q] # "idle" => put[q] # "idle" /\ item'[q] = item[q]
      BY <2>2
    <3> QED  BY <1>1, <2>1, <3>1, <3>2 DEF RoomIsMade, Roomy
  <2>5. NoFileLeaks'
    <3>1. ASSUME NEW b \in Blob, b # item[p] PROVE Busy(b)' = Busy(b)
      <4>1. \A q \in Put : put'[q] # "idle" /\ item'[q] = b <=> put[q] # "idle" /\ item[q] = b
        BY <2>2, <3>1
      <4> QED  BY <4>1 DEF Busy
    <3> QED  BY <1>1, <2>1, <3>1 DEF NoFileLeaks
  <2>6. BegunIsWritten'
    <3> SUFFICES ASSUME NEW b \in Blob, disk[b] = "part", b \notin spoiled, b # item[p]
                 PROVE  \E q \in linked' : put'[q] = "write" /\ item'[q] = b
      BY <2>1 DEF BegunIsWritten
    <3>1. PICK q \in linked : put[q] = "write" /\ item[q] = b
      BY <1>1 DEF BegunIsWritten
    <3>2. q \in Put /\ q # p
      BY <1>1, <3>1 DEF WarmSets
    <3> QED  BY <2>1, <2>2, <3>1, <3>2
  <2> QED
    BY <1>1, <2>1, <2>3, <2>4, <2>5, <2>6 DEF WarmInv, WarmGetIsWhole
<1>10. ASSUME NEW g \in Get, NEW b \in Blob, get_begin(g, b) PROVE WarmInv'
  <2>1. /\ get' = [get EXCEPT ![g] = "read"] /\ item' = [item EXCEPT ![g] = b]
        /\ UNCHANGED <<index, old, disk, put, linked, crowded, spoiled, leaked, torn>>
    BY <1>10 DEF get_begin, warmHistory
  <2>2. /\ g \notin Put /\ \A q \in Put : item'[q] = item[q]
        /\ \A h \in Get : item'[h] = IF h = g THEN b ELSE item[h]
        /\ \A h \in Get : get'[h] = IF h = g THEN "read" ELSE get[h]
    BY <1>1, <2>1, WarmCacheAssumption DEF WarmSets
  <2>3. WarmSets'
    BY <1>1, <2>1, <2>2 DEF WarmSets
  <2>4. RoomIsMade'
    <3>1. Keys' = Keys /\ Taken' = Taken
      BY <1>2, <2>1
    <3> QED  BY <1>1, <2>1, <2>2, <3>1 DEF RoomIsMade, Roomy
  <2>5. NoFileLeaks'
    <3>1. \A c : Busy(c)' = Busy(c)
      BY <2>1, <2>2 DEF Busy
    <3> QED  BY <1>1, <2>1, <3>1 DEF NoFileLeaks
  <2>6. BegunIsWritten'
    BY <1>1, <2>1, <2>2 DEF BegunIsWritten, WarmSets
  <2> QED
    BY <1>1, <2>1, <2>3, <2>4, <2>5, <2>6 DEF WarmInv, WarmGetIsWhole
<1>11. ASSUME NEW g \in Get, get_read(g) PROVE WarmInv'
  <2>1. /\ get[g] = "read" /\ item[g] \in Blob
        /\ torn' = IF disk[item[g]] = "part" /\ Busy(item[g]) = {} THEN torn \cup {item[g]} ELSE torn
        /\ get' = [get EXCEPT ![g] = "idle"] /\ item' = [item EXCEPT ![g] = NoBlob]
        /\ UNCHANGED <<index, old, disk, put, linked, crowded, spoiled, leaked>>
    BY <1>1, <1>11 DEF get_read, WarmSets
  <2>2. /\ g \notin Put /\ \A q \in Put : item'[q] = item[q]
        /\ \A h \in Get : item'[h] = IF h = g THEN NoBlob ELSE item[h]
        /\ \A h \in Get : get'[h] = IF h = g THEN "idle" ELSE get[h]
    BY <1>1, <2>1, WarmCacheAssumption DEF WarmSets
  <2>3. WarmSets'
    BY <1>1, <2>1, <2>2 DEF WarmSets
  <2>4. RoomIsMade'
    <3>1. Keys' = Keys /\ Taken' = Taken
      BY <1>2, <2>1
    <3> QED  BY <1>1, <2>1, <2>2, <3>1 DEF RoomIsMade, Roomy
  <2>5. NoFileLeaks'
    <3>1. \A c : Busy(c)' = Busy(c)
      BY <2>1, <2>2 DEF Busy
    <3> QED  BY <1>1, <2>1, <3>1 DEF NoFileLeaks
  <2>6. BegunIsWritten'
    BY <1>1, <2>1, <2>2 DEF BegunIsWritten, WarmSets
  <2>7. WarmGetIsWhole'
    <3>1. ASSUME disk[item[g]] = "part", item[g] \notin spoiled PROVE Busy(item[g]) # {}
      <4>1. PICK p \in linked : put[p] = "write" /\ item[p] = item[g]
        BY <1>1, <2>1, <3>1 DEF BegunIsWritten
      <4> QED  BY <1>1, <4>1 DEF WarmSets, Busy
    <3> QED  BY <1>1, <2>1, <3>1 DEF WarmGetIsWhole
  <2> QED
    BY <2>3, <2>4, <2>5, <2>6, <2>7 DEF WarmInv
<1>12. ASSUME NEW b \in Blob, remove(b) PROVE WarmInv'
  BY <1>12, GoneKeeps DEF remove, warmHistory
<1>13. ASSUME evict_expired PROVE WarmInv'
  BY <1>13, GoneKeeps DEF evict_expired, warmHistory
<1>14. ASSUME expire PROVE WarmInv'
  <2>1. old' = old + 1 /\ UNCHANGED <<index, disk, put, item, linked, get, crowded, spoiled, leaked, torn>>
    BY <1>14 DEF expire, warmTasks, warmHistory
  <2>2. WarmSets'
    BY <1>1, <2>1 DEF WarmSets
  <2>3. RoomIsMade'
    BY <1>4, <2>1
  <2>4. NoFileLeaks'
    BY <1>1, <1>3, <2>1 DEF NoFileLeaks
  <2> QED
    BY <1>1, <2>1, <2>2, <2>3, <2>4 DEF WarmInv, BegunIsWritten, WarmGetIsWhole
<1>15. ASSUME warm_restart PROVE WarmInv'
  <2>1. /\ index' = <<>> /\ old' = 0
        /\ spoiled' = spoiled \cup Keys \cup {item[p] : p \in {q \in Put : put[q] # "idle"}}
        /\ put' = [p \in Put |-> "idle"] /\ get' = [g \in Get |-> "idle"]
        /\ item' = [t \in Put \cup Get |-> NoBlob] /\ linked' = {}
        /\ UNCHANGED <<disk, crowded, leaked, torn>>
    BY <1>15 DEF warm_restart, Keys
  <2>2. WarmSets'
    BY <1>1, <2>1 DEF WarmSets
  <2>3. RoomIsMade'
    <3>1. Taken' = Size({})
      BY <2>1, EmptyKeys DEF Taken
    <3>2. Size({}) = 0 /\ MaxBytes \in Nat
      BY FS_EmptySet, Sizes, WarmCacheAssumption
    <3> QED  BY <2>1, <3>1, <3>2 DEF RoomIsMade, Roomy
  <2>4. \A b \in Blob : Busy(b) # {} => b \in spoiled'
    BY <2>1 DEF Busy
  <2>5. NoFileLeaks'
    BY <1>1, <2>1, <2>4 DEF NoFileLeaks, Keys
  <2>6. BegunIsWritten'
    <3> SUFFICES ASSUME NEW b \in Blob, disk[b] = "part" PROVE b \in spoiled'
      BY <2>1 DEF BegunIsWritten
    <3>1. ASSUME b \notin spoiled PROVE Busy(b) # {}
      <4>1. PICK p \in linked : put[p] = "write" /\ item[p] = b
        BY <1>1, <3>1 DEF BegunIsWritten
      <4> QED  BY <1>1, <4>1 DEF WarmSets, Busy
    <3> QED  BY <2>1, <2>4, <3>1
  <2> QED
    BY <1>1, <2>1, <2>2, <2>3, <2>5, <2>6 DEF WarmInv, WarmGetIsWhole
<1>16. ASSUME UNCHANGED warmVars PROVE WarmInv'
  <2>1. UNCHANGED <<index, old, disk, put, item, linked, get, crowded, spoiled, leaked, torn>>
    BY <1>16 DEF warmVars, warmTasks, warmHistory
  <2>2. WarmSets' /\ RoomIsMade'
    BY <1>1, <1>4, <2>1 DEF WarmSets
  <2>3. NoFileLeaks'
    BY <1>1, <1>3, <2>1 DEF NoFileLeaks
  <2> QED
    BY <1>1, <2>1, <2>2, <2>3 DEF WarmInv, BegunIsWritten, WarmGetIsWhole
<1> QED
  BY <1>5, <1>6, <1>7, <1>8, <1>9, <1>10, <1>11, <1>12, <1>13, <1>14, <1>15, <1>16
     DEF WarmNext

\* The cache stays within its limit while one put at a time makes room and no content is
\* larger than the limit; every file has its entry; and a get is not given a part of one
\* (put, get, ensure_capacity, remove, evict_expired).
THEOREM CacheHolds == WarmSpec => []WarmCacheIsSound
<1>1. WarmInit => WarmInv
  BY WarmStart
<1>2. WarmInv /\ [WarmNext]_warmVars => WarmInv'
  BY WarmStep
<1>3. WarmInv => WarmCacheIsSound
  <2> SUFFICES ASSUME WarmInv PROVE WarmWithinLimit
    BY DEF WarmInv, WarmCacheIsSound
  <2> SUFFICES ASSUME ~ crowded, \A b \in Keys : Bytes[b] <= MaxBytes
               PROVE  Taken <= MaxBytes
    BY DEF WarmWithinLimit, Keys
  <2>1. ASSUME NEW b \in Blob, Keys = {b}, Bytes[b] > MaxBytes PROVE FALSE
    <3>1. Bytes[b] <= MaxBytes /\ Bytes[b] \in Nat /\ MaxBytes \in Nat
      BY <2>1, WarmCacheAssumption
    <3> QED  BY <2>1, <3>1
  <2> QED  BY <2>1 DEF WarmInv, RoomIsMade, Roomy
<1> QED
  BY <1>1, <1>2, <1>3, PTL DEF WarmSpec

================================================================================
