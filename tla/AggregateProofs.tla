------------------------------ MODULE AggregateProofs ------------------------------
(***************************************************************************)
(* Proofs about Aggregate for every set of elements, FORGETs and requests. *)
(***************************************************************************)
EXTENDS Aggregate, TLAPS

(***************************************************************************)
(* Type correctness.  LatestTime is a natural number because a rebuild     *)
(* never writes an empty merge.                                            *)
(***************************************************************************)

\* A rebuild writes only what it read from at least one element.
WritesSomething == \A t \in Task : at[t] = "write" => snapshot[t] # {}

TypeInv == TypeOK /\ WritesSomething

\* The time of the latest of some elements is one of their times, and bounds them.
LEMMA LatestTimeIsTime ==
    ASSUME NEW S \in SUBSET Element, S # {}
    PROVE  /\ LatestTime(S) \in Nat
           /\ \A e \in S : Time[e] <= LatestTime(S)
<1>1. PICK m \in S : \A d \in S : Time[d] <= Time[m]
  BY LatestAssumption
<1>2. Time[m] \in {Time[e] : e \in S} /\ \A e \in S : Time[e] <= Time[m]
  BY <1>1
<1>3. /\ LatestTime(S) \in {Time[e] : e \in S}
      /\ \A e \in S : Time[e] <= LatestTime(S)
  BY <1>2 DEF LatestTime
<1> QED
  BY <1>3, ConstantsAssumption

\* The merge of elements is a content, and so is a content with one merged on top.
LEMMA MergesAreContents ==
    /\ \A S \in SUBSET Element : MergeOf(S) \in Content
    /\ \A c \in Content, e \in Element : deep_merge(c, e) \in Content
    /\ Empty \in Content
BY DEF MergeOf, deep_merge, Content, Empty

\* The initial state is well typed.
LEMMA TypeInit == Init => TypeInv
<1> SUFFICES ASSUME Init PROVE TypeInv
  OBVIOUS
<1>1. seen \in [Task -> Content] /\ content \in Content
  BY MergesAreContents DEF Init
<1>2. elements \subseteq Element /\ exists \in BOOLEAN /\ dirty \in BOOLEAN /\ raced \in BOOLEAN
  BY DEF Init
<1>3. time \in Nat /\ backfills \in 0..MaxBackfills
  BY ConstantsAssumption DEF Init
<1>4. /\ victim \in [Forget -> SUBSET Element] /\ left \in [Forget -> SUBSET Element]
      /\ snapshot \in [Task -> SUBSET Element]
  BY ConstantsAssumption DEF Init
<1>5. at \in [Task -> {"queued"}]
  BY DEF Init
<1> QED
  BY <1>1, <1>2, <1>3, <1>4, <1>5 DEF TypeInv, TypeOK, WritesSomething

Steps == {"queued", "insert", "read", "merge", "count", "mark",
          "fetch", "write", "lookup", "delete", "remaining", "drop", "done"}

\* A task that goes on, to anything but a write, keeps the types.
LEMMA GotoIsTyped ==
    ASSUME TypeInv, NEW t \in Task, NEW where \in Steps \ {"write"}, Goto(t, where)
    PROVE  at' \in [Task -> Steps] /\ \A u \in Task : at'[u] = "write" => at[u] = "write"
BY DEF TypeInv, TypeOK, Steps, Goto

\* So does one that ends or goes on to its next hash.
LEMMA ReturnIsTyped ==
    ASSUME TypeInv, NEW t \in Task, Return(t)
    PROVE  at' \in [Task -> Steps] /\ \A u \in Task : at'[u] = "write" => at[u] = "write"
<1>1. \E where \in {"done", "lookup", "queued"} : Goto(t, where)
  BY DEF Return, Task
<1> QED
  BY <1>1, GotoIsTyped DEF Steps

\* Every step keeps the state well typed.
LEMMA TypeNext == TypeInv /\ [Next]_vars => TypeInv'
<1> SUFFICES ASSUME TypeInv, [Next]_vars PROVE TypeInv'
  OBVIOUS
<1> USE ConstantsAssumption, MergesAreContents
    DEF TypeInv, TypeOK, WritesSomething, Goto, rowVars, locals
<1>1. ASSUME NEW e \in Element, insert_element(e) PROVE TypeInv'
  BY <1>1 DEF Task, insert_element, Overlap
<1>2. ASSUME NEW e \in Element, optimistic_insert(e) PROVE TypeInv'
  <2>1. deep_merge(Empty, e) \in Content /\ Time[e] \in Nat
    BY MergesAreContents
  <2> QED
    <3>1. at' \in [Task -> Steps] /\ \A u \in Task : at'[u] = "write" => at[u] = "write"
      BY <1>2, GotoIsTyped, ReturnIsTyped DEF optimistic_insert, Task, Steps
    <3>2. /\ exists' \in BOOLEAN /\ dirty' \in BOOLEAN /\ content' \in Content /\ time' \in Nat
          /\ UNCHANGED <<elements, locals, backfills>> /\ raced' \in BOOLEAN
      BY <1>2, <2>1 DEF optimistic_insert, Overlap
    <3> QED
      BY <3>1, <3>2 DEF Steps
<1>3. ASSUME NEW e \in Element, read_existing(e) PROVE TypeInv'
  <2>1. at' \in [Task -> Steps] /\ \A u \in Task : at'[u] = "write" => at[u] = "write"
    <3>1. Return(e) \/ Goto(e, "merge") \/ Goto(e, "count")
      BY <1>3 DEF read_existing
    <3> QED
      BY <3>1, GotoIsTyped, ReturnIsTyped DEF Task, Steps
  <2>2. /\ seen' \in [Task -> Content]
        /\ UNCHANGED <<elements, rowVars, snapshot, victim, left, backfills, raced>>
    BY <1>3 DEF read_existing, Task
  <2> QED
    BY <2>1, <2>2 DEF Steps
<1>4. ASSUME NEW e \in Element, merge_update(e) PROVE TypeInv'
  <2>1. deep_merge(seen[e], e) \in Content /\ Time[e] \in Nat
    BY MergesAreContents DEF Task
  <2> QED
    BY <1>4, <2>1 DEF Task, merge_update, UpdateRow, Overlap, Return
<1>5. ASSUME NEW e \in Element, count_elements(e) PROVE TypeInv'
  BY <1>5 DEF Task, count_elements
<1>6. ASSUME NEW e \in Element, mark_dirty(e) PROVE TypeInv'
  BY <1>6 DEF Task, mark_dirty, Overlap, Return
<1>7. ASSUME NEW f \in Forget, forget_start(f) PROVE TypeInv'
  BY <1>7 DEF Task, forget_start
<1>8. ASSUME NEW f \in Forget, NEW e \in Element, forget_lookup(f, e) PROVE TypeInv'
  BY <1>8 DEF Task, forget_lookup
<1>9. ASSUME NEW f \in Forget, forget_delete(f) PROVE TypeInv'
  <2>1. at' \in [Task -> Steps] /\ \A u \in Task : at'[u] = "write" => at[u] = "write"
    BY <1>9, GotoIsTyped, ReturnIsTyped DEF forget_delete, Task, Steps
  <2>2. elements' \subseteq Element /\ raced' \in BOOLEAN /\ UNCHANGED <<rowVars, locals, backfills>>
    BY <1>9 DEF forget_delete, Overlap
  <2> QED
    BY <2>1, <2>2 DEF Steps
<1>10. ASSUME NEW f \in Forget, forget_remaining(f) PROVE TypeInv'
  BY <1>10 DEF Task, forget_remaining
<1>11. ASSUME NEW f \in Forget, forget_drop(f) PROVE TypeInv'
  BY <1>11 DEF Task, forget_drop, Overlap, Return
<1>12. ASSUME NEW r \in Reader, lazy_refresh(r) PROVE TypeInv'
  BY <1>12 DEF Task, lazy_refresh
<1>13. ASSUME NEW t \in Task, rebuild_fetch(t) PROVE TypeInv'
  <2>1. CASE elements = {}
    <3>1. at' \in [Task -> Steps] /\ \A u \in Task : at'[u] = "write" => at[u] = "write"
      BY <1>13, <2>1, ReturnIsTyped DEF rebuild_fetch
    <3>2. \A u \in Task : at'[u] = "write" => u # t
      BY <1>13, <3>1 DEF rebuild_fetch
    <3> QED
      BY <1>13, <3>1, <3>2 DEF rebuild_fetch, Steps
  <2>2. CASE elements # {}
    <3>1. /\ at' = [at EXCEPT ![t] = "write"] /\ snapshot' = [snapshot EXCEPT ![t] = elements]
          /\ UNCHANGED <<elements, rowVars, seen, victim, left, backfills, raced>>
      BY <1>13, <2>2 DEF rebuild_fetch
    <3>2. at' \in [Task -> Steps] /\ snapshot' \in [Task -> SUBSET Element]
      BY <3>1 DEF Steps
    <3>3. \A u \in Task : at'[u] = "write" => snapshot'[u] # {}
      BY <3>1, <2>2
    <3> QED
      BY <3>1, <3>2, <3>3 DEF Steps
  <2> QED
    BY <2>1, <2>2
<1>14. ASSUME NEW t \in Task, rebuild_write(t) PROVE TypeInv'
  <2>1. snapshot[t] \in SUBSET Element /\ snapshot[t] # {}
    BY <1>14 DEF rebuild_write
  <2>2. LatestTime(snapshot[t]) \in Nat /\ MergeOf(snapshot[t]) \in Content
    BY <2>1, LatestTimeIsTime
  <2> QED
    BY <1>14, <2>2 DEF Task, rebuild_write, UpdateRow, Overlap, Return
<1>15. ASSUME backfill_rebuild PROVE TypeInv'
  BY <1>15 DEF Task, backfill_rebuild
<1>16. ASSUME UNCHANGED vars PROVE TypeInv'
  BY <1>16 DEF vars
<1> QED
  BY <1>1, <1>2, <1>3, <1>4, <1>5, <1>6, <1>7, <1>8, <1>9, <1>10, <1>11, <1>12, <1>13, <1>14, <1>15, <1>16
     DEF Next, Handler, Cascade

\* The state is well typed in every behaviour.
THEOREM TypeCorrect == Spec => []TypeOK
<1>1. TypeInv => TypeOK
  BY DEF TypeInv
<1> QED
  BY <1>1, TypeInit, TypeNext, PTL DEF Spec

(***************************************************************************)
(* The row and the elements.  When security aggregates are serialised, the *)
(* statements of a handler are not interleaved with those of another       *)
(* writer, and a FORGET sees no element appear.                            *)
(***************************************************************************)

ElementSteps == {"queued", "insert", "read", "merge", "count", "mark", "fetch", "write", "done"}
ForgetSteps  == {"queued", "lookup", "delete", "remaining", "drop", "fetch", "write", "done"}
ReaderSteps  == {"queued", "fetch", "write"}

\* Each kind of task goes through its own statements only.
StepsOfKind ==
    /\ \A e \in Element : at[e] \in ElementSteps
    /\ \A f \in Forget : at[f] \in ForgetSteps
    /\ \A r \in Reader : at[r] \in ReaderSteps

\* A security aggregate that runs is alone among the writers of its batch.
Alone == \A e \in Element : ~ Idle(e) => \A t \in (Element \cup Forget) \ {e} : Idle(t)

\* An element is stored from the first statement of its handler on, not before.
StoredOnceStarted ==
    \A e \in Element : (e \in elements => at[e] # "queued") /\ (~ Idle(e) => e \in elements)

\* The elements stored at a FORGET's lookup of its victim cover those its DELETE
\* removes: nothing is inserted meanwhile.
DeleteIsSeen ==
    \A f \in Forget : at[f] = "delete" => elements \cap victim[f] \subseteq snapshot[f]

\* Who is about to restore the row when it disagrees with the elements.
RowInStep ==
    /\ exists => elements # {} \/ \E f \in Forget : at[f] \in {"remaining", "drop"}
    /\ elements # {} => exists \/ \E e \in Element : at[e] = "insert"
    /\ \A f \in Forget : at[f] = "drop" => elements = {}

RowInv == StepsOfKind /\ Alone /\ StoredOnceStarted /\ DeleteIsSeen /\ RowInStep

\* The initial state satisfies it.
LEMMA RowInit == Init => RowInv
BY DEF Init, RowInv, StepsOfKind, ElementSteps, ForgetSteps, ReaderSteps, Alone, Idle,
       StoredOnceStarted, DeleteIsSeen, RowInStep, Task

\* A task goes from a statement of its kind to another.
LEMMA StepsNext ==
    ASSUME TypeInv, StepsOfKind, [Next]_vars
    PROVE  StepsOfKind'
<1> USE ConstantsAssumption DEF TypeInv, TypeOK, Task, Goto, rowVars, locals,
    StepsOfKind, ElementSteps, ForgetSteps, ReaderSteps
<1>1. ASSUME NEW e \in Element, insert_element(e) PROVE StepsOfKind'
  BY <1>1 DEF insert_element, MayStart, Overlap
<1>2. ASSUME NEW e \in Element, optimistic_insert(e) PROVE StepsOfKind'
  BY <1>2 DEF optimistic_insert, Overlap, Return
<1>3. ASSUME NEW e \in Element, read_existing(e) PROVE StepsOfKind'
  BY <1>3 DEF read_existing, Return
<1>4. ASSUME NEW e \in Element, merge_update(e) PROVE StepsOfKind'
  BY <1>4 DEF merge_update, UpdateRow, Overlap, Return
<1>5. ASSUME NEW e \in Element, count_elements(e) PROVE StepsOfKind'
  BY <1>5 DEF count_elements
<1>6. ASSUME NEW e \in Element, mark_dirty(e) PROVE StepsOfKind'
  BY <1>6 DEF mark_dirty, Overlap, Return
<1>7. ASSUME NEW f \in Forget, forget_start(f) PROVE StepsOfKind'
  BY <1>7 DEF forget_start
<1>8. ASSUME NEW f \in Forget, NEW e \in Element, forget_lookup(f, e) PROVE StepsOfKind'
  BY <1>8 DEF forget_lookup
<1>9. ASSUME NEW f \in Forget, forget_delete(f) PROVE StepsOfKind'
  BY <1>9 DEF forget_delete, Overlap, Return
<1>10. ASSUME NEW f \in Forget, forget_remaining(f) PROVE StepsOfKind'
  BY <1>10 DEF forget_remaining
<1>11. ASSUME NEW f \in Forget, forget_drop(f) PROVE StepsOfKind'
  BY <1>11 DEF forget_drop, Overlap, Return
<1>12. ASSUME NEW r \in Reader, lazy_refresh(r) PROVE StepsOfKind'
  BY <1>12 DEF lazy_refresh
<1>13. ASSUME NEW t \in Task, rebuild_fetch(t) PROVE StepsOfKind'
  BY <1>13 DEF rebuild_fetch, Return
<1>14. ASSUME NEW t \in Task, rebuild_write(t) PROVE StepsOfKind'
  BY <1>14 DEF rebuild_write, UpdateRow, Overlap, Return
<1>15. ASSUME backfill_rebuild PROVE StepsOfKind'
  BY <1>15 DEF backfill_rebuild
<1>16. ASSUME UNCHANGED vars PROVE StepsOfKind'
  BY <1>16 DEF vars
<1> QED
  BY <1>1, <1>2, <1>3, <1>4, <1>5, <1>6, <1>7, <1>8, <1>9, <1>10, <1>11, <1>12, <1>13, <1>14, <1>15, <1>16
     DEF Next, Handler, Cascade

\* Serialisation: a handler starts alone, and nobody starts beside it.
LEMMA AloneNext ==
    ASSUME Security, TypeInv, StepsOfKind, StepsOfKind', Alone, [Next]_vars
    PROVE  Alone'
<1> USE ConstantsAssumption DEF TypeInv, TypeOK, Task, Goto, rowVars, locals,
    StepsOfKind, ElementSteps, ForgetSteps, ReaderSteps, Alone, Idle
<1>1. ASSUME NEW e \in Element, insert_element(e) PROVE Alone'
  BY <1>1 DEF insert_element, MayStart, Overlap
<1>2. ASSUME NEW e \in Element, optimistic_insert(e) PROVE Alone'
  BY <1>2 DEF optimistic_insert, Overlap, Return
<1>3. ASSUME NEW e \in Element, read_existing(e) PROVE Alone'
  BY <1>3 DEF read_existing, Return
<1>4. ASSUME NEW e \in Element, merge_update(e) PROVE Alone'
  BY <1>4 DEF merge_update, UpdateRow, Overlap, Return
<1>5. ASSUME NEW e \in Element, count_elements(e) PROVE Alone'
  BY <1>5 DEF count_elements
<1>6. ASSUME NEW e \in Element, mark_dirty(e) PROVE Alone'
  BY <1>6 DEF mark_dirty, Overlap, Return
<1>7. ASSUME NEW f \in Forget, forget_start(f) PROVE Alone'
  BY <1>7 DEF forget_start
<1>8. ASSUME NEW f \in Forget, NEW e \in Element, forget_lookup(f, e) PROVE Alone'
  BY <1>8 DEF forget_lookup
<1>9. ASSUME NEW f \in Forget, forget_delete(f) PROVE Alone'
  BY <1>9 DEF forget_delete, Overlap, Return
<1>10. ASSUME NEW f \in Forget, forget_remaining(f) PROVE Alone'
  BY <1>10 DEF forget_remaining
<1>11. ASSUME NEW f \in Forget, forget_drop(f) PROVE Alone'
  BY <1>11 DEF forget_drop, Overlap, Return
<1>12. ASSUME NEW r \in Reader, lazy_refresh(r) PROVE Alone'
  BY <1>12 DEF lazy_refresh
<1>13. ASSUME NEW t \in Task, rebuild_fetch(t) PROVE Alone'
  BY <1>13 DEF rebuild_fetch, Return
<1>14. ASSUME NEW t \in Task, rebuild_write(t) PROVE Alone'
  BY <1>14 DEF rebuild_write, UpdateRow, Overlap, Return
<1>15. ASSUME backfill_rebuild PROVE Alone'
  BY <1>15 DEF backfill_rebuild
<1>16. ASSUME UNCHANGED vars PROVE Alone'
  BY <1>16 DEF vars
<1> QED
  BY <1>1, <1>2, <1>3, <1>4, <1>5, <1>6, <1>7, <1>8, <1>9, <1>10, <1>11, <1>12, <1>13, <1>14, <1>15, <1>16
     DEF Next, Handler, Cascade

\* Only its handler stores an element, and no FORGET deletes it meanwhile.
LEMMA StoredNext ==
    ASSUME Security, TypeInv, StepsOfKind, StepsOfKind', Alone, StoredOnceStarted, [Next]_vars
    PROVE  StoredOnceStarted'
<1> USE ConstantsAssumption DEF TypeInv, TypeOK, Task, Goto, rowVars, locals,
    StepsOfKind, ElementSteps, ForgetSteps, ReaderSteps, Alone, Idle, StoredOnceStarted
<1>1. ASSUME NEW e \in Element, insert_element(e) PROVE StoredOnceStarted'
  BY <1>1 DEF insert_element, MayStart, Overlap
<1>2. ASSUME NEW e \in Element, optimistic_insert(e) PROVE StoredOnceStarted'
  BY <1>2 DEF optimistic_insert, Overlap, Return
<1>3. ASSUME NEW e \in Element, read_existing(e) PROVE StoredOnceStarted'
  BY <1>3 DEF read_existing, Return
<1>4. ASSUME NEW e \in Element, merge_update(e) PROVE StoredOnceStarted'
  BY <1>4 DEF merge_update, UpdateRow, Overlap, Return
<1>5. ASSUME NEW e \in Element, count_elements(e) PROVE StoredOnceStarted'
  BY <1>5 DEF count_elements
<1>6. ASSUME NEW e \in Element, mark_dirty(e) PROVE StoredOnceStarted'
  BY <1>6 DEF mark_dirty, Overlap, Return
<1>7. ASSUME NEW f \in Forget, forget_start(f) PROVE StoredOnceStarted'
  BY <1>7 DEF forget_start
<1>8. ASSUME NEW f \in Forget, NEW e \in Element, forget_lookup(f, e) PROVE StoredOnceStarted'
  BY <1>8 DEF forget_lookup
<1>9. ASSUME NEW f \in Forget, forget_delete(f) PROVE StoredOnceStarted'
  BY <1>9 DEF forget_delete, Overlap, Return
<1>10. ASSUME NEW f \in Forget, forget_remaining(f) PROVE StoredOnceStarted'
  BY <1>10 DEF forget_remaining
<1>11. ASSUME NEW f \in Forget, forget_drop(f) PROVE StoredOnceStarted'
  BY <1>11 DEF forget_drop, Overlap, Return
<1>12. ASSUME NEW r \in Reader, lazy_refresh(r) PROVE StoredOnceStarted'
  BY <1>12 DEF lazy_refresh
<1>13. ASSUME NEW t \in Task, rebuild_fetch(t) PROVE StoredOnceStarted'
  BY <1>13 DEF rebuild_fetch, Return
<1>14. ASSUME NEW t \in Task, rebuild_write(t) PROVE StoredOnceStarted'
  BY <1>14 DEF rebuild_write, UpdateRow, Overlap, Return
<1>15. ASSUME backfill_rebuild PROVE StoredOnceStarted'
  BY <1>15 DEF backfill_rebuild
<1>16. ASSUME UNCHANGED vars PROVE StoredOnceStarted'
  BY <1>16 DEF vars
<1> QED
  BY <1>1, <1>2, <1>3, <1>4, <1>5, <1>6, <1>7, <1>8, <1>9, <1>10, <1>11, <1>12, <1>13, <1>14, <1>15, <1>16
     DEF Next, Handler, Cascade

\* No element is inserted between a FORGET's lookup and its DELETE.
LEMMA DeleteIsSeenNext ==
    ASSUME Security, TypeInv, StepsOfKind, StepsOfKind', Alone, DeleteIsSeen, [Next]_vars
    PROVE  DeleteIsSeen'
<1> USE ConstantsAssumption DEF TypeInv, TypeOK, Task, Goto, rowVars, locals,
    StepsOfKind, ElementSteps, ForgetSteps, ReaderSteps, Idle, DeleteIsSeen
<1>1. ASSUME NEW e \in Element, insert_element(e) PROVE DeleteIsSeen'
  BY <1>1 DEF insert_element, MayStart, Overlap
<1>2. ASSUME NEW e \in Element, optimistic_insert(e) PROVE DeleteIsSeen'
  BY <1>2 DEF optimistic_insert, Overlap, Return
<1>3. ASSUME NEW e \in Element, read_existing(e) PROVE DeleteIsSeen'
  BY <1>3 DEF read_existing, Return
<1>4. ASSUME NEW e \in Element, merge_update(e) PROVE DeleteIsSeen'
  BY <1>4 DEF merge_update, UpdateRow, Overlap, Return
<1>5. ASSUME NEW e \in Element, count_elements(e) PROVE DeleteIsSeen'
  BY <1>5 DEF count_elements
<1>6. ASSUME NEW e \in Element, mark_dirty(e) PROVE DeleteIsSeen'
  BY <1>6 DEF mark_dirty, Overlap, Return
<1>7. ASSUME NEW f \in Forget, forget_start(f) PROVE DeleteIsSeen'
  BY <1>7 DEF forget_start
<1>8. ASSUME NEW f \in Forget, NEW e \in Element, forget_lookup(f, e) PROVE DeleteIsSeen'
  BY <1>8 DEF forget_lookup
<1>9. ASSUME NEW f \in Forget, forget_delete(f) PROVE DeleteIsSeen'
  BY <1>9 DEF forget_delete, Overlap, Return
<1>10. ASSUME NEW f \in Forget, forget_remaining(f) PROVE DeleteIsSeen'
  BY <1>10 DEF forget_remaining
<1>11. ASSUME NEW f \in Forget, forget_drop(f) PROVE DeleteIsSeen'
  BY <1>11 DEF forget_drop, Overlap, Return
<1>12. ASSUME NEW r \in Reader, lazy_refresh(r) PROVE DeleteIsSeen'
  BY <1>12 DEF lazy_refresh
<1>13. ASSUME NEW t \in Task, rebuild_fetch(t) PROVE DeleteIsSeen'
  BY <1>13 DEF rebuild_fetch, Return
<1>14. ASSUME NEW t \in Task, rebuild_write(t) PROVE DeleteIsSeen'
  BY <1>14 DEF rebuild_write, UpdateRow, Overlap, Return
<1>15. ASSUME backfill_rebuild PROVE DeleteIsSeen'
  BY <1>15 DEF backfill_rebuild
<1>16. ASSUME UNCHANGED vars PROVE DeleteIsSeen'
  BY <1>16 DEF vars
<1> QED
  BY <1>1, <1>2, <1>3, <1>4, <1>5, <1>6, <1>7, <1>8, <1>9, <1>10, <1>11, <1>12, <1>13, <1>14, <1>15, <1>16
     DEF Next, Handler, Cascade

\* The row and the elements disagree only while somebody is about to mend it.
LEMMA RowInStepNext ==
    ASSUME Security, TypeInv, StepsOfKind, StepsOfKind', Alone, StoredOnceStarted, DeleteIsSeen, RowInStep, [Next]_vars
    PROVE  RowInStep'
<1> USE ConstantsAssumption DEF TypeInv, TypeOK, Task, Goto, rowVars, locals,
    StepsOfKind, ElementSteps, ForgetSteps, ReaderSteps, Idle, StoredOnceStarted,
    DeleteIsSeen, RowInStep
<1>1. ASSUME NEW e \in Element, insert_element(e) PROVE RowInStep'
  BY <1>1 DEF insert_element, MayStart, Overlap
<1>2. ASSUME NEW e \in Element, optimistic_insert(e) PROVE RowInStep'
  BY <1>2 DEF optimistic_insert, Overlap, Return
<1>3. ASSUME NEW e \in Element, read_existing(e) PROVE RowInStep'
  BY <1>3 DEF read_existing, Return
<1>4. ASSUME NEW e \in Element, merge_update(e) PROVE RowInStep'
  BY <1>4 DEF merge_update, UpdateRow, Overlap, Return
<1>5. ASSUME NEW e \in Element, count_elements(e) PROVE RowInStep'
  BY <1>5 DEF count_elements
<1>6. ASSUME NEW e \in Element, mark_dirty(e) PROVE RowInStep'
  BY <1>6 DEF mark_dirty, Overlap, Return
<1>7. ASSUME NEW f \in Forget, forget_start(f) PROVE RowInStep'
  BY <1>7 DEF forget_start
<1>8. ASSUME NEW f \in Forget, NEW e \in Element, forget_lookup(f, e) PROVE RowInStep'
  BY <1>8 DEF forget_lookup
<1>9. ASSUME NEW f \in Forget, forget_delete(f) PROVE RowInStep'
  BY <1>9 DEF forget_delete, Overlap, Return
<1>10. ASSUME NEW f \in Forget, forget_remaining(f) PROVE RowInStep'
  BY <1>10 DEF forget_remaining
<1>11. ASSUME NEW f \in Forget, forget_drop(f) PROVE RowInStep'
  BY <1>11 DEF forget_drop, Overlap, Return
<1>12. ASSUME NEW r \in Reader, lazy_refresh(r) PROVE RowInStep'
  BY <1>12 DEF lazy_refresh
<1>13. ASSUME NEW t \in Task, rebuild_fetch(t) PROVE RowInStep'
  BY <1>13 DEF rebuild_fetch, Return
<1>14. ASSUME NEW t \in Task, rebuild_write(t) PROVE RowInStep'
  BY <1>14 DEF rebuild_write, UpdateRow, Overlap, Return
<1>15. ASSUME backfill_rebuild PROVE RowInStep'
  BY <1>15 DEF backfill_rebuild
<1>16. ASSUME UNCHANGED vars PROVE RowInStep'
  BY <1>16 DEF vars
<1> QED
  BY <1>1, <1>2, <1>3, <1>4, <1>5, <1>6, <1>7, <1>8, <1>9, <1>10, <1>11, <1>12, <1>13, <1>14, <1>15, <1>16
     DEF Next, Handler, Cascade

\* The invariant is inductive for a security aggregate.
LEMMA RowNext ==
    ASSUME Security, TypeInv, TypeInv', RowInv, [Next]_vars
    PROVE  RowInv'
BY StepsNext, AloneNext, StoredNext, DeleteIsSeenNext, RowInStepNext DEF RowInv

\* RowIffElements: between batches, the row of a security aggregate is there exactly
\* when it has elements, whatever handlers, FORGETs, refreshes and backfills did.
THEOREM SecurityRowIffElements == ASSUME Security PROVE Spec => []RowIffElements
<1>1. RowInv /\ TypeInv => RowIffElements
  BY DEF RowInv, TypeInv, TypeOK, RowInStep, RowIffElements, Quiet, Idle, Task
<1>2. RowInv /\ TypeInv /\ [Next]_vars => RowInv' /\ TypeInv'
  BY RowNext, TypeNext
<1> QED
  BY <1>1, <1>2, TypeInit, RowInit, PTL DEF Spec

(***************************************************************************)
(* The merged content.  It is claimed of elements with distinct times (two *)
(* elements of one time are merged in the order they are processed, and    *)
(* rebuilt in the order of their hashes) and of one FORGET at a time (of   *)
(* two that run together, one may write what it read before the other's    *)
(* DELETE).                                                                *)
(***************************************************************************)

DistinctTimes == \A d, e \in Element : Time[d] = Time[e] => d = e
OneForget == \A f, g \in Forget : f = g

\* The row shows the merge of the elements S, or is dirty, or is not there.
Merged(S) == content = MergeOf(S) /\ \A d \in S : Time[d] <= time
Synced(S) == exists => dirty \/ Merged(S)

\* No writer has begun to write.
Calm ==
    /\ \A e \in Element : Idle(e)
    /\ \A f \in Forget : at[f] \in {"queued", "lookup", "delete", "done"}

\* What each statement of a handler still knows of what it read.
HandlerSync(e) ==
    /\ at[e] = "insert" /\ ~ exists => elements = {e}
    /\ at[e] \in {"insert", "read"} => Synced(elements \ {e})
    /\ at[e] = "merge" => /\ seen[e] = MergeOf(elements \ {e})
                          /\ \A d \in elements : Time[d] <= Time[e]
    /\ at[e] = "write" => snapshot[e] = elements

\* The same for a FORGET and for a refresh.
ForgetSync(f) ==
    /\ at[f] \in {"fetch", "write"} => elements # {}
    /\ at[f] = "write" => snapshot[f] = elements
    /\ at[f] = "delete" => snapshot[f] = elements \cap victim[f]

ReaderSync(r) ==
    /\ ~ Idle(r) => Calm
    /\ at[r] = "write" => snapshot[r] = elements /\ elements # {}

\* Unless a refresh overlapped a writer, all of this holds, and the row shows the
\* elements whenever no writer is at work.
RowSynced      == ~ raced => (Calm => Synced(elements))
HandlersSynced == ~ raced => \A e \in Element : HandlerSync(e)
ForgetsSynced  == ~ raced => \A f \in Forget : ForgetSync(f)
ReadersSynced  == ~ raced => \A r \in Reader : ReaderSync(r)

MergeInv == RowSynced /\ HandlersSynced /\ ForgetsSynced /\ ReadersSynced

\* Merging the latest element on top of the others merges them all.
LEMMA MergeOnTop ==
    ASSUME DistinctTimes, NEW S \in SUBSET Element, NEW e \in S, \A d \in S : Time[d] <= Time[e]
    PROVE  deep_merge(MergeOf(S \ {e}), e) = MergeOf(S)
<1>1. \A d \in S \ {e} : Before(d, e) /\ ~ Before(e, d)
  BY ConstantsAssumption DEF DistinctTimes, Before
<1>2. \A d \in S : ~ Before(d, d)
  BY ConstantsAssumption DEF Before
<1> SUFFICES ASSUME NEW x \in Field
             PROVE  deep_merge(MergeOf(S \ {e}), e)[x] = MergeOf(S)[x]
  BY DEF deep_merge, MergeOf
<1>3. CASE x \in Writes[e]
  BY <1>1, <1>2, <1>3 DEF deep_merge, MergeOf
<1>4. CASE x \notin Writes[e]
  BY <1>4 DEF deep_merge, MergeOf
<1> QED
  BY <1>3, <1>4

\* The first element makes the content by itself.
LEMMA MergeOfFirst == ASSUME NEW e \in Element PROVE deep_merge(Empty, e) = MergeOf({e})
BY DEF deep_merge, MergeOf, Empty

\* The initial state satisfies it.
LEMMA MergeInit == Init => MergeInv
BY DEF Init, MergeInv, RowSynced, HandlersSynced, ForgetsSynced, ReadersSynced, Calm, Idle,
       Synced, HandlerSync, ForgetSync, ReaderSync, Task

\* A refresh never outlives the calm it started in.
LEMMA ReaderNext ==
    ASSUME DistinctTimes, OneForget, Security, TypeInv, TypeInv', RowInv, RowInv',
           MergeInv, [Next]_vars
    PROVE  ReadersSynced'
<1> USE ConstantsAssumption DEF TypeInv, TypeOK, Task, Goto, rowVars, locals,
    StepsOfKind, ElementSteps, ForgetSteps, ReaderSteps, Idle,
    RowInv, Alone, StoredOnceStarted, DeleteIsSeen, RowInStep, MergeInv, Calm,
    RowSynced, HandlersSynced, ForgetsSynced, ReadersSynced, ReaderSync
<1>1. ASSUME NEW e \in Element, insert_element(e) PROVE ReadersSynced'
  <2> SUFFICES ASSUME ~ raced', NEW r \in Reader, ~ Idle(r)' PROVE FALSE
    OBVIOUS
  <2>1. at'[r] = at[r] /\ r # e
    BY <1>1 DEF insert_element
  <2> QED
    BY <1>1, <2>1 DEF insert_element, Overlap
<1>2. ASSUME NEW e \in Element, optimistic_insert(e) PROVE ReadersSynced'
  BY <1>2 DEF optimistic_insert, Overlap, Return
<1>3. ASSUME NEW e \in Element, read_existing(e) PROVE ReadersSynced'
  BY <1>3 DEF read_existing, Return
<1>4. ASSUME NEW e \in Element, merge_update(e) PROVE ReadersSynced'
  BY <1>4 DEF merge_update, UpdateRow, Overlap, Return
<1>5. ASSUME NEW e \in Element, count_elements(e) PROVE ReadersSynced'
  BY <1>5 DEF count_elements
<1>6. ASSUME NEW e \in Element, mark_dirty(e) PROVE ReadersSynced'
  BY <1>6 DEF mark_dirty, Overlap, Return
<1>7. ASSUME NEW f \in Forget, forget_start(f) PROVE ReadersSynced'
  BY <1>7 DEF forget_start
<1>8. ASSUME NEW f \in Forget, NEW e \in Element, forget_lookup(f, e) PROVE ReadersSynced'
  BY <1>8 DEF forget_lookup
<1>9. ASSUME NEW f \in Forget, forget_delete(f) PROVE ReadersSynced'
  <2>1. \A r \in Reader : r \in Reader \ {f} /\ at'[r] = at[r]
    BY <1>9 DEF forget_delete, Return
  <2>2. ~ raced' => \A r \in Reader \ {f} : Idle(r)
    BY <1>9 DEF forget_delete, Overlap
  <2> QED
    BY <2>1, <2>2
<1>10. ASSUME NEW f \in Forget, forget_remaining(f) PROVE ReadersSynced'
  BY <1>10 DEF forget_remaining
<1>11. ASSUME NEW f \in Forget, forget_drop(f) PROVE ReadersSynced'
  BY <1>11 DEF forget_drop, Overlap, Return
<1>12. ASSUME NEW r \in Reader, lazy_refresh(r) PROVE ReadersSynced'
  <2>1. /\ at' = [at EXCEPT ![r] = "fetch"]
        /\ UNCHANGED <<elements, snapshot>>
        /\ ~ raced' => ~ raced /\ \A t \in Element \cup Forget : Idle(t)
    BY <1>12 DEF lazy_refresh
  <2>2. (\A t \in Element \cup Forget : Idle(t)) => Calm'
    BY <2>1
  <2> QED
    BY <2>1, <2>2
<1>13. ASSUME NEW t \in Task, rebuild_fetch(t) PROVE ReadersSynced'
  BY <1>13 DEF rebuild_fetch, Return
<1>14. ASSUME NEW t \in Task, rebuild_write(t) PROVE ReadersSynced'
  BY <1>14 DEF rebuild_write, UpdateRow, Overlap, Return
<1>15. ASSUME backfill_rebuild PROVE ReadersSynced'
  BY <1>15 DEF backfill_rebuild
<1>16. ASSUME UNCHANGED vars PROVE ReadersSynced'
  BY <1>16 DEF vars
<1> QED
  BY <1>1, <1>2, <1>3, <1>4, <1>5, <1>6, <1>7, <1>8, <1>9, <1>10, <1>11, <1>12, <1>13, <1>14, <1>15, <1>16
     DEF Next, Handler, Cascade

\* A FORGET writes what is still stored.
LEMMA ForgetNext ==
    ASSUME DistinctTimes, OneForget, Security, TypeInv, TypeInv', RowInv, RowInv',
           MergeInv, [Next]_vars
    PROVE  ForgetsSynced'
<1> USE ConstantsAssumption DEF TypeInv, TypeOK, Task, Goto, rowVars, locals,
    StepsOfKind, ElementSteps, ForgetSteps, ReaderSteps, Idle,
    RowInv, Alone, StoredOnceStarted, DeleteIsSeen, RowInStep, MergeInv, Calm,
    RowSynced, HandlersSynced, ForgetsSynced, ReadersSynced, ForgetSync, OneForget
<1>1. ASSUME NEW e \in Element, insert_element(e) PROVE ForgetsSynced'
  BY <1>1 DEF insert_element, MayStart, Overlap
<1>2. ASSUME NEW e \in Element, optimistic_insert(e) PROVE ForgetsSynced'
  BY <1>2 DEF optimistic_insert, Overlap, Return
<1>3. ASSUME NEW e \in Element, read_existing(e) PROVE ForgetsSynced'
  BY <1>3 DEF read_existing, Return
<1>4. ASSUME NEW e \in Element, merge_update(e) PROVE ForgetsSynced'
  BY <1>4 DEF merge_update, UpdateRow, Overlap, Return
<1>5. ASSUME NEW e \in Element, count_elements(e) PROVE ForgetsSynced'
  BY <1>5 DEF count_elements
<1>6. ASSUME NEW e \in Element, mark_dirty(e) PROVE ForgetsSynced'
  BY <1>6 DEF mark_dirty, Overlap, Return
<1>7. ASSUME NEW f \in Forget, forget_start(f) PROVE ForgetsSynced'
  BY <1>7 DEF forget_start
<1>8. ASSUME NEW f \in Forget, NEW e \in Element, forget_lookup(f, e) PROVE ForgetsSynced'
  BY <1>8 DEF forget_lookup
<1>9. ASSUME NEW f \in Forget, forget_delete(f) PROVE ForgetsSynced'
  <2> SUFFICES ASSUME ~ raced', NEW g \in Forget PROVE ForgetSync(g)'
    OBVIOUS
  <2>1. g = f /\ at[f] = "delete"
    BY <1>9 DEF forget_delete
  <2>2. at'[f] \in {"lookup", "done", "remaining"}
    BY <1>9 DEF forget_delete, Return
  <2> QED
    BY <2>1, <2>2
<1>10. ASSUME NEW f \in Forget, forget_remaining(f) PROVE ForgetsSynced'
  BY <1>10 DEF forget_remaining
<1>11. ASSUME NEW f \in Forget, forget_drop(f) PROVE ForgetsSynced'
  BY <1>11 DEF forget_drop, Overlap, Return
<1>12. ASSUME NEW r \in Reader, lazy_refresh(r) PROVE ForgetsSynced'
  <2>1. UNCHANGED <<elements, snapshot, victim>> /\ \A f \in Forget : at'[f] = at[f]
    BY <1>12 DEF lazy_refresh
  <2> QED
    BY <1>12, <2>1 DEF lazy_refresh
<1>13. ASSUME NEW t \in Task, rebuild_fetch(t) PROVE ForgetsSynced'
  BY <1>13 DEF rebuild_fetch, Return
<1>14. ASSUME NEW t \in Task, rebuild_write(t) PROVE ForgetsSynced'
  BY <1>14 DEF rebuild_write, UpdateRow, Overlap, Return
<1>15. ASSUME backfill_rebuild PROVE ForgetsSynced'
  BY <1>15 DEF backfill_rebuild
<1>16. ASSUME UNCHANGED vars PROVE ForgetsSynced'
  BY <1>16 DEF vars
<1> QED
  BY <1>1, <1>2, <1>3, <1>4, <1>5, <1>6, <1>7, <1>8, <1>9, <1>10, <1>11, <1>12, <1>13, <1>14, <1>15, <1>16
     DEF Next, Handler, Cascade

\* What a handler read is still so when it writes.
LEMMA HandlerNext ==
    ASSUME DistinctTimes, OneForget, Security, TypeInv, TypeInv', RowInv, RowInv',
           MergeInv, [Next]_vars
    PROVE  HandlersSynced'
<1> USE ConstantsAssumption DEF TypeInv, TypeOK, Task, Goto, rowVars, locals,
    StepsOfKind, ElementSteps, ForgetSteps, ReaderSteps, Idle,
    RowInv, Alone, StoredOnceStarted, DeleteIsSeen, RowInStep, MergeInv, Calm,
    RowSynced, HandlersSynced, ForgetsSynced, ReadersSynced, HandlerSync, Synced, Merged
<1>1. ASSUME NEW e \in Element, insert_element(e) PROVE HandlersSynced'
  <2> SUFFICES ASSUME ~ raced', NEW d \in Element PROVE HandlerSync(d)'
    OBVIOUS
  <2>1. /\ at' = [at EXCEPT ![e] = "insert"] /\ at[e] = "queued" /\ ~ raced
        /\ elements' = elements \cup {e} /\ UNCHANGED <<exists, dirty, content, time>>
        /\ \A t \in (Element \cup Forget) \ {e} : Idle(t)
    BY <1>1 DEF insert_element, MayStart, Overlap
  <2>2. CASE d # e
    BY <2>1, <2>2
  <2>3. CASE d = e
    <3>1. elements' \ {e} = elements /\ Calm
      BY <2>1
    <3>2. Synced(elements \ {e})'
      BY <2>1, <3>1
    <3>3. elements # {} => exists
      BY <2>1
    <3> QED
      BY <2>1, <2>3, <3>2, <3>3
  <2> QED
    BY <2>2, <2>3
<1>2. ASSUME NEW e \in Element, optimistic_insert(e) PROVE HandlersSynced'
  BY <1>2 DEF optimistic_insert, Overlap, Return
<1>3. ASSUME NEW e \in Element, read_existing(e) PROVE HandlersSynced'
  <2> SUFFICES ASSUME ~ raced', NEW d \in Element PROVE HandlerSync(d)'
    OBVIOUS
  <2>1. /\ at[e] = "read" /\ seen' = [seen EXCEPT ![e] = content]
        /\ UNCHANGED <<elements, exists, content, time, dirty, snapshot, raced>>
        /\ at'[e] \in {"done", "merge", "count"} /\ \A t \in Task \ {e} : at'[t] = at[t]
        /\ at'[e] = "merge" => exists /\ ~ dirty /\ Time[e] >= time
    BY <1>3 DEF read_existing, Return
  <2>2. CASE d # e
    BY <2>1, <2>2
  <2>3. CASE d = e
    <3>1. Synced(elements \ {e})
      BY <2>1
    <3> SUFFICES ASSUME at'[e] = "merge"
                 PROVE  /\ seen'[e] = MergeOf(elements \ {e})
                        /\ \A c \in elements : Time[c] <= Time[e]
      BY <2>1, <2>3
    <3>2. content = MergeOf(elements \ {e}) /\ \A c \in elements \ {e} : Time[c] <= time
      BY <2>1, <3>1
    <3> QED
      BY <2>1, <3>2
  <2> QED
    BY <2>2, <2>3
<1>4. ASSUME NEW e \in Element, merge_update(e) PROVE HandlersSynced'
  BY <1>4 DEF merge_update, UpdateRow, Overlap, Return
<1>5. ASSUME NEW e \in Element, count_elements(e) PROVE HandlersSynced'
  BY <1>5 DEF count_elements
<1>6. ASSUME NEW e \in Element, mark_dirty(e) PROVE HandlersSynced'
  BY <1>6 DEF mark_dirty, Overlap, Return
<1>7. ASSUME NEW f \in Forget, forget_start(f) PROVE HandlersSynced'
  BY <1>7 DEF forget_start
<1>8. ASSUME NEW f \in Forget, NEW e \in Element, forget_lookup(f, e) PROVE HandlersSynced'
  BY <1>8 DEF forget_lookup
<1>9. ASSUME NEW f \in Forget, forget_delete(f) PROVE HandlersSynced'
  BY <1>9 DEF forget_delete, Overlap, Return
<1>10. ASSUME NEW f \in Forget, forget_remaining(f) PROVE HandlersSynced'
  BY <1>10 DEF forget_remaining
<1>11. ASSUME NEW f \in Forget, forget_drop(f) PROVE HandlersSynced'
  BY <1>11 DEF forget_drop, Overlap, Return
<1>12. ASSUME NEW r \in Reader, lazy_refresh(r) PROVE HandlersSynced'
  BY <1>12 DEF lazy_refresh
<1>13. ASSUME NEW t \in Task, rebuild_fetch(t) PROVE HandlersSynced'
  <2> SUFFICES ASSUME ~ raced', NEW d \in Element PROVE HandlerSync(d)'
    OBVIOUS
  <2>1. /\ at[t] = "fetch" /\ snapshot' = [snapshot EXCEPT ![t] = elements]
        /\ UNCHANGED <<elements, exists, content, time, dirty, seen, raced>>
        /\ \A u \in Task \ {t} : at'[u] = at[u]
        /\ at'[t] \in {"queued", "done", "lookup", "write"}
    BY <1>13 DEF rebuild_fetch, Return
  <2>2. HandlerSync(d)
    BY <2>1
  <2>3. CASE d = t
    BY <2>1, <2>3
  <2>4. CASE d # t
    BY <2>1, <2>2, <2>4
  <2> QED
    BY <2>3, <2>4
<1>14. ASSUME NEW t \in Task, rebuild_write(t) PROVE HandlersSynced'
  <2> SUFFICES ASSUME ~ raced', NEW d \in Element PROVE HandlerSync(d)'
    OBVIOUS
  <2>1. at[t] = "write" /\ at'[t] \in {"queued", "done", "lookup"}
        /\ (\A u \in Task \ {t} : at'[u] = at[u]) /\ UNCHANGED <<elements, seen, snapshot>>
        /\ exists' = exists
    BY <1>14 DEF rebuild_write, Return, UpdateRow
  <2>2. CASE t \in Reader
    <3>1. Calm
      BY <2>1, <2>2, <1>14 DEF rebuild_write, Overlap, ReaderSync
    <3> QED
      BY <2>1, <2>2, <3>1
  <2>3. CASE t \in Element
    BY <2>1, <2>3
  <2>4. CASE t \in Forget
    BY <2>1, <2>4
  <2> QED
    BY <2>2, <2>3, <2>4
<1>15. ASSUME backfill_rebuild PROVE HandlersSynced'
  BY <1>15 DEF backfill_rebuild
<1>16. ASSUME UNCHANGED vars PROVE HandlersSynced'
  BY <1>16 DEF vars
<1> QED
  BY <1>1, <1>2, <1>3, <1>4, <1>5, <1>6, <1>7, <1>8, <1>9, <1>10, <1>11, <1>12, <1>13, <1>14, <1>15, <1>16
     DEF Next, Handler, Cascade

\* When no writer is at work the row shows the elements.
LEMMA SyncedNext ==
    ASSUME DistinctTimes, OneForget, Security, TypeInv, TypeInv', RowInv, RowInv',
           MergeInv, [Next]_vars
    PROVE  RowSynced'
<1> USE ConstantsAssumption DEF TypeInv, TypeOK, Task, Goto, rowVars, locals,
    StepsOfKind, ElementSteps, ForgetSteps, ReaderSteps, Idle,
    RowInv, Alone, StoredOnceStarted, DeleteIsSeen, RowInStep, MergeInv, Calm,
    RowSynced, HandlersSynced, ForgetsSynced, ReadersSynced, HandlerSync, ForgetSync, ReaderSync, Synced, Merged
<1>1. ASSUME NEW e \in Element, insert_element(e) PROVE RowSynced'
  BY <1>1 DEF insert_element, MayStart, Overlap
<1>2. ASSUME NEW e \in Element, optimistic_insert(e) PROVE RowSynced'
  <2> SUFFICES ASSUME ~ raced', Calm' PROVE Synced(elements)'
    OBVIOUS
  <2>1. CASE exists
    BY <1>2, <2>1 DEF optimistic_insert
  <2>2. CASE ~ exists
    <3>1. /\ elements = {e} /\ elements' = elements
          /\ content' = deep_merge(Empty, e) /\ time' = Time[e]
      BY <1>2, <2>2 DEF optimistic_insert, Overlap
    <3> QED
      BY <3>1, MergeOfFirst
  <2> QED
    BY <2>1, <2>2
<1>3. ASSUME NEW e \in Element, read_existing(e) PROVE RowSynced'
  BY <1>3 DEF read_existing, Return
<1>4. ASSUME NEW e \in Element, merge_update(e) PROVE RowSynced'
  <2> SUFFICES ASSUME ~ raced', Calm' PROVE Synced(elements)'
    OBVIOUS
  <2>1. /\ e \in elements /\ seen[e] = MergeOf(elements \ {e})
        /\ \A d \in elements : Time[d] <= Time[e]
        /\ elements' = elements
    BY <1>4 DEF merge_update, Overlap
  <2>2. deep_merge(seen[e], e) = MergeOf(elements)
    <3>1. elements \in SUBSET Element
      OBVIOUS
    <3> HIDE DEF TypeInv, RowInv, MergeInv
    <3> QED
      BY <2>1, <3>1, MergeOnTop
  <2>3. exists' => content' = MergeOf(elements) /\ time' = Time[e]
    BY <1>4, <2>2 DEF merge_update, UpdateRow
  <2> QED
    BY <2>1, <2>3
<1>5. ASSUME NEW e \in Element, count_elements(e) PROVE RowSynced'
  BY <1>5 DEF count_elements
<1>6. ASSUME NEW e \in Element, mark_dirty(e) PROVE RowSynced'
  BY <1>6 DEF mark_dirty, Overlap, Return
<1>7. ASSUME NEW f \in Forget, forget_start(f) PROVE RowSynced'
  BY <1>7 DEF forget_start
<1>8. ASSUME NEW f \in Forget, NEW e \in Element, forget_lookup(f, e) PROVE RowSynced'
  BY <1>8 DEF forget_lookup
<1>9. ASSUME NEW f \in Forget, forget_delete(f) PROVE RowSynced'
  <2> SUFFICES ASSUME ~ raced', Calm' PROVE Synced(elements)'
    OBVIOUS
  <2>1. /\ at[f] = "delete" /\ ~ raced /\ elements' = elements \ victim[f]
        /\ at' = [at EXCEPT ![f] = at'[f]] /\ UNCHANGED <<exists, content, time, dirty>>
        /\ at'[f] # "remaining" => snapshot[f] = {}
    BY <1>9 DEF forget_delete, Overlap, Return
  <2>2. snapshot[f] = {} /\ elements' = elements
    <3>1. at'[f] # "remaining"
      BY ONLY Calm' DEF Calm
    <3>2. ForgetSync(f)
      BY <2>1
    <3>3. snapshot[f] = elements \cap victim[f]
      BY ONLY <2>1, <3>2 DEF ForgetSync
    <3> QED  BY ONLY <2>1, <3>1, <3>3
  <2>3. Calm
    <3>1. \A e \in Element : at'[e] = at[e]
      BY <2>1
    <3>2. \A g \in Forget : g # f => at'[g] = at[g]
      BY <2>1
    <3> QED  BY ONLY Calm', <2>1, <3>1, <3>2 DEF Calm, Idle
  <2> QED
    BY <2>1, <2>2, <2>3
<1>10. ASSUME NEW f \in Forget, forget_remaining(f) PROVE RowSynced'
  BY <1>10 DEF forget_remaining
<1>11. ASSUME NEW f \in Forget, forget_drop(f) PROVE RowSynced'
  BY <1>11 DEF forget_drop, Overlap, Return
<1>12. ASSUME NEW r \in Reader, lazy_refresh(r) PROVE RowSynced'
  BY <1>12 DEF lazy_refresh
<1>13. ASSUME NEW t \in Task, rebuild_fetch(t) PROVE RowSynced'
  BY <1>13 DEF rebuild_fetch, Return
<1>14. ASSUME NEW t \in Task, rebuild_write(t) PROVE RowSynced'
  <2> SUFFICES ASSUME ~ raced', Calm' PROVE Synced(elements)'
    OBVIOUS
  <2>1. snapshot[t] = elements /\ elements # {} /\ elements' = elements
    <3>1. at[t] = "write" /\ ~ raced /\ elements' = elements
      BY <1>14 DEF rebuild_write, Overlap
    <3>2. CASE t \in Element
      BY <3>1, <3>2
    <3>3. CASE t \in Forget
      BY <3>1, <3>3
    <3>4. CASE t \in Reader
      BY <3>1, <3>4
    <3> QED
      BY <3>1, <3>2, <3>3, <3>4
  <2>2. LatestTime(elements) \in Nat /\ \A d \in elements : Time[d] <= LatestTime(elements)
    BY <2>1, LatestTimeIsTime
  <2>3. exists' => content' = MergeOf(elements) /\ time' = LatestTime(elements)
    BY <1>14, <2>1 DEF rebuild_write, UpdateRow
  <2> QED
    BY <2>1, <2>2, <2>3
<1>15. ASSUME backfill_rebuild PROVE RowSynced'
  BY <1>15 DEF backfill_rebuild
<1>16. ASSUME UNCHANGED vars PROVE RowSynced'
  BY <1>16 DEF vars
<1> QED
  BY <1>1, <1>2, <1>3, <1>4, <1>5, <1>6, <1>7, <1>8, <1>9, <1>10, <1>11, <1>12, <1>13, <1>14, <1>15, <1>16
     DEF Next, Handler, Cascade

\* The invariant is inductive.
LEMMA MergeNext ==
    ASSUME DistinctTimes, OneForget, Security, TypeInv, TypeInv', RowInv, RowInv', MergeInv,
           [Next]_vars
    PROVE  MergeInv'
BY SyncedNext, HandlerNext, ForgetNext, ReaderNext DEF MergeInv

\* MergedOrDirty: between batches, the row of a security aggregate shows its elements in
\* chronological order, or is dirty, unless a refresh by the API overlapped a writer.
THEOREM SecurityMergedOrDirty ==
    ASSUME DistinctTimes, OneForget, Security
    PROVE  Spec => []MergedOrDirty
<1>1. TypeInv /\ RowInv /\ MergeInv => MergedOrDirty
  BY DEF RowInv, StepsOfKind, ForgetSteps, MergeInv, RowSynced, Calm, Synced, Merged, MergedOrDirty,
         Quiet, Idle, Task
<1>2. TypeInv /\ RowInv /\ MergeInv /\ [Next]_vars => TypeInv' /\ RowInv' /\ MergeInv'
  <2> SUFFICES ASSUME TypeInv, RowInv, MergeInv, [Next]_vars PROVE TypeInv' /\ RowInv' /\ MergeInv'
    OBVIOUS
  <2>1. TypeInv'
    BY TypeNext
  <2>2. RowInv'
    BY <2>1, RowNext
  <2> QED
    BY <2>1, <2>2, MergeNext
<1> QED
  BY <1>1, <1>2, TypeInit, RowInit, MergeInit, PTL DEF Spec

(***************************************************************************)
(* The time of the row.  Times may be equal here, and FORGETs many: the    *)
(* claim ends where the first of them starts.                              *)
(***************************************************************************)

NothingForgotten == \A f \in Forget : at[f] = "queued"

\* The row is no newer than its elements, nor than what is about to be written to it.
Timely ==
    /\ exists => \E d \in elements : time <= Time[d]
    /\ \A r \in Reader : ~ Idle(r) => \A e \in Element : Idle(e)
    /\ \A t \in Task : at[t] = "write" =>
          /\ snapshot[t] \subseteq elements
          /\ exists => \E d \in snapshot[t] : time <= Time[d]
    /\ \A e \in Element : at[e] = "merge" => exists /\ time <= Time[e]

ClockInv == ~ raced /\ NothingForgotten => Timely

\* What a step does to the time, as long as nothing is forgotten or overlaps.
TimeAdvances == exists /\ exists' => time <= time'

\* What started does not go back to the queue, and an overlap stays on record.
LEMMA HistoryStays ==
    ASSUME TypeInv, StepsOfKind, [Next]_vars
    PROVE  ~ raced' /\ NothingForgotten' => ~ raced /\ NothingForgotten
<1> USE ConstantsAssumption DEF TypeInv, TypeOK, Task, Goto, Return, Overlap, NothingForgotten,
    StepsOfKind, ForgetSteps, ElementSteps, ReaderSteps
<1>1. ASSUME NEW e \in Element, Handler(e) PROVE ~ raced' /\ NothingForgotten' => ~ raced /\ NothingForgotten
  <2>1. \A f \in Forget : at'[f] = at[f]
    BY <1>1 DEF Handler, insert_element, optimistic_insert, read_existing, merge_update,
                count_elements, mark_dirty
  <2>2. raced => raced'
    BY <1>1 DEF Handler, insert_element, optimistic_insert, read_existing, merge_update,
                count_elements, mark_dirty
  <2> QED  BY <2>1, <2>2
<1>2. ASSUME NEW f \in Forget, Cascade(f) PROVE ~ NothingForgotten'
  <2>1. CASE forget_start(f) \/ forget_remaining(f) \/ \E e \in Element : forget_lookup(f, e)
    BY <2>1 DEF forget_start, forget_remaining, forget_lookup
  <2>2. CASE forget_delete(f)
    BY <2>2 DEF forget_delete
  <2>3. CASE forget_drop(f)
    BY <2>3 DEF forget_drop
  <2> QED  BY <1>2, <2>1, <2>2, <2>3 DEF Cascade
<1>3. ASSUME NEW r \in Reader, lazy_refresh(r) PROVE ~ raced' /\ NothingForgotten' => ~ raced /\ NothingForgotten
  BY <1>3 DEF lazy_refresh
<1>4. ASSUME NEW t \in Task, rebuild_fetch(t) \/ rebuild_write(t)
      PROVE  ~ raced' /\ NothingForgotten' => ~ raced /\ NothingForgotten
  <2>1. raced => raced'
    BY <1>4 DEF rebuild_fetch, rebuild_write
  <2>2. at[t] \in {"fetch", "write"} /\ \E w \in {"done", "lookup", "queued", "write"} : Goto(t, w)
    BY <1>4 DEF rebuild_fetch, rebuild_write
  <2>3. t \in Forget => at'[t] # "queued"
    BY <1>4 DEF rebuild_fetch, rebuild_write
  <2> QED  BY <2>1, <2>2, <2>3
<1>5. ASSUME backfill_rebuild PROVE ~ raced' /\ NothingForgotten' => ~ raced /\ NothingForgotten
  BY <1>5 DEF backfill_rebuild
<1>6. ASSUME UNCHANGED vars PROVE ~ raced' /\ NothingForgotten' => ~ raced /\ NothingForgotten
  BY <1>6 DEF vars
<1> QED  BY <1>1, <1>2, <1>3, <1>4, <1>5, <1>6 DEF Next

\* Every step keeps the row timely, and its time from going back.
LEMMA ClockNext ==
    ASSUME Security, TypeInv, RowInv, RowInv', ClockInv, [Next]_vars
    PROVE  ClockInv' /\ (~ raced' /\ NothingForgotten' => TimeAdvances)
<1> SUFFICES ASSUME ~ raced', NothingForgotten' PROVE Timely' /\ TimeAdvances
  BY DEF ClockInv
<1>0. ~ raced /\ NothingForgotten /\ Timely
  <2>1. ~ raced /\ NothingForgotten
    BY HistoryStays DEF RowInv
  <2> QED  BY <2>1 DEF ClockInv
<1> USE <1>0, ConstantsAssumption DEF TypeInv, TypeOK, Task, Goto, rowVars, locals,
    RowInv, StepsOfKind, ElementSteps, ReaderSteps, Idle, Alone, StoredOnceStarted, NothingForgotten,
    Timely, TimeAdvances
<1>1. ASSUME NEW e \in Element, insert_element(e) PROVE Timely' /\ TimeAdvances
  <2>1. /\ at' = [at EXCEPT ![e] = "insert"] /\ at[e] = "queued"
        /\ elements' = elements \cup {e} /\ UNCHANGED <<exists, time, snapshot>>
        /\ \A r \in Reader \ {e} : Idle(r)
    BY <1>1 DEF insert_element, Overlap
  <2> QED  BY <2>1
<1>2. ASSUME NEW e \in Element, optimistic_insert(e) PROVE Timely' /\ TimeAdvances
  <2>1. /\ at[e] = "insert" /\ e \in elements /\ elements' = elements /\ snapshot' = snapshot
        /\ \A t \in Task \ {e} : at'[t] = at[t] /\ at[t] # "write" /\ at[t] # "merge"
        /\ \A r \in Reader : Idle(r)
    BY <1>2 DEF optimistic_insert, Overlap, Return
  <2>2. at'[e] \in {"read", "done"} /\ (exists => UNCHANGED <<exists, time>>)
        /\ (~ exists => time' = Time[e])
    BY <1>2 DEF optimistic_insert, Return
  <2> QED  BY <2>1, <2>2
<1>3. ASSUME NEW e \in Element, read_existing(e) PROVE Timely' /\ TimeAdvances
  <2>1. /\ UNCHANGED <<elements, exists, time, snapshot>>
        /\ \A t \in Task \ {e} : at'[t] = at[t]
        /\ at[e] = "read" /\ at'[e] \in {"done", "merge", "count"}
        /\ at'[e] = "merge" => exists /\ Time[e] >= time
    BY <1>3 DEF read_existing, Return
  <2> QED  BY <2>1
<1>4. ASSUME NEW e \in Element, merge_update(e) PROVE Timely' /\ TimeAdvances
  <2>1. /\ at[e] = "merge" /\ e \in elements /\ elements' = elements /\ snapshot' = snapshot
        /\ exists /\ exists' /\ time' = Time[e]
        /\ at'[e] = "done"
        /\ \A t \in Task \ {e} : at'[t] = at[t] /\ at[t] # "write" /\ at[t] # "merge"
    BY <1>4 DEF merge_update, UpdateRow, Overlap, Return
  <2> QED  BY <2>1
<1>5. ASSUME NEW e \in Element, count_elements(e) PROVE Timely' /\ TimeAdvances
  BY <1>5 DEF count_elements
<1>6. ASSUME NEW e \in Element, mark_dirty(e) PROVE Timely' /\ TimeAdvances
  BY <1>6 DEF mark_dirty, Overlap, Return
<1>7. ASSUME NEW f \in Forget, Cascade(f) PROVE Timely' /\ TimeAdvances
  <2>1. forget_start(f)
    BY <1>7 DEF Cascade, forget_start, forget_lookup, forget_delete, forget_remaining, forget_drop
  <2> QED  BY <2>1 DEF forget_start
<1>8. ASSUME NEW r \in Reader, lazy_refresh(r) PROVE Timely' /\ TimeAdvances
  <2>1. /\ at' = [at EXCEPT ![r] = "fetch"] /\ UNCHANGED <<elements, exists, time, snapshot>>
        /\ \A e \in Element : Idle(e)
    BY <1>8 DEF lazy_refresh
  <2> QED  BY <2>1
<1>9. ASSUME NEW t \in Task, rebuild_fetch(t) PROVE Timely' /\ TimeAdvances
  <2>1. /\ at[t] = "fetch" /\ snapshot' = [snapshot EXCEPT ![t] = elements]
        /\ UNCHANGED <<elements, exists, time>>
        /\ \A u \in Task \ {t} : at'[u] = at[u]
        /\ at'[t] \in {"queued", "done", "write"}
    <3>1. t \notin Forget
      BY <1>9 DEF rebuild_fetch
    <3> QED  BY <1>9, <3>1 DEF rebuild_fetch, Return
  <2> QED  BY <2>1
<1>10. ASSUME NEW t \in Task, rebuild_write(t) PROVE Timely' /\ TimeAdvances
  <2>1. /\ at[t] = "write" /\ t \notin Forget /\ elements' = elements /\ snapshot' = snapshot
        /\ exists' = exists
        /\ \A u \in Task \ {t} : at'[u] = at[u] /\ at[u] # "write" /\ at[u] # "merge"
        /\ at'[t] \in {"queued", "done"}
    <3>1. at[t] = "write" /\ t \notin Forget
      BY <1>10 DEF rebuild_write
    <3>2. \A r \in Reader \ {t} : Idle(r)
      BY <1>10 DEF rebuild_write, Overlap
    <3>3. \A e \in Element \ {t} : Idle(e)
      BY <3>1
    <3> QED  BY <1>10, <3>1, <3>2, <3>3 DEF rebuild_write, UpdateRow, Return
  <2>2. exists => /\ time' = LatestTime(snapshot[t])
                  /\ \E d \in snapshot[t] : time <= Time[d]
                  /\ snapshot[t] # {} /\ snapshot[t] \subseteq elements
    BY <1>10, <2>1 DEF rebuild_write, UpdateRow
  <2>3. exists => \E d \in snapshot[t] : time' = Time[d] /\ \A c \in snapshot[t] : Time[c] <= time'
    <3> SUFFICES ASSUME exists PROVE \E d \in snapshot[t] : time' = Time[d] /\ \A c \in snapshot[t] : Time[c] <= time'
      OBVIOUS
    <3>1. PICK m \in snapshot[t] : \A d \in snapshot[t] : Time[d] <= Time[m]
      BY <2>2, LatestAssumption
    <3>2. /\ LatestTime(snapshot[t]) \in {Time[e] : e \in snapshot[t]}
          /\ \A e \in snapshot[t] : Time[e] <= LatestTime(snapshot[t])
      BY ONLY <3>1 DEF LatestTime
    <3> QED  BY <2>2, <3>2
  <2>4. exists => time <= time'
    BY <2>2, <2>3
  <2>5. exists' => \E d \in elements' : time' <= Time[d]
    BY <2>1, <2>2, <2>3
  <2> QED  BY <2>1, <2>4, <2>5
<1>11. ASSUME backfill_rebuild PROVE Timely' /\ TimeAdvances
  <2>1. UNCHANGED <<elements, at, snapshot>> /\ (exists => UNCHANGED <<exists, time>>)
        /\ (~ exists => \A e \in elements : time' <= Time[e]) /\ elements # {}
    BY <1>11 DEF backfill_rebuild
  <2>2. CASE exists
    BY <2>1, <2>2
  <2>3. CASE ~ exists
    <3>1. (\A d \in elements' : time' <= Time[d]) /\ elements' # {}
      BY <2>1, <2>3
    <3>2. ASSUME NEW u \in Task, at'[u] = "write"
          PROVE  snapshot'[u] \subseteq elements' /\ \E d \in snapshot'[u] : time' <= Time[d]
      <4>1. snapshot'[u] \subseteq elements' /\ snapshot'[u] # {}
        BY <2>1, <3>2 DEF WritesSomething
      <4> QED  BY <3>1, <4>1
    <3>3. \A e \in Element : at'[e] # "merge"
      BY <2>1, <2>3
    <3>4. \A r \in Reader : ~ Idle(r)' => \A e \in Element : Idle(e)'
      BY <2>1
    <3> QED  BY <2>3, <3>1, <3>2, <3>3, <3>4
  <2> QED  BY <2>2, <2>3
<1>12. ASSUME UNCHANGED vars PROVE Timely' /\ TimeAdvances
  BY <1>12 DEF vars
<1> QED
  BY <1>1, <1>2, <1>3, <1>4, <1>5, <1>6, <1>7, <1>8, <1>9, <1>10, <1>11, <1>12 DEF Next, Handler

\* TimeNeverRegresses: the time that decides which element of a security aggregate is out
\* of order never goes back before the first FORGET, whatever is merged, rebuilt, refreshed
\* or backfilled, unless a refresh by the API overlapped a writer.
THEOREM SecurityTimeAdvances == ASSUME Security PROVE Spec => TimeNeverRegresses
<1>1. Init => ClockInv
  BY DEF Init, ClockInv, Timely, Idle, Task
<1>2. TypeInv /\ RowInv /\ ClockInv /\ [Next]_vars =>
          /\ TypeInv' /\ RowInv' /\ ClockInv'
          /\ [exists /\ exists' /\ ~ raced' /\ (\A f \in Forget : at[f] = "queued" /\ at'[f] = "queued")
                => time <= time']_vars
  <2> SUFFICES ASSUME TypeInv, RowInv, ClockInv, [Next]_vars
               PROVE  /\ TypeInv' /\ RowInv' /\ ClockInv'
                      /\ ~ raced' /\ NothingForgotten' => TimeAdvances
    BY DEF NothingForgotten, TimeAdvances
  <2>1. TypeInv'
    BY TypeNext
  <2>2. RowInv'
    BY <2>1, RowNext
  <2> QED
    BY <2>1, <2>2, ClockNext
<1> QED
  BY <1>1, <1>2, TypeInit, RowInit, PTL DEF Spec, TimeNeverRegresses

=============================================================================
