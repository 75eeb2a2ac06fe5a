----------------------------- MODULE FilePinsProofs -----------------------------
(***************************************************************************)
(* What FilePins promises of files, for any STOREs, files, owners and      *)
(* faults, whatever the collector and the FORGETs do in between.           *)
(***************************************************************************)
EXTENDS FilePins, TLAPS

\* Somebody forgot a STORE of the file.
Given(f) == \E n \in Store \cap forgotten : File[n] = f

(***************************************************************************)
(* The strengthening of FileOutlivesStore.                                 *)
(***************************************************************************)

\* A FORGET has marked before it touches anything else.
MarkedFirst == \A m \in Store : fg[m] \notin {"out", "mark"} => m \in forgotten

\* A grace period begins only with a FORGET of the file it is for,
GraceIsGiven == \A r \in Row : kind[r] = "grace_period" => Given(r[1])

\* and step 6 of the collector works only on files that had one.
VictimIsGiven ==
    gc \in {"expired", "keep", "pins", "files", "tags"} =>
        /\ \A r \in todo : Given(r[1])
        /\ gc # "expired" => \A r \in victim : Given(r[1])

\* The row of files is there from the first statement of the handler on.
KeptFrom ==
    \A m \in Store :
        at[m] \in {"pin", "tag", "cost", "again", "record"} \/ m \in messages =>
            File[m] \in files \/ Given(File[m])

OutliveInv == MarkedFirst /\ GraceIsGiven /\ VictimIsGiven /\ KeptFrom

(***************************************************************************)
(* Types                                                                   *)
(***************************************************************************)

\* Rows of pins keep their type through any DELETE,
LEMMA DeleteTyped ==
    ASSUME TypeOK, NEW S, DeletePins(S)
    PROVE  /\ kind' \in [Row -> {"none", "message", "grace_period"}]
           /\ by' \in [Row -> SUBSET Store]
           /\ old' \subseteq Row /\ lapsed' \subseteq Row
BY DEF TypeOK, DeletePins

\* and any INSERT.
LEMMA PutTyped ==
    ASSUME TypeOK, NEW r \in Row, NEW k \in {"message", "grace_period"}, NEW b \in SUBSET Store,
           PutPin(r, k, b)
    PROVE  /\ kind' \in [Row -> {"none", "message", "grace_period"}]
           /\ by' \in [Row -> SUBSET Store]
           /\ old' \subseteq Row /\ lapsed' \subseteq Row
BY DEF TypeOK, PutPin

\* The rows of a STORE and of its FORGET are rows of its file.
LEMMA RowTyped ==
    ASSUME NEW m \in Store
    PROVE  /\ RowOf(m) \in Row /\ RowOf(m)[1] = File[m]
           /\ GraceRow(m) \in Row /\ GraceRow(m)[1] = File[m]
BY ConstantsAssumption DEF RowOf, GraceRow, Row

\* The collector selects rows.
LEMMA SelectTyped ==
    ASSUME NEW S, S \subseteq Row, SelectRows(S)
    PROVE  todo' \subseteq S /\ todo' \subseteq Row
BY DEF SelectRows

LEMMA TypeInit == Init => TypeOK
BY ConstantsAssumption DEF Init, TypeOK

\* Every statement of the STORE handler keeps the types,
LEMMA TypeStore == ASSUME TypeOK, NEW m \in Store, store_start(m) \/ StoreStep(m) PROVE TypeOK'
<1> USE DEF pinVars, gcVars, taskVars, rowVars, histVars, Goto
<1>1. CASE store_start(m)
  BY <1>1, ConstantsAssumption DEF store_start, TypeOK
<1>2. CASE upsert_file(m)
  BY <1>2, ConstantsAssumption DEF upsert_file, TypeOK
<1>3. CASE insert_file_pin_typed(m)
  <2>1. CASE UNCHANGED pinVars
    BY <1>3, <2>1 DEF insert_file_pin_typed, TypeOK
  <2>2. CASE PutPin(RowOf(m), "message", {m})
    <3>1. /\ kind' \in [Row -> {"none", "message", "grace_period"}]
          /\ by' \in [Row -> SUBSET Store]
          /\ old' \subseteq Row /\ lapsed' \subseteq Row
      BY <2>2, PutTyped, RowTyped
    <3>. QED
      BY <1>3, <3>1 DEF insert_file_pin_typed, TypeOK
  <2>. QED
    BY <1>3, <2>1, <2>2 DEF insert_file_pin_typed
<1>4. CASE upsert_file_tag(m)
  <2>1. {File[m]} \in SUBSET Files
    BY ConstantsAssumption
  <2>2. shows' \in [Tags -> SUBSET Files]
    BY <1>4, <2>1 DEF upsert_file_tag, TypeOK
  <2>3. at' \in [Store -> {"out", "file", "pin", "tag", "cost", "again", "record", "refused"}]
    BY <1>4 DEF upsert_file_tag, TypeOK
  <2>. QED
    BY <1>4, <2>2, <2>3 DEF upsert_file_tag, TypeOK
<1>5. CASE store_account_costs(m)
  BY <1>5 DEF store_account_costs, TypeOK
<1>6. CASE store_raw_pin(m)
  <2>1. CASE PutPin(RowOf(m), "message", {m})
    <3>1. /\ kind' \in [Row -> {"none", "message", "grace_period"}]
          /\ by' \in [Row -> SUBSET Store]
          /\ old' \subseteq Row /\ lapsed' \subseteq Row
      BY <2>1, PutTyped, RowTyped
    <3>. QED
      BY <1>6, <3>1 DEF store_raw_pin, TypeOK
  <2>2. CASE by' = [by EXCEPT ![RowOf(m)] = {m}] /\ UNCHANGED <<kind, old, lapsed>>
    BY <1>6, <2>2 DEF store_raw_pin, TypeOK
  <2>. QED
    BY <1>6, <2>1, <2>2 DEF store_raw_pin
<1>7. CASE store_record(m)
  BY <1>7 DEF store_record, TypeOK
<1>. QED
  BY <1>1, <1>2, <1>3, <1>4, <1>5, <1>6, <1>7 DEF StoreStep

\* and of FORGET, or the end of either by an error.
LEMMA TypeForget ==
    ASSUME TypeOK, NEW m \in Store, forget_validate(m) \/ ForgetStep(m) \/ task_error(m)
    PROVE  TypeOK'
<1> USE DEF pinVars, gcVars, taskVars, rowVars, histVars, Goto, GotoF
<1>1. CASE forget_validate(m)
  BY <1>1 DEF forget_validate, TypeOK
<1>2. CASE mark_forgotten(m)
  BY <1>2 DEF mark_forgotten, TypeOK
<1>3. CASE delete_file_pin_by_message(m)
  BY <1>3, DeleteTyped DEF delete_file_pin_by_message, TypeOK
<1>4. CASE refresh_select(m)
  <2>1. PICK F \in SUBSET Files : next' = [next EXCEPT ![m] = F]
    <3>1. CASE next' = [next EXCEPT ![m] = {}]
      BY <3>1
    <3>2. ASSUME NEW n, next' = [next EXCEPT ![m] = {r[1] : r \in {s \in Row : n \in by[s]}}]
          PROVE \E F \in SUBSET Files : next' = [next EXCEPT ![m] = F]
      <4>1. {r[1] : r \in {s \in Row : n \in by[s]}} \subseteq Files
        BY DEF Row
      <4>. QED
        BY <3>2, <4>1
    <3>. QED
      BY <1>4, <3>1, <3>2 DEF refresh_select
  <2>. QED
    BY <1>4, <2>1 DEF refresh_select, TypeOK
<1>5. CASE refresh_file_tag(m)
  BY <1>5 DEF refresh_file_tag, TypeOK
<1>6. CASE count_active_pins(m)
  BY <1>6 DEF count_active_pins, TypeOK
<1>7. CASE insert_grace_period_pin(m)
  <2>1. CASE UNCHANGED pinVars
    BY <1>7, <2>1, ConstantsAssumption DEF insert_grace_period_pin, TypeOK
  <2>2. CASE PutPin(GraceRow(m), "grace_period", by[GraceRow(m)])
    <3>1. by[GraceRow(m)] \in SUBSET Store
      BY RowTyped DEF TypeOK
    <3>2. /\ kind' \in [Row -> {"none", "message", "grace_period"}]
          /\ by' \in [Row -> SUBSET Store]
          /\ old' \subseteq Row /\ lapsed' \subseteq Row
      BY <2>2, <3>1, PutTyped, RowTyped
    <3>. QED
      BY <1>7, <3>2, ConstantsAssumption DEF insert_grace_period_pin, TypeOK
  <2>. QED
    BY <1>7, <2>1, <2>2 DEF insert_grace_period_pin
<1>8. CASE delete_message(m)
  BY <1>8 DEF delete_message, TypeOK
<1>9. CASE task_error(m)
  BY <1>9, ConstantsAssumption DEF task_error, TypeOK
<1>. QED
  BY <1>1, <1>2, <1>3, <1>4, <1>5, <1>6, <1>7, <1>8, <1>9 DEF ForgetStep

\* So do the API, a FORGET of a file, and time,
LEMMA TypeFile ==
    ASSUME TypeOK, NEW f \in Files, upload_file(f) \/ forget_file(f) PROVE TypeOK'
<1> USE DEF pinVars, gcVars, taskVars, rowVars, histVars
<1>1. CASE upload_file(f)
  <2>1. <<f, Anonymous>> \in Row
    BY ConstantsAssumption DEF Row
  <2>2. /\ kind' \in [Row -> {"none", "message", "grace_period"}]
        /\ by' \in [Row -> SUBSET Store]
        /\ old' \subseteq Row /\ lapsed' \subseteq Row
    BY <1>1, <2>1, PutTyped DEF upload_file
  <2>. QED
    BY <1>1, <2>2 DEF upload_file, TypeOK
<1>2. CASE forget_file(f)
  BY <1>2, DeleteTyped DEF forget_file, TypeOK
<1>. QED
  BY <1>1, <1>2

LEMMA TypeTime == ASSUME TypeOK, NEW r \in Row, age(r) \/ lapse(r) PROVE TypeOK'
BY DEF age, lapse, TypeOK, pinVars, gcVars, taskVars, histVars

\* and the collector.
LEMMA TypeGc == ASSUME TypeOK, run_gc_cycle \/ gc_error PROVE TypeOK'
<1> USE DEF pinVars, gcVars, taskVars, rowVars, histVars, OnlyGc
<1>1. CASE find_orphaned_files
  <2>1. todo' \subseteq Row
    BY <1>1, SelectTyped DEF find_orphaned_files, TypeOK
  <2>. QED
    BY <1>1, <2>1 DEF find_orphaned_files, TypeOK
<1>2. CASE remove_file
  <2>1. {v[1] : v \in victim} \subseteq Files
    BY DEF TypeOK, Row
  <2>. QED
    BY <1>2, <2>1, DeleteTyped DEF remove_file, TypeOK
<1>3. CASE find_orphaned_pins
  <2>1. todo' \subseteq Row
    BY <1>3, SelectTyped DEF find_orphaned_pins
  <2>. QED
    BY <1>3, <2>1 DEF find_orphaned_pins, TypeOK
<1>4. CASE find_expired_grace_pins
  <2>1. todo' \subseteq Row
    BY <1>4, SelectTyped DEF find_expired_grace_pins, ExpiredPins, TypeOK
  <2>. QED
    BY <1>4, <2>1 DEF find_expired_grace_pins, TypeOK
<1>5. ASSUME NEW r \in Row, still_orphaned(r) \/ count_active(r) PROVE TypeOK'
  BY <1>5 DEF still_orphaned, count_active, TypeOK
<1>6. ASSUME NEW r \in Row, clean_orphaned_pin(r) PROVE TypeOK'
  <2>1. r[1] \in Files
    BY DEF Row
  <2>. QED
    BY <1>6, <2>1, DeleteTyped DEF clean_orphaned_pin, TypeOK
<1>7. CASE keep_file
  BY <1>7, DeleteTyped DEF keep_file, TypeOK
<1>8. CASE drop_pins
  <2>1. {v[1] : v \in victim} \subseteq Files
    BY DEF TypeOK, Row
  <2>. QED
    BY <1>8, <2>1, DeleteTyped DEF drop_pins, TypeOK
<1>9. CASE drop_file
  BY <1>9 DEF drop_file, TypeOK
<1>10. CASE drop_tags
  BY <1>10 DEF drop_tags, TypeOK
<1>11. CASE gc_cycle_ends
  BY <1>11 DEF gc_cycle_ends, TypeOK
<1>12. CASE gc_error
  BY <1>12, ConstantsAssumption DEF gc_error, TypeOK
<1>. QED
  BY <1>1, <1>2, <1>3, <1>4, <1>5, <1>6, <1>7, <1>8, <1>9, <1>10, <1>11, <1>12 DEF run_gc_cycle

LEMMA TypeNext == TypeOK /\ [Next]_vars => TypeOK'
<1> SUFFICES ASSUME TypeOK, [Next]_vars PROVE TypeOK'
  OBVIOUS
<1>1. CASE UNCHANGED vars
  BY <1>1 DEF vars, pinVars, gcVars, taskVars, rowVars, histVars, TypeOK
<1>. QED
  BY <1>1, TypeStore, TypeForget, TypeFile, TypeTime, TypeGc DEF Next

\* The variables keep their types, though rows of pins are written by five actors.
THEOREM TypeCorrect == Spec => []TypeOK
BY TypeInit, TypeNext, PTL DEF Spec

(***************************************************************************)
(* A stored file outlives its STORE                                        *)
(***************************************************************************)

LEMMA OutliveInit == Init => OutliveInv
BY ConstantsAssumption DEF Init, OutliveInv, MarkedFirst, GraceIsGiven, VictimIsGiven, KeptFrom

\* Nothing takes a mark back.
LEMMA GivenStays == ASSUME NEW f, forgotten \subseteq forgotten', Given(f) PROVE Given(f)'
BY DEF Given

\* A step that only adds to forgotten, makes no grace period, takes no file, and moves
\* neither a task nor the collector where it has to answer for one, keeps the invariant.
LEMMA QuietStep ==
    ASSUME OutliveInv,
           forgotten \subseteq forgotten',
           files \subseteq files',
           \A m \in Store : fg'[m] \notin {"out", "mark"} =>
               fg[m] \notin {"out", "mark"} \/ m \in forgotten',
           \A r \in Row : kind'[r] = "grace_period" => kind[r] = "grace_period",
           UNCHANGED gcVars,
           \A m \in Store :
               at'[m] \in {"pin", "tag", "cost", "again", "record"} \/ m \in messages' =>
                   \/ at[m] \in {"pin", "tag", "cost", "again", "record"} \/ m \in messages
                   \/ File[m] \in files'
    PROVE  OutliveInv'
<1>1. MarkedFirst'
  BY DEF OutliveInv, MarkedFirst
<1>2. GraceIsGiven'
  BY GivenStays DEF OutliveInv, GraceIsGiven
<1>3. VictimIsGiven'
  BY GivenStays DEF OutliveInv, VictimIsGiven, gcVars
<1>4. KeptFrom'
  BY GivenStays DEF OutliveInv, KeptFrom
<1>. QED
  BY <1>1, <1>2, <1>3, <1>4 DEF OutliveInv

\* No DELETE makes a grace period.
LEMMA DeleteQuiet ==
    ASSUME NEW S, DeletePins(S)
    PROVE  \A r \in Row : kind'[r] = "grace_period" => kind[r] = "grace_period"
BY DEF DeletePins

\* What a statement of the STORE handler leaves behind is the file it began with.
LEMMA OutliveStore ==
    ASSUME TypeOK, OutliveInv, NEW m \in Store, store_start(m) \/ StoreStep(m)
    PROVE  OutliveInv'
<1> USE DEF TypeOK, pinVars, gcVars, taskVars, rowVars, histVars, Goto
<1>1. CASE store_start(m)
  BY <1>1, QuietStep DEF store_start
<1>2. CASE upsert_file(m)
  BY <1>2, QuietStep DEF upsert_file
<1>3. CASE insert_file_pin_typed(m)
  BY <1>3, QuietStep DEF insert_file_pin_typed, PutPin
<1>4. CASE upsert_file_tag(m)
  BY <1>4, QuietStep DEF upsert_file_tag
<1>5. CASE store_account_costs(m)
  BY <1>5, QuietStep DEF store_account_costs
<1>6. CASE store_raw_pin(m)
  BY <1>6, QuietStep DEF store_raw_pin, PutPin
<1>7. CASE store_record(m)
  BY <1>7, QuietStep DEF store_record
<1>. QED
  BY <1>1, <1>2, <1>3, <1>4, <1>5, <1>6, <1>7 DEF StoreStep

\* A FORGET marks, and only then makes a grace period.
LEMMA OutliveForget ==
    ASSUME TypeOK, OutliveInv, NEW m \in Store,
           forget_validate(m) \/ ForgetStep(m) \/ task_error(m)
    PROVE  OutliveInv'
<1> USE DEF TypeOK, pinVars, gcVars, taskVars, rowVars, histVars, Goto, GotoF
<1>1. CASE forget_validate(m)
  BY <1>1, QuietStep DEF forget_validate
<1>2. CASE mark_forgotten(m)
  BY <1>2, QuietStep DEF mark_forgotten
<1>3. CASE delete_file_pin_by_message(m)
  BY <1>3, QuietStep, DeleteQuiet DEF delete_file_pin_by_message
<1>4. CASE refresh_select(m)
  BY <1>4, QuietStep DEF refresh_select
<1>5. CASE refresh_file_tag(m)
  BY <1>5, QuietStep DEF refresh_file_tag
<1>6. CASE count_active_pins(m)
  BY <1>6, QuietStep DEF count_active_pins
<1>7. CASE insert_grace_period_pin(m)
  <2>1. Given(GraceRow(m)[1])
    BY <1>7, RowTyped DEF insert_grace_period_pin, OutliveInv, MarkedFirst, Given
  <2>2. GraceIsGiven'
    <3> SUFFICES ASSUME NEW r \in Row, kind'[r] = "grace_period" PROVE Given(r[1])'
      BY DEF GraceIsGiven
    <3>1. kind[r] = "grace_period" \/ r = GraceRow(m)
      BY <1>7 DEF insert_grace_period_pin, PutPin
    <3>. QED
      BY <1>7, <2>1, <3>1, GivenStays DEF insert_grace_period_pin, OutliveInv, GraceIsGiven
  <2>3. MarkedFirst'
    BY <1>7 DEF insert_grace_period_pin, OutliveInv, MarkedFirst
  <2>4. VictimIsGiven'
    BY <1>7, GivenStays DEF insert_grace_period_pin, OutliveInv, VictimIsGiven
  <2>5. KeptFrom'
    BY <1>7, GivenStays DEF insert_grace_period_pin, OutliveInv, KeptFrom
  <2>. QED
    BY <2>2, <2>3, <2>4, <2>5 DEF OutliveInv
<1>8. CASE delete_message(m)
  BY <1>8, QuietStep DEF delete_message
<1>9. CASE task_error(m)
  BY <1>9, QuietStep DEF task_error
<1>. QED
  BY <1>1, <1>2, <1>3, <1>4, <1>5, <1>6, <1>7, <1>8, <1>9 DEF ForgetStep

LEMMA OutliveFile ==
    ASSUME TypeOK, OutliveInv, NEW f \in Files, upload_file(f) \/ forget_file(f)
    PROVE  OutliveInv'
<1> USE DEF TypeOK, pinVars, gcVars, taskVars, rowVars, histVars
<1>1. CASE upload_file(f)
  BY <1>1, QuietStep DEF upload_file, PutPin
<1>2. CASE forget_file(f)
  BY <1>2, QuietStep, DeleteQuiet DEF forget_file
<1>. QED
  BY <1>1, <1>2

LEMMA OutliveTime == ASSUME OutliveInv, NEW r \in Row, age(r) \/ lapse(r) PROVE OutliveInv'
BY QuietStep DEF age, lapse, taskVars, gcVars, histVars

\* The collector deletes pins where it likes, but files only after an expired grace period.
LEMMA OutliveGc == ASSUME TypeOK, OutliveInv, run_gc_cycle \/ gc_error PROVE OutliveInv'
<1> USE DEF pinVars, gcVars, taskVars, rowVars, histVars, OnlyGc
<1>1. ASSUME UNCHANGED <<forgotten, files, messages, at, fg>>,
             \A r \in Row : kind'[r] = "grace_period" => kind[r] = "grace_period",
             VictimIsGiven'
      PROVE  OutliveInv'
  BY <1>1, GivenStays DEF OutliveInv, MarkedFirst, GraceIsGiven, KeptFrom
<1>2. CASE find_orphaned_files
  BY <1>1, <1>2 DEF find_orphaned_files, VictimIsGiven
<1>3. CASE remove_file
  BY <1>1, <1>3, DeleteQuiet DEF remove_file, VictimIsGiven
<1>4. CASE find_orphaned_pins
  BY <1>1, <1>4 DEF find_orphaned_pins, VictimIsGiven
<1>5. CASE find_expired_grace_pins
  <2>1. todo' \subseteq ExpiredPins
    BY <1>5, SelectTyped DEF find_expired_grace_pins, ExpiredPins, TypeOK
  <2>2. VictimIsGiven'
    BY <1>5, <2>1, GivenStays DEF find_expired_grace_pins, ExpiredPins, TypeOK, OutliveInv,
       GraceIsGiven, VictimIsGiven
  <2>. QED
    BY <1>1, <1>5, <2>2 DEF find_expired_grace_pins
<1>6. ASSUME NEW r \in Row, still_orphaned(r) PROVE OutliveInv'
  BY <1>1, <1>6 DEF still_orphaned, VictimIsGiven
<1>7. ASSUME NEW r \in Row, clean_orphaned_pin(r) PROVE OutliveInv'
  BY <1>1, <1>7, DeleteQuiet DEF clean_orphaned_pin, VictimIsGiven
<1>8. ASSUME NEW r \in Row, count_active(r) PROVE OutliveInv'
  <2>1. VictimIsGiven'
    BY <1>8, GivenStays DEF count_active, OutliveInv, VictimIsGiven
  <2>. QED
    BY <1>1, <1>8, <2>1 DEF count_active
<1>9. CASE keep_file
  <2>1. VictimIsGiven'
    BY <1>9, GivenStays DEF keep_file, OutliveInv, VictimIsGiven
  <2>. QED
    BY <1>1, <1>9, <2>1, DeleteQuiet DEF keep_file
<1>10. CASE drop_pins
  <2>1. VictimIsGiven'
    BY <1>10, GivenStays DEF drop_pins, OutliveInv, VictimIsGiven
  <2>. QED
    BY <1>1, <1>10, <2>1, DeleteQuiet DEF drop_pins
<1>11. CASE drop_file
  <2>1. \A r \in victim : Given(r[1])
    BY <1>11 DEF drop_file, OutliveInv, VictimIsGiven
  <2>2. KeptFrom'
    BY <1>11, <2>1, GivenStays DEF drop_file, OutliveInv, KeptFrom
  <2>3. VictimIsGiven'
    BY <1>11, GivenStays DEF drop_file, OutliveInv, VictimIsGiven
  <2>. QED
    BY <1>11, <2>2, <2>3, GivenStays DEF drop_file, OutliveInv, MarkedFirst, GraceIsGiven
<1>12. CASE drop_tags
  <2>1. VictimIsGiven'
    BY <1>12, GivenStays DEF drop_tags, OutliveInv, VictimIsGiven
  <2>. QED
    BY <1>1, <1>12, <2>1 DEF drop_tags
<1>13. CASE gc_cycle_ends
  BY <1>1, <1>13 DEF gc_cycle_ends, VictimIsGiven
<1>14. CASE gc_error
  BY <1>1, <1>14 DEF gc_error, VictimIsGiven
<1>. QED
  BY <1>2, <1>3, <1>4, <1>5, <1>6, <1>7, <1>8, <1>9, <1>10, <1>11, <1>12, <1>13, <1>14
     DEF run_gc_cycle

LEMMA OutliveNext == TypeOK /\ OutliveInv /\ [Next]_vars => OutliveInv'
<1> SUFFICES ASSUME TypeOK, OutliveInv, [Next]_vars PROVE OutliveInv'
  OBVIOUS
<1>1. CASE UNCHANGED vars
  BY <1>1, QuietStep DEF vars, pinVars, gcVars, taskVars, rowVars, histVars
<1>. QED
  BY <1>1, OutliveStore, OutliveForget, OutliveFile, OutliveTime, OutliveGc DEF Next

\* However STOREs, FORGETs, uploads and the collector interleave, fail and are repeated, the
\* row of a stored STORE's file goes only after somebody forgot a STORE of that file.
THEOREM StoredOutlives == Spec => []FileOutlivesStore
<1>1. TypeOK /\ OutliveInv => FileOutlivesStore
  BY DEF TypeOK, OutliveInv, KeptFrom, FileOutlivesStore, Given
<1>. QED
  BY <1>1, TypeInit, TypeNext, OutliveInit, OutliveNext, PTL DEF Spec

(***************************************************************************)
(* Every file is accounted for.                                            *)
(***************************************************************************)

\* What FileIsAccounted excepts, or a FORGET that has deleted a row of f and has yet to
\* count those that are left.
Covered(f) ==
    \/ f \in collected \cup forgotten \cup renewed
    \/ \E m \in stopped : File[m] = f
    \/ \E m \in Store : File[m] = f /\ fg[m] \in {"select", "retag", "count", "grace"}

\* The row of a file whose STORE is about to pin it is yet to come.
Coming(f) == \E m \in Store : File[m] = f /\ at[m] = "pin"

PinnedInv == \A f \in files : Covered(f) \/ Coming(f) \/ \E r \in Row : r[1] = f /\ kind[r] # "none"

\* A row names only STOREs of its file and owner.
ByOwn == \A r \in Row : \A m \in by[r] : r = RowOf(m)

\* When the collector keeps a file and deletes its grace period, there is another row.
KeepInv ==
    gc = "keep" =>
        /\ \A r, s \in victim : r = s
        /\ \A r \in victim : kind[r] = "grace_period" =>
              Covered(r[1]) \/ \E s \in Row : s # r /\ s[1] = r[1] /\ kind[s] # "none"

AccountInv == PinnedInv /\ ByOwn /\ KeepInv

LEMMA AccountInit == Init => AccountInv
BY DEF Init, AccountInv, PinnedInv, ByOwn, KeepInv

\* What covers a file is on record for good, and a FORGET goes on or is stopped.
LEMMA CoverStays ==
    ASSUME collected \subseteq collected', forgotten \subseteq forgotten',
           renewed \subseteq renewed', stopped \subseteq stopped',
           \A m \in Store : fg[m] \in {"select", "retag", "count", "grace"} =>
              fg'[m] \in {"select", "retag", "count", "grace"} \/ m \in stopped',
           NEW f, Covered(f)
    PROVE  Covered(f)'
BY DEF Covered

\* A step keeps the account if the FORGETs and the STOREs under way are so still, or leave
\* a row, or are stopped, and rows go only where that is covered.
LEMMA AccountQuiet ==
    ASSUME TypeOK, AccountInv,
           collected \subseteq collected', forgotten \subseteq forgotten',
           renewed \subseteq renewed', stopped \subseteq stopped',
           \A m \in Store : fg[m] \in {"select", "retag", "count", "grace"} =>
              fg'[m] \in {"select", "retag", "count", "grace"} \/ m \in stopped',
           \A m \in Store : at[m] = "pin" =>
              at'[m] = "pin" \/ m \in stopped' \/ kind'[RowOf(m)] # "none",
           \A f \in files' : f \in files \/ Coming(f)',
           \A r \in Row : kind[r] # "none" => kind'[r] # "none" \/ Covered(r[1])',
           \A r \in Row : kind'[r] = "grace_period" => kind[r] = "grace_period",
           \A r \in Row : \A m \in by'[r] : m \in by[r] \/ r = RowOf(m),
           gc' = "keep" => gc = "keep" /\ victim' = victim
    PROVE  AccountInv'
<1>1. \A f : Covered(f) => Covered(f)'
  BY CoverStays
<1>2. PinnedInv'
  <2> SUFFICES ASSUME NEW f \in files', ~ Covered(f)', ~ Coming(f)'
               PROVE  \E r \in Row : r[1] = f /\ kind'[r] # "none"
    BY DEF PinnedInv
  <2>1. f \in files /\ ~ Covered(f)
    BY <1>1
  <2>2. CASE Coming(f)
    <3>1. PICK m \in Store : File[m] = f /\ at[m] = "pin"
      BY <2>2 DEF Coming
    <3>2. at'[m] # "pin" /\ m \notin stopped'
      BY <3>1 DEF Coming, Covered
    <3> QED  BY <3>1, <3>2, RowTyped
  <2>3. CASE \E r \in Row : r[1] = f /\ kind[r] # "none"
    BY <2>3
  <2> QED  BY <2>1, <2>2, <2>3 DEF AccountInv, PinnedInv
<1>3. ByOwn'
  BY DEF AccountInv, ByOwn
<1>4. KeepInv'
  <2> SUFFICES ASSUME gc' = "keep" PROVE KeepInv'
    BY DEF KeepInv
  <2>1. gc = "keep" /\ victim' = victim /\ victim \subseteq Row /\ KeepInv
    BY DEF AccountInv, TypeOK
  <2>2. ASSUME NEW r \in victim, kind'[r] = "grace_period", ~ Covered(r[1])'
        PROVE  \E s \in Row : s # r /\ s[1] = r[1] /\ kind'[s] # "none"
    <3>1. kind[r] = "grace_period" /\ ~ Covered(r[1])
      BY <1>1, <2>1, <2>2
    <3>2. PICK s \in Row : s # r /\ s[1] = r[1] /\ kind[s] # "none"
      BY <2>1, <3>1 DEF KeepInv
    <3> QED  BY <2>2, <3>2
  <2> QED  BY <2>1, <2>2 DEF KeepInv
<1> QED
  BY <1>2, <1>3, <1>4 DEF AccountInv

\* A row that is put is a row, and a message is named by its own.
LEMMA PutAccount ==
    ASSUME TypeOK, NEW m \in Store, PutPin(RowOf(m), "message", {m})
    PROVE  /\ kind'[RowOf(m)] = "message"
           /\ \A r \in Row : kind[r] # "none" => kind'[r] # "none"
           /\ \A r \in Row : kind'[r] = "grace_period" => kind[r] = "grace_period"
           /\ \A r \in Row : \A n \in by'[r] : n \in by[r] \/ r = RowOf(n)
BY RowTyped DEF TypeOK, PutPin

LEMMA AccountStore ==
    ASSUME TypeOK, AccountInv, NEW m \in Store, store_start(m) \/ StoreStep(m)
    PROVE  AccountInv'
<1> USE DEF TypeOK, pinVars, gcVars, taskVars, rowVars, histVars, Goto
<1>1. CASE store_start(m)
  BY <1>1, AccountQuiet DEF store_start
<1>2. CASE upsert_file(m)
  <2>1. Coming(File[m])'
    BY <1>2 DEF upsert_file, Coming
  <2> QED  BY <1>2, <2>1, AccountQuiet DEF upsert_file
<1>3. CASE insert_file_pin_typed(m)
  <2>1. CASE kind[RowOf(m)] = "grace_period"
    BY <1>3, <2>1, AccountQuiet DEF insert_file_pin_typed
  <2>2. CASE kind[RowOf(m)] # "grace_period"
    BY <1>3, <2>2, PutAccount, AccountQuiet DEF insert_file_pin_typed
  <2> QED  BY <2>1, <2>2
<1>4. CASE upsert_file_tag(m)
  BY <1>4, AccountQuiet DEF upsert_file_tag
<1>5. CASE store_account_costs(m)
  BY <1>5, AccountQuiet DEF store_account_costs
<1>6. CASE store_raw_pin(m)
  <2>1. CASE kind[RowOf(m)] = "none"
    BY <1>6, <2>1, PutAccount, AccountQuiet DEF store_raw_pin
  <2>2. CASE kind[RowOf(m)] # "none"
    BY <1>6, <2>2, AccountQuiet DEF store_raw_pin
  <2> QED  BY <2>1, <2>2
<1>7. CASE store_record(m)
  BY <1>7, AccountQuiet DEF store_record
<1> QED
  BY <1>1, <1>2, <1>3, <1>4, <1>5, <1>6, <1>7 DEF StoreStep

LEMMA AccountForget ==
    ASSUME TypeOK, AccountInv, NEW m \in Store,
           forget_validate(m) \/ ForgetStep(m) \/ task_error(m)
    PROVE  AccountInv'
<1> USE DEF TypeOK, pinVars, gcVars, taskVars, rowVars, histVars, Goto, GotoF
<1>1. CASE forget_validate(m)
  BY <1>1, AccountQuiet DEF forget_validate
<1>2. CASE mark_forgotten(m)
  BY <1>2, AccountQuiet DEF mark_forgotten
<1>3. CASE delete_file_pin_by_message(m)
  <2>1. Covered(File[m])'
    BY <1>3 DEF delete_file_pin_by_message, Covered
  <2>2. \A r \in Row : kind[r] # "none" => kind'[r] # "none" \/ Covered(r[1])'
    BY <1>3, <2>1, RowTyped DEF delete_file_pin_by_message, DeletePins, AccountInv, ByOwn
  <2>3. \A r \in Row : kind'[r] = "grace_period" => kind[r] = "grace_period"
    BY <1>3, DeleteQuiet DEF delete_file_pin_by_message
  <2>4. \A r \in Row : \A n \in by'[r] : n \in by[r]
    BY <1>3 DEF delete_file_pin_by_message, DeletePins
  <2> QED  BY <1>3, <2>2, <2>3, <2>4, AccountQuiet DEF delete_file_pin_by_message
<1>4. CASE refresh_select(m)
  BY <1>4, AccountQuiet DEF refresh_select
<1>5. CASE refresh_file_tag(m)
  BY <1>5, AccountQuiet DEF refresh_file_tag
<1>6. CASE count_active_pins(m)
  <2>1. CASE Active(File[m]) = {}
    BY <1>6, <2>1, AccountQuiet DEF count_active_pins
  <2>2. CASE Active(File[m]) # {}
    <3>1. PICK s \in Row : s[1] = File[m] /\ kind[s] \notin {"none", "grace_period"}
      BY <2>2 DEF Active, RowsOf
    <3>2. \A f : f # File[m] /\ Covered(f) => Covered(f)'
      BY <1>6 DEF count_active_pins, Covered
    <3>3. UNCHANGED <<files, kind, by, at, gc, victim>>
      BY <1>6 DEF count_active_pins
    <3>4. PinnedInv'
      BY <3>1, <3>2, <3>3 DEF AccountInv, PinnedInv, Coming
    <3>5. KeepInv'
      BY <3>1, <3>2, <3>3 DEF AccountInv, KeepInv
    <3> QED  BY <3>3, <3>4, <3>5 DEF AccountInv, ByOwn
  <2> QED  BY <2>1, <2>2
<1>7. CASE insert_grace_period_pin(m)
  <2>1. CASE kind[GraceRow(m)] = "message"
    BY <1>7, <2>1, AccountQuiet DEF insert_grace_period_pin
  <2>2. CASE kind[GraceRow(m)] # "message"
    <3> DEFINE r == GraceRow(m)
    <3>1. /\ r \in Row /\ r[1] = File[m]
          /\ kind' = [kind EXCEPT ![r] = "grace_period"] /\ by' = [by EXCEPT ![r] = by[r]]
          /\ gc = "keep" /\ r \in victim => File[m] \in renewed'
          /\ renewed \subseteq renewed' /\ UNCHANGED <<files, at, gc, victim>>
      BY <1>7, <2>2, RowTyped DEF insert_grace_period_pin, PutPin
    <3>2. \A f : f # File[m] /\ Covered(f) => Covered(f)'
      BY <1>7, <2>2 DEF insert_grace_period_pin, Covered
    <3>3. \A s \in Row : kind'[s] = IF s = r THEN "grace_period" ELSE kind[s]
      BY <3>1
    <3> HIDE DEF r
    <3>4. PinnedInv'
      BY <3>1, <3>2, <3>3 DEF AccountInv, PinnedInv, Coming
    <3>5. KeepInv'
      <4> SUFFICES ASSUME gc = "keep", NEW s \in victim, kind'[s] = "grace_period",
                          ~ Covered(s[1])'
                   PROVE  \E t \in Row : t # s /\ t[1] = s[1] /\ kind'[t] # "none"
        BY <3>1 DEF AccountInv, KeepInv
      <4>1. CASE s = r
        BY <3>1, <4>1 DEF Covered
      <4>2. CASE s # r /\ s[1] = r[1]
        BY <3>1, <3>3, <4>2
      <4>3. CASE s[1] # r[1]
        <5>1. ~ Covered(s[1]) /\ kind[s] = "grace_period"
          BY <3>1, <3>2, <3>3, <4>3
        <5>2. PICK t \in Row : t # s /\ t[1] = s[1] /\ kind[t] # "none"
          BY <5>1 DEF AccountInv, KeepInv
        <5> QED  BY <3>3, <5>2
      <4> QED  BY <4>1, <4>2, <4>3
    <3>6. ByOwn'
      BY <3>1 DEF AccountInv, ByOwn
    <3> QED  BY <3>4, <3>5, <3>6 DEF AccountInv
  <2> QED  BY <2>1, <2>2
<1>8. CASE delete_message(m)
  BY <1>8, AccountQuiet DEF delete_message
<1>9. CASE task_error(m)
  BY <1>9, AccountQuiet DEF task_error
<1> QED
  BY <1>1, <1>2, <1>3, <1>4, <1>5, <1>6, <1>7, <1>8, <1>9 DEF ForgetStep

LEMMA AccountFile ==
    ASSUME TypeOK, AccountInv, NEW f \in Files, upload_file(f) \/ forget_file(f)
    PROVE  AccountInv'
<1> USE DEF TypeOK, pinVars, gcVars, taskVars, rowVars, histVars
<1>1. CASE upload_file(f)
  <2>1. <<f, Anonymous>> \in Row
    BY ConstantsAssumption DEF Row
  <2> QED  BY <1>1, <2>1, AccountQuiet DEF upload_file, PutPin
<1>2. CASE forget_file(f)
  <2>1. Covered(f)'
    BY <1>2 DEF forget_file, Covered
  <2>2. \A r \in Row : kind[r] # "none" => kind'[r] # "none" \/ Covered(r[1])'
    BY <1>2, <2>1 DEF forget_file, DeletePins, RowsOf
  <2>3. \A r \in Row : kind'[r] = "grace_period" => kind[r] = "grace_period"
    BY <1>2, DeleteQuiet DEF forget_file
  <2>4. \A r \in Row : \A n \in by'[r] : n \in by[r]
    BY <1>2 DEF forget_file, DeletePins
  <2>5. \A m \in Store : at[m] = at'[m] /\ fg[m] = fg'[m]
    BY <1>2 DEF forget_file
  <2> QED  BY <1>2, <2>2, <2>3, <2>4, <2>5, AccountQuiet DEF forget_file
<1> QED
  BY <1>1, <1>2

LEMMA AccountTime == ASSUME TypeOK, AccountInv, NEW r \in Row, age(r) \/ lapse(r) PROVE AccountInv'
BY AccountQuiet DEF age, lapse, TypeOK, taskVars, gcVars, histVars

\* The collector answers for what it deletes, but for the grace period of a file it keeps.
LEMMA AccountGc == ASSUME TypeOK, AccountInv, run_gc_cycle \/ gc_error PROVE AccountInv'
<1> USE DEF pinVars, gcVars, taskVars, rowVars, histVars, OnlyGc
<1>1. ASSUME UNCHANGED <<rowVars, taskVars, histVars>>, gc' = "keep" => gc = "keep" /\ victim' = victim
      PROVE  AccountInv'
  BY <1>1, AccountQuiet
<1>2. ASSUME NEW S, DeletePins(S), \A r \in S : r[1] \in collected',
             files' \subseteq files, collected \subseteq collected',
             UNCHANGED <<shows, costs, messages, forgotten, taskVars, stopped, renewed>>,
             gc' # "keep"
      PROVE  AccountInv'
  <2>1. \A r \in Row : kind[r] # "none" => kind'[r] # "none" \/ Covered(r[1])'
    BY <1>2 DEF DeletePins, Covered
  <2>2. \A r \in Row : kind'[r] = "grace_period" => kind[r] = "grace_period"
    BY <1>2, DeleteQuiet
  <2>3. \A r \in Row : \A n \in by'[r] : n \in by[r]
    BY <1>2 DEF DeletePins
  <2> QED  BY <1>2, <2>1, <2>2, <2>3, AccountQuiet
<1>3. CASE find_orphaned_files
  BY <1>1, <1>3 DEF find_orphaned_files
<1>4. CASE remove_file
  BY <1>2, <1>4 DEF remove_file
<1>5. CASE find_orphaned_pins
  BY <1>1, <1>5 DEF find_orphaned_pins
<1>6. CASE find_expired_grace_pins
  BY <1>1, <1>6 DEF find_expired_grace_pins
<1>7. ASSUME NEW r \in Row, still_orphaned(r) PROVE AccountInv'
  BY <1>1, <1>7 DEF still_orphaned
<1>8. ASSUME NEW r \in Row, clean_orphaned_pin(r) PROVE AccountInv'
  BY <1>2, <1>8 DEF clean_orphaned_pin, RowsOf
<1>9. ASSUME NEW r \in Row, count_active(r) PROVE AccountInv'
  <2>1. CASE Active(r[1]) = {}
    BY <1>1, <1>9, <2>1 DEF count_active
  <2>2. CASE Active(r[1]) # {}
    <3>1. PICK s \in Row : s[1] = r[1] /\ kind[s] \notin {"none", "grace_period"}
      BY <2>2 DEF Active, RowsOf
    <3>2. victim' = {r} /\ UNCHANGED <<files, kind, by, at, fg, histVars, forgotten>>
      BY <1>9 DEF count_active
    <3>3. KeepInv'
      BY <3>1, <3>2 DEF KeepInv
    <3>4. PinnedInv' /\ ByOwn'
      BY <3>2 DEF AccountInv, PinnedInv, ByOwn, Covered, Coming
    <3> QED  BY <3>3, <3>4 DEF AccountInv
  <2> QED  BY <2>1, <2>2
<1>10. CASE keep_file
  <2> DEFINE S == {r \in victim : kind[r] = "grace_period"}
  <2>1. /\ gc = "keep" /\ gc' = "expired" /\ DeletePins(S)
        /\ UNCHANGED <<files, messages, forgotten, taskVars, histVars>>
    BY <1>10 DEF keep_file
  <2>2. \A r \in Row : kind'[r] = IF r \in S THEN "none" ELSE kind[r]
    BY <2>1 DEF DeletePins
  <2>3. \A f : Covered(f)' = Covered(f) /\ Coming(f)' = Coming(f)
    BY <2>1 DEF Covered, Coming
  <2>4. ASSUME NEW r \in Row, kind[r] # "none", ~ Covered(r[1])
        PROVE  \E s \in Row : s[1] = r[1] /\ kind'[s] # "none"
    <3>1. CASE r \notin S
      BY <2>2, <2>4, <3>1
    <3>2. CASE r \in S
      <4>1. PICK s \in Row : s # r /\ s[1] = r[1] /\ kind[s] # "none"
        BY <2>1, <2>4, <3>2 DEF AccountInv, KeepInv
      <4>2. s \notin S
        BY <2>1, <3>2, <4>1 DEF AccountInv, KeepInv
      <4> QED  BY <2>2, <4>1, <4>2
    <3> QED  BY <3>1, <3>2
  <2>5. PinnedInv'
    BY <2>1, <2>3, <2>4 DEF AccountInv, PinnedInv
  <2>6. ByOwn'
    BY <2>1 DEF AccountInv, ByOwn, DeletePins
  <2> QED  BY <2>1, <2>5, <2>6 DEF AccountInv, KeepInv
<1>11. CASE drop_pins
  BY <1>2, <1>11 DEF drop_pins
<1>12. CASE drop_file
  <2>1. files' \subseteq files /\ UNCHANGED <<kind, by, at, fg, forgotten, histVars>> /\ gc' # "keep"
    BY <1>12 DEF drop_file
  <2> QED  BY <2>1 DEF AccountInv, PinnedInv, ByOwn, KeepInv, Covered, Coming
<1>13. CASE drop_tags
  <2>1. UNCHANGED <<files, kind, by, at, fg, forgotten, histVars>> /\ gc' # "keep"
    BY <1>13 DEF drop_tags
  <2> QED  BY <2>1 DEF AccountInv, PinnedInv, ByOwn, KeepInv, Covered, Coming
<1>14. CASE gc_cycle_ends
  BY <1>1, <1>14 DEF gc_cycle_ends
<1>15. CASE gc_error
  BY <1>1, <1>15 DEF gc_error
<1> QED
  BY <1>3, <1>4, <1>5, <1>6, <1>7, <1>8, <1>9, <1>10, <1>11, <1>12, <1>13, <1>14, <1>15
     DEF run_gc_cycle

LEMMA AccountNext == TypeOK /\ AccountInv /\ [Next]_vars => AccountInv'
<1> SUFFICES ASSUME TypeOK, AccountInv, [Next]_vars PROVE AccountInv'
  OBVIOUS
<1>1. CASE UNCHANGED vars
  BY <1>1, AccountQuiet DEF vars, pinVars, gcVars, taskVars, rowVars, histVars
<1> QED
  BY <1>1, AccountStore, AccountForget, AccountFile, AccountTime, AccountGc DEF Next

\* A file does not stay behind without a pin or a grace period, but where an error, a FORGET
\* of the file or the collector took them (the STORE handler, ForgetHandler, run_gc_cycle).
THEOREM EachIsAccounted == Spec => []FileIsAccounted
<1>1. TypeOK /\ AccountInv => FileIsAccounted
  <2> SUFFICES ASSUME TypeOK, AccountInv, NEW f \in files \ (collected \cup forgotten \cup renewed),
                      RowsOf(f) = {}, ~ \E m \in stopped : File[m] = f
               PROVE  AtWork(f)
    BY DEF FileIsAccounted
  <2>1. Covered(f) \/ Coming(f)
    BY DEF AccountInv, PinnedInv, RowsOf
  <2> QED  BY <2>1 DEF Covered, Coming, AtWork
<1> QED
  BY <1>1, TypeInit, TypeNext, AccountInit, AccountNext, PTL DEF Spec

=============================================================================
