------------------------------- MODULE VmProofs -------------------------------
(***************************************************************************)
(* What holds of Vm for any VMs, amendments, FORGETs, balances and faults. *)
(***************************************************************************)
EXTENDS Vm, FiniteSetTheorems, WellFoundedInduction, TLAPS

\* A FORGET marks only what is recorded, unless another one has marked it, and
\* deletes only after it has marked.
ForgetInv ==
    \A f \in Forget :
        /\ at[f] = "mark" => Target[f] \in messages \cup forgotten
        /\ at[f] \in {"updates", "cascade", "derived", "versions", "costs", "message"}
           => Target[f] \in forgotten

\* What a VM's task has charged stays charged until a FORGET has marked it.
ChargeInv ==
    \A v \in Vm \ forgotten :
        /\ at[v] = "volumes" => <<v, "execution">> \in charged
        /\ at[v] = "record" => \A r \in Row : <<v, r>> \in charged

\* NewestVersionWins from the upsert on.
VersionInv ==
    \A v \in Vm :
        /\ v \in messages \/ at[v] \in {"execution", "volumes", "record"}
        /\ Original(v) \notin forgotten
        => /\ current[Original(v)] # None
           /\ Time[v] <= Time[current[Original(v)]]

\* Whatever has versions is no amendment and has its row, or a FORGET took it.
OwnerInv ==
    /\ \A o \in Vm : current[o] # None => Replaces[o] = None /\ o \in vms \cup forgotten
    /\ \A v \in Vm : at[v] \in {"amend", "balance", "row", "version"} /\ Replaces[v] # None
            => Replaces[Replaces[v]] = None /\ Replaces[v] \in vms \cup forgotten
    /\ \A v \in Vm : at[v] = "version" => v \in vms \cup forgotten
                                          \/ Replaces[v] \in forgotten

\* A VM locked when the batch began: no version of it passes validation.
LockInv ==
    \A o \in Vm :
        oldCurrent[o] # None /\ oldCurrent[o] \notin AllowAmend =>
            /\ current[o] \in {oldCurrent[o], None}
            /\ \A v \in Vm : Original(v) = o => at[v] \notin {"balance", "row", "version"}
            /\ at[o] = "idle"

\* The amendments of a VM that is being forgotten are out of ForgottenVmIsGone.
Apart(v) == Replaces[v] = None \/ Replaces[v] \notin forgotten

\* A recorded VM has its row, and no task works on a VM that is recorded or
\* forgotten.
RowInv ==
    \A v \in Vm :
        /\ v \in messages \ forgotten /\ Apart(v) => v \in vms
        /\ v \in messages \cup forgotten /\ Apart(v) => at[v] = "idle"
        /\ at[v] \in {"version", "execution", "volumes", "record"} /\ Apart(v) => v \in vms

\* What a FORGET has deleted when it is at its later statements.
GoneInv ==
    /\ \A f \in Forget :
          /\ Apart(Target[f])
          /\ found[f]
          => /\ at[f] \in {"versions", "costs", "message"} => Target[f] \notin vms
             /\ at[f] = "message" => \A r \in Row : <<Target[f], r>> \notin charged
    /\ \A v \in erased : v \in forgotten

-----------------------------------------------------------------------------

\* Every row, version and snapshot is of a VM, and the current version of a VM
\* is one of its own versions, whatever is redelivered, fails or is forgotten.
LEMMA TypeStep == TypeOK /\ [Next]_vars => TypeOK'
<1> SUFFICES ASSUME TypeOK, [Next]_vars
             PROVE  TypeOK'
  OBVIOUS
<1> USE ConstantsAssumption DEF TypeOK, tables, history, Task
<1>1. CASE process_batch
  BY <1>1 DEF process_batch
<1>2. ASSUME NEW t \in Task, refuse(t) \/ task_fails(t)
      PROVE  TypeOK'
  <2>1. CASE refuse(t)
    BY <2>1 DEF refuse, Goto
  <2>2. CASE task_fails(t)
    BY <2>2 DEF task_fails, Goto
  <2> QED  BY <1>2, <2>1, <2>2
<1>3. ASSUME NEW v \in Vm, VmStep(v)
      PROVE  TypeOK'
  <2>1. CASE validate(v)
    BY <2>1 DEF validate, Goto
  <2>2. CASE amend(v)
    BY <2>2 DEF amend, Goto
  <2>3. CASE check_balance(v)
    BY <2>3 DEF check_balance, Goto
  <2>4. CASE store_row(v)
    BY <2>4 DEF store_row, Goto
  <2>5. CASE upsert_vm_version(v)
    BY <2>5 DEF upsert_vm_version, Goto, Original
  <2>6. CASE store_account_costs(v)
    BY <2>6 DEF store_account_costs, Goto, Row
  <2>7. CASE store_processed_message(v)
    BY <2>7 DEF store_processed_message, Goto
  <2> QED  BY <1>3, <2>1, <2>2, <2>3, <2>4, <2>5, <2>6, <2>7 DEF VmStep
<1>4. ASSUME NEW f \in Forget, ForgetStep(f)
      PROVE  TypeOK'
  <2>1. CASE forget_validate(f)
    BY <2>1 DEF forget_validate, Goto
  <2>2. CASE mark_forgotten(f)
    BY <2>2 DEF mark_forgotten, Goto
  <2>3. CASE delete_vm_updates(f)
    BY <2>3 DEF delete_vm_updates, Goto
  <2>4. CASE delete_costs(f)
    BY <2>4 DEF delete_costs, Goto
  <2>5. CASE delete_row(f)
    BY <2>5 DEF delete_row, Goto
  <2>6. CASE delete_version(f)
    BY <2>6 DEF delete_version, Goto, Original
  <2>7. CASE delete_message(f)
    BY <2>7 DEF delete_message, Goto
  <2> QED  BY <1>4, <2>1, <2>2, <2>3, <2>4, <2>5, <2>6, <2>7 DEF ForgetStep
<1>5. CASE UNCHANGED vars
  BY <1>5 DEF vars
<1> QED  BY <1>1, <1>2, <1>3, <1>4, <1>5 DEF Next

\* For any constants, every row, version and snapshot is of a VM, and the
\* current version of a VM is one of its own.
THEOREM TypeCorrect == Spec => []TypeOK
<1>1. Init => TypeOK
  BY ConstantsAssumption DEF Init, TypeOK, Task
<1> QED  BY <1>1, TypeStep, PTL DEF Spec

\* Nothing takes a mark away, and every statement of a FORGET after the first
\* comes after its mark.
LEMMA ForgetStepInv == TypeOK /\ ForgetInv /\ [Next]_vars => ForgetInv'
<1> SUFFICES ASSUME TypeOK, ForgetInv, [Next]_vars
             PROVE  ForgetInv'
  OBVIOUS
<1> USE ConstantsAssumption DEF TypeOK, ForgetInv, tables, history, Task, Goto
<1>1. CASE process_batch
  BY <1>1 DEF process_batch
<1>2. ASSUME NEW t \in Task, refuse(t) \/ task_fails(t)
      PROVE  ForgetInv'
  <2>1. CASE refuse(t)
    BY <2>1 DEF refuse
  <2>2. CASE task_fails(t)
    BY <2>2 DEF task_fails
  <2> QED  BY <1>2, <2>1, <2>2
<1>3. ASSUME NEW u \in Vm, VmStep(u)
      PROVE  ForgetInv'
  <2>1. CASE validate(u)
    BY <2>1 DEF validate
  <2>2. CASE amend(u)
    BY <2>2 DEF amend
  <2>3. CASE check_balance(u)
    BY <2>3 DEF check_balance
  <2>4. CASE store_row(u)
    BY <2>4 DEF store_row
  <2>5. CASE upsert_vm_version(u)
    BY <2>5 DEF upsert_vm_version
  <2>6. CASE store_account_costs(u)
    BY <2>6 DEF store_account_costs
  <2>7. CASE store_processed_message(u)
    BY <2>7 DEF store_processed_message
  <2> QED  BY <1>3, <2>1, <2>2, <2>3, <2>4, <2>5, <2>6, <2>7 DEF VmStep
<1>4. ASSUME NEW g \in Forget, ForgetStep(g)
      PROVE  ForgetInv'
  <2>1. CASE forget_validate(g)
    BY <2>1 DEF forget_validate
  <2>2. CASE mark_forgotten(g)
    BY <2>2 DEF mark_forgotten
  <2>3. CASE delete_vm_updates(g)
    BY <2>3 DEF delete_vm_updates
  <2>4. CASE delete_costs(g)
    BY <2>4 DEF delete_costs
  <2>5. CASE delete_row(g)
    BY <2>5 DEF delete_row
  <2>6. CASE delete_version(g)
    BY <2>6 DEF delete_version
  <2>7. CASE delete_message(g)
    BY <2>7 DEF delete_message
  <2> QED  BY <1>4, <2>1, <2>2, <2>3, <2>4, <2>5, <2>6, <2>7 DEF ForgetStep
<1>5. CASE UNCHANGED vars
  BY <1>5 DEF vars
<1> QED  BY <1>1, <1>2, <1>3, <1>4, <1>5 DEF Next

\* Costs are deleted only of what is marked forgotten, so a task that is not
\* forgotten finds the rows it wrote before.
LEMMA ChargeStep == TypeOK /\ ForgetInv /\ ChargeInv /\ RecordedVmIsCharged /\ [Next]_vars => (ChargeInv /\ RecordedVmIsCharged)'
<1> SUFFICES ASSUME TypeOK, ForgetInv, ChargeInv, RecordedVmIsCharged, [Next]_vars
             PROVE  (ChargeInv /\ RecordedVmIsCharged)'
  OBVIOUS
<1> USE ConstantsAssumption DEF TypeOK, ForgetInv, ChargeInv, RecordedVmIsCharged, Row, tables, history, Task, Goto
<1>1. CASE process_batch
  BY <1>1 DEF process_batch
<1>2. ASSUME NEW t \in Task, refuse(t) \/ task_fails(t)
      PROVE  (ChargeInv /\ RecordedVmIsCharged)'
  <2>1. CASE refuse(t)
    BY <2>1 DEF refuse
  <2>2. CASE task_fails(t)
    BY <2>2 DEF task_fails
  <2> QED  BY <1>2, <2>1, <2>2
<1>3. ASSUME NEW u \in Vm, VmStep(u)
      PROVE  (ChargeInv /\ RecordedVmIsCharged)'
  <2>1. CASE validate(u)
    BY <2>1 DEF validate
  <2>2. CASE amend(u)
    BY <2>2 DEF amend
  <2>3. CASE check_balance(u)
    BY <2>3 DEF check_balance
  <2>4. CASE store_row(u)
    BY <2>4 DEF store_row
  <2>5. CASE upsert_vm_version(u)
    BY <2>5 DEF upsert_vm_version
  <2>6. CASE store_account_costs(u)
    BY <2>6 DEF store_account_costs
  <2>7. CASE store_processed_message(u)
    BY <2>7 DEF store_processed_message
  <2> QED  BY <1>3, <2>1, <2>2, <2>3, <2>4, <2>5, <2>6, <2>7 DEF VmStep
<1>4. ASSUME NEW g \in Forget, ForgetStep(g)
      PROVE  (ChargeInv /\ RecordedVmIsCharged)'
  <2>1. CASE forget_validate(g)
    BY <2>1 DEF forget_validate
  <2>2. CASE mark_forgotten(g)
    BY <2>2 DEF mark_forgotten
  <2>3. CASE delete_vm_updates(g)
    BY <2>3 DEF delete_vm_updates
  <2>4. CASE delete_costs(g)
    BY <2>4 DEF delete_costs
  <2>5. CASE delete_row(g)
    BY <2>5 DEF delete_row
  <2>6. CASE delete_version(g)
    BY <2>6 DEF delete_version
  <2>7. CASE delete_message(g)
    BY <2>7 DEF delete_message
  <2> QED  BY <1>4, <2>1, <2>2, <2>3, <2>4, <2>5, <2>6, <2>7 DEF ForgetStep
<1>5. CASE UNCHANGED vars
  BY <1>5 DEF vars
<1> QED  BY <1>1, <1>2, <1>3, <1>4, <1>5 DEF Next

\* The upsert leaves a version at least as new as its own, later upserts only
\* newer ones, and only a FORGET of the VM deletes the row.
LEMMA VersionStep == TypeOK /\ ForgetInv /\ VersionInv /\ [Next]_vars => VersionInv'
<1> SUFFICES ASSUME TypeOK, ForgetInv, VersionInv, [Next]_vars
             PROVE  VersionInv'
  OBVIOUS
<1> USE ConstantsAssumption DEF TypeOK, ForgetInv, VersionInv, tables, history, Task, Goto
<1>1. CASE process_batch
  BY <1>1 DEF process_batch
<1>2. ASSUME NEW t \in Task, refuse(t) \/ task_fails(t)
      PROVE  VersionInv'
  <2>1. CASE refuse(t)
    BY <2>1 DEF refuse
  <2>2. CASE task_fails(t)
    BY <2>2 DEF task_fails
  <2> QED  BY <1>2, <2>1, <2>2
<1>3. ASSUME NEW u \in Vm, VmStep(u)
      PROVE  VersionInv'
  <2>1. CASE validate(u)
    BY <2>1 DEF validate
  <2>2. CASE amend(u)
    BY <2>2 DEF amend
  <2>3. CASE check_balance(u)
    BY <2>3 DEF check_balance
  <2>4. CASE store_row(u)
    BY <2>4 DEF store_row
  <2>5. CASE upsert_vm_version(u)
    BY <2>5 DEF upsert_vm_version, Upserted, Original
  <2>6. CASE store_account_costs(u)
    BY <2>6 DEF store_account_costs, Row
  <2>7. CASE store_processed_message(u)
    BY <2>7 DEF store_processed_message
  <2> QED  BY <1>3, <2>1, <2>2, <2>3, <2>4, <2>5, <2>6, <2>7 DEF VmStep
<1>4. ASSUME NEW g \in Forget, ForgetStep(g)
      PROVE  VersionInv'
  <2>1. CASE forget_validate(g)
    BY <2>1 DEF forget_validate
  <2>2. CASE mark_forgotten(g)
    BY <2>2 DEF mark_forgotten
  <2>3. CASE delete_vm_updates(g)
    BY <2>3 DEF delete_vm_updates
  <2>4. CASE delete_costs(g)
    BY <2>4 DEF delete_costs
  <2>5. CASE delete_row(g)
    BY <2>5 DEF delete_row
  <2>6. CASE delete_version(g)
    BY <2>6 DEF delete_version, Original
  <2>7. CASE delete_message(g)
    BY <2>7 DEF delete_message
  <2> QED  BY <1>4, <2>1, <2>2, <2>3, <2>4, <2>5, <2>6, <2>7 DEF ForgetStep
<1>5. CASE UNCHANGED vars
  BY <1>5 DEF vars
<1> QED  BY <1>1, <1>2, <1>3, <1>4, <1>5 DEF Next

\* Only a VM that validated as an original, and its own task, get a row in
\* vm_versions.
LEMMA OwnerStep == TypeOK /\ ForgetInv /\ OwnerInv /\ [Next]_vars => OwnerInv'
<1> SUFFICES ASSUME TypeOK, ForgetInv, OwnerInv, [Next]_vars
             PROVE  OwnerInv'
  OBVIOUS
<1> USE ConstantsAssumption DEF TypeOK, ForgetInv, OwnerInv, tables, history, Task, Goto
<1>1. CASE process_batch
  BY <1>1 DEF process_batch
<1>2. ASSUME NEW t \in Task, refuse(t) \/ task_fails(t)
      PROVE  OwnerInv'
  <2>1. CASE refuse(t)
    BY <2>1 DEF refuse
  <2>2. CASE task_fails(t)
    BY <2>2 DEF task_fails
  <2> QED  BY <1>2, <2>1, <2>2
<1>3. ASSUME NEW u \in Vm, VmStep(u)
      PROVE  OwnerInv'
  <2>1. CASE validate(u)
    BY <2>1 DEF validate
  <2>2. CASE amend(u)
    BY <2>2 DEF amend
  <2>3. CASE check_balance(u)
    BY <2>3 DEF check_balance
  <2>4. CASE store_row(u)
    BY <2>4 DEF store_row
  <2>5. CASE upsert_vm_version(u)
    BY <2>5 DEF upsert_vm_version, Original
  <2>6. CASE store_account_costs(u)
    BY <2>6 DEF store_account_costs, Row
  <2>7. CASE store_processed_message(u)
    BY <2>7 DEF store_processed_message
  <2> QED  BY <1>3, <2>1, <2>2, <2>3, <2>4, <2>5, <2>6, <2>7 DEF VmStep
<1>4. ASSUME NEW g \in Forget, ForgetStep(g)
      PROVE  OwnerInv'
  <2>1. CASE forget_validate(g)
    BY <2>1 DEF forget_validate
  <2>2. CASE mark_forgotten(g)
    BY <2>2 DEF mark_forgotten
  <2>3. CASE delete_vm_updates(g)
    BY <2>3 DEF delete_vm_updates
  <2>4. CASE delete_costs(g)
    BY <2>4 DEF delete_costs
  <2>5. CASE delete_row(g)
    BY <2>5 DEF delete_row
  <2>6. CASE delete_version(g)
    BY <2>6 DEF delete_version
  <2>7. CASE delete_message(g)
    BY <2>7 DEF delete_message
  <2> QED  BY <1>4, <2>1, <2>2, <2>3, <2>4, <2>5, <2>6, <2>7 DEF ForgetStep
<1>5. CASE UNCHANGED vars
  BY <1>5 DEF vars
<1> QED  BY <1>1, <1>2, <1>3, <1>4, <1>5 DEF Next

\* With a locked current version no amendment passes, so no task of this batch
\* reaches the upsert.
LEMMA LockStep == TypeOK /\ OwnerInv /\ LockInv /\ [Next]_vars => LockInv'
<1> SUFFICES ASSUME TypeOK, OwnerInv, LockInv, [Next]_vars
             PROVE  LockInv'
  OBVIOUS
<1> USE ConstantsAssumption DEF TypeOK, OwnerInv, LockInv, Original, tables, history, Task, Goto
<1>1. CASE process_batch
  BY <1>1 DEF process_batch, Fresh
<1>2. ASSUME NEW t \in Task, refuse(t) \/ task_fails(t)
      PROVE  LockInv'
  <2>1. CASE refuse(t)
    BY <2>1 DEF refuse
  <2>2. CASE task_fails(t)
    BY <2>2 DEF task_fails
  <2> QED  BY <1>2, <2>1, <2>2
<1>3. ASSUME NEW u \in Vm, VmStep(u)
      PROVE  LockInv'
  <2>1. CASE validate(u)
    BY <2>1 DEF validate
  <2>2. CASE amend(u)
    BY <2>2 DEF amend, is_vm_amend_allowed
  <2>3. CASE check_balance(u)
    BY <2>3 DEF check_balance
  <2>4. CASE store_row(u)
    BY <2>4 DEF store_row
  <2>5. CASE upsert_vm_version(u)
    BY <2>5 DEF upsert_vm_version
  <2>6. CASE store_account_costs(u)
    BY <2>6 DEF store_account_costs, Row
  <2>7. CASE store_processed_message(u)
    BY <2>7 DEF store_processed_message
  <2> QED  BY <1>3, <2>1, <2>2, <2>3, <2>4, <2>5, <2>6, <2>7 DEF VmStep
<1>4. ASSUME NEW g \in Forget, ForgetStep(g)
      PROVE  LockInv'
  <2>1. CASE forget_validate(g)
    BY <2>1 DEF forget_validate
  <2>2. CASE mark_forgotten(g)
    BY <2>2 DEF mark_forgotten
  <2>3. CASE delete_vm_updates(g)
    BY <2>3 DEF delete_vm_updates
  <2>4. CASE delete_costs(g)
    BY <2>4 DEF delete_costs
  <2>5. CASE delete_row(g)
    BY <2>5 DEF delete_row
  <2>6. CASE delete_version(g)
    BY <2>6 DEF delete_version
  <2>7. CASE delete_message(g)
    BY <2>7 DEF delete_message
  <2> QED  BY <1>4, <2>1, <2>2, <2>3, <2>4, <2>5, <2>6, <2>7 DEF ForgetStep
<1>5. CASE UNCHANGED vars
  BY <1>5 DEF vars
<1> QED  BY <1>1, <1>2, <1>3, <1>4, <1>5 DEF Next

\* A batch takes only what has no row and is not forgotten, and a FORGET takes
\* only what is recorded: the two never meet.
LEMMA RowStep == TypeOK /\ ForgetInv /\ RowInv /\ [Next]_vars => RowInv'
<1> SUFFICES ASSUME TypeOK, ForgetInv, RowInv, [Next]_vars
             PROVE  RowInv'
  OBVIOUS
<1> USE ConstantsAssumption DEF TypeOK, ForgetInv, RowInv, Apart, tables, history, Task, Goto
<1>1. CASE process_batch
  BY <1>1 DEF process_batch, Fresh
<1>2. ASSUME NEW t \in Task, refuse(t) \/ task_fails(t)
      PROVE  RowInv'
  <2>1. CASE refuse(t)
    BY <2>1 DEF refuse
  <2>2. CASE task_fails(t)
    BY <2>2 DEF task_fails
  <2> QED  BY <1>2, <2>1, <2>2
<1>3. ASSUME NEW u \in Vm, VmStep(u)
      PROVE  RowInv'
  <2>1. CASE validate(u)
    BY <2>1 DEF validate
  <2>2. CASE amend(u)
    BY <2>2 DEF amend
  <2>3. CASE check_balance(u)
    BY <2>3 DEF check_balance
  <2>4. CASE store_row(u)
    BY <2>4 DEF store_row
  <2>5. CASE upsert_vm_version(u)
    BY <2>5 DEF upsert_vm_version
  <2>6. CASE store_account_costs(u)
    BY <2>6 DEF store_account_costs, Row
  <2>7. CASE store_processed_message(u)
    BY <2>7 DEF store_processed_message
  <2> QED  BY <1>3, <2>1, <2>2, <2>3, <2>4, <2>5, <2>6, <2>7 DEF VmStep
<1>4. ASSUME NEW g \in Forget, ForgetStep(g)
      PROVE  RowInv'
  <2>1. CASE forget_validate(g)
    BY <2>1 DEF forget_validate
  <2>2. CASE mark_forgotten(g)
    BY <2>2 DEF mark_forgotten
  <2>3. CASE delete_vm_updates(g)
    BY <2>3 DEF delete_vm_updates
  <2>4. CASE delete_costs(g)
    BY <2>4 DEF delete_costs
  <2>5. CASE delete_row(g)
    BY <2>5 DEF delete_row
  <2>6. CASE delete_version(g)
    BY <2>6 DEF delete_version
  <2>7. CASE delete_message(g)
    BY <2>7 DEF delete_message
  <2> QED  BY <1>4, <2>1, <2>2, <2>3, <2>4, <2>5, <2>6, <2>7 DEF ForgetStep
<1>5. CASE UNCHANGED vars
  BY <1>5 DEF vars
<1> QED  BY <1>1, <1>2, <1>3, <1>4, <1>5 DEF Next

\* No task works on what a FORGET deletes, so what is deleted stays deleted.
LEMMA GoneStep == TypeOK /\ ForgetInv /\ RowInv /\ GoneInv /\ ForgottenVmIsGone /\ [Next]_vars => (GoneInv /\ ForgottenVmIsGone)'
<1> SUFFICES ASSUME TypeOK, ForgetInv, RowInv, GoneInv, ForgottenVmIsGone, [Next]_vars
             PROVE  (GoneInv /\ ForgottenVmIsGone)'
  OBVIOUS
<1> USE ConstantsAssumption DEF TypeOK, ForgetInv, RowInv, GoneInv, ForgottenVmIsGone, Apart, tables, history, Task, Goto
<1>1. CASE process_batch
  BY <1>1 DEF process_batch
<1>2. ASSUME NEW t \in Task, refuse(t) \/ task_fails(t)
      PROVE  (GoneInv /\ ForgottenVmIsGone)'
  <2>1. CASE refuse(t)
    BY <2>1 DEF refuse
  <2>2. CASE task_fails(t)
    BY <2>2 DEF task_fails
  <2> QED  BY <1>2, <2>1, <2>2
<1>3. ASSUME NEW u \in Vm, VmStep(u)
      PROVE  (GoneInv /\ ForgottenVmIsGone)'
  <2>1. CASE validate(u)
    BY <2>1 DEF validate
  <2>2. CASE amend(u)
    BY <2>2 DEF amend
  <2>3. CASE check_balance(u)
    BY <2>3 DEF check_balance
  <2>4. CASE store_row(u)
    BY <2>4 DEF store_row
  <2>5. CASE upsert_vm_version(u)
    BY <2>5 DEF upsert_vm_version
  <2>6. CASE store_account_costs(u)
    BY <2>6 DEF store_account_costs, Row
  <2>7. CASE store_processed_message(u)
    BY <2>7 DEF store_processed_message
  <2> QED  BY <1>3, <2>1, <2>2, <2>3, <2>4, <2>5, <2>6, <2>7 DEF VmStep
<1>4. ASSUME NEW g \in Forget, ForgetStep(g)
      PROVE  (GoneInv /\ ForgottenVmIsGone)'
  <2>1. CASE forget_validate(g)
    BY <2>1 DEF forget_validate
  <2>2. CASE mark_forgotten(g)
    BY <2>2 DEF mark_forgotten
  <2>3. CASE delete_vm_updates(g)
    BY <2>3 DEF delete_vm_updates
  <2>4. CASE delete_costs(g)
    BY <2>4 DEF delete_costs
  <2>5. CASE delete_row(g)
    BY <2>5 DEF delete_row
  <2>6. CASE delete_version(g)
    BY <2>6 DEF delete_version
  <2>7. CASE delete_message(g)
    BY <2>7 DEF delete_message
  <2> QED  BY <1>4, <2>1, <2>2, <2>3, <2>4, <2>5, <2>6, <2>7 DEF ForgetStep
<1>5. CASE UNCHANGED vars
  BY <1>5 DEF vars
<1> QED  BY <1>1, <1>2, <1>3, <1>4, <1>5 DEF Next

-----------------------------------------------------------------------------

VmInv ==
    /\ TypeOK
    /\ ForgetInv
    /\ ChargeInv /\ RecordedVmIsCharged
    /\ VersionInv
    /\ OwnerInv
    /\ LockInv
    /\ RowInv
    /\ GoneInv /\ ForgottenVmIsGone

LEMMA VmInvInit == Init => VmInv
BY ConstantsAssumption
   DEF Init, VmInv, TypeOK, Task, ForgetInv, ChargeInv, RecordedVmIsCharged, VersionInv,
       OwnerInv, LockInv, RowInv, GoneInv, ForgottenVmIsGone

\* The parts of VmInv are inductive together.
LEMMA VmInvStep == VmInv /\ [Next]_vars => VmInv'
BY TypeStep, ForgetStepInv, ChargeStep, VersionStep, OwnerStep, LockStep, RowStep, GoneStep
   DEF VmInv

LEMMA VmInvHolds == Spec => []VmInv
BY VmInvInit, VmInvStep, PTL DEF Spec

\* A recorded VM is charged for in full until it is forgotten, whatever other
\* tasks and FORGETs do between its statements.
THEOREM RecordedIsCharged == Spec => []RecordedVmIsCharged
<1>1. VmInv => RecordedVmIsCharged
  BY DEF VmInv
<1> QED  BY <1>1, VmInvHolds, PTL

\* vm_versions names a version at least as new as every recorded one.
THEOREM NewestWins == Spec => []NewestVersionWins
<1>1. VmInv => NewestVersionWins
  BY DEF VmInv, TypeOK, VersionInv, NewestVersionWins
<1> QED  BY <1>1, VmInvHolds, PTL

\* A version that does not allow amendments, current when a batch begins, stays
\* the current one.
THEOREM LockHolds == Spec => []LockedStaysLocked
<1>1. VmInv => LockedStaysLocked
  BY DEF VmInv, LockInv, LockedStaysLocked
<1> QED  BY <1>1, VmInvHolds, PTL

\* What a FORGET erased to its end does not come back and is not charged.
THEOREM ForgottenIsGone == Spec => []ForgottenVmIsGone
<1>1. VmInv => ForgottenVmIsGone
  BY DEF VmInv
<1> QED  BY <1>1, VmInvHolds, PTL

-----------------------------------------------------------------------------
(***************************************************************************)
(* Sums over finite sets, as MapThenSumSet of the community modules        *)
(* computes them.                                                          *)
(***************************************************************************)

\* Some element of T.
Picked(T) == CHOOSE x \in T : TRUE

\* g[T] is the sum of h over T, for the subsets T of S.
Sums(g, h, S) ==
    g = [T \in SUBSET S |->
            IF T = {} THEN 0 ELSE h[Picked(T)] + g[T \ {Picked(T)}]]

\* Induction over the subsets of a finite set.
LEMMA SubsetInduction ==
  ASSUME NEW S, IsFiniteSet(S), NEW F,
         \A T \in SUBSET S : (\A U \in SUBSET T : U # T => U \in F) => T \in F
  PROVE  SUBSET S \subseteq F
<1> DEFINE R == StrictSubsetOrdering(S)
           Bad == (SUBSET S) \ F
<1>1. IsWellFoundedOn(R, SUBSET S)
  BY FS_StrictSubsetOrderingWellFounded, FS_FiniteSubsetsOfFinite
<1> SUFFICES ASSUME Bad # {} PROVE FALSE
  OBVIOUS
<1>2. PICK T \in Bad : \A U \in Bad : ~ (<<U, T>> \in R)
  <2> HIDE DEF R, Bad
  <2>1. Bad \subseteq SUBSET S
    BY DEF Bad
  <2> QED  BY <1>1, <2>1, WFMin
<1>3. ASSUME NEW U \in SUBSET T, U # T PROVE U \in F
  BY <1>2, <1>3 DEF StrictSubsetOrdering
<1> QED  BY <1>2, <1>3

\* A set that is not empty has an element to pick.
LEMMA PickedIs == ASSUME NEW T, T # {} PROVE Picked(T) \in T
BY DEF Picked

\* One step of the recursion.
LEMMA SumUnfolds ==
  ASSUME NEW S, NEW h, NEW g, Sums(g, h, S), NEW T \in SUBSET S
  PROVE  g[T] = IF T = {} THEN 0 ELSE h[Picked(T)] + g[T \ {Picked(T)}]
BY DEF Sums

\* Sums over a subset are the same, whichever set they are taken from.
LEMMA SumAgrees ==
  ASSUME NEW S, IsFiniteSet(S), NEW h, NEW T, NEW i, NEW g, NEW k,
         Sums(g, h, S), Sums(k, i, T), T \subseteq S, \A x \in T : h[x] = i[x]
  PROVE  k[T] = g[T]
<1> DEFINE F == {U \in SUBSET T : k[U] = g[U]}
<1>1. ASSUME NEW U \in SUBSET T, \A V \in SUBSET U : V # U => V \in F PROVE U \in F
  <2>1. g[U] = IF U = {} THEN 0 ELSE h[Picked(U)] + g[U \ {Picked(U)}]
    <3> HIDE DEF F
    <3>1. U \in SUBSET S
      OBVIOUS
    <3> QED  BY ONLY <3>1, Sums(g, h, S), SumUnfolds
  <2>2. k[U] = IF U = {} THEN 0 ELSE i[Picked(U)] + k[U \ {Picked(U)}]
    BY SumUnfolds
  <2>3. U # {} => Picked(U) \in U
    BY PickedIs
  <2> QED  BY <1>1, <2>1, <2>2, <2>3
<1>2. IsFiniteSet(T)
  BY FS_Subset
<1>3. SUBSET T \subseteq F
  <2> HIDE DEF F
  <2> QED  BY <1>1, <1>2, SubsetInduction
<1> QED  BY <1>3

\* Sums of numbers are numbers.
LEMMA SumNat ==
  ASSUME NEW S, IsFiniteSet(S), NEW h \in [S -> Nat], NEW g, Sums(g, h, S)
  PROVE  \A T \in SUBSET S : g[T] \in Nat
<1> DEFINE F == {T \in SUBSET S : g[T] \in Nat}
<1>1. ASSUME NEW T \in SUBSET S, \A U \in SUBSET T : U # T => U \in F PROVE T \in F
  <2>1. g[T] = IF T = {} THEN 0 ELSE h[Picked(T)] + g[T \ {Picked(T)}]
    BY SumUnfolds
  <2>2. T # {} => Picked(T) \in T
    BY PickedIs
  <2> QED  BY <1>1, <2>1, <2>2
<1>2. SUBSET S \subseteq F
  <2> HIDE DEF F
  <2> QED  BY <1>1, SubsetInduction
<1> QED  BY <1>2

\* There are such sums: the recursion defines a function.
LEMMA SumExists ==
  ASSUME NEW S, IsFiniteSet(S), NEW h PROVE \E g : Sums(g, h, S)
<1> DEFINE F == {T \in SUBSET S : \E g : Sums(g, h, T)}
           Fn(T) == CHOOSE g : Sums(g, h, T)
           one(T) == IF T = {} THEN 0 ELSE h[Picked(T)] + Fn(T \ {Picked(T)})[T \ {Picked(T)}]
           all(T) == [U \in SUBSET T |-> one(U)]
<1>1. ASSUME NEW T \in SUBSET S, \A U \in SUBSET T : U # T => U \in F PROVE T \in F
  <2>1. ASSUME NEW U \in SUBSET T, U # T PROVE Sums(Fn(U), h, U)
    BY <1>1, <2>1, Zenon
  <2> HIDE DEF Fn
  <2>2. ASSUME NEW U \in SUBSET T, U # T PROVE Fn(U)[U] = one(U)
    <3> DEFINE V == U \ {Picked(U)}
    <3>1. Fn(U)[U] = IF U = {} THEN 0 ELSE h[Picked(U)] + Fn(U)[V]
      BY <2>1, <2>2, SumUnfolds
    <3>2. CASE U # {}
      <4>1. IsFiniteSet(U) /\ V \subseteq U /\ V # T /\ V \in SUBSET T
        BY FS_Subset, <2>2
      <4>2. Sums(Fn(V), h, V) /\ Sums(Fn(U), h, U)
        BY <2>1, <2>2, <4>1
      <4>3. Fn(V)[V] = Fn(U)[V]
        <5> HIDE DEF V
        <5> QED  BY <4>1, <4>2, SumAgrees
      <4> QED  BY <3>1, <3>2, <4>3
    <3> QED  BY <3>1, <3>2
  <2>3. Sums(all(T), h, T)
    <3>1. ASSUME NEW U \in SUBSET T
          PROVE  one(U) = IF U = {} THEN 0 ELSE h[Picked(U)] + all(T)[U \ {Picked(U)}]
      <4>1. CASE U # {}
        <5>1. Picked(U) \in U
          BY <4>1, PickedIs
        <5>2. U \ {Picked(U)} \in SUBSET T /\ U \ {Picked(U)} # T
          BY <5>1
        <5> QED  BY <4>1, <5>2, <2>2
      <4> QED  BY <4>1
    <3> QED  BY <3>1 DEF Sums
  <2> QED  BY <2>3
<1>2. SUBSET S \subseteq F
  <2> HIDE DEF F
  <2> QED  BY <1>1, SubsetInduction
<1> QED  BY <1>2

\* Any element may be taken first.
LEMMA SumSplits ==
  ASSUME NEW S, IsFiniteSet(S), NEW h \in [S -> Nat], NEW g, Sums(g, h, S),
         NEW A \in SUBSET S, NEW a \in A
  PROVE  g[A] = h[a] + g[A \ {a}]
<1> DEFINE F == {T \in SUBSET S : \A x \in T : g[T] = h[x] + g[T \ {x}]}
<1>1. ASSUME NEW T \in SUBSET S, \A U \in SUBSET T : U # T => U \in F PROVE T \in F
  <2> SUFFICES ASSUME NEW x \in T PROVE g[T] = h[x] + g[T \ {x}]
    OBVIOUS
  <2> DEFINE y == Picked(T)
  <2>1. y \in T /\ g[T] = h[y] + g[T \ {y}]
    BY PickedIs, SumUnfolds
  <2> HIDE DEF y
  <2>2. CASE x # y
    <3>1. g[T \ {y}] = h[x] + g[(T \ {y}) \ {x}]
      <4>1. T \ {y} \in F /\ x \in T \ {y}
        BY <1>1, <2>1, <2>2
      <4> QED  BY <4>1
    <3>2. g[T \ {x}] = h[y] + g[(T \ {x}) \ {y}]
      <4>1. T \ {x} \in F /\ y \in T \ {x}
        BY <1>1, <2>1, <2>2
      <4> QED  BY <4>1
    <3>3. (T \ {x}) \ {y} = (T \ {y}) \ {x}
      OBVIOUS
    <3>4. h[x] \in Nat /\ h[y] \in Nat /\ g[(T \ {x}) \ {y}] \in Nat
      BY <2>1, SumNat
    <3>5. g[T] = h[y] + (h[x] + g[(T \ {x}) \ {y}])
      BY <2>1, <3>1, <3>3
    <3> DEFINE r == g[(T \ {x}) \ {y}]
    <3> HIDE DEF r
    <3> QED  BY <3>2, <3>4, <3>5 DEF r
  <2> QED  BY <2>1, <2>2
<1>2. SUBSET S \subseteq F
  <2> HIDE DEF F
  <2> QED  BY <1>1, SubsetInduction
<1> QED  BY <1>2

\* The sum over a subset is no greater.
LEMMA SumGrows ==
  ASSUME NEW S, IsFiniteSet(S), NEW h \in [S -> Nat], NEW g, Sums(g, h, S), NEW A \in SUBSET S
  PROVE  g[A] <= g[S]
<1> DEFINE F == {T \in SUBSET S : \A U \in SUBSET T : g[U] <= g[T]}
<1>1. ASSUME NEW T \in SUBSET S, \A U \in SUBSET T : U # T => U \in F PROVE T \in F
  <2> SUFFICES ASSUME NEW U \in SUBSET T PROVE g[U] <= g[T]
    OBVIOUS
  <2>1. g[U] \in Nat /\ g[T] \in Nat
    BY SumNat
  <2>2. CASE U # T
    <3>1. PICK x \in T : x \notin U
      BY <2>2
    <3>2. g[T] = h[x] + g[T \ {x}]
      BY SumSplits
    <3>3. g[U] <= g[T \ {x}]
      <4>1. T \ {x} \in F /\ U \in SUBSET (T \ {x})
        BY <1>1, <3>1
      <4> QED  BY <4>1
    <3>4. h[x] \in Nat /\ g[T \ {x}] \in Nat
      BY SumNat
    <3> QED  BY <2>1, <3>2, <3>3, <3>4
  <2> QED  BY <2>1, <2>2
<1>2. SUBSET S \subseteq F
  <2> HIDE DEF F
  <2> QED  BY <1>1, SubsetInduction
<1> QED  BY <1>2

\* MapThenSumSet computes such a sum, of the rows an account is charged for,
LEMMA HoldSum ==
  ASSUME NEW S, IsFiniteSet(S)
  PROVE  \E g : /\ Sums(g, [c \in S |-> Hold[c[1]][c[2]]], S)
                /\ g[S] = MapThenSumSet(LAMBDA c : Hold[c[1]][c[2]], S)
<1> DEFINE h == [c \in S |-> Hold[c[1]][c[2]]]
           Eq(g) == g = [T \in SUBSET S |->
               IF T = {} THEN 0
               ELSE LET x == CHOOSE x \in T : TRUE IN Hold[x[1]][x[2]] + g[T \ {x}]]
           it == CHOOSE g : Eq(g)
<1>1. ASSUME NEW g PROVE Sums(g, h, S) <=> Eq(g)
  <2>1. ASSUME NEW T \in SUBSET S, T # {}
        PROVE  h[Picked(T)] = Hold[Picked(T)[1]][Picked(T)[2]]
    BY <2>1, PickedIs
  <2> QED  BY <2>1 DEF Sums, Picked
<1>2. MapThenSumSet(LAMBDA c : Hold[c[1]][c[2]], S) = it[S]
  BY DEF MapThenSumSet, MapThenFoldSet
<1>3. \E g : Eq(g)
  <2> HIDE DEF Eq, h
  <2> QED  BY <1>1, SumExists
<1>4. Eq(it)
  <2> HIDE DEF Eq
  <2> QED  BY <1>3, Zenon
<1> QED  BY <1>1, <1>2, <1>4

\* What an account is charged for fewer rows is a number, and no greater.
LEMMA TotalGrows ==
  ASSUME NEW C \in SUBSET (Vm \X Row), IsFiniteSet(C), NEW D \in SUBSET C, NEW a
  PROVE  /\ Total(C, a, "hold", Hold) \in Nat /\ Total(D, a, "hold", Hold) \in Nat
         /\ Total(D, a, "hold", Hold) <= Total(C, a, "hold", Hold)
<1> DEFINE All == {c \in C : Owner[c[1]] = a /\ PaymentType(c[1]) = "hold"}
           Some == {c \in D : Owner[c[1]] = a /\ PaymentType(c[1]) = "hold"}
           h == [c \in All |-> Hold[c[1]][c[2]]]
           i == [c \in Some |-> Hold[c[1]][c[2]]]
<1>1. /\ Total(C, a, "hold", Hold) = MapThenSumSet(LAMBDA c : Hold[c[1]][c[2]], All)
      /\ Total(D, a, "hold", Hold) = MapThenSumSet(LAMBDA c : Hold[c[1]][c[2]], Some)
  BY DEF Total
<1>2. IsFiniteSet(All) /\ IsFiniteSet(Some) /\ Some \subseteq All
  BY FS_Subset
<1>3. h \in [All -> Nat]
  BY ConstantsAssumption
<1>4. \A c \in Some : h[c] = i[c]
  OBVIOUS
<1>5. PICK g : Sums(g, h, All) /\ g[All] = Total(C, a, "hold", Hold)
  <2> HIDE DEF All
  <2> QED  BY <1>1, <1>2, HoldSum
<1>6. PICK k : Sums(k, i, Some) /\ k[Some] = Total(D, a, "hold", Hold)
  <2> HIDE DEF Some
  <2> QED  BY <1>1, <1>2, HoldSum
<1> HIDE DEF All, Some, h, i
<1>7. k[Some] = g[Some]
  <2>1. IsFiniteSet(All) /\ Some \subseteq All /\ \A x \in Some : h[x] = i[x]
    BY <1>2, <1>4
  <2>2. Sums(g, h, All) /\ Sums(k, i, Some)
    BY <1>5, <1>6
  <2> QED  BY ONLY <2>1, <2>2, SumAgrees
<1> QED  BY <1>2, <1>3, <1>5, <1>6, <1>7, SumNat, SumGrows

\* and of the rows of one VM.
LEMMA CostIsNumber == ASSUME NEW v \in Vm PROVE MessageCost(v) \in Nat
<1> DEFINE h == [r \in Row |-> Hold[v][r]]
           Eq(g) == g = [T \in SUBSET Row |->
               IF T = {} THEN 0
               ELSE LET r == CHOOSE r \in T : TRUE IN Hold[v][r] + g[T \ {r}]]
           it == CHOOSE g : Eq(g)
<1>1. IsFiniteSet(Row)
  <2>1. Row = {"execution"} \cup {"volumes"}
    BY DEF Row
  <2> QED  BY <2>1, FS_Singleton, FS_Union
<1>2. ASSUME NEW g PROVE Sums(g, h, Row) <=> Eq(g)
  <2>1. ASSUME NEW T \in SUBSET Row, T # {} PROVE h[Picked(T)] = Hold[v][Picked(T)]
    BY <2>1, PickedIs
  <2> QED  BY <2>1 DEF Sums, Picked
<1>3. MessageCost(v) = it[Row]
  BY DEF MessageCost, MapThenSumSet, MapThenFoldSet
<1>4. Eq(it)
  <2>1. \E g : Eq(g)
    <3> HIDE DEF Eq, h
    <3> QED  BY <1>1, <1>2, SumExists
  <2> HIDE DEF Eq
  <2> QED  BY <2>1, Zenon
<1>5. Sums(it, h, Row)
  BY <1>2, <1>4
<1>6. h \in [Row -> Nat]
  BY ConstantsAssumption
<1> HIDE DEF h, it
<1> QED  BY <1>1, <1>3, <1>5, <1>6, SumNat

-----------------------------------------------------------------------------
(***************************************************************************)
(* FitsBeside, by the sums.                                                *)
(***************************************************************************)

\* What a FORGET has not marked stays charged during the batch.
KeptInv ==
    /\ IsFiniteSet(charged) /\ IsFiniteSet(oldCharged)
    /\ \A c \in oldCharged : c[1] \notin forgotten => c \in charged

\* What was charged when the batch began and is not forgotten.
Standing == {c \in oldCharged : c[1] \notin forgotten}

\* v fits in the balance beside that.
Fits(v) == Total(Standing, Owner[v], "hold", Hold) + MessageCost(v) <= HoldBalance[Owner[v]]

\* v is past its balance check, or charged for in this batch.
Counted(v) ==
    /\ Payment[v] = "hold"
    /\ v \notin forgotten
    /\ \/ at[v] \in {"row", "version", "execution", "volumes", "record"}
       \/ \E r \in Row : <<v, r>> \in charged \ oldCharged

\* During a batch what stands can only shrink.
LEMMA FitsStays ==
  ASSUME TypeOK, KeptInv, oldCharged' = oldCharged, forgotten \subseteq forgotten',
         NEW v \in Vm, Fits(v)
  PROVE  Fits(v)'
<1>1. Standing \in SUBSET (Vm \X Row) /\ IsFiniteSet(Standing) /\ Standing' \in SUBSET Standing
  BY FS_Subset DEF Standing, TypeOK, KeptInv
<1>2. Total(Standing', Owner[v], "hold", Hold) <= Total(Standing, Owner[v], "hold", Hold)
  BY <1>1, TotalGrows
<1>3. Total(Standing', Owner[v], "hold", Hold) \in Nat /\ Total(Standing, Owner[v], "hold", Hold) \in Nat
  BY <1>1, TotalGrows
<1>4. MessageCost(v) \in Nat /\ HoldBalance[Owner[v]] \in Nat
  BY CostIsNumber, ConstantsAssumption
<1>5. Fits(v)' <=> Total(Standing', Owner[v], "hold", Hold) + MessageCost(v) <= HoldBalance[Owner[v]]
  BY DEF Fits
<1> QED  BY <1>2, <1>3, <1>4, <1>5 DEF Fits

\* What passes the check fits beside what stands.
LEMMA CheckedFits ==
  ASSUME TypeOK, KeptInv, NEW v \in Vm, Payment[v] = "hold", validate_balance(v)
  PROVE  Fits(v)
<1>1. Standing \in SUBSET charged /\ charged \in SUBSET (Vm \X Row) /\ IsFiniteSet(charged)
  BY DEF Standing, TypeOK, KeptInv
<1>2. /\ Total(Standing, Owner[v], "hold", Hold) <= Total(charged, Owner[v], "hold", Hold)
      /\ Total(Standing, Owner[v], "hold", Hold) \in Nat
      /\ Total(charged, Owner[v], "hold", Hold) \in Nat
  BY <1>1, TotalGrows
<1>3. MessageCost(v) \in Nat /\ HoldBalance[Owner[v]] \in Nat
  BY CostIsNumber, ConstantsAssumption
<1>4. HoldBalance[Owner[v]] >= Total(charged, Owner[v], "hold", Hold) + MessageCost(v)
  BY DEF validate_balance
<1> QED  BY <1>2, <1>3, <1>4 DEF Fits

\* Costs are deleted only of what is marked forgotten.
LEMMA KeptStep == TypeOK /\ ForgetInv /\ KeptInv /\ [Next]_vars => KeptInv'
<1> SUFFICES ASSUME TypeOK, ForgetInv, KeptInv, [Next]_vars
             PROVE  KeptInv'
  OBVIOUS
<1> USE ConstantsAssumption DEF TypeOK, ForgetInv, KeptInv, tables, history, Task
<1>1. CASE process_batch
  BY <1>1 DEF process_batch
<1>2. ASSUME NEW t \in Task, refuse(t) \/ task_fails(t)
      PROVE  KeptInv'
  BY <1>2 DEF refuse, task_fails
<1>3. ASSUME NEW u \in Vm, VmStep(u)
      PROVE  KeptInv'
  <2>1. CASE validate(u)
    BY <2>1 DEF validate
  <2>2. CASE amend(u)
    BY <2>2 DEF amend
  <2>3. CASE check_balance(u)
    BY <2>3 DEF check_balance
  <2>4. CASE store_row(u)
    BY <2>4 DEF store_row
  <2>5. CASE upsert_vm_version(u)
    BY <2>5 DEF upsert_vm_version
  <2>6. CASE store_account_costs(u)
    <3>1. IsFiniteSet(charged \cup {<<u, at[u]>>})
      BY FS_AddElement
    <3> QED  BY <2>6, <3>1 DEF store_account_costs
  <2>7. CASE store_processed_message(u)
    BY <2>7 DEF store_processed_message
  <2> QED  BY <1>3, <2>1, <2>2, <2>3, <2>4, <2>5, <2>6, <2>7 DEF VmStep
<1>4. ASSUME NEW g \in Forget, ForgetStep(g)
      PROVE  KeptInv'
  <2>1. CASE forget_validate(g)
    BY <2>1 DEF forget_validate
  <2>2. CASE mark_forgotten(g)
    BY <2>2 DEF mark_forgotten
  <2>3. CASE delete_vm_updates(g)
    BY <2>3 DEF delete_vm_updates
  <2>4. CASE delete_costs(g)
    <3>1. IsFiniteSet({c \in charged : c[1] # Target[g]})
      BY FS_Subset
    <3> QED  BY <2>4, <3>1 DEF delete_costs
  <2>5. CASE delete_row(g)
    BY <2>5 DEF delete_row
  <2>6. CASE delete_version(g)
    BY <2>6 DEF delete_version
  <2>7. CASE delete_message(g)
    BY <2>7 DEF delete_message
  <2> QED  BY <1>4, <2>1, <2>2, <2>3, <2>4, <2>5, <2>6, <2>7 DEF ForgetStep
<1>5. CASE UNCHANGED vars
  BY <1>5 DEF vars
<1> QED  BY <1>1, <1>2, <1>3, <1>4, <1>5 DEF Next

\* Nothing but the balance check and a new batch makes a VM count.
LEMMA CountStep ==
  ASSUME TypeOK, [Next]_vars, ~ process_batch, NEW v \in Vm, ~ check_balance(v), Counted(v)'
  PROVE  Counted(v)
<1> DEFINE P == {"row", "version", "execution", "volumes", "record"}
           Q == /\ at'[v] \in P => at[v] \in P
                /\ \A r \in Row : <<v, r>> \in charged' => <<v, r>> \in charged \/ at[v] \in P
                /\ oldCharged' = oldCharged /\ forgotten \subseteq forgotten'
<1> USE ConstantsAssumption DEF TypeOK, tables, history, Task, Goto
<1>1. Q
  <2>1. ASSUME NEW t \in Task, refuse(t) \/ task_fails(t) PROVE Q
    BY <2>1 DEF refuse, task_fails
  <2>2. ASSUME NEW u \in Vm, VmStep(u) PROVE Q
    <3>1. CASE validate(u)
      BY <3>1 DEF validate
    <3>2. CASE amend(u)
      BY <3>2 DEF amend
    <3>3. CASE check_balance(u)
      BY <3>3 DEF check_balance
    <3>4. CASE store_row(u)
      BY <3>4 DEF store_row
    <3>5. CASE upsert_vm_version(u)
      BY <3>5 DEF upsert_vm_version
    <3>6. CASE store_account_costs(u)
      BY <3>6 DEF store_account_costs, Row
    <3>7. CASE store_processed_message(u)
      BY <3>7 DEF store_processed_message
    <3> QED  BY <2>2, <3>1, <3>2, <3>3, <3>4, <3>5, <3>6, <3>7 DEF VmStep
  <2>3. ASSUME NEW g \in Forget, ForgetStep(g) PROVE Q
    <3>1. CASE forget_validate(g)
      BY <3>1 DEF forget_validate
    <3>2. CASE mark_forgotten(g)
      BY <3>2 DEF mark_forgotten
    <3>3. CASE delete_vm_updates(g)
      BY <3>3 DEF delete_vm_updates
    <3>4. CASE delete_costs(g)
      BY <3>4 DEF delete_costs
    <3>5. CASE delete_row(g)
      BY <3>5 DEF delete_row
    <3>6. CASE delete_version(g)
      BY <3>6 DEF delete_version
    <3>7. CASE delete_message(g)
      BY <3>7 DEF delete_message
    <3> QED  BY <2>3, <3>1, <3>2, <3>3, <3>4, <3>5, <3>6, <3>7 DEF ForgetStep
  <2>4. CASE UNCHANGED vars
    BY <2>4 DEF vars
  <2> QED  BY <2>1, <2>2, <2>3, <2>4 DEF Next
<1> HIDE DEF TypeOK
<1> QED  BY <1>1 DEF Counted

\* Only the balance check lets a VM in, and only a new batch lets more stand.
LEMMA FitStep ==
  ASSUME TypeOK, ForgetInv, KeptInv, [Next]_vars,
         \A v \in Vm : Counted(v) => Fits(v)
  PROVE  \A v \in Vm : Counted(v)' => Fits(v)'
<1> USE DEF tables, history
<1>1. CASE process_batch
  <2>1. \A v \in Vm : at'[v] \in {"validate", "idle"}
    BY <1>1 DEF process_batch, Task
  <2>2. oldCharged' = charged'
    BY <1>1 DEF process_batch
  <2> QED  BY <2>1, <2>2 DEF Counted
<1>2. CASE ~ process_batch
  <2> SUFFICES ASSUME NEW v \in Vm, Counted(v)'
               PROVE  Fits(v)'
    OBVIOUS
  <2>1. oldCharged' = oldCharged /\ forgotten \subseteq forgotten'
    BY <1>2 DEF Next, vars, VmStep, ForgetStep, refuse, task_fails, validate, amend, check_balance,
                store_row, upsert_vm_version, store_account_costs, store_processed_message,
                forget_validate, mark_forgotten, delete_vm_updates, delete_costs, delete_row,
                delete_version, delete_message
  <2>2. CASE Counted(v)
    BY <2>1, <2>2, FitsStays
  <2>3. CASE check_balance(v)
    <3>1. Payment[v] = "hold" /\ validate_balance(v)
      BY <2>3 DEF check_balance, Counted
    <3> QED  BY <2>1, <3>1, CheckedFits, FitsStays
  <2>4. CASE ~ Counted(v) /\ ~ check_balance(v)
    BY <1>2, <2>4, CountStep
  <2> QED  BY <2>2, <2>3, <2>4
<1> QED  BY <1>1, <1>2

\* A VM paid by holding tokens, past its check or charged for, fits in the
\* balance beside all that was charged when its batch began.
THEOREM ChargesFit == Spec => []FitsBeside
<1> DEFINE Inv == TypeOK /\ ForgetInv /\ KeptInv /\ \A v \in Vm : Counted(v) => Fits(v)
<1>1. Init => Inv
  BY ConstantsAssumption, FS_EmptySet
     DEF Init, TypeOK, Task, ForgetInv, KeptInv, Counted
<1>2. Inv /\ [Next]_vars => Inv'
  <2>1. ASSUME Inv, [Next]_vars PROVE Inv'
    <3>1. TypeOK' /\ ForgetInv' /\ KeptInv'
      BY <2>1, TypeStep, ForgetStepInv, KeptStep
    <3>2. \A v \in Vm : Counted(v)' => Fits(v)'
      BY <2>1, FitStep
    <3> QED  BY <3>1, <3>2
  <2> QED  BY <2>1
<1>3. Inv => FitsBeside
  BY DEF FitsBeside, Counted, Fits, Standing
<1> QED  BY <1>1, <1>2, <1>3, PTL DEF Spec

================================================================================
