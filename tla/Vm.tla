---------------------------------- MODULE Vm ----------------------------------
(***************************************************************************)
(* PROGRAM and INSTANCE messages: their rows in programs and instances,    *)
(* the current version of a VM in vm_versions, what accounts are charged   *)
(* in account_costs, and the FORGETs of VMs (src/handlers/program.rs,      *)
(* instance.rs, vm_common.rs, forget.rs, services/cost.rs).  The tasks of  *)
(* a batch run concurrently, statement by statement, without transactions; *)
(* batches follow each other (jobs/message_processor.rs).                  *)
(*                                                                         *)
(* Every VM message here comes by gossip and is FORGOTTEN by its owner;    *)
(* what else a validation may find wrong (resources, file pins, sizes,     *)
(* permissions) is refuse, which may happen to any message.                *)
(***************************************************************************)
EXTENDS Naturals, FiniteSets, FiniteSetsExt

CONSTANTS
    Vm,             \* PROGRAM and INSTANCE messages
    Instance,       \* those that are INSTANCEs
    Replaces,       \* Replaces[v]: the VM v amends, or None
    AllowAmend,     \* VMs whose content has allow_amend
    Time,           \* Time[v]: content.time
    Owner,          \* Owner[v]: content.address
    Payment,        \* Payment[v]: the payment type, or None
    Hold,           \* Hold[v][r]: cost_hold of row r of v's costs
    Credit,         \* Credit[v][r]: cost_credit of row r
    HoldBalance,    \* HoldBalance[a]: the ETH balance of address a
    CreditBalance,  \* CreditBalance[a]: what a's credits pay for a day
    Forget,         \* FORGET messages
    Target,         \* Target[f]: the VM f names
    MaxFaults,      \* bound: timeouts, crashes and DB errors of a task
    None

\* The rows of account_costs of one VM, in the order they are written.
Row == {"execution", "volumes"}

ASSUME ConstantsAssumption ==
    /\ Instance \subseteq Vm
    /\ None \notin Vm
    /\ Replaces \in [Vm -> Vm \cup {None}]
    /\ \A v \in Vm : Replaces[v] # v
    /\ AllowAmend \subseteq Vm
    /\ Time \in [Vm -> Nat]
    /\ Payment \in [Vm -> {"hold", "credit", "superfluid", None}]
    /\ Hold \in [Vm -> [Row -> Nat]]
    /\ Credit \in [Vm -> [Row -> Nat]]
    /\ \A v \in Vm : HoldBalance[Owner[v]] \in Nat
    /\ Target \in [Forget -> Vm]
    /\ Forget \cap Vm = {}
    /\ MaxFaults \in Nat

Task == Vm \cup Forget

VARIABLES
    vms,         \* rows of programs and instances
    current,     \* vm_versions: current[o] is o's current_version, or None
    charged,     \* rows of account_costs
    messages,    \* VMs in messages
    forgotten,   \* VMs in forgotten_messages
    at,          \* at[t]: the next statement of task t
    found,       \* found[f]: the message FORGET f looked up was there
    faults,      \* faults so far
    oldCurrent,  \* history: current when the batch began
    oldCharged,  \* history: charged when the batch began
    erased       \* history: VMs of which a FORGET ran to its end

tables == <<vms, current, charged, messages, forgotten>>
history == <<oldCurrent, oldCharged>>
vars == <<tables, at, found, faults, history, erased>>

\* The VM that v is a version of.
Original(v) == IF Replaces[v] = None THEN v ELSE Replaces[v]

TypeOK ==
    /\ vms \subseteq Vm
    /\ current \in [Vm -> Vm \cup {None}]
    /\ \A o \in Vm : current[o] = None \/ Original(current[o]) = o
    /\ charged \subseteq Vm \X Row
    /\ messages \subseteq Vm
    /\ forgotten \subseteq Vm
    /\ at \in [Task -> {"idle", "validate", "amend", "balance", "row", "version",
                        "execution", "volumes", "record", "mark", "updates", "cascade",
                        "derived", "versions", "costs", "message"}]
    /\ found \in [Forget -> BOOLEAN]
    /\ faults \in 0..MaxFaults
    /\ oldCurrent \in [Vm -> Vm \cup {None}]
    /\ oldCharged \subseteq Vm \X Row
    /\ erased \subseteq Vm

Init ==
    /\ vms = {}
    /\ current = [o \in Vm |-> None]
    /\ charged = {}
    /\ messages = {}
    /\ forgotten = {}
    /\ at = [t \in Task |-> "idle"]
    /\ found = [f \in Forget |-> FALSE]
    /\ faults = 0
    /\ oldCurrent = current
    /\ oldCharged = {}
    /\ erased = {}

Goto(t, s) == at' = [at EXCEPT ![t] = s]

-----------------------------------------------------------------------------
(* The processor.                                                          *)

\* Wrong variant of Fresh: forgotten messages are not looked up.
Fresh_forgetful == Vm \ vms

\* What batch_check_duplicates and batch_check_forgotten leave of a batch.
Fresh == Vm \ (vms \cup forgotten)

\* process_batch: some pending rows, delivered again at will, become tasks.
process_batch ==
    /\ \A t \in Task : at[t] = "idle"
    /\ \E S \in SUBSET (Fresh \cup Forget) :
          /\ S # {}
          /\ at' = [t \in Task |-> IF t \in S THEN "validate" ELSE "idle"]
    /\ oldCurrent' = current
    /\ oldCharged' = charged
    /\ UNCHANGED <<tables, found, faults, erased>>

\* The handler refuses a message before it has written anything.
refuse(t) ==
    /\ at[t] \in {"validate", "amend", "balance"}
    /\ Goto(t, "idle")
    /\ UNCHANGED <<tables, found, faults, history, erased>>

\* A task times out, dies with the process or gets an error from the database.
task_fails(t) ==
    /\ faults < MaxFaults
    /\ at[t] # "idle"
    /\ faults' = faults + 1
    /\ Goto(t, "idle")
    /\ UNCHANGED <<tables, found, history, erased>>

-----------------------------------------------------------------------------
(* ProgramHandler and InstanceHandler, for VM v.                           *)

\* validate_amendment, the lookup: there is such a VM, and it is no amendment.
validate(v) ==
    /\ at[v] = "validate"
    /\ Replaces[v] # None =>
          /\ Replaces[v] \in vms
          /\ Replaces[v] \in Instance <=> v \in Instance
          /\ Replaces[Replaces[v]] = None
    /\ Goto(v, IF Replaces[v] = None THEN "balance" ELSE "amend")
    /\ UNCHANGED <<tables, found, faults, history, erased>>

\* Wrong variant of is_vm_amend_allowed: the original decides for all versions.
is_vm_amend_allowed_original(o) == o \in vms \cap AllowAmend

\* The current version decides; FALSE also stands for "cannot be determined".
is_vm_amend_allowed(o) == current[o] \in vms \cap AllowAmend

amend(v) ==
    /\ at[v] = "amend"
    /\ is_vm_amend_allowed(Replaces[v])
    /\ Goto(v, "balance")
    /\ UNCHANGED <<tables, found, faults, history, erased>>

\* The payment type of v's rows in account_costs.
PaymentType(v) == IF Payment[v] = None THEN "hold" ELSE Payment[v]

\* get_total_cost_for_address, of rows C and one column of the costs.
Total(C, a, type, Cost) ==
    MapThenSumSet(LAMBDA c : Cost[c[1]][c[2]],
                  {c \in C : Owner[c[1]] = a /\ PaymentType(c[1]) = type})

\* Both handlers sum cost_hold, whatever the payment type.
MessageCost(v) == MapThenSumSet(LAMBDA r : Hold[v][r], Row)

\* Wrong variant of validate_balance: only the new message is counted.
validate_balance_alone(v) ==
    CASE Payment[v] = "hold" -> HoldBalance[Owner[v]] >= MessageCost(v)
      [] Payment[v] = "credit" -> CreditBalance[Owner[v]] >= MessageCost(v)
      [] OTHER -> TRUE

validate_balance(v) ==
    CASE Payment[v] = "hold" ->
            HoldBalance[Owner[v]] >= Total(charged, Owner[v], "hold", Hold) + MessageCost(v)
      [] Payment[v] = "credit" ->
            CreditBalance[Owner[v]] >= Total(charged, Owner[v], "credit", Credit) + MessageCost(v)
      [] OTHER -> TRUE

check_balance(v) ==
    /\ at[v] = "balance"
    /\ validate_balance(v)
    /\ Goto(v, "row")
    /\ UNCHANGED <<tables, found, faults, history, erased>>

\* store_instance, store_program; their volumes have no other reader.
store_row(v) ==
    /\ at[v] = "row"
    /\ vms' = vms \cup {v}
    /\ Goto(v, "version")
    /\ UNCHANGED <<current, charged, messages, forgotten, found, faults, history, erased>>

\* Wrong variant of Upserted: the last to be processed is the current version.
Upserted_any(v) == TRUE

\* ON CONFLICT DO UPDATE WHERE last_updated < $4: last_updated is the time of
\* the current version.
Upserted(v) == current[Original(v)] = None \/ Time[current[Original(v)]] < Time[v]

\* Wrong variant of upsert_vm_version: the two hashes are swapped.
upsert_vm_version_swapped(v) ==
    /\ at[v] = "version"
    /\ current' = IF Upserted(v) THEN [current EXCEPT ![v] = Original(v)] ELSE current
    /\ Goto(v, "execution")
    /\ UNCHANGED <<vms, charged, messages, forgotten, found, faults, history, erased>>

upsert_vm_version(v) ==
    /\ at[v] = "version"
    /\ current' = IF Upserted(v) THEN [current EXCEPT ![Original(v)] = v] ELSE current
    /\ Goto(v, "execution")
    /\ UNCHANGED <<vms, charged, messages, forgotten, found, faults, history, erased>>

\* Wrong variant of store_account_costs: it returns after the first row.
store_account_costs_first(v) ==
    /\ at[v] \in Row
    /\ charged' = charged \cup {<<v, at[v]>>}
    /\ Goto(v, "record")
    /\ UNCHANGED <<vms, current, messages, forgotten, found, faults, history, erased>>

\* store_account_costs, one row after the other.
store_account_costs(v) ==
    /\ at[v] \in Row
    /\ charged' = charged \cup {<<v, at[v]>>}
    /\ Goto(v, IF at[v] = "execution" THEN "volumes" ELSE "record")
    /\ UNCHANGED <<vms, current, messages, forgotten, found, faults, history, erased>>

store_processed_message(v) ==
    /\ at[v] = "record"
    /\ messages' = messages \cup {v}
    /\ Goto(v, "idle")
    /\ UNCHANGED <<vms, current, charged, forgotten, found, faults, history, erased>>

-----------------------------------------------------------------------------
(* ForgetHandler, for FORGET f of a VM.                                    *)

\* Only messages tell the owner of a VM.
forget_validate(f) ==
    /\ at[f] = "validate"
    /\ Target[f] \in messages \ forgotten
    /\ Goto(f, "mark")
    /\ UNCHANGED <<tables, found, faults, history, erased>>

\* get_message and mark_forgotten; without the message there is no cascade.
mark_forgotten(f) ==
    /\ at[f] = "mark"
    /\ forgotten' = forgotten \cup {Target[f]}
    /\ found' = [found EXCEPT ![f] = Target[f] \in messages]
    /\ Goto(f, IF found'[f] THEN "updates" ELSE "message")
    /\ UNCHANGED <<vms, current, charged, messages, faults, history, erased>>

\* cascade_forget: the rows of the amendments go, and nothing else of them.
delete_vm_updates(f) ==
    /\ at[f] = "updates"
    /\ vms' = {v \in vms : Replaces[v] # Target[f]}
    /\ Goto(f, "cascade")
    /\ UNCHANGED <<current, charged, messages, forgotten, found, faults, history, erased>>

\* DELETE FROM account_costs, by the cascade and again with the derived rows.
delete_costs(f) ==
    /\ at[f] \in {"cascade", "costs"}
    /\ charged' = {c \in charged : c[1] # Target[f]}
    /\ Goto(f, IF at[f] = "cascade" THEN "derived" ELSE "message")
    /\ UNCHANGED <<vms, current, messages, forgotten, found, faults, history, erased>>

\* delete_derived_data: the row of programs or instances,
delete_row(f) ==
    /\ at[f] = "derived"
    /\ vms' = vms \ {Target[f]}
    /\ Goto(f, "versions")
    /\ UNCHANGED <<current, charged, messages, forgotten, found, faults, history, erased>>

\* and the row of vm_versions whose vm_hash it is.
delete_version(f) ==
    /\ at[f] = "versions"
    /\ current' = [current EXCEPT ![Target[f]] = None]
    /\ Goto(f, "costs")
    /\ UNCHANGED <<vms, charged, messages, forgotten, found, faults, history, erased>>

delete_message(f) ==
    /\ at[f] = "message"
    /\ messages' = messages \ {Target[f]}
    /\ erased' = IF found[f] THEN erased \cup {Target[f]} ELSE erased
    /\ Goto(f, "idle")
    /\ UNCHANGED <<vms, current, charged, forgotten, found, faults, history>>

-----------------------------------------------------------------------------

VmStep(v) ==
    \/ validate(v) \/ amend(v) \/ check_balance(v) \/ store_row(v)
    \/ upsert_vm_version(v) \/ store_account_costs(v) \/ store_processed_message(v)

ForgetStep(f) ==
    \/ forget_validate(f) \/ mark_forgotten(f) \/ delete_vm_updates(f) \/ delete_costs(f)
    \/ delete_row(f) \/ delete_version(f) \/ delete_message(f)

Next ==
    \/ process_batch
    \/ \E t \in Task : refuse(t) \/ task_fails(t)
    \/ \E v \in Vm : VmStep(v)
    \/ \E f \in Forget : ForgetStep(f)

Spec == Init /\ [][Next]_vars

-----------------------------------------------------------------------------
(* Properties.                                                             *)

\* A VM whose message was recorded is charged for in full until it is
\* forgotten, whatever fails or is forgotten beside it.
RecordedVmIsCharged ==
    \A v \in messages \ forgotten : \A r \in Row : <<v, r>> \in charged

\* While a VM is not forgotten, none of its recorded versions is newer than the
\* one vm_versions calls current, in whatever order they were processed; the
\* current version may itself have been forgotten.
NewestVersionWins ==
    \A v \in messages :
        Original(v) \notin forgotten =>
            /\ current[Original(v)] # None
            /\ Time[v] <= Time[current[Original(v)]]

\* When a batch begins with a current version that does not allow amendments,
\* nothing amends the VM any more: it stays the current one until the VM is
\* forgotten.
LockedStaysLocked ==
    \A o \in Vm :
        /\ oldCurrent[o] # None
        /\ oldCurrent[o] \notin AllowAmend
        => current[o] \in {oldCurrent[o], None}

\* A VM paid by holding tokens that is past its balance check, and every one the
\* batch has begun to charge, fits in the balance together with all that was
\* charged when the batch began and is not forgotten since: only tasks of one
\* batch can overspend together.
FitsBeside ==
    \A v \in Vm :
        /\ Payment[v] = "hold"
        /\ v \notin forgotten
        /\ \/ at[v] \in {"row", "version", "execution", "volumes", "record"}
           \/ \E r \in Row : <<v, r>> \in charged \ oldCharged
        => Total({c \in oldCharged : c[1] \notin forgotten}, Owner[v], "hold", Hold)
              + MessageCost(v) <= HoldBalance[Owner[v]]

\* What a FORGET erased to its end does not come back and is not charged, though
\* its message may be delivered again at any time.  An amendment of a VM that is
\* being forgotten, or was forgotten by halves, is outside: its row may have been
\* deleted while its message stayed, so it may be stored again meanwhile.
ForgottenVmIsGone ==
    \A v \in erased :
        Replaces[v] = None \/ Replaces[v] \notin forgotten =>
            /\ v \notin vms \cup messages
            /\ \A r \in Row : <<v, r>> \notin charged

=============================================================================
