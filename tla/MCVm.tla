--------------------------------- MODULE MCVm ---------------------------------
(***************************************************************************)
(* A VM, two amendments of it, of which the newer one locks it, and another*)
(* VM of the same owner.                                                   *)
(***************************************************************************)
EXTENDS Vm

MCReplaces == [v \in Vm |-> IF v \in {"fix", "lock"} THEN "vm" ELSE None]
MCTime == [v \in Vm |-> CASE v = "vm" -> 2 [] v = "fix" -> 1 [] v = "lock" -> 3 [] OTHER -> 1]
MCOwner == [v \in Vm |-> "alice"]
MCPayment == [v \in Vm |-> CASE v = "fix" -> None [] v = "tool" -> "credit" [] OTHER -> "hold"]
MCHold == [v \in Vm |-> [r \in Row |-> 1]]
MCCredit == [v \in Vm |-> [r \in Row |-> IF r = "execution" THEN 2 ELSE 1]]
MCHoldBalance == [a \in {"alice"} |-> 5]
MCCreditBalance == [a \in {"alice"} |-> 2]
MCTarget == [f \in Forget |-> CASE f = "forget" -> "vm" [] f = "undo" -> "fix" [] f = "unlock" -> "lock"]

=============================================================================
