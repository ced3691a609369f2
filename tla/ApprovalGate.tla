----------------------------- MODULE ApprovalGate -----------------------------
(***************************************************************************)
(* What the approval gate promises, whoever asks and whoever answers: an   *)
(* approval is required once, decided once, and what was approved is       *)
(* executed once; nothing else is ever executed.                           *)
(***************************************************************************)
CONSTANT Slots      \* approvals that may be asked for

VARIABLE gate       \* gate[a]: how far approval a has come

States == {"none", "required", "approved", "rejected", "executed"}

GateTypeOK == gate \in [Slots -> States]

Init == gate = [a \in Slots |-> "none"]

Move(a, from, to) ==
  /\ gate[a] = from
  /\ gate' = [gate EXCEPT ![a] = to]

Require(a) == Move(a, "none", "required")
Approve(a) == Move(a, "required", "approved")
Reject(a)  == Move(a, "required", "rejected")
Execute(a) == Move(a, "approved", "executed")

Next == \E a \in Slots : Require(a) \/ Approve(a) \/ Reject(a) \/ Execute(a)

Spec == Init /\ [][Next]_gate

\* What was approved is not forgotten.
FairSpec == Spec /\ \A a \in Slots : WF_gate(Execute(a))
================================================================================
