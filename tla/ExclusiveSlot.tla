--------------------------- MODULE ExclusiveSlot ---------------------------
(***************************************************************************)
(* What the merge slot promises (internal/storage/merge_slot.go: "prevent- *)
(* ing two agents from simultaneously acquiring the slot"): an agent takes *)
(* the slot when nobody has it and keeps it until it gives it back.  The   *)
(* lease of an issue promises the same of the issue.                       *)
(***************************************************************************)
CONSTANT Agents
VARIABLE owners  \* the agents that may act as holders

Init == owners = {}
Take(a) == owners = {} /\ owners' = {a}
Give(a) == owners = {a} /\ owners' = {}
Next == \E a \in Agents : Take(a) \/ Give(a)
Spec == Init /\ [][Next]_owners
=============================================================================
