----------------------------- MODULE RunOutcome -----------------------------
(***************************************************************************)
(* What a run promises whoever follows its progress stream: it is accepted *)
(* once, may ask for missing input instead of answering, and has at most   *)
(* one outcome, which never changes.  A question can only be withdrawn by  *)
(* a cancellation.  AgentRun implements this specification.                *)
(***************************************************************************)
CONSTANT Runs

VARIABLE outcome

Outcomes == {"completed", "failed", "cancelled"}

Init == outcome = [r \in Runs |-> "none"]

Accept(r) ==
  /\ outcome[r] = "none"
  /\ outcome' = [outcome EXCEPT ![r] = "open"]

Ask(r) ==
  /\ outcome[r] = "open"
  /\ outcome' = [outcome EXCEPT ![r] = "asked"]

Conclude(r) ==
  /\ outcome[r] = "open"
  /\ \E o \in Outcomes : outcome' = [outcome EXCEPT ![r] = o]

Withdraw(r) ==
  /\ outcome[r] = "asked"
  /\ outcome' = [outcome EXCEPT ![r] = "cancelled"]

Next == \E r \in Runs : Accept(r) \/ Ask(r) \/ Conclude(r) \/ Withdraw(r)

Spec == Init /\ [][Next]_outcome
=============================================================================
