-------------------------- MODULE OutcomeLifecycle --------------------------
(***************************************************************************)
(* What the outcome pipeline promises the backend, without a ledger, a     *)
(* file or a connection: for each command or action it learns at most one  *)
(* acceptance and at most one terminal outcome, in that order, and a       *)
(* terminal outcome never changes.                                         *)
(***************************************************************************)
CONSTANTS Subjects,   \* commands and actions
          Terminal    \* the terminal states

VARIABLE outcome      \* Subjects -> what the backend knows

Report(s, state) ==
  /\ \/ outcome[s] = "none" /\ state \in Terminal \cup {"accepted"}
     \/ outcome[s] = "accepted" /\ state \in Terminal
  /\ outcome' = [outcome EXCEPT ![s] = state]

Init == outcome = [s \in Subjects |-> "none"]

Next == \E s \in Subjects, state \in Terminal \cup {"accepted"} : Report(s, state)

Spec == Init /\ [][Next]_outcome
=============================================================================
