----------------------------- MODULE SoleAttempt -----------------------------
(***************************************************************************)
(* What RuntimeKernel promises about the external work of a task: attempts  *)
(* are made one at a time.  No attempt begins while the outcome of an        *)
(* earlier one is not known, an outcome is final, and nothing begins or is   *)
(* settled once the task is cancelled.                                       *)
(***************************************************************************)
CONSTANTS Attempts

VARIABLES attempt,   \* of every attempt: none, open, or its outcome
          over       \* the task is cancelled

vars == <<attempt, over>>

Outcomes == {"done", "failed"}

TypeOK ==
  /\ attempt \in [Attempts -> Outcomes \cup {"none", "open"}]
  /\ over \in BOOLEAN

Init ==
  /\ attempt = [a \in Attempts |-> "none"]
  /\ over = FALSE

Begin(a) ==
  /\ ~over
  /\ attempt[a] = "none"
  /\ \A b \in Attempts : attempt[b] # "open"
  /\ attempt' = [attempt EXCEPT ![a] = "open"]
  /\ UNCHANGED over

Settle(a) ==
  /\ ~over
  /\ attempt[a] = "open"
  /\ \E outcome \in Outcomes : attempt' = [attempt EXCEPT ![a] = outcome]
  /\ UNCHANGED over

Cancel == over' = TRUE /\ UNCHANGED attempt

Next == Cancel \/ \E a \in Attempts : Begin(a) \/ Settle(a)

Spec == Init /\ [][Next]_vars
=============================================================================
