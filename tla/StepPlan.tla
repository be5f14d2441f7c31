------------------------------ MODULE StepPlan ------------------------------
(***************************************************************************)
(* What a host job promises (controlmesh/runtime/host_jobs.py, class        *)
(* HostJobRunner, and docs/release-note-v0.29.0.md): its steps finish one   *)
(* after the other, a step that needs an approval only after it has one,    *)
(* and the outcome of the job, once there is one, stays.                    *)
(***************************************************************************)
EXTENDS Naturals

CONSTANTS NSteps, Approvals

VARIABLES outcome,   \* open, or how the job ended
          done,      \* steps 1 .. done have finished
          approved   \* steps a person has approved

plan == <<outcome, done, approved>>

Outcomes == {"open", "completed", "failed", "cancelled"}

PlanInit == outcome = "open" /\ done = 0 /\ approved = {}

Approve ==
  /\ outcome = "open" /\ done + 1 \in Approvals \ approved
  /\ approved' = approved \cup {done + 1}
  /\ UNCHANGED <<outcome, done>>

(* The last step may complete the job at once, or leave that to Complete.   *)
Finish ==
  /\ outcome = "open" /\ done < NSteps
  /\ done + 1 \in Approvals => done + 1 \in approved
  /\ done' = done + 1
  /\ \/ outcome' = "open"
     \/ done' = NSteps /\ outcome' = "completed"
  /\ UNCHANGED approved

Complete == outcome = "open" /\ done = NSteps /\ outcome' = "completed" /\ UNCHANGED <<done, approved>>

Fail   == outcome = "open" /\ done < NSteps /\ outcome' = "failed" /\ UNCHANGED <<done, approved>>

Cancel == outcome = "open" /\ outcome' = "cancelled" /\ UNCHANGED <<done, approved>>

PlanNext == Approve \/ Finish \/ Complete \/ Fail \/ Cancel

PlanSpec == PlanInit /\ [][PlanNext]_plan
=============================================================================
