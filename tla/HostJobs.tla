------------------------------ MODULE HostJobs ------------------------------
(***************************************************************************)
(* One durable host job: HostJobStore and HostJobRunner of                  *)
(* controlmesh/runtime/host_jobs.py, driven by TaskHub (jobs of one step)   *)
(* and by plan_review_loop.approve_current_phase (release jobs).            *)
(*                                                                         *)
(* The runner lives in one asyncio process: a step of this module is the    *)
(* code between two awaits.  The job's authority files and the exit code    *)
(* files survive a restart, and so do the workers, which run in sessions of *)
(* their own.  Jobs share nothing but a directory.                          *)
(***************************************************************************)
EXTENDS Naturals, FiniteSets

CONSTANTS NSteps,        \* steps of the job's graph
          Approvals,     \* steps with approval_required
          MaxLaunches,   \* bound: workers launched for one step
          MaxRestarts,   \* bound: restarts of the process
          Events         \* what may happen, see AllEvents

(*   cancel        somebody cancels the job                                *)
(*   start_again   somebody starts, or approves once more, a job whose     *)
(*                 current step is on file as running                      *)
(*   reconcile     somebody calls reconcile_job; of the code only          *)
(*                 host_job_bridge does, for jobs of one step              *)
(*   launch_fails  create_subprocess_exec raises                           *)
(*   worker_lost   a worker dies and leaves no exit code                   *)
(*   torn_write    the process dies between two writes of one step: the    *)
(*                 files of one put, two puts, the exit code and the put,  *)
(*                 the launch of a worker and the put of its pid           *)
(*   torn_create   it dies between HOST_JOB.json and STEPS.json of the     *)
(*                 job's first put                                         *)
AllEvents == {"cancel", "start_again", "reconcile", "launch_fails", "worker_lost",
              "torn_write", "torn_create"}

ASSUME JobAssumption ==
  /\ NSteps \in Nat \ {0} /\ Approvals \subseteq 1 .. NSteps
  /\ MaxLaunches \in Nat \ {0} /\ MaxRestarts \in Nat
  /\ Events \subseteq AllEvents

Steps    == 1 .. NSteps
Launches == 1 .. MaxLaunches

VARIABLES
  disk,       \* the job as HOST_JOB.json and STEPS.json have it
  whole,      \* STEPS.json is on file: the first put of the job was not torn
  exitFile,   \* exit_code.txt of every step
  fate,       \* of every worker launched, by step and launch
  owner,      \* the _advance_job coroutine: place, step, its copy of the job
  canceller,  \* a cancel() that awaits the owner or is queued to go on, with
              \* its copy of the job
  explicit,   \* the job is in _explicit_cancel
  stopping,   \* shutdown has been called
  restarts

vars == <<disk, whole, exitFile, fate, owner, canceller, explicit, stopping, restarts>>

Final      == {"completed", "failed", "cancelled"}
States     == Final \cup {"pending", "running", "awaiting_approval"}
StepRecord == [state : States, approved : BOOLEAN, pid : 0 .. MaxLaunches]
Jobs       == [state : States, current : 0 .. NSteps, steps : [Steps -> StepRecord]]
Exits      == {"none", "zero", "nonzero"}
Fates      == Exits \cup {"alive", "lost"}

Fresh == [state |-> "pending", current |-> 0,
          steps |-> [s \in Steps |-> [state |-> "pending", approved |-> FALSE, pid |-> 0]]]

(* ready: created; starting: in create_subprocess_exec; waiting: in          *)
(* proc.wait.  A coroutine that is over is forgotten.                        *)
NoOwner == [pc |-> "none", step |-> 0, cancel |-> FALSE, copy |-> Fresh]
Ready   == [NoOwner EXCEPT !.pc = "ready"]
Owners  ==
  {NoOwner} \cup [pc : {"ready"}, step : {0}, cancel : BOOLEAN, copy : {Fresh}]
            \cup [pc : {"starting", "waiting"}, step : Steps, cancel : BOOLEAN, copy : Jobs]

NoCanceller == [pc |-> "none", copy |-> Fresh]

OwnerLive == owner.pc # "none"
Launched(s) == {k \in Launches : fate[s][k] # "none"}
Alive(s)    == {k \in Launches : fate[s][k] = "alive"}

(* What the first put of ensure_job has left.  One that was torn left a job *)
(* without steps; every later put merges into the steps it has read, so it  *)
(* never gets any, and ensure_job gives it back as it is.                   *)
Init ==
  /\ disk = Fresh
  /\ whole \in BOOLEAN /\ (whole \/ "torn_create" \in Events)
  /\ exitFile = [s \in Steps |-> "none"]
  /\ fate = [s \in Steps |-> [k \in Launches |-> "none"]]
  /\ owner = NoOwner
  /\ canceller = NoCanceller
  /\ explicit = FALSE /\ stopping = FALSE
  /\ restarts = 0

-----------------------------------------------------------------------------
(* The store.                                                               *)

Rank(state) ==
  CASE state = "pending" -> 0
    [] state = "running" -> 1
    [] state = "awaiting_approval" -> 2
    [] OTHER -> 3

(* _sticky_transition *)
Sticky(current, target) ==
  IF current \in Final \/ Rank(target) < Rank(current) THEN current ELSE target

(* _merge_job: what put leaves on disk.  A writer keeps its own copy.       *)
MergeStepsAsIs(old, new) == new.steps      \* fault: steps are not sticky
MergeSteps(old, new) ==
  [s \in Steps |-> IF old.steps[s].state \in Final THEN old.steps[s] ELSE new.steps[s]]

Merge(old, new) ==
  [state   |-> Sticky(old.state, new.state),
   current |-> IF new.current # 0 THEN new.current ELSE old.current,
   steps   |-> MergeSteps(old, new)]

(* HOST_JOB.json is replaced before STEPS.json.                             *)
Half(old, new) == [new EXCEPT !.steps = old.steps]

-----------------------------------------------------------------------------
(* Pieces of the runner.                                                    *)

(* The steps a reader of the job finds.                                    *)
Listed == IF whole THEN Steps ELSE {}

Some(job, state) == \E s \in Steps : job.steps[s].state = state

FinalizeFailed(job) ==      \* fault: only failed steps end the job
  IF Some(job, "failed") THEN [job EXCEPT !.state = Sticky(@, "failed")] ELSE job

(* _finalize_job *)
Finalize(job) ==
  [job EXCEPT !.state =
     IF @ \in Final THEN @
     ELSE IF Some(job, "failed") THEN "failed"
     ELSE IF Some(job, "cancelled") THEN "cancelled"
     ELSE IF \A s \in Listed : job.steps[s].state = "completed" THEN "completed"
     ELSE @]

Runnable(job) == {s \in Listed : job.steps[s].state \notin Final}
NextStepLast(job) == CHOOSE s \in Runnable(job) : \A r \in Runnable(job) : r <= s   \* fault: backwards
(* _next_runnable_step, for a job that has one.                             *)
NextStep(job) == CHOOSE s \in Runnable(job) : \A r \in Runnable(job) : s <= r

NeedsNoApproval(job, s) == FALSE      \* fault: the approval is not looked at
NeedsApproval(job, s) == s \in Approvals /\ ~job.steps[s].approved

InStep(job, s, state) ==
  [job EXCEPT !.state = Sticky(@, state), !.current = s, !.steps[s].state = state]

(* One turn of the loop in _advance_job, from the job on disk to its next   *)
(* await or its end.                                                        *)
Advance(job) ==
  IF job.state \in Final THEN [disk |-> job, owner |-> NoOwner]
  ELSE IF Runnable(job) = {} THEN [disk |-> Merge(job, Finalize(job)), owner |-> NoOwner]
  ELSE LET s == NextStep(job) IN
       IF NeedsApproval(job, s)
       THEN [disk |-> Merge(job, InStep(job, s, "awaiting_approval")), owner |-> NoOwner]
       ELSE LET copy == InStep(job, s, "running") IN
            [disk  |-> Merge(job, copy),
             owner |-> [pc |-> "starting", step |-> s, cancel |-> FALSE, copy |-> copy]]

(* The step's result in a writer's copy; a failed worker also fails the job *)
(* in _execute_step, in reconcile_job only _finalize_job does.              *)
OutcomeUnread(rc) == "completed"      \* fault: the exit code is not looked at
Outcome(rc) == IF rc = "zero" THEN "completed" ELSE "failed"
WithStep(job, s, state) == [job EXCEPT !.steps[s].state = state]

CancelledStep(job) ==      \* fault: the step is cancelled, the job is not
  IF job.current # 0 /\ job.steps[job.current].state = "running"
  THEN WithStep(job, job.current, "cancelled") ELSE job

CancelledJob(job) ==
  LET s == job.current IN
  [ (IF s # 0 /\ job.steps[s].state = "running" THEN WithStep(job, s, "cancelled") ELSE job)
    EXCEPT !.state = Sticky(@, "cancelled")]

-----------------------------------------------------------------------------
(* start, approve_step, cancel, shutdown.                                   *)

(* ensure_job and start: TaskHub for a new job, approve_current_phase for   *)
(* one that does not await an approval.                                     *)
StartTwice ==      \* fault: the coroutine already there is not looked at
  /\ ~stopping
  /\ disk.state \notin Final \cup {"awaiting_approval"}
  /\ disk.state = "pending" \/ "start_again" \in Events
  /\ owner' = Ready
  /\ UNCHANGED <<whole, disk, exitFile, fate, canceller, explicit, stopping, restarts>>

Start ==
  /\ ~stopping
  /\ disk.state \notin Final \cup {"awaiting_approval"} /\ ~OwnerLive
  /\ disk.state = "pending" \/ "start_again" \in Events
  /\ owner' = Ready
  /\ UNCHANGED <<whole, disk, exitFile, fate, canceller, explicit, stopping, restarts>>

(* approve_step and start of the step the job awaits.  approve_step means   *)
(* to put the job back to running, which _sticky_transition refuses.        *)
Approved(job, s) ==
  IF s \in Approvals /\ job.steps[s].state = "awaiting_approval"
  THEN [job EXCEPT !.state = Sticky(@, "running"),
                   !.steps[s].state = "pending", !.steps[s].approved = TRUE]
  ELSE job

ApproveAndStart(s) ==
  /\ ~stopping
  /\ disk.state = "awaiting_approval" /\ s = disk.current
  /\ disk.steps[s].state = "running" => "start_again" \in Events
  /\ disk' = Merge(disk, Approved(disk, s))
  /\ owner' = IF OwnerLive THEN owner ELSE Ready
  /\ UNCHANGED <<whole, exitFile, fate, canceller, explicit, stopping, restarts>>

(* cancel of a job with no coroutine here.                                  *)
CancelUnowned ==
  /\ "cancel" \in Events /\ ~stopping /\ canceller.pc = "none"
  /\ disk.state \notin Final /\ ~OwnerLive
  /\ disk' = Merge(disk, CancelledJob(disk))
  /\ UNCHANGED <<whole, exitFile, fate, owner, canceller, explicit, stopping, restarts>>

(* cancel up to its await; it keeps the job it read before.                 *)
CancelUnmarked ==      \* fault: the job is not put into _explicit_cancel
  /\ "cancel" \in Events /\ ~stopping /\ canceller.pc = "none"
  /\ disk.state \notin Final /\ OwnerLive
  /\ owner' = [owner EXCEPT !.cancel = TRUE]
  /\ canceller' = [pc |-> "awaiting", copy |-> disk]
  /\ UNCHANGED <<whole, disk, exitFile, fate, explicit, stopping, restarts>>

CancelOwned ==
  /\ "cancel" \in Events /\ ~stopping /\ canceller.pc = "none"
  /\ disk.state \notin Final /\ OwnerLive
  /\ explicit' = TRUE
  /\ owner' = [owner EXCEPT !.cancel = TRUE]
  /\ canceller' = [pc |-> "awaiting", copy |-> disk]
  /\ UNCHANGED <<whole, disk, exitFile, fate, stopping, restarts>>

CancelReturns ==
  /\ canceller.pc = "returning"
  /\ explicit' = FALSE
  /\ disk' = Merge(disk, CancelledJob(canceller.copy))
  /\ canceller' = NoCanceller
  /\ UNCHANGED <<whole, exitFile, fate, owner, stopping, restarts>>

(* shutdown(cancel_running=True); the supervisor has stopped the agents     *)
(* that start, approve and cancel jobs before it.                           *)
Shutdown ==
  /\ ~stopping /\ restarts < MaxRestarts
  /\ stopping' = TRUE
  /\ explicit' = (explicit \/ OwnerLive)
  /\ owner' = IF OwnerLive THEN [owner EXCEPT !.cancel = TRUE] ELSE owner
  /\ UNCHANGED <<whole, disk, exitFile, fate, canceller, restarts>>

-----------------------------------------------------------------------------
(* The _advance_job coroutine.                                              *)

(* CancelledError, or a cancel before the first step.  create_subprocess    *)
(* kills what it had started; an explicit cancel kills the process tree.    *)
(* The end of the coroutine queues the cancel that awaits it.               *)
OwnerCancelled ==
  /\ OwnerLive /\ owner.cancel
  /\ owner' = NoOwner
  /\ LET s == owner.step  k == owner.copy.steps[s].pid IN
     fate' = IF owner.pc = "waiting" /\ explicit /\ fate[s][k] = "alive"
             THEN [fate EXCEPT ![s][k] = "lost"] ELSE fate
  /\ canceller' = IF canceller.pc = "awaiting" THEN [canceller EXCEPT !.pc = "returning"] ELSE canceller
  /\ UNCHANGED <<whole, disk, exitFile, explicit, stopping, restarts>>

(* A coroutine created meanwhile is queued behind a cancel that returns.    *)
OwnerAdvances ==
  /\ owner.pc = "ready" /\ ~owner.cancel /\ canceller.pc # "returning"
  /\ disk' = Advance(disk).disk
  /\ owner' = Advance(disk).owner
  /\ UNCHANGED <<whole, exitFile, fate, canceller, explicit, stopping, restarts>>

LaunchUnrecorded ==      \* fault: the pid stays that of an earlier launch, or none
  /\ owner.pc = "starting" /\ ~owner.cancel
  /\ LET s == owner.step  k == Cardinality(Launched(s)) + 1 IN
       /\ k \in Launches
       /\ fate' = [fate EXCEPT ![s][k] = "alive"]
       /\ owner' = [owner EXCEPT !.pc = "waiting", !.copy.steps[s].pid = k]
  /\ UNCHANGED <<whole, disk, exitFile, canceller, explicit, stopping, restarts>>

Launch ==
  /\ owner.pc = "starting" /\ ~owner.cancel
  /\ LET s    == owner.step
         k    == Cardinality(Launched(s)) + 1
         copy == [owner.copy EXCEPT !.steps[s].pid = k]
     IN /\ k \in Launches
        /\ fate' = [fate EXCEPT ![s][k] = "alive"]
        /\ disk' = Merge(disk, copy)
        /\ owner' = [owner EXCEPT !.pc = "waiting", !.copy = copy]
  /\ UNCHANGED <<whole, exitFile, canceller, explicit, stopping, restarts>>

LaunchFails ==
  /\ "launch_fails" \in Events
  /\ owner.pc = "starting" /\ ~owner.cancel
  /\ owner' = NoOwner
  /\ UNCHANGED <<whole, disk, exitFile, fate, canceller, explicit, stopping, restarts>>

(* proc.wait returned: exit code file, put, _finalize_job, and the next     *)
(* turn of the loop unless the step failed.                                 *)
Reapable == owner.pc = "waiting" /\ ~owner.cancel
            /\ fate[owner.step][owner.copy.steps[owner.step].pid] # "alive"
Rc == IF fate[owner.step][owner.copy.steps[owner.step].pid] = "zero" THEN "zero" ELSE "nonzero"

ReapedCopy ==
  LET job == WithStep(owner.copy, owner.step, Outcome(Rc)) IN
  IF Rc = "zero" THEN job ELSE [job EXCEPT !.state = Sticky(@, "failed")]
ReapedPut   == Merge(disk, ReapedCopy)
ReapedFinal == Merge(ReapedPut, Finalize(ReapedCopy))

Reap ==
  /\ Reapable
  /\ exitFile' = [exitFile EXCEPT ![owner.step] = Rc]
  /\ IF Rc = "zero"
     THEN disk' = Advance(ReapedFinal).disk /\ owner' = Advance(ReapedFinal).owner
     ELSE disk' = ReapedFinal /\ owner' = NoOwner
  /\ UNCHANGED <<whole, fate, canceller, explicit, stopping, restarts>>

-----------------------------------------------------------------------------
(* Workers, reconciliation, restarts.                                       *)

(* The bash wrapper writes the exit code file and exits with the code.      *)
WorkerExits(s, k) ==
  /\ fate[s][k] = "alive"
  /\ \E rc \in {"zero", "nonzero"} :
       /\ fate' = [fate EXCEPT ![s][k] = rc]
       /\ exitFile' = [exitFile EXCEPT ![s] = rc]
  /\ UNCHANGED <<whole, disk, owner, canceller, explicit, stopping, restarts>>

WorkerLost(s, k) ==
  /\ "worker_lost" \in Events
  /\ fate[s][k] = "alive"
  /\ fate' = [fate EXCEPT ![s][k] = "lost"]
  /\ UNCHANGED <<whole, disk, exitFile, owner, canceller, explicit, stopping, restarts>>

(* reconcile_job *)
ReconcilePending ==
  /\ "reconcile" \in Events /\ ~stopping
  /\ disk.state = "pending" /\ ~OwnerLive
  /\ owner' = Ready
  /\ UNCHANGED <<whole, disk, exitFile, fate, canceller, explicit, stopping, restarts>>

PidAlive(s) == disk.steps[s].pid # 0 /\ fate[s][disk.steps[s].pid] = "alive"
Evident(s)  == ~PidAlive(s) /\ exitFile[s] # "none"
ReconciledUnfinished(s) == disk      \* fault: the evidence is not recorded
ReconciledCopy(s) == WithStep(disk, s, Outcome(exitFile[s]))

ReconciledPut(s)   == Merge(disk, ReconciledCopy(s))
ReconciledFinal(s) == Merge(ReconciledPut(s), Finalize(ReconciledCopy(s)))

Reconcilable(s) ==
  /\ "reconcile" \in Events /\ ~stopping
  /\ disk.state = "running" /\ s = disk.current /\ Evident(s)

ReconcileExit(s) ==
  /\ Reconcilable(s)
  /\ disk' = ReconciledFinal(s)
  /\ UNCHANGED <<whole, exitFile, fate, owner, canceller, explicit, stopping, restarts>>

Reboot(d) ==
  /\ restarts < MaxRestarts
  /\ restarts' = restarts + 1
  /\ disk' = d
  /\ owner' = NoOwner /\ canceller' = NoCanceller
  /\ explicit' = FALSE /\ stopping' = FALSE
  /\ UNCHANGED whole

Restart == Reboot(disk) /\ UNCHANGED <<exitFile, fate>>

(* What a death inside a step leaves: half a put, or puts without the last. *)
TornAdvances ==
  IF owner.pc = "ready" /\ ~owner.cancel /\ canceller.pc # "returning"
  THEN {Half(disk, Advance(disk).disk)} ELSE {}
TornReaps ==
  IF Reapable
  THEN {disk, Half(disk, ReapedPut), ReapedPut, Half(ReapedFinal, Advance(ReapedFinal).disk)}
  ELSE {}
TornCancels ==
  IF canceller.pc = "returning"
  THEN {Half(disk, Merge(disk, CancelledJob(canceller.copy)))} ELSE {}
TornReconciles ==
  UNION {{ReconciledPut(s), Half(ReconciledPut(s), ReconciledFinal(s))} :
         s \in {r \in Steps : Reconcilable(r)}}

RestartTorn ==
  /\ "torn_write" \in Events
  /\ \E d \in TornAdvances \cup TornCancels \cup TornReconciles : Reboot(d)
  /\ UNCHANGED <<exitFile, fate>>

(* write_text empties the exit code file before it writes it; the puts come *)
(* after it.                                                                *)
RestartReaping ==
  /\ "torn_write" \in Events /\ Reapable
  /\ \/ Reboot(disk) /\ exitFile' = [exitFile EXCEPT ![owner.step] = "none"]
     \/ /\ \E d \in TornReaps : Reboot(d)
        /\ exitFile' = [exitFile EXCEPT ![owner.step] = Rc]
  /\ UNCHANGED fate

(* The worker is launched, in a session of its own, and its pid is not on   *)
(* file: STEPS.json has it, and of its put at most HOST_JOB.json is.        *)
RestartLaunching ==
  /\ "torn_write" \in Events /\ owner.pc = "starting"
  /\ LET s == owner.step  k == Cardinality(Launched(s)) + 1 IN
       k \in Launches /\ fate' = [fate EXCEPT ![s][k] = "alive"]
  /\ Reboot(disk)
  /\ UNCHANGED exitFile

-----------------------------------------------------------------------------
OwnerStep ==
  \/ OwnerCancelled
  \/ OwnerAdvances
  \/ Launch
  \/ LaunchFails
  \/ Reap

Reconcile ==
  \/ ReconcilePending
  \/ \E s \in Steps : ReconcileExit(s)

CallerStep ==
  \/ Start
  \/ \E s \in Steps : ApproveAndStart(s)
  \/ CancelUnowned
  \/ CancelOwned
  \/ Shutdown

WorkerStep == \E s \in Steps, k \in Launches : WorkerExits(s, k) \/ WorkerLost(s, k)

Next ==
  \/ OwnerStep
  \/ CallerStep
  \/ CancelReturns
  \/ WorkerStep
  \/ Reconcile
  \/ Restart
  \/ RestartTorn
  \/ RestartReaping
  \/ RestartLaunching

Spec == Init /\ [][Next]_vars

(* The event loop runs the coroutine and the awaiting cancel; whoever calls *)
(* reconcile_job polls.  No command has to end, nobody has to approve.      *)
FairSpec == Spec /\ WF_vars(OwnerStep) /\ WF_vars(CancelReturns) /\ WF_vars(Reconcile)
-----------------------------------------------------------------------------
(* Properties.                                                              *)

\* Every variable keeps its type; a coroutine in the middle of a step knows it.
TypeOK ==
  /\ disk \in Jobs /\ whole \in BOOLEAN
  /\ exitFile \in [Steps -> Exits]
  /\ fate \in [Steps -> [Launches -> Fates]]
  /\ owner \in Owners
  /\ canceller \in {NoCanceller} \cup [pc : {"awaiting", "returning"}, copy : Jobs]
  /\ explicit \in BOOLEAN /\ stopping \in BOOLEAN
  /\ restarts \in 0 .. MaxRestarts

\* Release note v0.29.0: terminal states of the job and of its steps are never
\* rolled back, whichever stale copy is put later.
TerminalIsSticky ==
  [][/\ disk.state \in Final => disk'.state = disk.state
     /\ \A s \in Steps : disk.steps[s].state \in Final => disk'.steps[s] = disk.steps[s]]_vars

\* A worker of a step was ever launched only with the step's approval on file
\* and every earlier step completed.
LaunchedInOrder ==
  \A s \in Steps : Launched(s) # {} =>
    /\ s \in Approvals => disk.steps[s].approved
    /\ \A r \in 1 .. s - 1 : disk.steps[r].state = "completed"

\* A step on file as completed has a worker that exited with zero, one on file
\* as failed has a worker that did not.
StepsMatchExits ==
  \A s \in Steps :
    /\ disk.steps[s].state = "completed" => \E k \in Launches : fate[s][k] = "zero"
    /\ disk.steps[s].state = "failed" => \E k \in Launches : fate[s][k] \in {"nonzero", "lost"}

\* In the life of one process a job never has two workers at once.
OneWorker ==
  restarts = 0 =>
    \A s, r \in Steps : \A k \in Alive(s), l \in Alive(r) : s = r /\ k = l

\* In the life of one process a cancelled job has no worker left.
CancelledIsStopped ==
  restarts = 0 /\ disk.state = "cancelled" => \A s \in Steps : Alive(s) = {}

\* Release note v0.31.1: ControlMesh waits for a release approval exactly when it
\* says so; a job whose command runs is not awaiting_approval.
AwaitingIsIdle == disk.state = "awaiting_approval" => \A s \in Steps : Alive(s) = {}

\* A job in the hands of a coroutine ends or comes to wait for an approval,
\* unless a command runs for ever or the process goes away.
JobSettled == disk.state \in Final \/ Some(disk, "awaiting_approval")
OwnedJobSettles ==
  \/ <>[](\E s \in Steps : Alive(s) # {})
  \/ \A r \in 0 .. MaxRestarts :
       OwnerLive /\ restarts = r ~> JobSettled \/ stopping \/ restarts > r

\* cancel() returns, and the job is then over, whatever its worker does.
CancelEnds ==
  \A r \in 0 .. MaxRestarts :
    canceller.pc # "none" /\ restarts = r ~> disk.state \in Final \/ restarts > r

\* Where somebody reconciles: a running job whose worker is gone and has left an
\* exit code ends, across restarts, unless a death has emptied the exit code file.
ExitResolves ==
  \A s \in Steps :
    disk.state = "running" /\ disk.current = s /\ Evident(s)
      ~> disk.state \in Final \/ stopping \/ exitFile[s] = "none"

\* The job implements its plan: steps in order, approvals, one lasting outcome.
\* Not so one whose first put was torn (torn_create): it is completed at its next
\* start, with no step done.
Prefix == {d \in 0 .. NSteps : \A s \in 1 .. d : disk.steps[s].state = "completed"}
Plan == INSTANCE StepPlan WITH
  outcome  <- IF disk.state \in Final THEN disk.state ELSE "open",
  done     <- CHOOSE d \in Prefix : \A e \in Prefix : e <= d,
  approved <- {s \in Steps : disk.steps[s].approved}
ImplementsPlan == Plan!PlanSpec
=============================================================================
