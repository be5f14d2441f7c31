--------------------------- MODULE HostJobsProofs ---------------------------
(***************************************************************************)
(* Theorems about HostJobs, for every number of steps, launches and         *)
(* restarts, every set of approvals and every environment.                  *)
(***************************************************************************)
EXTENDS HostJobs, WellFoundedInduction, FiniteSetTheorems, TLAPS

\* A nonempty set of numbers has a least one.
LEMMA Least ==
  ASSUME NEW T \in SUBSET Nat, T # {}
  PROVE  \E s \in T : \A r \in T : s <= r
<1> DEFINE Less == {x \in Nat \X Nat : x[1] < x[2]}
<1>1. IsWellFoundedOn(Less, Nat)
  BY NatLessThanWellFounded, Zenon DEF OpToRel
<1>2. PICK s \in T : \A r \in T : <<r, s>> \notin Less
  <2> HIDE DEF Less
  <2> QED
    BY <1>1, WFMin
<1>3. \A r \in T : s <= r
  <2> TAKE r \in T
  <2>1. ~(r < s)
    BY <1>2
  <2> QED
    BY <2>1
<1> QED
  BY <1>3

LEMMA Bounds == Steps \subseteq Nat \ {0} /\ Steps \subseteq 0 .. NSteps
                /\ 0 \in 0 .. NSteps /\ 0 \in 0 .. MaxLaunches /\ Launches \subseteq 0 .. MaxLaunches
BY JobAssumption DEF Steps, Launches

\* The step taken next is runnable and comes before every other runnable one.
LEMMA NextStepIsFirst ==
  ASSUME NEW job, Runnable(job) # {}
  PROVE  NextStep(job) \in Runnable(job) /\ NextStep(job) \in Steps /\ \A r \in Runnable(job) : NextStep(job) <= r
<1>1. Runnable(job) \in SUBSET Nat
  BY Bounds DEF Runnable, Listed
<1>2. \E s \in Runnable(job) : \A r \in Runnable(job) : s <= r
  BY <1>1, Least
<1> QED
  BY <1>2 DEF NextStep, Runnable, Listed

-----------------------------------------------------------------------------
(* What a death leaves, and what it leaves alone.                           *)

Torn == TornAdvances \cup TornReaps \cup TornCancels \cup TornReconciles

\* A death inside a step that launches nothing.
LEMMA TornReboots ==
  ASSUME RestartTorn \/ RestartReaping
  PROVE  /\ "torn_write" \in Events /\ fate' = fate
         /\ \E d \in Torn : Reboot(d)
         /\ \/ exitFile' = exitFile
            \/ Reapable /\ exitFile' = [exitFile EXCEPT ![owner.step] = "none"]
            \/ Reapable /\ exitFile' = [exitFile EXCEPT ![owner.step] = Rc]
<1>1. CASE RestartTorn
  BY <1>1 DEF RestartTorn, Torn
<1>2. CASE RestartReaping
  <2>1. Reapable /\ "torn_write" \in Events /\ fate' = fate
    BY <1>2 DEF RestartReaping
  <2>2. disk \in TornReaps
    BY <2>1 DEF TornReaps
  <2>3. \E d \in Torn : Reboot(d)
    BY <1>2, <2>2 DEF RestartReaping, Torn
  <2> QED
    BY <1>2, <2>1, <2>3 DEF RestartReaping
<1> QED
  BY <1>1, <1>2

\* No step adds to the steps on file or takes one away.
LEMMA ListedStays == [Next]_vars => whole' = whole
BY DEF Next, OwnerStep, OwnerCancelled, OwnerAdvances, Launch, LaunchFails, Reap, CallerStep,
   Start, ApproveAndStart, CancelUnowned, CancelOwned, Shutdown, CancelReturns, WorkerStep,
   WorkerExits, WorkerLost, Reconcile, ReconcilePending, ReconcileExit, Restart, RestartTorn,
   RestartReaping, RestartLaunching, Reboot, vars

-----------------------------------------------------------------------------
(* Types.                                                                   *)

LEMMA FreshTyped == Fresh \in Jobs
<1>1. [state |-> "pending", approved |-> FALSE, pid |-> 0] \in StepRecord
  BY Bounds DEF StepRecord, States
<1> QED
  BY <1>1, Bounds DEF Fresh, Jobs, States

LEMMA StickyTyped ==
  ASSUME NEW a \in States, NEW b \in States
  PROVE  Sticky(a, b) \in States
BY DEF Sticky

\* Pieces of a job.
LEMMA JobParts ==
  ASSUME NEW job \in Jobs
  PROVE  /\ job.state \in States /\ job.current \in 0 .. NSteps
         /\ job.steps \in [Steps -> StepRecord]
         /\ job = [state |-> job.state, current |-> job.current, steps |-> job.steps]
BY DEF Jobs

LEMMA MergeTyped ==
  ASSUME NEW old \in Jobs, NEW new \in Jobs
  PROVE  Merge(old, new) \in Jobs
<1>1. MergeSteps(old, new) \in [Steps -> StepRecord]
  BY JobParts DEF MergeSteps
<1>2. Sticky(old.state, new.state) \in States
  BY JobParts, StickyTyped
<1> QED
  BY <1>1, <1>2, JobParts DEF Merge, Jobs

LEMMA HalfTyped ==
  ASSUME NEW old \in Jobs, NEW new \in Jobs
  PROVE  Half(old, new) \in Jobs
BY DEF Half, Jobs

LEMMA WithStepTyped ==
  ASSUME NEW job \in Jobs, NEW s \in Steps, NEW state \in States
  PROVE  WithStep(job, s, state) \in Jobs
<1>1. [job.steps EXCEPT ![s].state = state] \in [Steps -> StepRecord]
  BY JobParts DEF StepRecord
<1> QED
  BY <1>1 DEF WithStep, Jobs

LEMMA WithPidTyped ==
  ASSUME NEW job \in Jobs, NEW s \in Steps, NEW k \in 0 .. MaxLaunches
  PROVE  [job EXCEPT !.steps[s].pid = k] \in Jobs
<1>1. [job.steps EXCEPT ![s].pid = k] \in [Steps -> StepRecord]
  BY JobParts DEF StepRecord
<1> QED
  BY <1>1 DEF Jobs

LEMMA StateTyped ==
  ASSUME NEW job \in Jobs, NEW state \in States
  PROVE  [job EXCEPT !.state = state] \in Jobs
BY DEF Jobs

LEMMA FinalizeTyped ==
  ASSUME NEW job \in Jobs
  PROVE  Finalize(job) \in Jobs
<1> DEFINE state == IF job.state \in Final THEN job.state
                    ELSE IF Some(job, "failed") THEN "failed"
                    ELSE IF Some(job, "cancelled") THEN "cancelled"
                    ELSE IF \A s \in Listed : job.steps[s].state = "completed" THEN "completed"
                    ELSE job.state
<1>1. state \in States
  BY JobParts DEF States, Final
<1>2. Finalize(job) = [job EXCEPT !.state = state]
  BY DEF Finalize
<1> QED
  BY <1>1, <1>2, StateTyped

LEMMA InStepTyped ==
  ASSUME NEW job \in Jobs, NEW s \in Steps, NEW state \in States
  PROVE  InStep(job, s, state) \in Jobs
<1>1. [job.steps EXCEPT ![s].state = state] \in [Steps -> StepRecord]
  BY JobParts DEF StepRecord
<1>2. Sticky(job.state, state) \in States
  BY JobParts, StickyTyped
<1>3. s \in 0 .. NSteps
  BY Bounds
<1> QED
  BY <1>1, <1>2, <1>3 DEF InStep, Jobs

LEMMA CancelledJobTyped ==
  ASSUME NEW job \in Jobs
  PROVE  CancelledJob(job) \in Jobs
<1> DEFINE other == IF job.current # 0 /\ job.steps[job.current].state = "running"
                    THEN WithStep(job, job.current, "cancelled") ELSE job
<1>1. job.current # 0 => job.current \in Steps
  BY JobParts, JobAssumption DEF Steps
<1>2. other \in Jobs
  BY <1>1, WithStepTyped DEF States, Final
<1>3. Sticky(other.state, "cancelled") \in States
  BY <1>2, JobParts, StickyTyped DEF States, Final
<1>4. CancelledJob(job) = [other EXCEPT !.state = Sticky(other.state, "cancelled")]
  BY DEF CancelledJob
<1> HIDE DEF other
<1> QED
  BY <1>2, <1>3, <1>4, StateTyped

LEMMA ApprovedTyped ==
  ASSUME NEW job \in Jobs, NEW s \in Steps
  PROVE  Approved(job, s) \in Jobs
<1> DEFINE pending == [job.steps EXCEPT ![s].state = "pending"]
<1>a. pending \in [Steps -> StepRecord]
  BY JobParts DEF StepRecord, States
<1>b. [pending EXCEPT ![s].approved = TRUE] \in [Steps -> StepRecord]
  <2> HIDE DEF pending
  <2> QED
    BY <1>a DEF StepRecord
<1>1. [job.steps EXCEPT ![s].state = "pending", ![s].approved = TRUE] \in [Steps -> StepRecord]
  BY <1>b
<1>2. Sticky(job.state, "running") \in States
  BY JobParts, StickyTyped DEF States
<1> QED
  BY <1>1, <1>2 DEF Approved, Jobs

LEMMA OwnersTyped ==
  /\ NoOwner \in Owners /\ Ready \in Owners
  /\ \A s \in Steps, job \in Jobs, pc \in {"starting", "waiting"}, c \in BOOLEAN :
       [pc |-> pc, step |-> s, cancel |-> c, copy |-> job] \in Owners
BY DEF NoOwner, Ready, Owners

\* What a turn of the loop leaves on disk and of the coroutine.
LEMMA AdvanceTyped ==
  ASSUME NEW job \in Jobs
  PROVE  Advance(job).disk \in Jobs /\ Advance(job).owner \in Owners
<1>1. CASE job.state \in Final
  BY <1>1, OwnersTyped DEF Advance
<1>2. CASE job.state \notin Final /\ Runnable(job) = {}
  BY <1>2, OwnersTyped, FinalizeTyped, MergeTyped DEF Advance
<1>3. CASE job.state \notin Final /\ Runnable(job) # {}
  <2> DEFINE s == NextStep(job)
  <2>1. s \in Steps
    BY <1>3, NextStepIsFirst DEF Runnable
  <2>2. InStep(job, s, "awaiting_approval") \in Jobs /\ InStep(job, s, "running") \in Jobs
    BY <2>1, InStepTyped DEF States
  <2>3. CASE NeedsApproval(job, s)
    BY <1>3, <2>2, <2>3, OwnersTyped, MergeTyped DEF Advance
  <2>4. CASE ~NeedsApproval(job, s)
    <3>1. Advance(job) = [disk  |-> Merge(job, InStep(job, s, "running")),
                          owner |-> [pc |-> "starting", step |-> s, cancel |-> FALSE,
                                     copy |-> InStep(job, s, "running")]]
      BY <1>3, <2>4 DEF Advance
    <3>2. [pc |-> "starting", step |-> s, cancel |-> FALSE, copy |-> InStep(job, s, "running")] \in Owners
      <4> HIDE DEF s
      <4> QED
        BY <2>1, <2>2, OwnersTyped
    <3>3. Merge(job, InStep(job, s, "running")) \in Jobs
      BY <2>2, MergeTyped
    <3> HIDE DEF s
    <3> QED
      BY <3>1, <3>2, <3>3
  <2> QED
    BY <2>3, <2>4
<1> QED
  BY <1>1, <1>2, <1>3

\* A coroutine in the middle of a step knows the step and has a copy.
LEMMA OwnerParts ==
  ASSUME owner \in Owners
  PROVE  /\ owner.pc \in {"none", "ready", "starting", "waiting"}
         /\ owner.cancel \in BOOLEAN /\ owner.copy \in Jobs
         /\ owner.pc \in {"starting", "waiting"} => owner.step \in Steps
         /\ [owner EXCEPT !.cancel = TRUE] \in Owners \/ owner.pc = "none"
<1>1. CASE owner = NoOwner
  BY <1>1, FreshTyped DEF NoOwner
<1>2. CASE owner \in [pc : {"ready"}, step : {0}, cancel : BOOLEAN, copy : {Fresh}]
  BY <1>2, FreshTyped DEF Owners
<1>3. CASE owner \in [pc : {"starting", "waiting"}, step : Steps, cancel : BOOLEAN, copy : Jobs]
  BY <1>3 DEF Owners
<1> QED
  BY <1>1, <1>2, <1>3 DEF Owners

LEMMA ReapedTyped ==
  ASSUME TypeOK, Reapable
  PROVE  /\ owner.step \in Steps /\ Rc \in {"zero", "nonzero"}
         /\ ReapedCopy \in Jobs /\ ReapedPut \in Jobs /\ ReapedFinal \in Jobs
<1>1. owner.step \in Steps /\ owner.copy \in Jobs /\ disk \in Jobs
  BY OwnerParts DEF Reapable, TypeOK
<1>2. Rc \in {"zero", "nonzero"} /\ Outcome(Rc) \in States
  BY DEF Rc, Outcome, States, Final
<1> DEFINE job == WithStep(owner.copy, owner.step, Outcome(Rc))
<1>3. job \in Jobs
  BY <1>1, <1>2, WithStepTyped
<1>4. Sticky(job.state, "failed") \in States
  BY <1>3, JobParts, StickyTyped DEF States, Final
<1>5. ReapedCopy = IF Rc = "zero" THEN job ELSE [job EXCEPT !.state = Sticky(job.state, "failed")]
  BY DEF ReapedCopy
<1>6. ReapedCopy \in Jobs
  <2> HIDE DEF job
  <2> QED
    BY <1>3, <1>4, <1>5, StateTyped
<1>7. ReapedPut \in Jobs
  BY <1>1, <1>6, MergeTyped DEF ReapedPut
<1> QED
  BY <1>1, <1>2, <1>6, <1>7, FinalizeTyped, MergeTyped DEF ReapedFinal

LEMMA ReconciledTyped ==
  ASSUME TypeOK, NEW s \in Steps
  PROVE  ReconciledPut(s) \in Jobs /\ ReconciledFinal(s) \in Jobs
<1>1. Outcome(exitFile[s]) \in States
  BY DEF Outcome, States, Final
<1>2. ReconciledCopy(s) \in Jobs
  BY <1>1, WithStepTyped DEF ReconciledCopy, TypeOK
<1>3. ReconciledPut(s) \in Jobs
  BY <1>2, MergeTyped DEF ReconciledPut, TypeOK
<1> QED
  BY <1>2, <1>3, FinalizeTyped, MergeTyped DEF ReconciledFinal

LEMMA TornTyped ==
  ASSUME TypeOK
  PROVE  Torn \subseteq Jobs
<1> disk \in Jobs
  BY DEF TypeOK
<1>1. TornAdvances \subseteq Jobs
  BY AdvanceTyped, HalfTyped DEF TornAdvances
<1>2. TornReaps \subseteq Jobs
  BY ReapedTyped, AdvanceTyped, HalfTyped DEF TornReaps
<1>3. TornCancels \subseteq Jobs
  <2> SUFFICES ASSUME canceller.pc = "returning"
               PROVE  Half(disk, Merge(disk, CancelledJob(canceller.copy))) \in Jobs
    BY DEF TornCancels
  <2>1. canceller.copy \in Jobs
    BY DEF TypeOK, NoCanceller
  <2> QED
    BY <2>1, CancelledJobTyped, MergeTyped, HalfTyped
<1>4. TornReconciles \subseteq Jobs
  BY ReconciledTyped, HalfTyped DEF TornReconciles
<1> QED
  BY <1>1, <1>2, <1>3, <1>4 DEF Torn

LEMMA TypeInit == Init => TypeOK
<1>1. ASSUME Init PROVE TypeOK
  <2>1. exitFile \in [Steps -> Exits] /\ fate \in [Steps -> [Launches -> Fates]]
    BY <1>1 DEF Init, Exits, Fates
  <2>2. disk \in Jobs /\ owner \in Owners
    BY <1>1, FreshTyped, OwnersTyped DEF Init
  <2>3. restarts \in 0 .. MaxRestarts
    BY <1>1, JobAssumption DEF Init
  <2> QED
    BY <1>1, <2>1, <2>2, <2>3 DEF Init, TypeOK
<1> QED
  BY <1>1

\* Every action keeps the types; most change the job, the coroutine or a fate.
LEMMA TypeStep == TypeOK /\ [Next]_vars => TypeOK'
<1> DEFINE Cancellers == {NoCanceller} \cup [pc : {"awaiting", "returning"}, copy : Jobs]
<1> SUFFICES ASSUME TypeOK, [Next]_vars
             PROVE  TypeOK'
  OBVIOUS
<1> USE DEF TypeOK
<1>1. CASE OwnerCancelled
  <2>1. fate' \in [Steps -> [Launches -> Fates]]
    BY <1>1 DEF OwnerCancelled, Fates
  <2>2. canceller' \in Cancellers
    BY <1>1 DEF OwnerCancelled, NoCanceller
  <2> QED
    BY <1>1, <2>1, <2>2, OwnersTyped DEF OwnerCancelled
<1>2. CASE OwnerAdvances
  BY <1>2, AdvanceTyped DEF OwnerAdvances
<1>3. CASE Launch
  <2> DEFINE s == owner.step
             k == Cardinality(Launched(s)) + 1
             copy == [owner.copy EXCEPT !.steps[s].pid = k]
  <2>1. s \in Steps /\ owner.copy \in Jobs /\ k \in Launches
    BY <1>3, OwnerParts DEF Launch
  <2>2. copy \in Jobs
    <3> HIDE DEF s, k
    <3>1. k \in 0 .. MaxLaunches
      BY <2>1, Bounds
    <3> QED
      BY <2>1, <3>1, WithPidTyped
  <2>3. disk' = Merge(disk, copy) /\ owner' = [owner EXCEPT !.pc = "waiting", !.copy = copy]
        /\ fate' = [fate EXCEPT ![s][k] = "alive"]
        /\ UNCHANGED <<whole, exitFile, canceller, explicit, stopping, restarts>>
    BY <1>3 DEF Launch
  <2> HIDE DEF s, k, copy
  <2>4. disk' \in Jobs
    BY <2>2, <2>3, MergeTyped
  <2>5. fate' \in [Steps -> [Launches -> Fates]]
    BY <2>3 DEF Fates
  <2>6. owner' \in Owners
    <3>1. owner.pc = "starting"
      BY <1>3 DEF Launch
    <3>2. owner \in [pc : {"starting", "waiting"}, step : Steps, cancel : BOOLEAN, copy : Jobs]
      BY <3>1 DEF Owners, NoOwner
    <3> QED
      BY <2>2, <2>3, <3>2 DEF Owners
  <2> QED
    BY <2>3, <2>4, <2>5, <2>6
<1>4. CASE LaunchFails
  BY <1>4, OwnersTyped DEF LaunchFails
<1>5. CASE Reap
  <2>1. exitFile' \in [Steps -> Exits] /\ ReapedFinal \in Jobs
    BY <1>5, ReapedTyped DEF Reap, Exits
  <2>2. disk' \in Jobs /\ owner' \in Owners
    BY <1>5, <2>1, AdvanceTyped, OwnersTyped DEF Reap
  <2> QED
    BY <1>5, <2>1, <2>2 DEF Reap
<1>6. CASE Start
  BY <1>6, OwnersTyped DEF Start
<1>7. ASSUME NEW s \in Steps, ApproveAndStart(s) PROVE TypeOK'
  BY <1>7, ApprovedTyped, MergeTyped, OwnersTyped DEF ApproveAndStart
<1>8. CASE CancelUnowned
  BY <1>8, CancelledJobTyped, MergeTyped DEF CancelUnowned
<1>9. CASE CancelOwned
  <2>1. owner' \in Owners
    BY <1>9, OwnerParts DEF CancelOwned, OwnerLive
  <2>2. canceller' \in Cancellers
    BY <1>9 DEF CancelOwned
  <2> QED
    BY <1>9, <2>1, <2>2 DEF CancelOwned
<1>10. CASE Shutdown
  <2>1. owner' \in Owners
    BY <1>10, OwnerParts DEF Shutdown, OwnerLive
  <2>2. explicit' \in BOOLEAN
    BY <1>10 DEF Shutdown
  <2> QED
    BY <1>10, <2>1, <2>2 DEF Shutdown
<1>11. CASE CancelReturns
  <2>1. canceller.copy \in Jobs
    BY <1>11 DEF CancelReturns, NoCanceller
  <2>2. disk' \in Jobs
    BY <1>11, <2>1, CancelledJobTyped, MergeTyped DEF CancelReturns
  <2> QED
    BY <1>11, <2>2 DEF CancelReturns
<1>12. ASSUME NEW s \in Steps, NEW k \in Launches, WorkerExits(s, k) PROVE TypeOK'
  <2>1. fate' \in [Steps -> [Launches -> Fates]] /\ exitFile' \in [Steps -> Exits]
    BY <1>12 DEF WorkerExits, Fates, Exits
  <2> QED
    BY <1>12, <2>1 DEF WorkerExits
<1>13. ASSUME NEW s \in Steps, NEW k \in Launches, WorkerLost(s, k) PROVE TypeOK'
  <2>1. fate' \in [Steps -> [Launches -> Fates]]
    BY <1>13 DEF WorkerLost, Fates
  <2> QED
    BY <1>13, <2>1 DEF WorkerLost
<1>14. CASE ReconcilePending
  BY <1>14, OwnersTyped DEF ReconcilePending
<1>15. ASSUME NEW s \in Steps, ReconcileExit(s) PROVE TypeOK'
  BY <1>15, ReconciledTyped DEF ReconcileExit
<1>16. ASSUME NEW d \in Jobs, Reboot(d), exitFile' \in [Steps -> Exits],
              fate' \in [Steps -> [Launches -> Fates]]
       PROVE  TypeOK'
  <2>1. restarts' \in 0 .. MaxRestarts
    BY <1>16, JobAssumption DEF Reboot
  <2> QED
    BY <1>16, <2>1, OwnersTyped DEF Reboot
<1>17. CASE Restart
  BY <1>16, <1>17 DEF Restart
<1>18. CASE RestartTorn \/ RestartReaping
  <2>1. exitFile' \in [Steps -> Exits] /\ fate' \in [Steps -> [Launches -> Fates]]
    BY <1>18, TornReboots, ReapedTyped DEF Exits
  <2> QED
    BY <1>16, <1>18, <2>1, TornReboots, TornTyped
<1>20. CASE RestartLaunching
  <2>1. fate' \in [Steps -> [Launches -> Fates]]
    BY <1>20 DEF RestartLaunching, Fates
  <2> QED
    BY <1>16, <1>20, <2>1 DEF RestartLaunching
<1>19. CASE UNCHANGED vars
  BY <1>19 DEF vars
<1> QED
  BY <1>1, <1>2, <1>3, <1>4, <1>5, <1>6, <1>7, <1>8, <1>9, <1>10, <1>11, <1>12, <1>13, <1>14,
     <1>15, <1>17, <1>18, <1>19, <1>20
     DEF Next, OwnerStep, CallerStep, WorkerStep, Reconcile

\* Every variable keeps its type; a coroutine in the middle of a step knows it
\* (the copy of the job that _execute_step carries across its awaits).
THEOREM TypeCorrect == Spec => []TypeOK
<1> QED
  BY TypeInit, TypeStep, PTL DEF Spec

-----------------------------------------------------------------------------
(* Outcomes stay.                                                           *)

\* What is over in one job is the same in the other.
Kept(a, b) ==
  /\ a.state \in Final => b.state = a.state
  /\ \A s \in Steps : a.steps[s].state \in Final => b.steps[s] = a.steps[s]

LEMMA MergeKeeps ==
  ASSUME NEW old, NEW new
  PROVE  Kept(old, Merge(old, new))
BY DEF Kept, Merge, Sticky, MergeSteps

LEMMA KeptTwice ==
  ASSUME NEW a, NEW b, NEW c, Kept(a, b), Kept(b, c)
  PROVE  Kept(a, c)
BY DEF Kept

\* A put of which only HOST_JOB.json reached the disk.
LEMMA HalfKeeps ==
  ASSUME NEW old, NEW new \in Jobs, Kept(old, new)
  PROVE  Kept(old, Half(old, new))
<1>1. Half(old, new).state = new.state /\ Half(old, new).steps = old.steps
  BY DEF Half, Jobs
<1> QED
  BY <1>1 DEF Kept

LEMMA AdvanceKeeps ==
  ASSUME NEW job
  PROVE  Kept(job, Advance(job).disk)
<1>1. Kept(job, job)
  BY DEF Kept
<1>2. \/ Advance(job).disk = job
      \/ \E new : Advance(job).disk = Merge(job, new)
  <2>1. CASE job.state \in Final
    BY <2>1 DEF Advance
  <2>2. CASE job.state \notin Final /\ Runnable(job) = {}
    BY <2>2 DEF Advance
  <2>3. CASE job.state \notin Final /\ Runnable(job) # {}
    BY <2>3 DEF Advance
  <2> QED
    BY <2>1, <2>2, <2>3
<1> QED
  BY <1>1, <1>2, MergeKeeps

LEMMA ReapKeeps ==
  /\ Kept(disk, ReapedPut) /\ Kept(disk, ReapedFinal)
  /\ Kept(disk, Advance(ReapedFinal).disk)
  /\ \A s \in Steps : Kept(disk, ReconciledPut(s)) /\ Kept(disk, ReconciledFinal(s))
<1>1. Kept(disk, ReapedPut)
  BY MergeKeeps DEF ReapedPut
<1>2. Kept(disk, ReapedFinal)
  BY <1>1, MergeKeeps, KeptTwice DEF ReapedFinal
<1>3. Kept(disk, Advance(ReapedFinal).disk)
  BY <1>2, AdvanceKeeps, KeptTwice
<1>4. ASSUME NEW s \in Steps PROVE Kept(disk, ReconciledPut(s)) /\ Kept(disk, ReconciledFinal(s))
  <2>1. Kept(disk, ReconciledPut(s))
    BY MergeKeeps DEF ReconciledPut
  <2> QED
    BY <2>1, MergeKeeps, KeptTwice DEF ReconciledFinal
<1> QED
  BY <1>1, <1>2, <1>3, <1>4

LEMMA TornKeeps ==
  ASSUME TypeOK, NEW d \in Torn
  PROVE  Kept(disk, d)
<1> disk \in Jobs
  BY DEF TypeOK
<1>1. CASE d \in TornAdvances
  <2>1. d = Half(disk, Advance(disk).disk)
    BY <1>1 DEF TornAdvances
  <2> QED
    BY <2>1, AdvanceTyped, AdvanceKeeps, HalfKeeps
<1>2. CASE d \in TornReaps
  <2>1. Reapable /\ d \in {disk, Half(disk, ReapedPut), ReapedPut, Half(ReapedFinal, Advance(ReapedFinal).disk)}
    BY <1>2 DEF TornReaps
  <2>2. ReapedPut \in Jobs /\ Advance(ReapedFinal).disk \in Jobs
    BY <2>1, ReapedTyped, AdvanceTyped
  <2>3. Kept(ReapedFinal, Half(ReapedFinal, Advance(ReapedFinal).disk))
    BY <2>2, AdvanceKeeps, HalfKeeps
  <2>4. Kept(disk, Half(ReapedFinal, Advance(ReapedFinal).disk))
    BY <2>3, ReapKeeps, KeptTwice
  <2> QED
    BY <2>1, <2>2, <2>4, ReapKeeps, HalfKeeps DEF Kept
<1>3. CASE d \in TornCancels
  <2>1. canceller.pc = "returning" /\ d = Half(disk, Merge(disk, CancelledJob(canceller.copy)))
    BY <1>3 DEF TornCancels
  <2>2. canceller.copy \in Jobs
    BY <2>1 DEF TypeOK, NoCanceller
  <2> QED
    BY <2>1, <2>2, CancelledJobTyped, MergeTyped, MergeKeeps, HalfKeeps
<1>4. CASE d \in TornReconciles
  <2>1. PICK s \in Steps : d \in {ReconciledPut(s), Half(ReconciledPut(s), ReconciledFinal(s))}
    BY <1>4 DEF TornReconciles
  <2>2. Kept(ReconciledPut(s), ReconciledFinal(s))
    BY MergeKeeps DEF ReconciledFinal
  <2>3. Kept(disk, Half(ReconciledPut(s), ReconciledFinal(s)))
    BY <2>2, ReconciledTyped, HalfKeeps, ReapKeeps, KeptTwice
  <2> QED
    BY <2>1, <2>3, ReapKeeps
<1> QED
  BY <1>1, <1>2, <1>3, <1>4 DEF Torn

\* A step leaves the job alone, puts a merged one, or finds what a death left.
LEMMA StepKeeps == TypeOK /\ [Next]_vars => Kept(disk, disk')
<1> SUFFICES ASSUME TypeOK, [Next]_vars
             PROVE  Kept(disk, disk')
  OBVIOUS
<1>1. Kept(disk, disk)
  BY DEF Kept
<1>2. CASE OwnerStep
  <2>1. CASE OwnerAdvances
    BY <2>1, AdvanceKeeps DEF OwnerAdvances
  <2>2. CASE Launch
    BY <2>2, MergeKeeps DEF Launch
  <2>3. CASE Reap
    BY <2>3, ReapKeeps DEF Reap
  <2> QED
    BY <1>1, <1>2, <2>1, <2>2, <2>3 DEF OwnerStep, OwnerCancelled, LaunchFails
<1>3. CASE CallerStep
  BY <1>1, <1>3, MergeKeeps
     DEF CallerStep, Start, ApproveAndStart, CancelUnowned, CancelOwned, Shutdown
<1>4. CASE CancelReturns
  BY <1>4, MergeKeeps DEF CancelReturns
<1>5. CASE WorkerStep
  BY <1>1, <1>5 DEF WorkerStep, WorkerExits, WorkerLost
<1>6. CASE Reconcile
  BY <1>1, <1>6, ReapKeeps DEF Reconcile, ReconcilePending, ReconcileExit
<1>7. CASE Restart
  BY <1>1, <1>7 DEF Restart, Reboot
<1>8. CASE RestartTorn \/ RestartReaping
  BY <1>8, TornReboots, TornKeeps DEF Reboot
<1>10. CASE RestartLaunching
  BY <1>1, <1>10 DEF RestartLaunching, Reboot
<1>9. CASE UNCHANGED vars
  BY <1>1, <1>9 DEF vars
<1> QED
  BY <1>2, <1>3, <1>4, <1>5, <1>6, <1>7, <1>8, <1>9, <1>10 DEF Next

\* Release note v0.29.0: a terminal state of the job or of a step is never rolled
\* back, whichever stale copy a writer merges into the files (_merge_job).
THEOREM OutcomesStay == Spec => TerminalIsSticky
<1>1. TypeOK /\ [Next]_vars
      => [/\ disk.state \in Final => disk'.state = disk.state
          /\ \A s \in Steps : disk.steps[s].state \in Final => disk'.steps[s] = disk.steps[s]]_vars
  BY StepKeeps DEF Kept
<1> QED
  BY <1>1, TypeCorrect, PTL DEF Spec, TerminalIsSticky

-----------------------------------------------------------------------------
(* Steps run in order and approved.  The order on file is what the launches *)
(* need; it holds because every copy a writer puts knows the approvals of   *)
(* the steps launched so far, and a job with a failed step is over.         *)

Spoiled == {"failed", "cancelled"}

Ran == {s \in Steps : Launched(s) # {}}

Covers(ran, job) == \A s \in ran \cap Approvals : job.steps[s].approved

Unspoiled(job) == \A s \in Steps : job.steps[s].state \notin Spoiled

Before(s, job) == \A r \in 1 .. s - 1 : job.steps[r].state = "completed"

\* A job on file: in order for the steps that ran, and over if a step is spoiled.
Good(ran, job) ==
  /\ job \in Jobs
  /\ Covers(ran, job) /\ \A s \in ran : Before(s, job)
  /\ job.state \in Final \/ Unspoiled(job)

\* A coroutine in the middle of a step, over a job on file.
GoodOwner(ran, job, o) ==
  o.pc \in {"starting", "waiting"} =>
    /\ Before(o.step, job)
    /\ o.step \in Approvals => job.steps[o.step].approved /\ o.copy.steps[o.step].approved
    /\ Covers(ran, o.copy) /\ Unspoiled(o.copy) /\ o.copy.state \notin Final

OrderInv ==
  /\ Good(Ran, disk) /\ GoodOwner(Ran, disk, owner)
  /\ canceller.pc # "none" => Covers(Ran, canceller.copy)
  /\ canceller.pc = "awaiting" => owner.pc # "none" /\ owner.cancel
  /\ canceller.pc = "returning" => owner.pc \in {"none", "ready"}

LEMMA Earlier == \A s \in Steps : \A r \in 1 .. s - 1 : r \in Steps /\ r < s
BY JobAssumption DEF Steps

LEMMA StickyFinal ==
  ASSUME NEW a \in States, NEW b \in States, b \in Final
  PROVE  Sticky(a, b) \in Final
<1>1. Rank(b) = 3
  BY DEF Rank, Final
<1>2. Rank(a) \in {0, 1, 2, 3}
  BY DEF Rank, States, Final
<1> QED
  BY <1>1, <1>2 DEF Sticky

\* What was before a step stays before it.
LEMMA BeforeKept ==
  ASSUME NEW a, NEW b, Kept(a, b), NEW s \in Steps, Before(s, a)
  PROVE  Before(s, b)
BY Earlier DEF Kept, Before, Final

\* A put of a copy that covers what ran; the copy is unspoiled or over.
LEMMA MergeGood ==
  ASSUME NEW ran \in SUBSET Steps, NEW old, NEW new \in Jobs, Good(ran, old), Covers(ran, new),
         Unspoiled(new) \/ new.state \in Final
  PROVE  Good(ran, Merge(old, new))
<1> DEFINE job == Merge(old, new)
<1>1. job \in Jobs
  BY MergeTyped DEF Good
<1>2. job.state = Sticky(old.state, new.state)
      /\ \A s \in Steps : job.steps[s] = IF old.steps[s].state \in Final THEN old.steps[s] ELSE new.steps[s]
  BY DEF Merge, MergeSteps
<1>3. Covers(ran, job)
  BY <1>2 DEF Good, Covers
<1>4. \A s \in ran : Before(s, job)
  BY MergeKeeps, BeforeKept DEF Good
<1>5. job.state \in Final \/ Unspoiled(job)
  <2>1. CASE new.state \in Final
    BY <1>2, <2>1, StickyFinal, JobParts DEF Good
  <2>2. CASE old.state \in Final
    BY <1>2, <2>2 DEF Sticky
  <2>3. CASE Unspoiled(new) /\ old.state \notin Final
    BY <1>2, <2>3 DEF Good, Unspoiled
  <2> QED
    BY <2>1, <2>2, <2>3
<1> QED
  BY <1>1, <1>3, <1>4, <1>5 DEF Good

LEMMA HalfGood ==
  ASSUME NEW ran \in SUBSET Steps, NEW old, NEW new \in Jobs, Good(ran, old), Kept(old, new)
  PROVE  Good(ran, Half(old, new))
<1>1. Half(old, new).state = new.state /\ Half(old, new).steps = old.steps
  BY DEF Half, Jobs
<1>2. Half(old, new) \in Jobs
  BY HalfTyped DEF Good
<1> QED
  BY <1>1, <1>2 DEF Good, Covers, Before, Unspoiled, Kept

\* _finalize_job touches the state of the job only.
LEMMA FinalizeParts ==
  ASSUME NEW job \in Jobs
  PROVE  /\ Finalize(job).steps = job.steps
         /\ job.state \in Final => Finalize(job).state \in Final
         /\ (\E s \in Steps : job.steps[s].state \in Spoiled) => Finalize(job).state \in Final
<1> DEFINE state == IF job.state \in Final THEN job.state
                    ELSE IF Some(job, "failed") THEN "failed"
                    ELSE IF Some(job, "cancelled") THEN "cancelled"
                    ELSE IF \A s \in Listed : job.steps[s].state = "completed" THEN "completed"
                    ELSE job.state
<1>1. Finalize(job) = [job EXCEPT !.state = state]
  BY DEF Finalize
<1>2. job.state \in Final => state \in Final
  BY DEF Final
<1>3. (\E s \in Steps : job.steps[s].state \in Spoiled) => state \in Final
  BY DEF Spoiled, Some, Final
<1>4. Finalize(job).steps = job.steps /\ Finalize(job).state = state
  <2> HIDE DEF state
  <2> QED
    BY <1>1 DEF Jobs
<1> QED
  BY <1>2, <1>3, <1>4

LEMMA InStepParts ==
  ASSUME NEW job \in Jobs, NEW s \in Steps, NEW state \in States \ Spoiled
  PROVE  /\ InStep(job, s, state).state = Sticky(job.state, state)
         /\ \A r \in Steps : InStep(job, s, state).steps[r].approved = job.steps[r].approved
         /\ Unspoiled(job) => Unspoiled(InStep(job, s, state))
<1>1. InStep(job, s, state).state = Sticky(job.state, state)
      /\ InStep(job, s, state).steps = [job.steps EXCEPT ![s].state = state]
  BY DEF InStep, Jobs
<1>2. \A r \in Steps : /\ InStep(job, s, state).steps[r].approved = job.steps[r].approved
                       /\ InStep(job, s, state).steps[r].state = IF r = s THEN state ELSE job.steps[r].state
  BY <1>1, JobParts DEF StepRecord
<1> QED
  BY <1>1, <1>2 DEF Unspoiled

\* A turn of the loop: the next step is taken only when the ones before it are
\* completed and it is approved.
LEMMA AdvanceGood ==
  ASSUME NEW ran \in SUBSET Steps, NEW job, Good(ran, job)
  PROVE  Good(ran, Advance(job).disk) /\ GoodOwner(ran, Advance(job).disk, Advance(job).owner)
<1>0. job \in Jobs /\ Covers(ran, job)
  BY DEF Good
<1>1. \A x : GoodOwner(ran, x, NoOwner)
  BY DEF GoodOwner, NoOwner
<1>2. CASE job.state \in Final
  <2>1. Advance(job).disk = job /\ Advance(job).owner = NoOwner
    BY <1>2 DEF Advance
  <2> QED
    BY <1>1, <2>1
<1>3. CASE job.state \notin Final /\ Runnable(job) = {}
  <2>1. Advance(job).disk = Merge(job, Finalize(job)) /\ Advance(job).owner = NoOwner
    BY <1>3 DEF Advance
  <2>2. Finalize(job) \in Jobs /\ Covers(ran, Finalize(job)) /\ Unspoiled(Finalize(job))
    BY <1>0, <1>3, FinalizeTyped, FinalizeParts DEF Good, Covers, Unspoiled
  <2> QED
    BY <1>1, <2>1, <2>2, MergeGood
<1>4. CASE job.state \notin Final /\ Runnable(job) # {}
  <2>1. PICK s \in Steps : s = NextStep(job)
    BY <1>4, NextStepIsFirst DEF Runnable
  <2>2. job.steps[s].state \notin Final /\ \A r \in Runnable(job) : s <= r
    BY <1>4, <2>1, NextStepIsFirst DEF Runnable
  <2>3. Unspoiled(job)
    BY <1>4 DEF Good
  <2>4. Before(s, job)
    <3> SUFFICES ASSUME NEW r \in 1 .. s - 1
                 PROVE  job.steps[r].state = "completed"
      BY DEF Before
    <3>1. r \in Steps /\ r < s /\ s \in Nat /\ r \in Nat
      BY Earlier, Bounds
    <3>2. r \notin Runnable(job)
      BY <2>2, <3>1
    <3>3. job.steps[r].state \in Final
      BY <1>4, <3>1, <3>2 DEF Runnable, Listed
    <3> QED
      BY <2>3, <3>1, <3>3 DEF Unspoiled, Spoiled, Final
  <2>5. CASE NeedsApproval(job, s)
    <3> DEFINE copy == InStep(job, s, "awaiting_approval")
    <3>1. Advance(job).disk = Merge(job, copy) /\ Advance(job).owner = NoOwner
      BY <1>4, <2>1, <2>5 DEF Advance
    <3>2. "awaiting_approval" \in States \ Spoiled
      BY DEF States, Spoiled
    <3>3. copy \in Jobs /\ Covers(ran, copy) /\ Unspoiled(copy)
      BY <1>0, <2>3, <3>2, InStepTyped, InStepParts DEF Covers
    <3> HIDE DEF copy
    <3> QED
      BY <1>1, <3>1, <3>3, MergeGood
  <2>6. CASE ~NeedsApproval(job, s)
    <3> DEFINE copy == InStep(job, s, "running")
    <3>1. Advance(job) = [disk  |-> Merge(job, copy),
                          owner |-> [pc |-> "starting", step |-> s, cancel |-> FALSE, copy |-> copy]]
      BY <1>4, <2>1, <2>6 DEF Advance
    <3>2. "running" \in States \ Spoiled
      BY DEF States, Spoiled
    <3>3. copy \in Jobs /\ Covers(ran, copy) /\ Unspoiled(copy)
      BY <1>0, <2>3, <3>2, InStepTyped, InStepParts DEF Covers
    <3>4. copy.state \notin Final
      <4>1. copy.state = Sticky(job.state, "running")
        BY <1>0, <3>2, InStepParts
      <4> HIDE DEF copy
      <4> QED
        BY <1>4, <4>1 DEF Sticky, Final
    <3>5. s \in Approvals => copy.steps[s].approved
      BY <1>0, <2>6, <3>2, InStepParts DEF NeedsApproval
    <3> HIDE DEF copy
    <3>6. Good(ran, Merge(job, copy))
      BY <3>3, MergeGood
    <3>7. Before(s, Merge(job, copy))
      BY <2>4, MergeKeeps, BeforeKept
    <3>8. s \in Approvals => Merge(job, copy).steps[s].approved
      BY <2>2, <3>5 DEF Merge, MergeSteps
    <3> QED
      BY <3>1, <3>3, <3>4, <3>5, <3>6, <3>7, <3>8 DEF GoodOwner
  <2> QED
    BY <2>5, <2>6
<1> QED
  BY <1>2, <1>3, <1>4

\* A coroutine in the middle of a step is not disturbed by a put that keeps what
\* is over and takes no approval away.
LEMMA OwnerGoodKept ==
  ASSUME NEW ran, NEW a, NEW b, NEW o \in Owners, GoodOwner(ran, a, o), Kept(a, b),
         \A s \in Steps : a.steps[s].approved => b.steps[s].approved
  PROVE  GoodOwner(ran, b, o)
<1> SUFFICES ASSUME o.pc \in {"starting", "waiting"}
             PROVE  GoodOwner(ran, b, o)
  BY DEF GoodOwner
<1>1. o.step \in Steps
  BY DEF Owners, NoOwner
<1> QED
  BY <1>1, BeforeKept DEF GoodOwner

LEMMA CancelledParts ==
  ASSUME NEW job \in Jobs
  PROVE  /\ CancelledJob(job).state \in Final
         /\ \A s \in Steps : CancelledJob(job).steps[s].approved = job.steps[s].approved
<1> DEFINE other == IF job.current # 0 /\ job.steps[job.current].state = "running"
                    THEN WithStep(job, job.current, "cancelled") ELSE job
<1>1. job.current # 0 => job.current \in Steps
  BY JobParts, JobAssumption DEF Steps
<1>2. other \in Jobs
  BY <1>1, WithStepTyped DEF States, Final
<1>3. \A s \in Steps : other.steps[s].approved = job.steps[s].approved
  <2>1. CASE other = job
    BY <2>1
  <2>2. CASE job.current # 0 /\ other = WithStep(job, job.current, "cancelled")
    <3> DEFINE c == job.current
    <3>1. other.steps = [job.steps EXCEPT ![c].state = "cancelled"]
      BY <2>2 DEF WithStep, Jobs
    <3> HIDE DEF other, c
    <3> QED
      BY <3>1, JobParts DEF StepRecord
  <2> QED
    BY <2>1, <2>2
<1>4. CancelledJob(job) = [other EXCEPT !.state = Sticky(other.state, "cancelled")]
  BY DEF CancelledJob
<1> HIDE DEF other
<1>5. CancelledJob(job).state = Sticky(other.state, "cancelled")
      /\ CancelledJob(job).steps = other.steps
  BY <1>2, <1>4 DEF Jobs
<1>6. Sticky(other.state, "cancelled") \in Final
  BY <1>2, JobParts, StickyFinal DEF States, Final
<1> QED
  BY <1>3, <1>5, <1>6

LEMMA ApprovedParts ==
  ASSUME NEW job \in Jobs, NEW s \in Steps
  PROVE  /\ \A r \in Steps : job.steps[r].approved => Approved(job, s).steps[r].approved
         /\ Unspoiled(job) => Unspoiled(Approved(job, s))
         /\ job.state \in Final => Approved(job, s).state \in Final
<1>1. CASE Approved(job, s) = job
  BY <1>1
<1>2. CASE Approved(job, s) = [job EXCEPT !.state = Sticky(@, "running"),
                                         !.steps[s].state = "pending", !.steps[s].approved = TRUE]
  <2>1. Approved(job, s).state = Sticky(job.state, "running")
        /\ Approved(job, s).steps = [job.steps EXCEPT ![s].state = "pending", ![s].approved = TRUE]
    BY <1>2 DEF Jobs
  <2> DEFINE pending == [job.steps EXCEPT ![s].state = "pending"]
  <2>2. pending \in [Steps -> StepRecord] /\ pending[s].state = "pending"
        /\ \A r \in Steps \ {s} : pending[r] = job.steps[r]
    BY JobParts DEF StepRecord, States
  <2>3. Approved(job, s).steps = [pending EXCEPT ![s].approved = TRUE]
    BY <2>1
  <2> HIDE DEF pending
  <2>4. /\ Approved(job, s).steps[s].approved /\ Approved(job, s).steps[s].state = "pending"
        /\ \A r \in Steps \ {s} : Approved(job, s).steps[r] = job.steps[r]
    BY <2>2, <2>3 DEF StepRecord
  <2> QED
    BY <2>1, <2>4 DEF Unspoiled, Spoiled, Sticky
<1> QED
  BY <1>1, <1>2 DEF Approved

LEMMA WithStepParts ==
  ASSUME NEW job \in Jobs, NEW s \in Steps, NEW state \in States
  PROVE  /\ WithStep(job, s, state).state = job.state
         /\ WithStep(job, s, state).steps[s].state = state
         /\ \A r \in Steps : WithStep(job, s, state).steps[r].approved = job.steps[r].approved
         /\ Unspoiled(job) /\ state \notin Spoiled => Unspoiled(WithStep(job, s, state))
<1>1. WithStep(job, s, state).state = job.state
      /\ WithStep(job, s, state).steps = [job.steps EXCEPT ![s].state = state]
  BY DEF WithStep, Jobs
<1>2. /\ \A r \in Steps : WithStep(job, s, state).steps[r].approved = job.steps[r].approved
      /\ \A r \in Steps : WithStep(job, s, state).steps[r].state = IF r = s THEN state ELSE job.steps[r].state
  BY <1>1, JobParts DEF StepRecord
<1> QED
  BY <1>1, <1>2 DEF Unspoiled

\* A worker's exit: the job is over with its failed step, by one put.
LEMMA ReapGood ==
  ASSUME TypeOK, OrderInv, Reapable
  PROVE  Good(Ran, ReapedPut) /\ Good(Ran, ReapedFinal)
<1> DEFINE done == WithStep(owner.copy, owner.step, Outcome(Rc))
<1>1. /\ owner.step \in Steps /\ owner.copy \in Jobs /\ owner.pc \in {"starting", "waiting"}
      /\ ReapedCopy \in Jobs /\ Ran \in SUBSET Steps /\ Good(Ran, disk)
  BY ReapedTyped, OwnerParts DEF TypeOK, Reapable, OrderInv, Ran
<1>2. Covers(Ran, owner.copy) /\ Unspoiled(owner.copy) /\ owner.copy.state \notin Final
  BY <1>1 DEF OrderInv, GoodOwner
<1>3. Outcome(Rc) \in States /\ (Rc = "zero" => Outcome(Rc) \notin Spoiled)
  BY DEF Outcome, States, Final, Spoiled
<1>4. /\ done \in Jobs /\ done.state \notin Final /\ Covers(Ran, done)
      /\ Rc = "zero" => Unspoiled(done)
  BY <1>1, <1>2, <1>3, WithStepTyped, WithStepParts DEF Covers, Ran
<1>5. ReapedCopy = IF Rc = "zero" THEN done ELSE [done EXCEPT !.state = Sticky(done.state, "failed")]
  BY DEF ReapedCopy
<1> HIDE DEF done
<1>6. Covers(Ran, ReapedCopy) /\ (Unspoiled(ReapedCopy) \/ ReapedCopy.state \in Final)
  <2>1. CASE Rc = "zero"
    BY <1>4, <1>5, <2>1
  <2>2. CASE Rc # "zero"
    <3>1. ReapedCopy.state = Sticky(done.state, "failed") /\ ReapedCopy.steps = done.steps
      BY <1>4, <1>5, <2>2 DEF Jobs
    <3>2. Sticky(done.state, "failed") \in Final
      BY <1>4, JobParts, StickyFinal DEF States, Final
    <3> QED
      BY <1>4, <3>1, <3>2 DEF Covers
  <2> QED
    BY <2>1, <2>2
<1>7. Good(Ran, ReapedPut)
  BY <1>1, <1>6, MergeGood DEF ReapedPut
<1>8. /\ Finalize(ReapedCopy) \in Jobs /\ Covers(Ran, Finalize(ReapedCopy))
      /\ Unspoiled(Finalize(ReapedCopy)) \/ Finalize(ReapedCopy).state \in Final
  BY <1>1, <1>6, FinalizeTyped, FinalizeParts DEF Covers, Unspoiled
<1>9. Good(Ran, ReapedFinal)
  BY <1>1, <1>7, <1>8, MergeGood DEF ReapedFinal
<1> QED
  BY <1>7, <1>9

\* Both puts of a reconciliation together end a job whose step failed.
LEMMA ReconcileGood ==
  ASSUME TypeOK, OrderInv, NEW s \in Steps, disk.state \notin Final
  PROVE  /\ Good(Ran, ReconciledFinal(s))
         /\ \A r \in Steps : disk.steps[r].approved => ReconciledFinal(s).steps[r].approved
<1> DEFINE copy == ReconciledCopy(s)
<1>1. /\ disk \in Jobs /\ Ran \in SUBSET Steps /\ Good(Ran, disk) /\ Unspoiled(disk)
      /\ Outcome(exitFile[s]) \in States
  BY DEF TypeOK, OrderInv, Ran, Good, Outcome, States, Final
<1>2. /\ copy \in Jobs /\ copy.state = disk.state
      /\ copy.steps[s].state = Outcome(exitFile[s])
      /\ \A r \in Steps : copy.steps[r].approved = disk.steps[r].approved
      /\ Outcome(exitFile[s]) \notin Spoiled => Unspoiled(copy)
  BY <1>1, WithStepTyped, WithStepParts DEF ReconciledCopy
<1> HIDE DEF copy
<1>3. /\ Finalize(copy) \in Jobs /\ Finalize(copy).steps = copy.steps
      /\ Unspoiled(Finalize(copy)) \/ Finalize(copy).state \in Final
  <2>1. CASE Outcome(exitFile[s]) \in Spoiled
    BY <1>2, <2>1, FinalizeTyped, FinalizeParts
  <2>2. CASE Outcome(exitFile[s]) \notin Spoiled
    BY <1>2, <2>2, FinalizeTyped, FinalizeParts DEF Unspoiled
  <2> QED
    BY <2>1, <2>2
<1>4. ReconciledPut(s) = Merge(disk, copy) /\ ReconciledFinal(s) = Merge(Merge(disk, copy), Finalize(copy))
  BY DEF ReconciledPut, ReconciledFinal, copy
<1>5. \A r \in Steps : disk.steps[r].approved => ReconciledFinal(s).steps[r].approved
  BY <1>2, <1>3, <1>4 DEF Merge, MergeSteps
<1>6. Covers(Ran, ReconciledFinal(s)) /\ ReconciledFinal(s) \in Jobs
  BY <1>1, <1>5, ReconciledTyped DEF Good, Covers
<1>7. \A r \in Ran : Before(r, ReconciledFinal(s))
  BY <1>1, ReapKeeps, BeforeKept DEF Good
<1>8. ReconciledFinal(s).state \in Final \/ Unspoiled(ReconciledFinal(s))
  <2>1. CASE Outcome(exitFile[s]) \in Spoiled
    <3>1. Finalize(copy).state \in Final /\ Finalize(copy).state \in States
      BY <1>2, <1>3, <2>1, FinalizeParts, JobParts
    <3>2. ReconciledFinal(s).state = Sticky(Merge(disk, copy).state, Finalize(copy).state)
      BY <1>4 DEF Merge
    <3>3. Merge(disk, copy).state \in States
      BY <1>1, <1>2, MergeTyped, JobParts
    <3> QED
      BY <3>1, <3>2, <3>3, StickyFinal
  <2>2. CASE Outcome(exitFile[s]) \notin Spoiled
    <3>1. Unspoiled(copy) /\ Covers(Ran, copy)
      BY <1>1, <1>2, <2>2 DEF Good, Covers
    <3>2. Good(Ran, Merge(disk, copy))
      BY <1>1, <1>2, <3>1, MergeGood
    <3>3. Covers(Ran, Finalize(copy))
      BY <1>3, <3>1 DEF Covers
    <3>4. Good(Ran, ReconciledFinal(s))
      BY <1>1, <1>3, <1>4, <3>2, <3>3, MergeGood
    <3> QED
      BY <3>4 DEF Good
  <2> QED
    BY <2>1, <2>2
<1> QED
  BY <1>5, <1>6, <1>7, <1>8 DEF Good

\* A job as a death may leave it; not between the puts of a reconciliation.
LEMMA TornGood ==
  ASSUME TypeOK, OrderInv, NEW d \in TornAdvances \cup TornReaps \cup TornCancels
  PROVE  Good(Ran, d)
<1>1. disk \in Jobs /\ Ran \in SUBSET Steps /\ Good(Ran, disk)
  BY DEF TypeOK, OrderInv, Ran
<1>2. CASE d \in TornAdvances
  <2>1. d = Half(disk, Advance(disk).disk)
    BY <1>2 DEF TornAdvances
  <2> QED
    BY <1>1, <2>1, AdvanceTyped, AdvanceKeeps, HalfGood
<1>3. CASE d \in TornReaps
  <2>1. Reapable /\ d \in {disk, Half(disk, ReapedPut), ReapedPut, Half(ReapedFinal, Advance(ReapedFinal).disk)}
    BY <1>3 DEF TornReaps
  <2>2. /\ ReapedPut \in Jobs /\ Advance(ReapedFinal).disk \in Jobs
        /\ Good(Ran, ReapedPut) /\ Good(Ran, ReapedFinal)
    BY <2>1, ReapedTyped, AdvanceTyped, ReapGood
  <2> QED
    BY <1>1, <2>1, <2>2, AdvanceKeeps, ReapKeeps, HalfGood
<1>4. CASE d \in TornCancels
  <2>1. canceller.pc = "returning" /\ d = Half(disk, Merge(disk, CancelledJob(canceller.copy)))
    BY <1>4 DEF TornCancels
  <2>2. canceller.copy \in Jobs
    BY <2>1 DEF TypeOK, NoCanceller
  <2> QED
    BY <1>1, <2>1, <2>2, CancelledJobTyped, MergeTyped, MergeKeeps, HalfGood
<1> QED
  BY <1>2, <1>3, <1>4

LEMMA OrderInit == Init => OrderInv
<1> SUFFICES ASSUME Init
             PROVE  OrderInv
  OBVIOUS
<1>1. Ran = {}
  BY DEF Init, Ran, Launched
<1>2. Fresh \in Jobs /\ Unspoiled(Fresh)
  BY FreshTyped DEF Fresh, Unspoiled, Spoiled
<1> QED
  BY <1>1, <1>2 DEF Init, OrderInv, Good, GoodOwner, Covers, NoOwner, NoCanceller

\* An action that leaves what ran and the canceller alone.
LEMMA Quiet ==
  ASSUME OrderInv, Ran' = Ran, canceller' = canceller, Good(Ran, disk'), GoodOwner(Ran, disk', owner'),
         canceller.pc = "awaiting" => owner'.pc # "none" /\ owner'.cancel,
         canceller.pc = "returning" => owner'.pc \in {"none", "ready"}
  PROVE  OrderInv'
BY DEF OrderInv

LEMMA OverGood == \A ran, job : GoodOwner(ran, job, NoOwner) /\ GoodOwner(ran, job, Ready)
BY DEF GoodOwner, NoOwner, Ready

\* A worker's end launches nothing and takes no launch away.
LEMMA EndedRan ==
  ASSUME TypeOK, NEW s, NEW k, NEW f, f # "none", fate[s][k] = "alive",
         fate' = [fate EXCEPT ![s][k] = f]
  PROVE  Ran' = Ran
<1>1. \A r \in Steps, l \in Launches : fate'[r][l] = "none" <=> fate[r][l] = "none"
  BY DEF TypeOK
<1> QED
  BY <1>1 DEF Ran, Launched

\* The job on file is rebooted to a good one.
LEMMA RebootGood ==
  ASSUME OrderInv, NEW d, Good(Ran', d), Reboot(d)
  PROVE  OrderInv'
<1> QED
  BY OverGood DEF Reboot, OrderInv, NoOwner, NoCanceller

\* What a death leaves of a launch that the coroutine has not put: the worker.
LEMMA OrphanGood ==
  ASSUME TypeOK, OrderInv, RestartLaunching
  PROVE  OrderInv'
<1> DEFINE s == owner.step
           k == Cardinality(Launched(s)) + 1
<1>1. /\ owner.pc = "starting" /\ Reboot(disk)
      /\ fate' = [fate EXCEPT ![s][k] = "alive"]
  BY DEF RestartLaunching
<1>2. s \in Steps /\ GoodOwner(Ran, disk, owner) /\ Good(Ran, disk)
  BY <1>1, OwnerParts DEF TypeOK, OrderInv
<1>3. Ran' \subseteq Ran \cup {s}
  <2> HIDE DEF s, k
  <2> QED
    BY <1>1, <1>2 DEF Ran, Launched, TypeOK
<1>4. Before(s, disk) /\ (s \in Approvals => disk.steps[s].approved)
  BY <1>1, <1>2 DEF GoodOwner
<1> HIDE DEF s, k
<1>5. Good(Ran', disk)
  BY <1>2, <1>3, <1>4 DEF Good, Covers
<1> QED
  BY <1>1, <1>5, RebootGood

\* A launch: the one action by which a step runs, and it has its approval.
LEMMA LaunchGood ==
  ASSUME TypeOK, OrderInv, Launch
  PROVE  OrderInv'
<1> DEFINE s    == owner.step
           k    == Cardinality(Launched(s)) + 1
           copy == [owner.copy EXCEPT !.steps[s].pid = k]
<1>1. /\ owner.pc = "starting" /\ ~owner.cancel /\ k \in Launches
      /\ disk' = Merge(disk, copy) /\ owner' = [owner EXCEPT !.pc = "waiting", !.copy = copy]
      /\ fate' = [fate EXCEPT ![s][k] = "alive"] /\ canceller' = canceller
  BY DEF Launch
<1>2. s \in Steps /\ owner.copy \in Jobs /\ GoodOwner(Ran, disk, owner) /\ Good(Ran, disk)
  BY <1>1, OwnerParts DEF TypeOK, OrderInv
<1>3. k \in 0 .. MaxLaunches
  BY <1>1, Bounds
<1>4. canceller.pc = "none"
  BY <1>1 DEF OrderInv, TypeOK, NoCanceller
<1>5. owner' = [pc |-> "waiting", step |-> s, cancel |-> owner.cancel, copy |-> copy]
  <2>1. owner \in [pc : {"starting", "waiting"}, step : Steps, cancel : BOOLEAN, copy : Jobs]
    BY <1>1 DEF TypeOK, Owners, NoOwner
  <2> HIDE DEF copy
  <2> QED
    BY <1>1, <2>1
<1>6. Ran' \subseteq Ran \cup {s}
  <2> HIDE DEF s, k
  <2> QED
    BY <1>1, <1>2 DEF Ran, Launched, TypeOK
<1>7. /\ copy \in Jobs /\ copy.state = owner.copy.state
      /\ \A r \in Steps : /\ owner.copy.steps[r].approved => copy.steps[r].approved
                          /\ copy.steps[r].state = owner.copy.steps[r].state
  <2> HIDE DEF s, k
  <2>1. copy \in Jobs
    BY <1>2, <1>3, WithPidTyped
  <2>2. copy.state = owner.copy.state /\ copy.steps = [owner.copy.steps EXCEPT ![s].pid = k]
    BY <1>2 DEF Jobs
  <2> QED
    BY <1>2, <2>1, <2>2, JobParts DEF StepRecord
<1> HIDE DEF s, k, copy
<1>8. /\ Covers(Ran', copy) /\ Unspoiled(copy) /\ copy.state \notin Final
      /\ s \in Approvals => copy.steps[s].approved
  <2>1. /\ Covers(Ran, owner.copy) /\ Unspoiled(owner.copy) /\ owner.copy.state \notin Final
        /\ s \in Approvals => owner.copy.steps[s].approved
    BY <1>1, <1>2 DEF GoodOwner, s
  <2>2. Ran \subseteq Steps
    BY DEF Ran
  <2> QED
    BY <1>2, <1>6, <1>7, <2>1, <2>2 DEF Covers, Unspoiled
<1>9. Before(s, disk) /\ (s \in Approvals => disk.steps[s].approved)
  BY <1>1, <1>2 DEF GoodOwner, s
<1>10. Ran' \in SUBSET Steps
  BY <1>2, <1>6 DEF Ran
<1>11. Good(Ran', disk)
  BY <1>2, <1>6, <1>9 DEF Good, Covers
<1>12. Good(Ran', disk')
  BY <1>1, <1>7, <1>8, <1>10, <1>11, MergeGood
<1>13. Before(s, disk') /\ (s \in Approvals => disk'.steps[s].approved)
  <2>1. Before(s, disk')
    BY <1>1, <1>2, <1>9, MergeKeeps, BeforeKept
  <2> QED
    BY <1>1, <1>2, <1>8, <1>9, <2>1 DEF Merge, MergeSteps
<1>14. GoodOwner(Ran', disk', owner')
  BY <1>5, <1>8, <1>13 DEF GoodOwner
<1> QED
  BY <1>1, <1>4, <1>12, <1>14 DEF OrderInv

\* Only a death between the two puts of a reconciliation disturbs the order.
LEMMA OrderKept ==
  ASSUME TypeOK, OrderInv, [Next]_vars,
         RestartTorn \/ RestartReaping => ~({"reconcile", "torn_write"} \subseteq Events)
  PROVE  OrderInv'
<1>0. /\ disk \in Jobs /\ owner \in Owners /\ Ran \in SUBSET Steps
      /\ Good(Ran, disk) /\ GoodOwner(Ran, disk, owner)
      /\ canceller.pc \in {"none", "awaiting", "returning"}
      /\ canceller.pc = "awaiting" => owner.pc # "none" /\ owner.cancel
      /\ canceller.pc = "returning" => owner.pc \in {"none", "ready"}
  BY DEF TypeOK, OrderInv, Ran, NoCanceller
<1>a. fate' = fate => Ran' = Ran
  BY DEF Ran, Launched
<1>1. CASE OwnerCancelled
  <2>1. Ran' = Ran
    <3>1. CASE fate' = fate
      BY <1>a, <3>1
    <3>2. CASE fate' # fate
      BY <1>1, <3>2, EndedRan DEF OwnerCancelled
    <3> QED
      BY <3>1, <3>2
  <2>2. /\ disk' = disk /\ owner' = NoOwner
        /\ canceller.pc = "none" => canceller'.pc = "none"
        /\ canceller'.pc # "awaiting" /\ canceller'.copy = canceller.copy
    BY <1>1 DEF OwnerCancelled, TypeOK, NoCanceller
  <2> QED
    BY <1>0, <2>1, <2>2, OverGood DEF OrderInv, NoOwner
<1>2. CASE OwnerAdvances
  <2>1. /\ disk' = Advance(disk).disk /\ owner' = Advance(disk).owner
        /\ canceller' = canceller /\ fate' = fate /\ canceller.pc = "none"
    BY <1>0, <1>2 DEF OwnerAdvances
  <2> QED
    BY <1>0, <1>a, <2>1, AdvanceGood, Quiet
<1>3. CASE Launch
  BY <1>3, LaunchGood
<1>4. CASE LaunchFails
  <2>1. canceller.pc = "none"
    BY <1>0, <1>4 DEF LaunchFails
  <2> QED
    BY <1>0, <1>4, <1>a, <2>1, OverGood, Quiet DEF LaunchFails
<1>5. CASE Reap
  <2>1. Reapable /\ fate' = fate /\ canceller' = canceller /\ canceller.pc = "none"
    BY <1>0, <1>5 DEF Reap, Reapable
  <2>2. Good(Ran, ReapedFinal)
    BY <2>1, ReapGood
  <2>3. \/ disk' = Advance(ReapedFinal).disk /\ owner' = Advance(ReapedFinal).owner
        \/ disk' = ReapedFinal /\ owner' = NoOwner
    BY <1>5 DEF Reap
  <2> QED
    BY <1>0, <1>a, <2>1, <2>2, <2>3, AdvanceGood, OverGood, Quiet
<1>6. CASE Start \/ ReconcilePending
  <2>1. /\ disk' = disk /\ fate' = fate /\ canceller' = canceller
        /\ owner.pc = "none" /\ owner' = Ready
    BY <1>6 DEF Start, ReconcilePending, OwnerLive
  <2> QED
    BY <1>0, <1>a, <2>1, OverGood, Quiet DEF Ready, NoOwner
<1>7. ASSUME NEW s \in Steps, ApproveAndStart(s) PROVE OrderInv'
  <2>1. /\ disk' = Merge(disk, Approved(disk, s)) /\ fate' = fate /\ canceller' = canceller
        /\ owner' = owner \/ (owner.pc = "none" /\ owner' = Ready)
    BY <1>7 DEF ApproveAndStart, OwnerLive
  <2>2. /\ Approved(disk, s) \in Jobs /\ Covers(Ran, Approved(disk, s))
        /\ Unspoiled(Approved(disk, s)) \/ Approved(disk, s).state \in Final
    BY <1>0, ApprovedTyped, ApprovedParts DEF Good, Covers
  <2>3. Good(Ran, disk')
    BY <1>0, <2>1, <2>2, MergeGood
  <2>4. \A r \in Steps : disk.steps[r].approved => disk'.steps[r].approved
    BY <1>0, <2>1, ApprovedParts DEF Merge, MergeSteps
  <2>5. GoodOwner(Ran, disk', owner)
    BY <1>0, <2>1, <2>4, MergeKeeps, OwnerGoodKept
  <2>6. CASE owner' = owner
    BY <1>0, <1>a, <2>1, <2>3, <2>5, <2>6, Quiet
  <2>7. CASE owner.pc = "none" /\ owner' = Ready
    <3>1. GoodOwner(Ran, disk', owner') /\ owner'.pc = "ready"
      BY <2>7, OverGood DEF Ready, NoOwner
    <3> QED
      BY <1>0, <1>a, <2>1, <2>3, <2>7, <3>1, Quiet
  <2> QED
    BY <2>1, <2>6, <2>7
<1>8. CASE CancelUnowned
  <2>1. /\ disk' = Merge(disk, CancelledJob(disk)) /\ fate' = fate /\ canceller' = canceller
        /\ canceller.pc = "none" /\ owner' = owner /\ owner.pc = "none"
    BY <1>8 DEF CancelUnowned, OwnerLive
  <2>2. CancelledJob(disk) \in Jobs /\ Covers(Ran, CancelledJob(disk)) /\ CancelledJob(disk).state \in Final
    BY <1>0, CancelledJobTyped, CancelledParts DEF Good, Covers
  <2>3. Good(Ran, disk')
    BY <1>0, <2>1, <2>2, MergeGood
  <2>4. GoodOwner(Ran, disk', owner')
    BY <2>1 DEF GoodOwner
  <2> QED
    BY <1>a, <2>1, <2>3, <2>4, Quiet
<1>9. CASE CancelOwned
  <2>1. /\ disk' = disk /\ fate' = fate /\ owner.pc # "none"
        /\ owner' = [owner EXCEPT !.cancel = TRUE]
        /\ canceller' = [pc |-> "awaiting", copy |-> disk]
    BY <1>9 DEF CancelOwned, OwnerLive
  <2>2. /\ owner'.pc = owner.pc /\ owner'.step = owner.step /\ owner'.copy = owner.copy
        /\ owner'.cancel
    BY <2>1 DEF TypeOK, Owners, NoOwner
  <2>3. GoodOwner(Ran, disk', owner')
    BY <1>0, <2>1, <2>2 DEF GoodOwner
  <2> QED
    BY <1>0, <1>a, <2>1, <2>2, <2>3 DEF OrderInv, Good
<1>10. CASE Shutdown
  <2>1. /\ disk' = disk /\ fate' = fate /\ canceller' = canceller
        /\ owner' = owner \/ owner' = [owner EXCEPT !.cancel = TRUE]
    BY <1>10 DEF Shutdown
  <2>2. /\ owner'.pc = owner.pc /\ owner'.step = owner.step /\ owner'.copy = owner.copy
        /\ owner.cancel => owner'.cancel
    BY <2>1 DEF TypeOK, Owners, NoOwner
  <2>3. GoodOwner(Ran, disk', owner')
    BY <1>0, <2>1, <2>2 DEF GoodOwner
  <2> QED
    BY <1>0, <1>a, <2>1, <2>2, <2>3, Quiet
<1>11. CASE CancelReturns
  <2>1. /\ disk' = Merge(disk, CancelledJob(canceller.copy)) /\ fate' = fate
        /\ canceller' = NoCanceller /\ owner' = owner
        /\ canceller.pc = "returning" /\ owner.pc \in {"none", "ready"}
    BY <1>0, <1>11 DEF CancelReturns
  <2>2. canceller.copy \in Jobs /\ Covers(Ran, canceller.copy)
    BY <2>1 DEF TypeOK, NoCanceller, OrderInv
  <2>3. /\ CancelledJob(canceller.copy) \in Jobs /\ Covers(Ran, CancelledJob(canceller.copy))
        /\ CancelledJob(canceller.copy).state \in Final
    BY <1>0, <2>2, CancelledJobTyped, CancelledParts DEF Covers
  <2>4. Good(Ran, disk')
    BY <1>0, <2>1, <2>3, MergeGood
  <2> QED
    BY <1>a, <2>1, <2>4 DEF OrderInv, GoodOwner, NoCanceller
<1>12. ASSUME NEW s \in Steps, NEW k \in Launches, WorkerExits(s, k) \/ WorkerLost(s, k) PROVE OrderInv'
  <2>1. PICK f : f # "none" /\ fate[s][k] = "alive" /\ fate' = [fate EXCEPT ![s][k] = f]
    BY <1>12 DEF WorkerExits, WorkerLost
  <2>2. Ran' = Ran
    BY <2>1, EndedRan
  <2>3. disk' = disk /\ owner' = owner /\ canceller' = canceller
    BY <1>12 DEF WorkerExits, WorkerLost
  <2> QED
    BY <1>0, <2>2, <2>3, Quiet
<1>13. ASSUME NEW s \in Steps, ReconcileExit(s) PROVE OrderInv'
  <2>1. /\ disk' = ReconciledFinal(s) /\ fate' = fate /\ owner' = owner /\ canceller' = canceller
        /\ disk.state \notin Final
    BY <1>13 DEF ReconcileExit, Reconcilable, Final
  <2>2. Good(Ran, disk') /\ \A r \in Steps : disk.steps[r].approved => disk'.steps[r].approved
    BY <2>1, ReconcileGood
  <2>3. GoodOwner(Ran, disk', owner)
    BY <1>0, <2>1, <2>2, ReapKeeps, OwnerGoodKept
  <2> QED
    BY <1>0, <1>a, <2>1, <2>2, <2>3, Quiet
<1>14. CASE Restart
  BY <1>0, <1>a, <1>14, RebootGood DEF Restart
<1>15. CASE RestartTorn \/ RestartReaping
  <2>1. "reconcile" \notin Events /\ fate' = fate
    BY <1>15, TornReboots
  <2>2. TornReconciles = {}
    BY <2>1 DEF TornReconciles, Reconcilable
  <2>3. PICK d \in TornAdvances \cup TornReaps \cup TornCancels : Reboot(d)
    BY <1>15, <2>2, TornReboots DEF Torn
  <2> QED
    BY <1>a, <2>1, <2>3, TornGood, RebootGood
<1>17. CASE RestartLaunching
  BY <1>17, OrphanGood
<1>16. CASE UNCHANGED vars
  BY <1>0, <1>16, <1>a, Quiet DEF vars
<1> QED
  BY <1>1, <1>2, <1>3, <1>4, <1>5, <1>6, <1>7, <1>8, <1>9, <1>10, <1>11, <1>12, <1>13, <1>14,
     <1>15, <1>16, <1>17
     DEF Next, OwnerStep, CallerStep, WorkerStep, Reconcile

\* A worker of a step is launched only with the step's approval on file and every
\* earlier step completed (_advance_job, _next_runnable_step): where no death falls
\* between the two puts of a reconciliation, for which there is no theorem.
THEOREM LaunchesInOrder ==
  ASSUME ~({"reconcile", "torn_write"} \subseteq Events)
  PROVE  Spec => []LaunchedInOrder
<1>1. OrderInv => LaunchedInOrder
  BY DEF OrderInv, Good, Covers, Before, Ran, LaunchedInOrder
<1>2. TypeOK /\ OrderInv /\ [Next]_vars => OrderInv'
  BY OrderKept
<1> QED
  BY <1>1, <1>2, OrderInit, TypeCorrect, PTL DEF Spec

-----------------------------------------------------------------------------
(* What the pieces of the runner do to the steps of a job.                  *)

LEMMA MergeSteps1 ==
  ASSUME NEW old, NEW new
  PROVE  /\ Merge(old, new).state = Sticky(old.state, new.state)
         /\ Merge(old, new).current = IF new.current # 0 THEN new.current ELSE old.current
         /\ \A r \in Steps : Merge(old, new).steps[r] =
                               IF old.steps[r].state \in Final THEN old.steps[r] ELSE new.steps[r]
BY DEF Merge, MergeSteps

LEMMA WithStepSteps ==
  ASSUME NEW job \in Jobs, NEW s \in Steps, NEW state \in States
  PROVE  /\ WithStep(job, s, state).state = job.state
         /\ WithStep(job, s, state).current = job.current
         /\ \A r \in Steps :
              /\ WithStep(job, s, state).steps[r].state = IF r = s THEN state ELSE job.steps[r].state
              /\ WithStep(job, s, state).steps[r].approved = job.steps[r].approved
              /\ r # s => WithStep(job, s, state).steps[r] = job.steps[r]
<1>1. /\ WithStep(job, s, state).state = job.state
      /\ WithStep(job, s, state).current = job.current
      /\ WithStep(job, s, state).steps = [job.steps EXCEPT ![s].state = state]
  BY DEF WithStep, Jobs
<1>2. job.steps \in [Steps -> StepRecord]
  BY JobParts
<1> QED
  BY <1>1, <1>2 DEF StepRecord

LEMMA InStepSteps ==
  ASSUME NEW job \in Jobs, NEW s \in Steps, NEW state \in States
  PROVE  /\ InStep(job, s, state).state = Sticky(job.state, state)
         /\ InStep(job, s, state).current = s
         /\ \A r \in Steps :
              /\ InStep(job, s, state).steps[r].state = IF r = s THEN state ELSE job.steps[r].state
              /\ InStep(job, s, state).steps[r].approved = job.steps[r].approved
              /\ r # s => InStep(job, s, state).steps[r] = job.steps[r]
<1>1. /\ InStep(job, s, state).state = Sticky(job.state, state)
      /\ InStep(job, s, state).current = s
      /\ InStep(job, s, state).steps = [job.steps EXCEPT ![s].state = state]
  BY DEF InStep, Jobs
<1>2. job.steps \in [Steps -> StepRecord]
  BY JobParts
<1> QED
  BY <1>1, <1>2 DEF StepRecord

\* A launch: a step, the number of the launch, and the copy with the new pid.
LEMMA LaunchParts ==
  ASSUME TypeOK, Launch
  PROVE  \E s \in Steps, k \in Launches, copy \in Jobs :
           /\ owner.pc = "starting" /\ ~owner.cancel /\ owner.step = s
           /\ k = Cardinality(Launched(s)) + 1
           /\ copy.state = owner.copy.state /\ copy.current = owner.copy.current
           /\ \A r \in Steps : /\ copy.steps[r].state = owner.copy.steps[r].state
                               /\ copy.steps[r].approved = owner.copy.steps[r].approved
                               /\ r # s => copy.steps[r] = owner.copy.steps[r]
           /\ copy.steps[s].pid = k
           /\ disk' = Merge(disk, copy)
           /\ owner' = [pc |-> "waiting", step |-> s, cancel |-> owner.cancel, copy |-> copy]
           /\ fate' = [fate EXCEPT ![s][k] = "alive"]
           /\ UNCHANGED <<exitFile, canceller, explicit, stopping, restarts>>
<1> PICK s : s = owner.step
  OBVIOUS
<1> PICK k : k = Cardinality(Launched(s)) + 1
  OBVIOUS
<1> DEFINE copy == [owner.copy EXCEPT !.steps[s].pid = k]
<1>1. /\ owner.pc = "starting" /\ ~owner.cancel /\ k \in Launches
      /\ disk' = Merge(disk, copy) /\ owner' = [owner EXCEPT !.pc = "waiting", !.copy = copy]
      /\ fate' = [fate EXCEPT ![s][k] = "alive"]
      /\ UNCHANGED <<exitFile, canceller, explicit, stopping, restarts>>
  BY DEF Launch
<1>2. s \in Steps /\ owner.copy \in Jobs /\ k \in 0 .. MaxLaunches
  BY <1>1, OwnerParts, Bounds DEF TypeOK
<1>3. copy \in Jobs
  BY <1>2, WithPidTyped
<1>4. /\ copy.state = owner.copy.state /\ copy.current = owner.copy.current
      /\ copy.steps = [owner.copy.steps EXCEPT ![s].pid = k]
  BY <1>2 DEF Jobs
<1>5. owner \in [pc : {"starting", "waiting"}, step : Steps, cancel : BOOLEAN, copy : Jobs]
  BY <1>1 DEF TypeOK, Owners, NoOwner
<1> HIDE DEF copy
<1>6. /\ \A r \in Steps : /\ copy.steps[r].state = owner.copy.steps[r].state
                          /\ copy.steps[r].approved = owner.copy.steps[r].approved
                          /\ r # s => copy.steps[r] = owner.copy.steps[r]
      /\ copy.steps[s].pid = k
  BY <1>2, <1>4, JobParts DEF StepRecord
<1>7. owner' = [pc |-> "waiting", step |-> s, cancel |-> owner.cancel, copy |-> copy]
  BY <1>1, <1>5
<1> QED
  BY <1>1, <1>2, <1>3, <1>4, <1>6, <1>7

\* _finalize_job by cases.
LEMMA FinalizeCases ==
  ASSUME NEW job \in Jobs
  PROVE  /\ Finalize(job).steps = job.steps /\ Finalize(job).current = job.current
         /\ job.state \in Final => Finalize(job).state = job.state
         /\ job.state \notin Final => Finalize(job).state =
              IF Some(job, "failed") THEN "failed" ELSE IF Some(job, "cancelled") THEN "cancelled"
              ELSE IF \A s \in Listed : job.steps[s].state = "completed" THEN "completed" ELSE job.state
<1> DEFINE state == IF job.state \in Final THEN job.state
                    ELSE IF Some(job, "failed") THEN "failed"
                    ELSE IF Some(job, "cancelled") THEN "cancelled"
                    ELSE IF \A s \in Listed : job.steps[s].state = "completed" THEN "completed"
                    ELSE job.state
<1>1. Finalize(job) = [job EXCEPT !.state = state]
  BY DEF Finalize
<1>2. Finalize(job).state = state /\ Finalize(job).steps = job.steps /\ Finalize(job).current = job.current
  <2> HIDE DEF state
  <2> QED
    BY <1>1 DEF Jobs
<1> QED
  BY <1>2

LEMMA CancelledSteps ==
  ASSUME NEW job \in Jobs
  PROVE  \A r \in Steps :
           /\ CancelledJob(job).steps[r].approved = job.steps[r].approved
           /\ \/ CancelledJob(job).steps[r] = job.steps[r]
              \/ job.steps[r].state = "running" /\ CancelledJob(job).steps[r].state = "cancelled"
<1> DEFINE c == job.current
           other == IF c # 0 /\ job.steps[c].state = "running" THEN WithStep(job, c, "cancelled") ELSE job
<1>1. c # 0 => c \in Steps
  BY JobParts, JobAssumption DEF Steps
<1>2. CancelledJob(job) = [other EXCEPT !.state = Sticky(other.state, "cancelled")]
  BY DEF CancelledJob
<1>3. "cancelled" \in States
  BY DEF States, Final
<1>4. other \in Jobs
  BY <1>1, <1>3, WithStepTyped
<1>5. CancelledJob(job).steps = other.steps
  <2> HIDE DEF other
  <2> QED
    BY <1>2, <1>4 DEF Jobs
<1>6. CASE ~(c # 0 /\ job.steps[c].state = "running")
  BY <1>5, <1>6
<1>7. CASE c # 0 /\ job.steps[c].state = "running"
  <2>1. CancelledJob(job).steps = WithStep(job, c, "cancelled").steps
    BY <1>5, <1>7
  <2> HIDE DEF c, other
  <2> QED
    BY <1>1, <1>3, <1>7, <2>1, WithStepSteps
<1> QED
  BY <1>6, <1>7

LEMMA CancelledState ==
  ASSUME NEW job \in Jobs
  PROVE  CancelledJob(job).state = Sticky(job.state, "cancelled") /\ CancelledJob(job).current = job.current
<1> DEFINE c == job.current
           other == IF c # 0 /\ job.steps[c].state = "running" THEN WithStep(job, c, "cancelled") ELSE job
<1>1. c # 0 => c \in Steps
  BY JobParts, JobAssumption DEF Steps
<1>2. "cancelled" \in States
  BY DEF States, Final
<1>3. other \in Jobs /\ other.state = job.state /\ other.current = job.current
  BY <1>1, <1>2, WithStepTyped, WithStepSteps
<1>4. CancelledJob(job) = [other EXCEPT !.state = Sticky(other.state, "cancelled")]
  BY DEF CancelledJob
<1> HIDE DEF other
<1> QED
  BY <1>3, <1>4 DEF Jobs

LEMMA ApprovedSteps ==
  ASSUME NEW job \in Jobs, NEW s \in Steps
  PROVE  \/ Approved(job, s) = job
         \/ /\ s \in Approvals /\ job.steps[s].state = "awaiting_approval"
            /\ Approved(job, s).state = Sticky(job.state, "running")
            /\ Approved(job, s).current = job.current
            /\ Approved(job, s).steps[s].approved /\ Approved(job, s).steps[s].state = "pending"
            /\ \A r \in Steps \ {s} : Approved(job, s).steps[r] = job.steps[r]
<1>1. CASE ~(s \in Approvals /\ job.steps[s].state = "awaiting_approval")
  BY <1>1 DEF Approved
<1>2. CASE s \in Approvals /\ job.steps[s].state = "awaiting_approval"
  <2> DEFINE pending == [job.steps EXCEPT ![s].state = "pending"]
  <2>1. /\ Approved(job, s).state = Sticky(job.state, "running")
        /\ Approved(job, s).current = job.current
        /\ Approved(job, s).steps = [pending EXCEPT ![s].approved = TRUE]
    BY <1>2 DEF Approved, Jobs
  <2>2. pending \in [Steps -> StepRecord] /\ pending[s].state = "pending"
        /\ \A r \in Steps \ {s} : pending[r] = job.steps[r]
    BY JobParts DEF StepRecord, States
  <2> HIDE DEF pending
  <2>3. /\ Approved(job, s).steps[s].approved /\ Approved(job, s).steps[s].state = "pending"
        /\ \A r \in Steps \ {s} : Approved(job, s).steps[r] = job.steps[r]
    BY <2>1, <2>2 DEF StepRecord
  <2> QED
    BY <1>2, <2>1, <2>3
<1> QED
  BY <1>1, <1>2

LEMMA ApprovedFresh ==
  ASSUME NEW job \in Jobs, NEW s \in Steps, s \in Approvals, job.steps[s].state = "awaiting_approval"
  PROVE  Approved(job, s) # job
<1> DEFINE pending == [job.steps EXCEPT ![s].state = "pending"]
<1>1. Approved(job, s).steps = [pending EXCEPT ![s].approved = TRUE]
  BY DEF Approved, Jobs
<1>2. pending \in [Steps -> StepRecord] /\ pending[s].state = "pending"
  BY JobParts DEF StepRecord, States
<1> HIDE DEF pending
<1>3. Approved(job, s).steps[s].state = "pending"
  BY <1>1, <1>2 DEF StepRecord
<1> QED
  BY <1>3

\* A turn of the loop: the job is over, it is finalized, it comes to await an
\* approval, or its next step starts.
LEMMA AdvanceCases ==
  ASSUME NEW job \in Jobs
  PROVE  \/ job.state \in Final /\ Advance(job).disk = job /\ Advance(job).owner = NoOwner
         \/ /\ job.state \notin Final /\ \A r \in Listed : job.steps[r].state \in Final
            /\ Advance(job).disk = Merge(job, Finalize(job)) /\ Advance(job).owner = NoOwner
         \/ /\ job.state \notin Final
            /\ \E s \in Steps :
                 /\ job.steps[s].state \notin Final
                 /\ \A r \in 1 .. s - 1 : r \in Steps /\ job.steps[r].state \in Final
                 /\ \/ /\ NeedsApproval(job, s) /\ Advance(job).owner = NoOwner
                       /\ Advance(job).disk = Merge(job, InStep(job, s, "awaiting_approval"))
                    \/ /\ ~NeedsApproval(job, s)
                       /\ Advance(job).disk = Merge(job, InStep(job, s, "running"))
                       /\ Advance(job).owner = [pc |-> "starting", step |-> s, cancel |-> FALSE,
                                                copy |-> InStep(job, s, "running")]
<1>1. CASE job.state \in Final
  BY <1>1 DEF Advance
<1>2. CASE job.state \notin Final /\ Runnable(job) = {}
  BY <1>2 DEF Advance, Runnable
<1>3. CASE job.state \notin Final /\ Runnable(job) # {}
  <2>1. PICK s \in Steps : s = NextStep(job)
    BY <1>3, NextStepIsFirst DEF Runnable
  <2>2. job.steps[s].state \notin Final /\ \A r \in Runnable(job) : s <= r
    BY <1>3, <2>1, NextStepIsFirst DEF Runnable
  <2>3. ASSUME NEW r \in 1 .. s - 1 PROVE r \in Steps /\ job.steps[r].state \in Final
    <3>1. r \in Steps /\ r < s /\ s \in Nat /\ r \in Nat
      BY Earlier, Bounds
    <3>2. r \notin Runnable(job)
      BY <2>2, <3>1
    <3> QED
      BY <1>3, <3>1, <3>2 DEF Runnable, Listed
  <2>4. \/ /\ NeedsApproval(job, s) /\ Advance(job).owner = NoOwner
           /\ Advance(job).disk = Merge(job, InStep(job, s, "awaiting_approval"))
        \/ /\ ~NeedsApproval(job, s)
           /\ Advance(job).disk = Merge(job, InStep(job, s, "running"))
           /\ Advance(job).owner = [pc |-> "starting", step |-> s, cancel |-> FALSE,
                                    copy |-> InStep(job, s, "running")]
    BY <1>3, <2>1 DEF Advance
  <2> QED
    BY <1>3, <2>2, <2>3, <2>4
<1> QED
  BY <1>1, <1>2, <1>3

-----------------------------------------------------------------------------
(* What is on file about a step has a worker that did it.  The fate of a    *)
(* worker that is gone stays, since every launch is a new one.              *)

Attests(f, s, state) ==
  /\ state = "completed" => \E k \in Launches : f[s][k] = "zero"
  /\ state = "failed" => \E k \in Launches : f[s][k] \in {"nonzero", "lost"}

Sound(f, job) == \A s \in Steps : Attests(f, s, job.steps[s].state)

Segment(f, s, n) == \A k \in Launches : f[s][k] # "none" <=> k <= n

EvidenceInv ==
  /\ \A s \in Steps : \E n \in 0 .. MaxLaunches : Segment(fate, s, n)
  /\ Sound(fate, disk) /\ Sound(fate, owner.copy) /\ Sound(fate, canceller.copy)
  /\ \A s \in Steps : exitFile[s] # "none" => Attests(fate, s, Outcome(exitFile[s]))
  /\ owner.pc = "waiting" => owner.copy.steps[owner.step].pid \in Launched(owner.step)

Gone == {"zero", "nonzero", "lost"}
Later(f, g) == \A s \in Steps, k \in Launches : f[s][k] \in Gone => g[s][k] = f[s][k]

LEMMA AttestsLater ==
  ASSUME NEW f, NEW g, Later(f, g)
  PROVE  /\ \A s \in Steps : \A state : Attests(f, s, state) => Attests(g, s, state)
         /\ \A job : Sound(f, job) => Sound(g, job)
BY DEF Later, Attests, Sound, Gone

LEMMA Unattested ==
  \A f, s, state : state \notin {"completed", "failed"} => Attests(f, s, state)
BY DEF Attests

LEMMA FreshSound == \A f : Sound(f, Fresh)
BY DEF Sound, Attests, Fresh

LEMMA MergeSound ==
  ASSUME NEW f, NEW old, NEW new, Sound(f, old), Sound(f, new)
  PROVE  Sound(f, Merge(old, new))
BY MergeSteps1 DEF Sound

LEMMA HalfSound ==
  ASSUME NEW f, NEW old, NEW new \in Jobs, Sound(f, old)
  PROVE  Sound(f, Half(old, new))
<1>1. Half(old, new).steps = old.steps
  BY DEF Half, Jobs
<1> QED
  BY <1>1 DEF Sound

LEMMA WithStepSound ==
  ASSUME NEW f, NEW job \in Jobs, NEW s \in Steps, NEW state \in States, Sound(f, job),
         Attests(f, s, state)
  PROVE  Sound(f, WithStep(job, s, state))
BY WithStepSteps DEF Sound

LEMMA InStepSound ==
  ASSUME NEW f, NEW job \in Jobs, NEW s \in Steps, NEW state \in States \ Final, Sound(f, job)
  PROVE  Sound(f, InStep(job, s, state))
<1>1. Attests(f, s, state)
  BY Unattested DEF Final
<1> QED
  BY <1>1, InStepSteps DEF Sound

LEMMA FinalizeSound ==
  ASSUME NEW f, NEW job \in Jobs, Sound(f, job)
  PROVE  Sound(f, Finalize(job))
BY FinalizeCases DEF Sound

LEMMA CancelledSound ==
  ASSUME NEW f, NEW job \in Jobs, Sound(f, job)
  PROVE  Sound(f, CancelledJob(job))
BY CancelledSteps, Unattested DEF Sound

LEMMA ApprovedSound ==
  ASSUME NEW f, NEW job \in Jobs, NEW s \in Steps, Sound(f, job)
  PROVE  Sound(f, Approved(job, s))
BY ApprovedSteps, Unattested DEF Sound

LEMMA NoOwnerSound == \A f : Sound(f, NoOwner.copy) /\ Sound(f, Ready.copy) /\ Sound(f, NoCanceller.copy)
BY FreshSound DEF NoOwner, Ready, NoCanceller

LEMMA AdvanceSound ==
  ASSUME NEW f, NEW job \in Jobs, Sound(f, job)
  PROVE  /\ Sound(f, Advance(job).disk) /\ Sound(f, Advance(job).owner.copy)
         /\ Advance(job).owner.pc # "waiting"
<1>0. NoOwner.pc # "waiting" /\ Sound(f, NoOwner.copy)
  BY NoOwnerSound DEF NoOwner
<1>1. {"running", "awaiting_approval"} \subseteq States \ Final
  BY DEF States, Final
<1>2. CASE Advance(job).disk = job /\ Advance(job).owner = NoOwner
  BY <1>0, <1>2
<1>3. CASE Advance(job).disk = Merge(job, Finalize(job)) /\ Advance(job).owner = NoOwner
  BY <1>0, <1>3, FinalizeSound, MergeSound
<1>4. ASSUME NEW s \in Steps, Advance(job).disk = Merge(job, InStep(job, s, "awaiting_approval")),
             Advance(job).owner = NoOwner
      PROVE  Sound(f, Advance(job).disk) /\ Sound(f, Advance(job).owner.copy)
             /\ Advance(job).owner.pc # "waiting"
  BY <1>0, <1>1, <1>4, InStepSound, MergeSound
<1>5. ASSUME NEW s \in Steps, Advance(job).disk = Merge(job, InStep(job, s, "running")),
             Advance(job).owner = [pc |-> "starting", step |-> s, cancel |-> FALSE,
                                   copy |-> InStep(job, s, "running")]
      PROVE  Sound(f, Advance(job).disk) /\ Sound(f, Advance(job).owner.copy)
             /\ Advance(job).owner.pc # "waiting"
  BY <1>1, <1>5, InStepSound, MergeSound
<1> QED
  BY <1>2, <1>3, <1>4, <1>5, AdvanceCases

LEMMA ReapSound ==
  ASSUME TypeOK, EvidenceInv, Reapable
  PROVE  /\ owner.step \in Steps /\ Attests(fate, owner.step, Outcome(Rc))
         /\ Sound(fate, ReapedPut) /\ Sound(fate, ReapedFinal)
<1> DEFINE s == owner.step
           k == owner.copy.steps[s].pid
           done == WithStep(owner.copy, s, Outcome(Rc))
<1>1. /\ s \in Steps /\ owner.copy \in Jobs /\ disk \in Jobs /\ ReapedCopy \in Jobs
      /\ owner.pc = "waiting" /\ fate[s][k] # "alive"
  BY ReapedTyped, OwnerParts DEF TypeOK, Reapable
<1>2. k \in Launches /\ fate[s][k] \in {"zero", "nonzero", "lost"}
  <2>1. k \in Launches /\ fate[s][k] # "none"
    BY <1>1 DEF EvidenceInv, Launched
  <2>2. fate[s][k] \in Fates
    BY <1>1, <2>1 DEF TypeOK
  <2> QED
    BY <1>1, <2>1, <2>2 DEF Fates, Exits
<1>3. Attests(fate, s, Outcome(Rc))
  BY <1>2 DEF Attests, Outcome, Rc
<1>4. Outcome(Rc) \in States
  BY DEF Outcome, States, Final
<1> HIDE DEF s, k
<1>5. done \in Jobs /\ Sound(fate, done)
  BY <1>1, <1>3, <1>4, WithStepTyped, WithStepSound DEF EvidenceInv
<1>6. ReapedCopy.steps = done.steps
  <2>1. ReapedCopy = IF Rc = "zero" THEN done ELSE [done EXCEPT !.state = Sticky(done.state, "failed")]
    BY DEF ReapedCopy, s
  <2> HIDE DEF done
  <2> QED
    BY <1>5, <2>1 DEF Jobs
<1>7. Sound(fate, ReapedCopy)
  BY <1>5, <1>6 DEF Sound
<1>8. Sound(fate, ReapedPut)
  BY <1>7, MergeSound DEF ReapedPut, EvidenceInv
<1>9. Sound(fate, ReapedFinal)
  BY <1>1, <1>7, <1>8, FinalizeSound, MergeSound DEF ReapedFinal
<1> QED
  BY <1>1, <1>3, <1>8, <1>9 DEF s

LEMMA ReconcileSound ==
  ASSUME TypeOK, EvidenceInv, NEW s \in Steps, exitFile[s] # "none"
  PROVE  Sound(fate, ReconciledPut(s)) /\ Sound(fate, ReconciledFinal(s))
<1>1. Outcome(exitFile[s]) \in States /\ disk \in Jobs
  BY DEF TypeOK, Outcome, States, Final
<1>2. ReconciledCopy(s) \in Jobs /\ Sound(fate, ReconciledCopy(s))
  BY <1>1, WithStepTyped, WithStepSound DEF ReconciledCopy, EvidenceInv
<1>3. Sound(fate, ReconciledPut(s))
  BY <1>2, MergeSound DEF ReconciledPut, EvidenceInv
<1> QED
  BY <1>2, <1>3, FinalizeSound, MergeSound DEF ReconciledFinal

LEMMA TornSound ==
  ASSUME TypeOK, EvidenceInv,
         NEW d \in Torn
  PROVE  Sound(fate, d)
<1> disk \in Jobs /\ Sound(fate, disk)
  BY DEF TypeOK, EvidenceInv
<1>1. CASE d \in TornAdvances
  BY <1>1, AdvanceTyped, HalfSound DEF TornAdvances
<1>2. CASE d \in TornReaps
  <2>1. Reapable /\ d \in {disk, Half(disk, ReapedPut), ReapedPut, Half(ReapedFinal, Advance(ReapedFinal).disk)}
    BY <1>2 DEF TornReaps
  <2>2. ReapedPut \in Jobs /\ Advance(ReapedFinal).disk \in Jobs
    BY <2>1, ReapedTyped, AdvanceTyped
  <2> QED
    BY <2>1, <2>2, ReapSound, HalfSound
<1>3. CASE d \in TornCancels
  <2>1. canceller.pc = "returning" /\ d = Half(disk, Merge(disk, CancelledJob(canceller.copy)))
    BY <1>3 DEF TornCancels
  <2>2. canceller.copy \in Jobs
    BY <2>1 DEF TypeOK, NoCanceller
  <2> QED
    BY <2>1, <2>2, CancelledJobTyped, MergeTyped, HalfSound
<1>4. CASE d \in TornReconciles
  <2>1. PICK s \in Steps : exitFile[s] # "none"
                           /\ d \in {ReconciledPut(s), Half(ReconciledPut(s), ReconciledFinal(s))}
    BY <1>4 DEF TornReconciles, Reconcilable, Evident
  <2> QED
    BY <2>1, ReconciledTyped, ReconcileSound, HalfSound
<1> QED
  BY <1>1, <1>2, <1>3, <1>4 DEF Torn

\* An action that leaves the workers and the exit codes alone.
LEMMA EvidenceQuiet ==
  ASSUME EvidenceInv, fate' = fate, exitFile' = exitFile,
         Sound(fate, disk'), Sound(fate, owner'.copy), Sound(fate, canceller'.copy),
         owner'.pc = "waiting" =>
           owner.pc = "waiting" /\ owner'.copy = owner.copy /\ owner'.step = owner.step
  PROVE  EvidenceInv'
BY DEF EvidenceInv, Launched

\* The end of a worker.
LEMMA FateMoves ==
  ASSUME TypeOK, EvidenceInv, NEW s, NEW k, NEW f \in Gone, fate[s][k] = "alive",
         fate' = [fate EXCEPT ![s][k] = f]
  PROVE  /\ Later(fate, fate')
         /\ \A r \in Steps : Launched(r)' = Launched(r)
         /\ \A r \in Steps : \E n \in 0 .. MaxLaunches : Segment(fate', r, n)
<1>1. \A r \in Steps, l \in Launches : /\ fate'[r][l] # fate[r][l] => fate[r][l] = "alive"
                                       /\ fate'[r][l] # "none" <=> fate[r][l] # "none"
  BY DEF TypeOK, Gone
<1>2. Later(fate, fate')
  BY <1>1 DEF Later, Gone
<1>3. \A r \in Steps : Launched(r)' = Launched(r)
  BY <1>1 DEF Launched
<1>4. ASSUME NEW r \in Steps PROVE \E n \in 0 .. MaxLaunches : Segment(fate', r, n)
  <2>1. PICK n \in 0 .. MaxLaunches : Segment(fate, r, n)
    BY DEF EvidenceInv
  <2> QED
    BY <1>1, <2>1 DEF Segment
<1> QED
  BY <1>2, <1>3, <1>4

\* The launches of a step are numbered as they come.
LEMMA LaunchIsNew ==
  ASSUME EvidenceInv, NEW s \in Steps, Cardinality(Launched(s)) + 1 \in Launches
  PROVE  LET k == Cardinality(Launched(s)) + 1 IN fate[s][k] = "none" /\ Segment(fate, s, k - 1)
<1>1. PICK n \in 0 .. MaxLaunches : Segment(fate, s, n)
  BY DEF EvidenceInv
<1>2. Launched(s) = 1 .. n
  BY <1>1, JobAssumption DEF Segment, Launched, Launches
<1>3. Cardinality(1 .. n) = n
  <2>1. 1 \in Int /\ n \in Int /\ 1 <= n + 1
    BY <1>1, JobAssumption
  <2>2. Cardinality(1 .. n) = IF 1 > n THEN 0 ELSE n - 1 + 1
    BY <2>1, FS_Interval
  <2> QED
    BY <1>1, <2>2, JobAssumption
<1>4. n + 1 \in Launches
  BY <1>2, <1>3
<1>5. ~(n + 1 <= n)
  BY <1>1, JobAssumption
<1>6. fate[s][n + 1] = "none"
  BY <1>1, <1>4, <1>5 DEF Segment
<1>7. Cardinality(Launched(s)) = n /\ n + 1 - 1 = n
  BY <1>1, <1>2, <1>3, JobAssumption
<1> QED
  BY <1>1, <1>6, <1>7

\* The next launch of a step keeps what became of the earlier ones.
LEMMA LaunchFits ==
  ASSUME TypeOK, EvidenceInv, NEW s \in Steps, NEW k \in Launches,
         k = Cardinality(Launched(s)) + 1, fate' = [fate EXCEPT ![s][k] = "alive"]
  PROVE  Later(fate, fate') /\ \A r \in Steps : \E n \in 0 .. MaxLaunches : Segment(fate', r, n)
<1>2. fate[s][k] = "none" /\ Segment(fate, s, k - 1)
  BY LaunchIsNew
<1>3. \A r \in Steps, l \in Launches : fate'[r][l] = IF r = s /\ l = k THEN "alive" ELSE fate[r][l]
  BY DEF TypeOK
<1>4. Later(fate, fate')
  BY <1>2, <1>3 DEF Later, Gone
<1>5. \A r \in Steps : \E n \in 0 .. MaxLaunches : Segment(fate', r, n)
  <2> SUFFICES ASSUME NEW r \in Steps
               PROVE  \E n \in 0 .. MaxLaunches : Segment(fate', r, n)
    OBVIOUS
  <2>1. CASE r = s
    <3>1. k \in 0 .. MaxLaunches
      BY Bounds
    <3>2. Segment(fate', s, k)
      BY <1>2, <1>3, JobAssumption DEF Segment, Launches
    <3> QED
      BY <2>1, <3>1, <3>2
  <2>2. CASE r # s
    BY <1>3, <2>2 DEF EvidenceInv, Segment
  <2> QED
    BY <2>1, <2>2
<1> QED
  BY <1>4, <1>5

LEMMA LaunchSound ==
  ASSUME TypeOK, EvidenceInv, Launch
  PROVE  EvidenceInv'
<1>1. PICK s \in Steps, k \in Launches, copy \in Jobs :
           /\ k = Cardinality(Launched(s)) + 1
           /\ \A r \in Steps : copy.steps[r].state = owner.copy.steps[r].state
           /\ copy.steps[s].pid = k
           /\ disk' = Merge(disk, copy)
           /\ owner' = [pc |-> "waiting", step |-> s, cancel |-> owner.cancel, copy |-> copy]
           /\ fate' = [fate EXCEPT ![s][k] = "alive"]
           /\ exitFile' = exitFile /\ canceller' = canceller
  BY LaunchParts
<1>3. \A r \in Steps, l \in Launches : fate'[r][l] = IF r = s /\ l = k THEN "alive" ELSE fate[r][l]
  BY <1>1 DEF TypeOK
<1>4. Later(fate, fate') /\ \A r \in Steps : \E n \in 0 .. MaxLaunches : Segment(fate', r, n)
  BY <1>1, LaunchFits
<1>6. Sound(fate', disk) /\ Sound(fate', owner.copy) /\ Sound(fate', canceller.copy)
  BY <1>4, AttestsLater DEF EvidenceInv
<1>7. Sound(fate', copy)
  BY <1>1, <1>6 DEF Sound
<1>8. Sound(fate', disk')
  BY <1>1, <1>6, <1>7, MergeSound
<1>9. \A r \in Steps : exitFile'[r] # "none" => Attests(fate', r, Outcome(exitFile'[r]))
  BY <1>1, <1>4, AttestsLater DEF EvidenceInv
<1>10. owner'.copy.steps[owner'.step].pid \in {l \in Launches : fate'[owner'.step][l] # "none"}
  BY <1>1, <1>3
<1> QED
  BY <1>1, <1>4, <1>6, <1>7, <1>8, <1>9, <1>10 DEF EvidenceInv, Launched

\* What a death leaves of a launch: the files say what they said before.
LEMMA OrphanSound ==
  ASSUME TypeOK, EvidenceInv, RestartLaunching
  PROVE  EvidenceInv'
<1>1. PICK s \in Steps, k \in Launches :
           /\ k = Cardinality(Launched(s)) + 1 /\ fate' = [fate EXCEPT ![s][k] = "alive"]
           /\ Reboot(disk) /\ exitFile' = exitFile
  BY OwnerParts DEF RestartLaunching, TypeOK
<1>2. Later(fate, fate') /\ \A r \in Steps : \E n \in 0 .. MaxLaunches : Segment(fate', r, n)
  BY <1>1, LaunchFits
<1>3. /\ disk' = disk /\ owner' = NoOwner /\ canceller' = NoCanceller /\ NoOwner.pc # "waiting"
      /\ Sound(fate', NoOwner.copy) /\ Sound(fate', NoCanceller.copy)
  BY <1>1, NoOwnerSound DEF Reboot, NoOwner
<1>4. Sound(fate', disk) /\ \A r \in Steps : exitFile[r] # "none" => Attests(fate', r, Outcome(exitFile[r]))
  BY <1>2, AttestsLater DEF EvidenceInv
<1> QED
  BY <1>1, <1>2, <1>3, <1>4 DEF EvidenceInv

LEMMA EvidenceInit == Init => EvidenceInv
<1> SUFFICES ASSUME Init
             PROVE  EvidenceInv
  OBVIOUS
<1>1. \A s \in Steps : Segment(fate, s, 0)
  BY JobAssumption DEF Init, Segment, Launches
<1>2. Sound(fate, disk) /\ Sound(fate, owner.copy) /\ Sound(fate, canceller.copy)
  BY FreshSound, NoOwnerSound DEF Init
<1>3. owner.pc # "waiting" /\ \A s \in Steps : exitFile[s] = "none"
  BY DEF Init, NoOwner
<1> QED
  BY <1>1, <1>2, <1>3, Bounds DEF EvidenceInv

LEMMA EvidenceStep == TypeOK /\ EvidenceInv /\ [Next]_vars => EvidenceInv'
<1> SUFFICES ASSUME TypeOK, EvidenceInv, [Next]_vars
             PROVE  EvidenceInv'
  OBVIOUS
<1>0. /\ disk \in Jobs /\ owner \in Owners /\ canceller.copy \in Jobs
      /\ Sound(fate, disk) /\ Sound(fate, owner.copy) /\ Sound(fate, canceller.copy)
      /\ Ready.pc # "waiting" /\ NoOwner.pc # "waiting"
      /\ Sound(fate, NoOwner.copy) /\ Sound(fate, Ready.copy) /\ Sound(fate, NoCanceller.copy)
  BY NoOwnerSound, FreshTyped DEF TypeOK, EvidenceInv, NoCanceller, NoOwner, Ready
<1>a. ASSUME NEW s, NEW k, NEW f \in Gone, fate[s][k] = "alive", fate' = [fate EXCEPT ![s][k] = f],
             disk' = disk, exitFile' = exitFile \/ \E rc \in {"zero", "nonzero"} :
                             f = rc /\ s \in Steps /\ k \in Launches /\ exitFile' = [exitFile EXCEPT ![s] = rc],
             owner' = owner \/ owner' = NoOwner, canceller'.copy = canceller.copy
      PROVE  EvidenceInv'
  <2>1. Later(fate, fate') /\ (\A r \in Steps : Launched(r)' = Launched(r))
        /\ \A r \in Steps : \E n \in 0 .. MaxLaunches : Segment(fate', r, n)
    BY <1>a, FateMoves
  <2>2. Sound(fate', disk') /\ Sound(fate', owner'.copy) /\ Sound(fate', canceller'.copy)
    BY <1>0, <1>a, <2>1, AttestsLater
  <2>3. \A r \in Steps : exitFile'[r] # "none" => Attests(fate', r, Outcome(exitFile'[r]))
    <3>1. CASE exitFile' = exitFile
      BY <2>1, <3>1, AttestsLater DEF EvidenceInv
    <3>2. ASSUME NEW rc \in {"zero", "nonzero"}, f = rc, s \in Steps, k \in Launches,
                 exitFile' = [exitFile EXCEPT ![s] = rc]
          PROVE  \A r \in Steps : exitFile'[r] # "none" => Attests(fate', r, Outcome(exitFile'[r]))
      <4>1. fate'[s][k] = rc
        BY <1>a, <3>2 DEF TypeOK
      <4>2. Attests(fate', s, Outcome(rc))
        BY <3>2, <4>1 DEF Attests, Outcome
      <4>3. \A r \in Steps : exitFile'[r] = IF r = s THEN rc ELSE exitFile[r]
        BY <3>2 DEF TypeOK
      <4> QED
        BY <2>1, <4>2, <4>3, AttestsLater DEF EvidenceInv
    <3> QED
      BY <1>a, <3>1, <3>2
  <2>4. owner'.pc = "waiting" =>
          owner'.copy.steps[owner'.step].pid \in {l \in Launches : fate'[owner'.step][l] # "none"}
    <3>1. CASE owner' = NoOwner
      BY <1>0, <3>1
    <3>2. CASE owner' = owner /\ owner.pc = "waiting"
      <4>1. owner.step \in Steps /\ owner.copy.steps[owner.step].pid \in Launched(owner.step)
        BY <3>2, OwnerParts DEF TypeOK, EvidenceInv
      <4>2. \A r \in Steps : {l \in Launches : fate'[r][l] # "none"} = {l \in Launches : fate[r][l] # "none"}
        BY <2>1 DEF Launched
      <4> QED
        BY <3>2, <4>1, <4>2 DEF Launched
    <3> QED
      BY <1>a, <3>1, <3>2
  <2> QED
    BY <2>1, <2>2, <2>3, <2>4 DEF EvidenceInv, Launched
<1>1. CASE OwnerCancelled
  <2>1. /\ disk' = disk /\ exitFile' = exitFile /\ owner' = NoOwner
        /\ canceller'.copy = canceller.copy
    BY <1>1 DEF OwnerCancelled, TypeOK, NoCanceller
  <2>2. CASE fate' = fate
    BY <1>0, <2>1, <2>2, EvidenceQuiet
  <2>3. CASE fate' # fate
    <3>1. PICK s, k : fate[s][k] = "alive" /\ fate' = [fate EXCEPT ![s][k] = "lost"]
      BY <1>1, <2>3 DEF OwnerCancelled
    <3> QED
      BY <1>a, <2>1, <3>1 DEF Gone
  <2> QED
    BY <2>2, <2>3
<1>2. CASE OwnerAdvances
  BY <1>0, <1>2, AdvanceSound, EvidenceQuiet DEF OwnerAdvances
<1>3. CASE Launch
  BY <1>3, LaunchSound
<1>4. CASE LaunchFails
  BY <1>0, <1>4, EvidenceQuiet DEF LaunchFails
<1>5. CASE Reap
  <2>1. /\ owner.step \in Steps /\ Attests(fate, owner.step, Outcome(Rc)) /\ ReapedFinal \in Jobs
        /\ Sound(fate, ReapedFinal)
    BY <1>5, ReapSound, ReapedTyped DEF Reap
  <2>2. /\ exitFile' = [exitFile EXCEPT ![owner.step] = Rc] /\ fate' = fate /\ canceller' = canceller
        /\ \/ disk' = Advance(ReapedFinal).disk /\ owner' = Advance(ReapedFinal).owner
           \/ disk' = ReapedFinal /\ owner' = NoOwner
    BY <1>5 DEF Reap
  <2>3. Sound(fate, disk') /\ Sound(fate, owner'.copy) /\ owner'.pc # "waiting"
    BY <1>0, <2>1, <2>2, AdvanceSound
  <2>4. \A r \in Steps : exitFile'[r] # "none" => Attests(fate, r, Outcome(exitFile'[r]))
    BY <2>1, <2>2 DEF EvidenceInv, TypeOK
  <2> QED
    BY <1>0, <2>2, <2>3, <2>4 DEF EvidenceInv
<1>6. CASE Start \/ ReconcilePending
  BY <1>0, <1>6, EvidenceQuiet DEF Start, ReconcilePending
<1>7. ASSUME NEW s \in Steps, ApproveAndStart(s) PROVE EvidenceInv'
  <2>1. Sound(fate, Merge(disk, Approved(disk, s)))
    BY <1>0, ApprovedSound, MergeSound
  <2> QED
    BY <1>0, <1>7, <2>1, EvidenceQuiet DEF ApproveAndStart
<1>8. CASE CancelUnowned
  BY <1>0, <1>8, CancelledSound, MergeSound, EvidenceQuiet DEF CancelUnowned
<1>9. CASE CancelOwned
  <2>1. /\ owner'.copy = owner.copy /\ owner'.step = owner.step /\ owner'.pc = owner.pc
        /\ canceller'.copy = disk
    BY <1>9 DEF CancelOwned, TypeOK, Owners, NoOwner
  <2> QED
    BY <1>0, <1>9, <2>1, EvidenceQuiet DEF CancelOwned
<1>10. CASE Shutdown
  <2>1. owner'.copy = owner.copy /\ owner'.step = owner.step /\ owner'.pc = owner.pc
    BY <1>10 DEF Shutdown, TypeOK, Owners, NoOwner
  <2> QED
    BY <1>0, <1>10, <2>1, EvidenceQuiet DEF Shutdown
<1>11. CASE CancelReturns
  BY <1>0, <1>11, CancelledSound, MergeSound, EvidenceQuiet DEF CancelReturns
<1>12. ASSUME NEW s \in Steps, NEW k \in Launches, WorkerExits(s, k) \/ WorkerLost(s, k) PROVE EvidenceInv'
  <2>1. PICK f \in Gone : /\ fate[s][k] = "alive" /\ fate' = [fate EXCEPT ![s][k] = f]
                          /\ \/ exitFile' = exitFile
                             \/ \E rc \in {"zero", "nonzero"} : f = rc /\ exitFile' = [exitFile EXCEPT ![s] = rc]
    BY <1>12 DEF WorkerExits, WorkerLost, Gone
  <2>2. disk' = disk /\ owner' = owner /\ canceller' = canceller
    BY <1>12 DEF WorkerExits, WorkerLost
  <2> QED
    BY <1>a, <2>1, <2>2
<1>13. ASSUME NEW s \in Steps, ReconcileExit(s) PROVE EvidenceInv'
  <2>1. exitFile[s] # "none"
    BY <1>13 DEF ReconcileExit, Reconcilable, Evident
  <2> QED
    BY <1>0, <1>13, <2>1, ReconcileSound, EvidenceQuiet DEF ReconcileExit
<1>14. CASE Restart
  BY <1>0, <1>14, EvidenceQuiet DEF Restart, Reboot
<1>15. CASE RestartTorn \/ RestartReaping
  <2>1. /\ fate' = fate /\ owner' = NoOwner /\ canceller' = NoCanceller /\ Sound(fate, disk')
    BY <1>15, TornReboots, TornSound DEF Reboot
  <2>2. \A r \in Steps : exitFile'[r] # "none" => Attests(fate, r, Outcome(exitFile'[r]))
    <3>1. CASE exitFile' = exitFile
      BY <3>1 DEF EvidenceInv
    <3>2. CASE Reapable /\ exitFile' = [exitFile EXCEPT ![owner.step] = Rc]
      BY <3>2, ReapSound DEF EvidenceInv, TypeOK
    <3>3. CASE exitFile' = [exitFile EXCEPT ![owner.step] = "none"]
      BY <3>3 DEF EvidenceInv, TypeOK
    <3> QED
      BY <1>15, <3>1, <3>2, <3>3, TornReboots
  <2> QED
    BY <1>0, <2>1, <2>2 DEF EvidenceInv
<1>17. CASE RestartLaunching
  BY <1>17, OrphanSound
<1>16. CASE UNCHANGED vars
  BY <1>0, <1>16, EvidenceQuiet DEF vars
<1> QED
  BY <1>1, <1>2, <1>3, <1>4, <1>5, <1>6, <1>7, <1>8, <1>9, <1>10, <1>11, <1>12, <1>13, <1>14,
     <1>15, <1>16, <1>17
     DEF Next, OwnerStep, CallerStep, WorkerStep, Reconcile

\* Whatever crashes, is torn, reconciled or launched again: a step on file as
\* completed has a worker that exited with zero, and one on file as failed has a
\* worker that did not (exit_code.txt, _execute_step, reconcile_job).
THEOREM ExitsAreMatched == Spec => []StepsMatchExits
<1>1. EvidenceInv => StepsMatchExits
  BY DEF EvidenceInv, Sound, Attests, StepsMatchExits
<1> QED
  BY <1>1, EvidenceInit, EvidenceStep, TypeCorrect, PTL DEF Spec

-----------------------------------------------------------------------------
(* The life of one process: the only worker is the one its coroutine waits  *)
(* for, and an explicit cancel that ends the coroutine ends the worker.     *)

Working(o) == o.pc \in {"starting", "waiting"}

FirstLife ==
  restarts = 0 =>
    /\ OrderInv
    /\ \A s \in Steps, k \in Launches :
         fate[s][k] = "alive" => owner.pc = "waiting" /\ owner.step = s /\ owner.copy.steps[s].pid = k
    /\ owner.pc = "waiting" /\ owner.cancel => explicit
    /\ Working(owner) => disk.state # "cancelled"

\* A writer cancels a job only by saying so.
LEMMA StickyNames ==
  \A a, b : Sticky(a, b) \in {a, b} /\ (a \in Final => Sticky(a, b) = a)
BY DEF Sticky

LEMMA AdvanceState ==
  ASSUME NEW job \in Jobs
  PROVE  /\ Advance(job).owner.pc \in {"none", "starting"}
         /\ Working(Advance(job).owner) => Advance(job).disk.state \notin Final
<1>1. NoOwner.pc = "none"
  BY DEF NoOwner
<1>2. CASE Advance(job).owner = NoOwner
  BY <1>1, <1>2 DEF Working
<1>3. ASSUME NEW s \in Steps, job.state \notin Final,
             Advance(job).disk = Merge(job, InStep(job, s, "running")),
             Advance(job).owner = [pc |-> "starting", step |-> s, cancel |-> FALSE,
                                   copy |-> InStep(job, s, "running")]
      PROVE  Advance(job).owner.pc = "starting" /\ Advance(job).disk.state \notin Final
  <2>1. Advance(job).disk.state = Sticky(job.state, Sticky(job.state, "running"))
    BY <1>3, MergeSteps1, InStepSteps DEF States
  <2> QED
    BY <1>3, <2>1, StickyNames DEF Final
<1> QED
  BY <1>2, <1>3, AdvanceCases

LEMMA FirstLifeInit == Init => FirstLife
<1> SUFFICES ASSUME Init
             PROVE  FirstLife
  OBVIOUS
<1>1. OrderInv
  BY OrderInit
<1>2. owner.pc = "none" /\ \A s \in Steps, k \in Launches : fate[s][k] = "none"
  BY DEF Init, NoOwner
<1> QED
  BY <1>1, <1>2 DEF FirstLife, Working

\* An action that starts and ends no worker.
LEMMA FirstLifeQuiet ==
  ASSUME FirstLife, restarts = 0, OrderInv', fate' = fate,
         \/ /\ owner'.pc = owner.pc /\ owner'.step = owner.step /\ owner'.copy = owner.copy
            /\ owner'.cancel = owner.cancel \/ explicit'
            /\ owner.pc = "waiting" /\ explicit => explicit'
            /\ Working(owner) => disk'.state # "cancelled"
         \/ /\ owner.pc = "waiting" => fate[owner.step][owner.copy.steps[owner.step].pid] # "alive"
            /\ owner'.pc # "waiting" /\ (Working(owner') => disk'.state # "cancelled")
  PROVE  FirstLife'
BY DEF FirstLife, Working

LEMMA FirstLifeStep == TypeOK /\ FirstLife /\ [Next]_vars => FirstLife'
<1> SUFFICES ASSUME TypeOK, FirstLife, [Next]_vars, restarts' = 0
             PROVE  FirstLife'
  BY DEF FirstLife
<1>a. restarts = 0 /\ ~Restart /\ ~RestartTorn /\ ~RestartReaping /\ ~RestartLaunching
  <2>1. restarts \in Nat
    BY JobAssumption DEF TypeOK
  <2>2. ASSUME NEW d, Reboot(d) PROVE FALSE
    BY <2>1, <2>2 DEF Reboot
  <2>3. ~Restart /\ ~RestartTorn /\ ~RestartReaping /\ ~RestartLaunching
    BY <2>2 DEF Restart, RestartTorn, RestartReaping, RestartLaunching
  <2>4. restarts' = restarts
    BY <2>3 DEF Next, OwnerStep, OwnerCancelled, OwnerAdvances, Launch, LaunchFails, Reap, CallerStep,
       Start, ApproveAndStart, CancelUnowned, CancelOwned, Shutdown, CancelReturns, WorkerStep,
       WorkerExits, WorkerLost, Reconcile, ReconcilePending, ReconcileExit, vars
  <2> QED
    BY <2>3, <2>4
<1>b. OrderInv /\ OrderInv'
  BY <1>a, OrderKept DEF FirstLife
<1>0. /\ disk \in Jobs /\ owner \in Owners /\ Good(Ran, disk) /\ GoodOwner(Ran, disk, owner)
      /\ canceller.pc = "returning" => owner.pc \in {"none", "ready"}
      /\ Ready.pc = "ready" /\ NoOwner.pc = "none"
      /\ Working(owner) => disk.state # "cancelled"
      /\ \A s \in Steps, k \in Launches :
           fate[s][k] = "alive" => owner.pc = "waiting" /\ owner.step = s /\ owner.copy.steps[s].pid = k
      /\ owner.pc = "waiting" /\ owner.cancel => explicit
  BY <1>a, <1>b DEF TypeOK, OrderInv, Ready, NoOwner, FirstLife
<1>1. CASE OwnerCancelled
  <2>1. owner' = NoOwner /\ fate \in [Steps -> [Launches -> Fates]]
    BY <1>1 DEF OwnerCancelled, TypeOK
  <2>2. \A s \in Steps, k \in Launches : fate'[s][k] # "alive"
    <3>1. CASE owner.pc # "waiting"
      BY <1>0, <1>1, <3>1 DEF OwnerCancelled
    <3>2. CASE owner.pc = "waiting"
      <4>1. explicit
        BY <1>0, <1>1, <3>2 DEF OwnerCancelled
      <4> DEFINE s == owner.step
                 k == owner.copy.steps[s].pid
      <4>2. fate' = IF fate[s][k] = "alive" THEN [fate EXCEPT ![s][k] = "lost"] ELSE fate
        BY <1>1, <3>2, <4>1 DEF OwnerCancelled
      <4>3. \A r \in Steps, l \in Launches : fate[r][l] = "alive" => r = s /\ l = k
        BY <1>0
      <4> HIDE DEF s, k
      <4> QED
        BY <2>1, <4>2, <4>3
    <3> QED
      BY <3>1, <3>2
  <2> QED
    BY <1>0, <1>b, <2>1, <2>2 DEF FirstLife, Working
<1>2. CASE OwnerAdvances
  <2>1. Advance(disk).owner.pc \in {"none", "starting"}
    BY <1>0, AdvanceState
  <2>2. Working(Advance(disk).owner) => Advance(disk).disk.state # "cancelled"
    BY <1>0, AdvanceState DEF Final
  <2>3. disk' = Advance(disk).disk /\ owner' = Advance(disk).owner /\ fate' = fate /\ owner.pc = "ready"
    BY <1>2 DEF OwnerAdvances
  <2> QED
    BY <1>a, <1>b, <2>1, <2>2, <2>3, FirstLifeQuiet
<1>3. CASE Launch
  <2>1. PICK s \in Steps, k \in Launches, copy \in Jobs :
           /\ owner.pc = "starting" /\ ~owner.cancel
           /\ copy.state = owner.copy.state /\ copy.steps[s].pid = k
           /\ disk' = Merge(disk, copy)
           /\ owner' = [pc |-> "waiting", step |-> s, cancel |-> owner.cancel, copy |-> copy]
           /\ fate' = [fate EXCEPT ![s][k] = "alive"]
    BY <1>3, LaunchParts
  <2>2. \A r \in Steps, l \in Launches : fate'[r][l] = "alive" => r = s /\ l = k
    BY <1>0, <2>1 DEF TypeOK
  <2>3. copy.state \notin Final /\ disk.state # "cancelled"
    BY <1>0, <2>1 DEF GoodOwner, Working
  <2>4. disk'.state # "cancelled"
    BY <2>1, <2>3, StickyNames, MergeSteps1 DEF Final
  <2> QED
    BY <1>b, <2>1, <2>2, <2>4 DEF FirstLife, Working
<1>4. CASE LaunchFails
  <2>1. owner' = NoOwner /\ fate' = fate /\ owner.pc = "starting"
    BY <1>4 DEF LaunchFails
  <2> QED
    BY <1>0, <1>a, <1>b, <2>1, FirstLifeQuiet DEF Working
<1>5. CASE Reap
  <2>1. /\ fate' = fate /\ fate[owner.step][owner.copy.steps[owner.step].pid] # "alive"
        /\ ReapedFinal \in Jobs
        /\ \/ disk' = Advance(ReapedFinal).disk /\ owner' = Advance(ReapedFinal).owner
           \/ owner' = NoOwner
    BY <1>5, ReapedTyped DEF Reap, Reapable
  <2>2. /\ Advance(ReapedFinal).owner.pc \in {"none", "starting"}
        /\ Working(Advance(ReapedFinal).owner) => Advance(ReapedFinal).disk.state # "cancelled"
    BY <1>0, <2>1, AdvanceCases, AdvanceState DEF Final
  <2> QED
    BY <1>0, <1>a, <1>b, <2>1, <2>2, FirstLifeQuiet DEF Working
<1>6. CASE Start \/ ReconcilePending
  <2>1. fate' = fate /\ owner.pc = "none" /\ owner' = Ready
    BY <1>6 DEF Start, ReconcilePending, OwnerLive
  <2> QED
    BY <1>0, <1>a, <1>b, <2>1, FirstLifeQuiet DEF Working
<1>7. ASSUME NEW s \in Steps, ApproveAndStart(s) PROVE FirstLife'
  <2>1. /\ disk' = Merge(disk, Approved(disk, s)) /\ fate' = fate /\ explicit' = explicit
        /\ owner' = owner \/ (owner.pc = "none" /\ owner' = Ready)
        /\ disk.state = "awaiting_approval"
    BY <1>7 DEF ApproveAndStart, OwnerLive
  <2>2. Approved(disk, s).state # "cancelled"
    BY <1>0, <2>1, ApprovedSteps, StickyNames
  <2>3. disk'.state # "cancelled"
    BY <2>1, <2>2, MergeSteps1, StickyNames
  <2> QED
    BY <1>0, <1>a, <1>b, <2>1, <2>3, FirstLifeQuiet DEF Working
<1>8. CASE CancelUnowned
  <2>1. fate' = fate /\ owner' = owner /\ explicit' = explicit /\ owner.pc = "none"
    BY <1>8 DEF CancelUnowned, OwnerLive
  <2> QED
    BY <1>a, <1>b, <2>1, FirstLifeQuiet DEF Working
<1>9. CASE CancelOwned
  <2>1. /\ owner'.copy = owner.copy /\ owner'.step = owner.step /\ owner'.pc = owner.pc
        /\ explicit' /\ fate' = fate /\ disk' = disk
    BY <1>9 DEF CancelOwned, TypeOK, Owners, NoOwner
  <2> QED
    BY <1>0, <1>a, <1>b, <2>1, FirstLifeQuiet
<1>10. CASE Shutdown
  <2>1. /\ owner'.copy = owner.copy /\ owner'.step = owner.step /\ owner'.pc = owner.pc
        /\ fate' = fate /\ disk' = disk /\ (explicit => explicit')
        /\ owner'.cancel = owner.cancel \/ explicit'
    BY <1>10 DEF Shutdown, TypeOK, Owners, NoOwner, OwnerLive
  <2> QED
    BY <1>0, <1>a, <1>b, <2>1, FirstLifeQuiet
<1>11. CASE CancelReturns
  <2>1. fate' = fate /\ owner' = owner /\ owner.pc \in {"none", "ready"}
    BY <1>0, <1>11 DEF CancelReturns
  <2> QED
    BY <1>0, <1>a, <1>b, <2>1, FirstLifeQuiet DEF Working
<1>12. ASSUME NEW s \in Steps, NEW k \in Launches, WorkerExits(s, k) \/ WorkerLost(s, k) PROVE FirstLife'
  <2>1. PICK f : f # "alive" /\ fate[s][k] = "alive" /\ fate' = [fate EXCEPT ![s][k] = f]
    BY <1>12 DEF WorkerExits, WorkerLost
  <2>2. \A r \in Steps, l \in Launches : fate'[r][l] = "alive" => fate[r][l] = "alive"
    BY <2>1 DEF TypeOK
  <2>3. disk' = disk /\ owner' = owner /\ explicit' = explicit
    BY <1>12 DEF WorkerExits, WorkerLost
  <2> QED
    BY <1>0, <1>b, <2>2, <2>3 DEF FirstLife
<1>13. ASSUME NEW s \in Steps, ReconcileExit(s) PROVE FirstLife'
  <2>1. /\ disk' = ReconciledFinal(s) /\ fate' = fate /\ owner' = owner /\ explicit' = explicit
        /\ disk.state = "running"
    BY <1>13 DEF ReconcileExit, Reconcilable
  <2> DEFINE copy == ReconciledCopy(s)
  <2>2. Outcome(exitFile[s]) \in {"completed", "failed"} /\ {"completed", "failed"} \subseteq States
    BY DEF Outcome, States, Final
  <2>3. /\ copy \in Jobs /\ copy.state = "running"
        /\ \A r \in Steps : copy.steps[r].state = IF r = s THEN Outcome(exitFile[s]) ELSE disk.steps[r].state
    BY <1>0, <2>1, <2>2, WithStepTyped, WithStepSteps DEF ReconciledCopy
  <2>4. \A r \in Steps : copy.steps[r].state # "cancelled"
    BY <1>0, <2>1, <2>2, <2>3 DEF Good, Unspoiled, Spoiled, Final
  <2> HIDE DEF copy
  <2>5. Finalize(copy).state # "cancelled"
    BY <2>3, <2>4, FinalizeCases DEF Some
  <2>6. disk'.state # "cancelled"
    BY <2>1, <2>3, <2>5, MergeSteps1, StickyNames DEF ReconciledFinal, ReconciledPut, copy
  <2> QED
    BY <1>a, <1>b, <2>1, <2>6, FirstLifeQuiet
<1>14. CASE UNCHANGED vars
  BY <1>0, <1>14, <1>a, <1>b, FirstLifeQuiet DEF vars
<1> QED
  BY <1>1, <1>2, <1>3, <1>4, <1>5, <1>6, <1>7, <1>8, <1>9, <1>10, <1>11, <1>12, <1>13, <1>14, <1>a
     DEF Next, OwnerStep, CallerStep, WorkerStep, Reconcile

LEMMA FirstLives == Spec => []FirstLife
BY FirstLifeInit, FirstLifeStep, TypeCorrect, PTL DEF Spec

\* In the life of one process a job never has two workers at once: no start, no
\* approval and no cancel in between launches one beside another (_tasks, start).
THEOREM OneWorkerAtATime == Spec => []OneWorker
<1>1. FirstLife => OneWorker
  BY DEF FirstLife, OneWorker, Alive
<1> QED
  BY <1>1, FirstLives, PTL

\* In the life of one process no worker of a cancelled job is left, whichever way the
\* cancel came and whatever the coroutine was doing (cancel, _explicit_cancel).
THEOREM CancelledJobsAreStopped == Spec => []CancelledIsStopped
<1>1. FirstLife => CancelledIsStopped
  BY DEF FirstLife, CancelledIsStopped, Alive, Working
<1> QED
  BY <1>1, FirstLives, PTL

-----------------------------------------------------------------------------
(* The plan.  A job's file moves as StepPlan does because what a coroutine  *)
(* or a cancel carries agrees with the file wherever the file is open, at   *)
(* most the current step awaits an approval, and finished steps are the     *)
(* first ones.                                                              *)

Follows(job, copy) == \A r \in Steps : job.steps[r].state \in Final \/ copy.steps[r] = job.steps[r]

NoneAwaits(job) == \A r \in Steps : job.steps[r].state # "awaiting_approval"

AllDone(job) == \A r \in Steps : job.steps[r].state = "completed"

AwaitInv(job) ==
  \A r \in Steps : job.steps[r].state = "awaiting_approval" /\ job.state \notin Final =>
    /\ job.state = "awaiting_approval" /\ job.current = r /\ r \in Approvals
    /\ ~job.steps[r].approved /\ Before(r, job)

\* A coroutine in the middle of a step, over a job on file.
HandsOn(job, o) ==
  Working(o) =>
    /\ Follows(job, o.copy) /\ job.current = o.step /\ o.copy.current = o.step
    /\ job.state \in Final => job.steps[o.step].state \in Final
    /\ "reconcile" \notin Events => job.steps[o.step].state \notin Final

PlanInv ==
  /\ AwaitInv(disk)
  /\ owner.pc # "none" \/ canceller.pc # "none" => NoneAwaits(disk)
  /\ HandsOn(disk, owner)
  /\ canceller.pc # "none" => Follows(disk, canceller.copy) /\ canceller.copy.state \notin Final
  /\ "torn_write" \notin Events => disk.state \in Final \/ ~AllDone(disk)

\* How one job on file follows another.
SameDone(a, b) == \A r \in Steps : b.steps[r].state = "completed" <=> a.steps[r].state = "completed"

SameApproved(a, b) == \A r \in Steps : b.steps[r].approved = a.steps[r].approved

OutOf(job) == IF job.state \in Final THEN job.state ELSE "open"

Steady(a, b) ==
  /\ SameDone(a, b) /\ SameApproved(a, b)
  /\ \/ OutOf(b) = OutOf(a)
     \/ /\ a.state \notin Final
        /\ \/ b.state = "cancelled"
           \/ b.state = "failed" /\ ~AllDone(a)
           \/ b.state = "completed" /\ AllDone(a)

Finishes(a, b) ==
  /\ a.state \notin Final /\ SameApproved(a, b)
  /\ \E s \in Steps :
       /\ a.steps[s].state # "completed" /\ Before(s, a) /\ (s \in Approvals => a.steps[s].approved)
       /\ \A r \in Steps : b.steps[r].state = "completed" <=> (r = s \/ a.steps[r].state = "completed")
  /\ b.state \notin Final \/ (b.state = "completed" /\ AllDone(b))

Approves(a, b) ==
  /\ a.state \notin Final /\ b.state \notin Final /\ SameDone(a, b)
  /\ \E s \in Steps \cap Approvals :
       /\ a.steps[s].state # "completed" /\ Before(s, a)
       /\ ~a.steps[s].approved /\ b.steps[s].approved
       /\ \A r \in Steps \ {s} : b.steps[r].approved = a.steps[r].approved

Moves(a, b) == Steady(a, b) \/ Finishes(a, b) \/ Approves(a, b)

LEMMA StickyEnds ==
  /\ \A a \in States \ Final, b \in Final : Sticky(a, b) = b
  /\ \A a \in States, b \in States : a \notin Final /\ b \notin Final => Sticky(a, b) \notin Final
  /\ \A a \in States \ Final : Sticky(a, Sticky(a, "awaiting_approval")) = "awaiting_approval"
  /\ \A a \in States \ Final, b \in States \ Final : Sticky(a, Sticky(a, b)) \notin Final
<1>1. \A b \in Final : Rank(b) = 3
  BY DEF Rank, Final
<1>2. \A a \in States \ Final : Rank(a) \in {0, 1, 2}
  BY DEF Rank, States, Final
<1>3. Rank("awaiting_approval") = 2
  BY DEF Rank
<1> QED
  BY <1>1, <1>2, <1>3 DEF Sticky

LEMMA StayMoves == \A job : Steady(job, job)
BY DEF Steady, SameDone, SameApproved

LEMMA NoneAwaitsInv == \A job : NoneAwaits(job) => AwaitInv(job)
BY DEF NoneAwaits, AwaitInv

LEMMA MergeFollows ==
  ASSUME NEW old, NEW new
  PROVE  Follows(Merge(old, new), new)
BY MergeSteps1 DEF Follows

\* A put of a copy that finishes nothing and approves nothing.
LEMMA MergeSame ==
  ASSUME NEW old, NEW new,
         \A r \in Steps : old.steps[r].state \in Final
                       \/ /\ new.steps[r].state # "completed"
                          /\ new.steps[r].approved = old.steps[r].approved
  PROVE  SameDone(old, Merge(old, new)) /\ SameApproved(old, Merge(old, new))
BY MergeSteps1 DEF SameDone, SameApproved, Final

\* A put of which only HOST_JOB.json reached the disk.
LEMMA HalfParts ==
  ASSUME NEW old, NEW new \in Jobs
  PROVE  /\ Half(old, new).state = new.state /\ Half(old, new).current = new.current
         /\ Half(old, new).steps = old.steps
BY DEF Half, Jobs

\* What a turn of the loop makes of a job.
Advances(job, b, o) ==
  /\ SameDone(job, b) /\ SameApproved(job, b)
  /\ job.state \in Final => b = job
  /\ job.state \notin Final => b.state \notin Final \/ (b.state = "completed" /\ AllDone(job))
  /\ b.state \in Final \/ ~AllDone(b)
  /\ AwaitInv(b) /\ (o.pc # "none" => NoneAwaits(b)) /\ HandsOn(b, o)

LEMMA AdvanceMoves ==
  ASSUME whole, NEW job \in Jobs, job.state \in Final \/ Unspoiled(job), NoneAwaits(job)
  PROVE  Advances(job, Advance(job).disk, Advance(job).owner)
<1>0. NoOwner.pc = "none" /\ (\A b : HandsOn(b, NoOwner)) /\ job.state \in States
  BY JobParts DEF NoOwner, HandsOn, Working
<1>a. Listed = Steps
  BY DEF Listed
<1>1. CASE job.state \in Final /\ Advance(job).disk = job /\ Advance(job).owner = NoOwner
  BY <1>0, <1>1, NoneAwaitsInv DEF Advances, SameDone, SameApproved
<1>2. CASE /\ job.state \notin Final /\ \A r \in Steps : job.steps[r].state \in Final
           /\ Advance(job).disk = Merge(job, Finalize(job)) /\ Advance(job).owner = NoOwner
  <2> DEFINE b == Merge(job, Finalize(job))
  <2>1. AllDone(job)
    BY <1>2 DEF AllDone, Unspoiled, Spoiled, Final
  <2>2. Finalize(job).state = "completed"
    BY <1>a, <1>2, <2>1, FinalizeCases DEF AllDone, Some
  <2>3. b.state = "completed" /\ \A r \in Steps : b.steps[r] = job.steps[r]
    BY <1>0, <1>2, <2>2, MergeSteps1, StickyEnds DEF Final
  <2>4. SameDone(job, b) /\ SameApproved(job, b) /\ AwaitInv(b)
    BY <2>3 DEF SameDone, SameApproved, AwaitInv, Final
  <2> QED
    BY <1>0, <1>2, <2>1, <2>3, <2>4 DEF Advances, Final
<1>3. ASSUME NEW s \in Steps, job.state \notin Final, job.steps[s].state \notin Final,
             \A r \in 1 .. s - 1 : r \in Steps /\ job.steps[r].state \in Final,
             NEW state \in {"awaiting_approval", "running"}
      PROVE  LET copy == InStep(job, s, state)
                 b    == Merge(job, copy)
             IN /\ SameDone(job, b) /\ SameApproved(job, b) /\ b.state \notin Final /\ ~AllDone(b)
                /\ Before(s, b) /\ Follows(b, copy) /\ b.current = s /\ copy.current = s
                /\ b.steps[s].state = state /\ \A r \in Steps \ {s} : b.steps[r] = job.steps[r]
                /\ state = "awaiting_approval" => b.state = "awaiting_approval"
  <2> DEFINE copy == InStep(job, s, state)
             b    == Merge(job, copy)
  <2>1. state \in States /\ state \notin Final /\ "awaiting_approval" \in States
    BY DEF States, Final
  <2>2. /\ copy.state = Sticky(job.state, state) /\ copy.current = s
        /\ \A r \in Steps :
             /\ copy.steps[r].state = IF r = s THEN state ELSE job.steps[r].state
             /\ copy.steps[r].approved = job.steps[r].approved
             /\ r # s => copy.steps[r] = job.steps[r]
    BY <2>1, InStepSteps
  <2>3. s # 0
    BY Bounds
  <2> HIDE DEF copy
  <2>4. /\ b.state = Sticky(job.state, Sticky(job.state, state)) /\ b.current = s
        /\ \A r \in Steps : b.steps[r] = IF job.steps[r].state \in Final THEN job.steps[r] ELSE copy.steps[r]
    BY <2>2, <2>3, MergeSteps1
  <2>5. Follows(b, copy)
    BY MergeFollows
  <2> HIDE DEF b
  <2>6. /\ SameDone(job, b) /\ SameApproved(job, b) /\ b.steps[s].state = state
        /\ \A r \in Steps \ {s} : b.steps[r] = job.steps[r]
    BY <1>3, <2>1, <2>2, <2>4 DEF SameDone, SameApproved, Final
  <2>7. b.state \notin Final /\ (state = "awaiting_approval" => b.state = "awaiting_approval")
    <3>1. job.state \in States \ Final /\ state \in States \ Final
      BY <1>0, <1>3, <2>1
    <3>2. Sticky(job.state, Sticky(job.state, state)) \notin Final
      BY <3>1, StickyEnds
    <3>3. Sticky(job.state, Sticky(job.state, "awaiting_approval")) = "awaiting_approval"
      BY <3>1, StickyEnds
    <3>4. CASE state = "awaiting_approval"
      BY <2>4, <3>2, <3>3, <3>4
    <3>5. CASE state # "awaiting_approval"
      BY <2>4, <3>2, <3>5
    <3> QED
      BY <3>4, <3>5
  <2>8. ~AllDone(b)
    BY <2>1, <2>6 DEF AllDone, Final
  <2>9. Before(s, b)
    <3> SUFFICES ASSUME NEW r \in 1 .. s - 1
                 PROVE  b.steps[r].state = "completed"
      BY DEF Before
    <3>1. r \in Steps /\ job.steps[r].state \in Final
      BY <1>3
    <3>2. job.steps[r].state = "completed"
      BY <1>3, <3>1 DEF Unspoiled, Spoiled, Final
    <3> QED
      BY <2>4, <3>1, <3>2
  <2> QED
    BY <2>2, <2>4, <2>5, <2>6, <2>7, <2>8, <2>9 DEF b, copy
<1>4. ASSUME NEW s \in Steps, job.state \notin Final, job.steps[s].state \notin Final,
             \A r \in 1 .. s - 1 : r \in Steps /\ job.steps[r].state \in Final,
             NeedsApproval(job, s), Advance(job).owner = NoOwner,
             Advance(job).disk = Merge(job, InStep(job, s, "awaiting_approval"))
      PROVE  Advances(job, Advance(job).disk, Advance(job).owner)
  <2> DEFINE b == Advance(job).disk
  <2>1. /\ SameDone(job, b) /\ SameApproved(job, b) /\ b.state \notin Final /\ ~AllDone(b)
        /\ Before(s, b) /\ b.current = s /\ b.state = "awaiting_approval"
        /\ \A r \in Steps \ {s} : b.steps[r] = job.steps[r]
    BY <1>3, <1>4
  <2> HIDE DEF b
  <2>2. AwaitInv(b)
    BY <1>4, <2>1 DEF AwaitInv, NoneAwaits, NeedsApproval, SameApproved
  <2> QED
    BY <1>0, <1>4, <2>1, <2>2 DEF Advances, b
<1>5. ASSUME NEW s \in Steps, job.state \notin Final, job.steps[s].state \notin Final,
             \A r \in 1 .. s - 1 : r \in Steps /\ job.steps[r].state \in Final,
             Advance(job).disk = Merge(job, InStep(job, s, "running")),
             Advance(job).owner = [pc |-> "starting", step |-> s, cancel |-> FALSE,
                                   copy |-> InStep(job, s, "running")]
      PROVE  Advances(job, Advance(job).disk, Advance(job).owner)
  <2> DEFINE b == Advance(job).disk
             o == Advance(job).owner
  <2>1. /\ SameDone(job, b) /\ SameApproved(job, b) /\ b.state \notin Final /\ ~AllDone(b)
        /\ Follows(b, o.copy) /\ b.current = s /\ o.copy.current = s /\ o.step = s
        /\ b.steps[s].state = "running" /\ \A r \in Steps \ {s} : b.steps[r] = job.steps[r]
    BY <1>3, <1>5
  <2> HIDE DEF b, o
  <2>2. NoneAwaits(b)
    BY <2>1 DEF NoneAwaits
  <2>3. HandsOn(b, o)
    BY <2>1 DEF HandsOn, Final
  <2> QED
    BY <1>5, <2>1, <2>2, <2>3, NoneAwaitsInv DEF Advances, b, o
<1> QED
  BY <1>a, <1>1, <1>2, <1>4, <1>5, AdvanceCases

\* A step that finishes, or a job that ends, and then a turn of the loop.
LEMMA Compose ==
  ASSUME NEW a, NEW b, NEW c, Steady(a, b) \/ Finishes(a, b),
         SameDone(b, c), SameApproved(b, c), b.state \in Final => c.state = b.state,
         b.state \notin Final => c.state \notin Final \/ (c.state = "completed" /\ AllDone(b))
  PROVE  Steady(a, c) \/ Finishes(a, c)
<1>1. SameApproved(a, c)
  BY DEF Steady, Finishes, SameApproved
<1>2. AllDone(b) => AllDone(c)
  BY DEF SameDone, AllDone
<1>3. CASE Steady(a, b)
  <2>1. SameDone(a, c) /\ (AllDone(b) => AllDone(a))
    BY <1>3 DEF Steady, SameDone, AllDone
  <2>2. CASE b.state \in Final
    BY <1>1, <1>3, <2>1, <2>2 DEF Steady, OutOf
  <2>3. CASE b.state \notin Final
    BY <1>1, <1>3, <2>1, <2>3 DEF Steady, OutOf, Final
  <2> QED
    BY <2>2, <2>3
<1>4. CASE Finishes(a, b)
  <2>1. PICK s \in Steps :
       /\ a.steps[s].state # "completed" /\ Before(s, a) /\ (s \in Approvals => a.steps[s].approved)
       /\ \A r \in Steps : b.steps[r].state = "completed" <=> (r = s \/ a.steps[r].state = "completed")
    BY <1>4 DEF Finishes
  <2>2. \A r \in Steps : c.steps[r].state = "completed" <=> (r = s \/ a.steps[r].state = "completed")
    BY <2>1 DEF SameDone
  <2>3. a.state \notin Final /\ (c.state \notin Final \/ (c.state = "completed" /\ AllDone(c)))
    BY <1>2, <1>4 DEF Finishes
  <2> QED
    BY <1>1, <2>1, <2>2, <2>3 DEF Finishes
<1> QED
  BY <1>3, <1>4

\* A writer puts the end of step s, and then the finalized job: the coroutine that
\* reaps a worker, or a reconciliation.
Ends(old, new, s, state) ==
  /\ state \in {"completed", "failed"} /\ new.steps[s].state = state
  /\ old.steps[s].state \in Final \/ new.steps[s].approved = old.steps[s].approved
  /\ \A r \in Steps \ {s} : /\ old.steps[r].state \in Final \/ new.steps[r] = old.steps[r]
                            /\ new.steps[r].state \notin Spoiled
  /\ new.state \notin Final \/ (state = "failed" /\ new.state = "failed")
  /\ Before(s, old) /\ (s \in Approvals => old.steps[s].approved)
  /\ NoneAwaits(old) /\ (old.state \in Final \/ Unspoiled(old))
  /\ old.state \in Final => old.steps[s].state \in Final
  /\ old.state \notin Final /\ old.steps[s].state \in Final => ~AllDone(old)

LEMMA EndPut ==
  ASSUME NEW old \in Jobs, NEW new \in Jobs, NEW s \in Steps, NEW state, Ends(old, new, s, state)
  PROVE  LET put == Merge(old, new) IN
         /\ Steady(old, put) \/ Finishes(old, put)
         /\ Steady(old, Half(old, put)) /\ NoneAwaits(put)
         /\ put.steps[s].state \in Final
         /\ put.state \in Final => old.state \in Final \/ (state = "failed" /\ put.state = "failed")
<1> PICK put \in Jobs : put = Merge(old, new)
  BY MergeTyped
<1>1. /\ put.state = Sticky(old.state, new.state) /\ old.state \in States /\ new.state \in States
      /\ \A r \in Steps : put.steps[r] = IF old.steps[r].state \in Final THEN old.steps[r] ELSE new.steps[r]
  BY MergeSteps1, JobParts
<1>2. SameApproved(old, put)
  BY <1>1 DEF SameApproved, Ends
<1>3. NoneAwaits(put) /\ put.steps[s].state \in Final
  BY <1>1 DEF NoneAwaits, Ends, Final
<1>4. /\ old.state \in Final => put.state = old.state
      /\ old.state \notin Final => put.state \notin Final
                               \/ (state = "failed" /\ put.state = "failed")
  BY <1>1, StickyNames, StickyEnds DEF Ends, Final
<1>5. \A r \in Steps \ {s} : put.steps[r].state = "completed" <=> old.steps[r].state = "completed"
  BY <1>1 DEF Ends
<1>6. ASSUME old.steps[s].state \in Final \/ state = "failed"
      PROVE  Steady(old, put) \/ Finishes(old, put)
  <2>1. SameDone(old, put)
    BY <1>1, <1>5, <1>6 DEF SameDone, Ends, Final
  <2>2. old.state \notin Final => ~AllDone(old)
    BY <1>6 DEF Ends, AllDone, Final
  <2>3. Steady(old, put)
    BY <1>2, <1>4, <2>1, <2>2 DEF Steady, OutOf
  <2> QED
    BY <2>3
<1>7. ASSUME old.steps[s].state \notin Final, state = "completed"
      PROVE  Steady(old, put) \/ Finishes(old, put)
  <2>1. \A r \in Steps : put.steps[r].state = "completed" <=> (r = s \/ old.steps[r].state = "completed")
    BY <1>1, <1>5, <1>7 DEF Ends
  <2>2. old.state \notin Final /\ put.state \notin Final
    BY <1>4, <1>7 DEF Ends
  <2>3. Finishes(old, put)
    BY <1>2, <1>7, <2>1, <2>2 DEF Finishes, Ends, Final
  <2> QED
    BY <2>3
<1>8. Steady(old, Half(old, put))
  <2>1. Half(old, put).state = put.state /\ Half(old, put).steps = old.steps
    BY HalfParts
  <2>2. state = "failed" /\ old.state \notin Final => ~AllDone(old)
    BY DEF Ends, AllDone, Final
  <2> QED
    BY <1>4, <2>1, <2>2 DEF Steady, SameDone, SameApproved, OutOf
<1>9. state \in {"completed", "failed"}
  BY DEF Ends
<1> QED
  BY <1>3, <1>4, <1>6, <1>7, <1>8, <1>9

LEMMA EndFinal ==
  ASSUME whole, NEW old \in Jobs, NEW new \in Jobs, NEW s \in Steps, NEW state,
         Ends(old, new, s, state)
  PROVE  LET fin == Merge(Merge(old, new), Finalize(new)) IN
         /\ Steady(old, fin) \/ Finishes(old, fin)
         /\ NoneAwaits(fin) /\ fin.steps[s].state \in Final
         /\ fin.state \in Final \/ Unspoiled(fin)
         /\ state = "failed" => fin.state \in Final
         /\ (\A r \in Steps \ {s} : new.steps[r] = old.steps[r]) => fin.state \in Final \/ ~AllDone(fin)
<1> PICK put \in Jobs : put = Merge(old, new)
  BY MergeTyped
<1> PICK fin \in Jobs : fin = Merge(put, Finalize(new))
  BY FinalizeTyped, MergeTyped
<1>1. /\ Steady(old, put) \/ Finishes(old, put)
      /\ NoneAwaits(put) /\ put.steps[s].state \in Final
      /\ put.state \in Final => old.state \in Final \/ (state = "failed" /\ put.state = "failed")
  BY EndPut
<1>2. /\ put.state \in States /\ new.state \in States /\ Finalize(new).state \in States
      /\ fin.state = Sticky(put.state, Finalize(new).state)
      /\ \A r \in Steps : put.steps[r] = IF old.steps[r].state \in Final THEN old.steps[r] ELSE new.steps[r]
      /\ \A r \in Steps : fin.steps[r] = put.steps[r]
  <2>1. \A r \in Steps : put.steps[r] = IF old.steps[r].state \in Final THEN old.steps[r] ELSE new.steps[r]
    BY MergeSteps1
  <2>2. Finalize(new).steps = new.steps
    BY FinalizeCases
  <2>3. \A r \in Steps : fin.steps[r] = IF put.steps[r].state \in Final THEN put.steps[r] ELSE new.steps[r]
    BY <2>2, MergeSteps1
  <2>4. put.state \in States /\ new.state \in States /\ Finalize(new).state \in States
        /\ fin.state = Sticky(put.state, Finalize(new).state)
    BY JobParts, FinalizeTyped, MergeSteps1
  <2> QED
    BY <2>1, <2>3, <2>4
<1>3. SameDone(put, fin) /\ SameApproved(put, fin) /\ NoneAwaits(fin) /\ fin.steps[s].state \in Final
  BY <1>1, <1>2 DEF SameDone, SameApproved, NoneAwaits
<1>4. state = "failed" => Finalize(new).state = "failed"
  <2> SUFFICES ASSUME state = "failed" PROVE Finalize(new).state = "failed"
    OBVIOUS
  <2>1. Some(new, "failed")
    BY DEF Ends, Some
  <2>2. new.state \in Final => new.state = "failed"
    BY DEF Ends
  <2> QED
    BY <2>1, <2>2, FinalizeCases
<1>5. state = "completed" /\ new.state \notin Final
        => Finalize(new).state = IF AllDone(new) THEN "completed" ELSE new.state
  <2> SUFFICES ASSUME state = "completed", new.state \notin Final
               PROVE  Finalize(new).state = IF AllDone(new) THEN "completed" ELSE new.state
    OBVIOUS
  <2>1. ~Some(new, "failed") /\ ~Some(new, "cancelled")
    BY DEF Ends, Some, Spoiled
  <2> QED
    BY <2>1, FinalizeCases DEF AllDone, Listed
<1>6. new.state \notin Final \/ state = "failed"
  BY DEF Ends
<1>7. state \in {"completed", "failed"}
  BY DEF Ends
<1>8. state = "failed" => fin.state \in Final
  BY <1>2, <1>4, StickyFinal DEF Final
<1>9. CASE put.state \in Final
  <2>1. fin.state = put.state
    BY <1>2, <1>9, StickyNames
  <2>2. Steady(old, fin) \/ Finishes(old, fin)
    BY <1>1, <1>3, <1>9, <2>1, Compose
  <2> QED
    BY <1>3, <1>8, <1>9, <2>1, <2>2
<1>10. CASE put.state \notin Final /\ state = "failed"
  <2>1. fin.state = "failed" /\ old.state \notin Final
    <3>1. old.state \notin Final
      BY <1>10, MergeKeeps DEF Kept
    <3> QED
      BY <1>2, <1>4, <1>10, <3>1, StickyEnds DEF Final
  <2>2. ~AllDone(old)
    BY <1>10, <2>1 DEF Ends, AllDone, Final
  <2>3. SameDone(old, fin) /\ SameApproved(old, fin)
    BY <1>1, <1>2, <1>10 DEF SameDone, SameApproved, Ends, Steady, Finishes, Final
  <2> QED
    BY <1>3, <1>8, <1>10, <2>1, <2>2, <2>3 DEF Steady
<1>11. CASE put.state \notin Final /\ state = "completed"
  <2>1. old.state \notin Final /\ new.state \notin Final
    BY <1>6, <1>11, MergeKeeps DEF Kept
  <2>2. Unspoiled(old) /\ Unspoiled(fin)
    BY <1>2, <1>11, <2>1 DEF Ends, Unspoiled, Spoiled
  <2>3. CASE AllDone(new)
    <3>1. fin.state = "completed"
      BY <1>2, <1>5, <1>11, <2>1, <2>3, StickyEnds DEF Final
    <3>2. AllDone(put)
      BY <1>2, <2>2, <2>3 DEF AllDone, Unspoiled, Spoiled, Final
    <3>3. Steady(old, fin) \/ Finishes(old, fin)
      BY <1>1, <1>3, <1>11, <3>1, <3>2, Compose
    <3> QED
      BY <1>3, <1>8, <3>1, <3>3 DEF Final
  <2>4. CASE ~AllDone(new)
    <3>1. fin.state \notin Final
      BY <1>2, <1>5, <1>11, <2>1, <2>4, StickyEnds
    <3>2. Steady(old, fin) \/ Finishes(old, fin)
      BY <1>1, <1>3, <1>11, <3>1, Compose
    <3>3. (\A r \in Steps \ {s} : new.steps[r] = old.steps[r]) => ~AllDone(fin)
      <4> SUFFICES ASSUME \A r \in Steps \ {s} : new.steps[r] = old.steps[r], AllDone(fin)
                   PROVE  FALSE
        OBVIOUS
      <4>1. \A r \in Steps \ {s} : new.steps[r].state = "completed"
        BY <1>2 DEF AllDone
      <4>2. new.steps[s].state = "completed"
        BY <1>11 DEF Ends
      <4> QED
        BY <2>4, <4>1, <4>2 DEF AllDone
    <3> QED
      BY <1>3, <1>8, <1>11, <2>2, <3>2, <3>3
  <2> QED
    BY <2>3, <2>4
<1> QED
  BY <1>7, <1>9, <1>10, <1>11

\* A put of a job that a writer has cancelled.
LEMMA CancelMoves ==
  ASSUME NEW old \in Jobs, NEW copy \in Jobs, Follows(old, copy), copy.state \notin Final
  PROVE  LET b == Merge(old, CancelledJob(copy)) IN
         /\ Steady(old, b) /\ Steady(old, Half(old, b)) /\ b.state \in Final
         /\ NoneAwaits(old) => NoneAwaits(b)
         /\ \A r \in Steps : b.steps[r] = old.steps[r] \/ b.steps[r].state \in Final
<1> DEFINE new == CancelledJob(copy)
<1> PICK b \in Jobs : b = Merge(old, new)
  BY CancelledJobTyped, MergeTyped
<1>1. /\ new \in Jobs /\ new.state = "cancelled"
      /\ \A r \in Steps : /\ new.steps[r].approved = copy.steps[r].approved
                          /\ new.steps[r] = copy.steps[r] \/ new.steps[r].state = "cancelled"
  <2>1. new.state = Sticky(copy.state, "cancelled")
    BY CancelledState
  <2>2. copy.state \in States \ Final /\ "cancelled" \in Final
    BY JobParts DEF Final
  <2> QED
    BY <2>1, <2>2, CancelledJobTyped, CancelledSteps, StickyEnds
<1> HIDE DEF new
<1>2. /\ b.state = Sticky(old.state, new.state) /\ old.state \in States
      /\ \A r \in Steps : b.steps[r] = IF old.steps[r].state \in Final THEN old.steps[r] ELSE new.steps[r]
  BY MergeSteps1, JobParts
<1>3. SameDone(old, b) /\ SameApproved(old, b)
  <2>1. \A r \in Steps : old.steps[r].state \in Final
                     \/ /\ new.steps[r].state # "completed"
                        /\ new.steps[r].approved = old.steps[r].approved
    <3> SUFFICES ASSUME NEW r \in Steps, old.steps[r].state \notin Final
                 PROVE  /\ new.steps[r].state # "completed"
                        /\ new.steps[r].approved = old.steps[r].approved
      OBVIOUS
    <3>1. copy.steps[r] = old.steps[r]
      BY DEF Follows
    <3>2. new.steps[r] = copy.steps[r] \/ new.steps[r].state = "cancelled"
      BY <1>1
    <3>3. new.steps[r].approved = copy.steps[r].approved
      BY <1>1
    <3> QED
      BY <3>1, <3>2, <3>3 DEF Final
  <2> QED
    BY <2>1, MergeSame
<1>4. b.state = IF old.state \in Final THEN old.state ELSE "cancelled"
  BY <1>1, <1>2, StickyEnds, StickyNames DEF Final
<1>5. Steady(old, b) /\ b.state \in Final
  BY <1>3, <1>4 DEF Steady, OutOf, Final
<1>6. Steady(old, Half(old, b))
  <2>1. Half(old, b).state = b.state /\ Half(old, b).steps = old.steps
    BY HalfParts
  <2> QED
    BY <1>4, <2>1 DEF Steady, SameDone, SameApproved, OutOf, Final
<1>7. NoneAwaits(old) => NoneAwaits(b)
  BY <1>1, <1>2 DEF NoneAwaits, Follows, Final
<1>8. \A r \in Steps : b.steps[r] = old.steps[r] \/ b.steps[r].state \in Final
  BY <1>1, <1>2 DEF Follows, Final
<1> QED
  BY <1>5, <1>6, <1>7, <1>8 DEF new

\* A put that changes a step only by ending it leaves a coroutine its step.
LEMMA HandsOnKept ==
  ASSUME NEW a, NEW b, NEW o, HandsOn(a, o), b.current = a.current,
         \A r \in Steps : b.steps[r] = a.steps[r] \/ b.steps[r].state \in Final,
         Working(o) => o.step \in Steps,
         Working(o) /\ b.state \in Final => a.state \in Final \/ b.steps[o.step].state \in Final,
         "reconcile" \notin Events /\ Working(o) => b.steps[o.step] = a.steps[o.step]
  PROVE  HandsOn(b, o)
BY DEF HandsOn, Follows

AllInv == TypeOK /\ OrderInv /\ EvidenceInv /\ PlanInv /\ whole

LEMMA ReapEnds ==
  ASSUME AllInv, ~({"reconcile", "torn_write"} \subseteq Events), Reapable
  PROVE  Ends(disk, ReapedCopy, owner.step, Outcome(Rc))
<1> PICK s : s = owner.step
  OBVIOUS
<1> PICK state : state = Outcome(Rc)
  OBVIOUS
<1> DEFINE done == WithStep(owner.copy, s, state)
<1>1. /\ s \in Steps /\ owner.copy \in Jobs /\ owner.pc = "waiting" /\ disk \in Jobs
      /\ Good(Ran, disk) /\ GoodOwner(Ran, disk, owner)
  BY ReapedTyped, OwnerParts DEF AllInv, TypeOK, Reapable, OrderInv
<1>2. /\ state \in {"completed", "failed"} /\ state \in States
      /\ Rc = "zero" <=> state = "completed"
  BY DEF Outcome, States, Final
<1>3. /\ Before(s, disk) /\ (s \in Approvals => disk.steps[s].approved)
      /\ Unspoiled(owner.copy) /\ owner.copy.state \notin Final
  BY <1>1 DEF GoodOwner
<1>4. /\ NoneAwaits(disk) /\ Follows(disk, owner.copy)
      /\ disk.state \in Final => disk.steps[s].state \in Final
      /\ "reconcile" \notin Events => disk.steps[s].state \notin Final
      /\ "torn_write" \notin Events => disk.state \in Final \/ ~AllDone(disk)
  BY <1>1 DEF AllInv, PlanInv, HandsOn, Working
<1>5. /\ done \in Jobs /\ done.state = owner.copy.state /\ done.steps[s].state = state
      /\ done.steps[s].approved = owner.copy.steps[s].approved
      /\ \A r \in Steps \ {s} : done.steps[r] = owner.copy.steps[r]
  BY <1>1, <1>2, WithStepTyped, WithStepSteps
<1>6. ReapedCopy = IF Rc = "zero" THEN done ELSE [done EXCEPT !.state = Sticky(done.state, "failed")]
  BY DEF ReapedCopy
<1> HIDE DEF done
<1>7. /\ ReapedCopy.steps = done.steps
      /\ ReapedCopy.state = IF Rc = "zero" THEN done.state ELSE Sticky(done.state, "failed")
  BY <1>5, <1>6 DEF Jobs
<1>8. ReapedCopy.state \notin Final \/ (state = "failed" /\ ReapedCopy.state = "failed")
  <2>1. done.state \in States \ Final /\ "failed" \in Final
    BY <1>3, <1>5, JobParts DEF Final
  <2>2. Sticky(done.state, "failed") = "failed"
    BY <2>1, StickyEnds
  <2> QED
    BY <1>2, <1>7, <2>1, <2>2
<1>9. disk.state \in Final \/ Unspoiled(disk)
  BY <1>1 DEF Good
<1>10. disk.state \notin Final /\ disk.steps[s].state \in Final => ~AllDone(disk)
  BY <1>4
<1>11. disk.steps[s].state \in Final \/ ReapedCopy.steps[s].approved = disk.steps[s].approved
  BY <1>1, <1>4, <1>5, <1>7 DEF Follows
<1>12. \A r \in Steps \ {s} : /\ disk.steps[r].state \in Final \/ ReapedCopy.steps[r] = disk.steps[r]
                              /\ ReapedCopy.steps[r].state \notin Spoiled
  BY <1>3, <1>4, <1>5, <1>7 DEF Follows, Unspoiled
<1> QED
  BY <1>2, <1>3, <1>4, <1>5, <1>7, <1>8, <1>9, <1>10, <1>11, <1>12 DEF Ends

LEMMA ReconcileEnds ==
  ASSUME AllInv, ~({"reconcile", "torn_write"} \subseteq Events), NEW s \in Steps, Reconcilable(s)
  PROVE  /\ Ends(disk, ReconciledCopy(s), s, Outcome(exitFile[s]))
         /\ ReconciledCopy(s) \in Jobs /\ ReconciledCopy(s).current = disk.current
         /\ \A r \in Steps \ {s} : ReconciledCopy(s).steps[r] = disk.steps[r]
<1> PICK state : state = Outcome(exitFile[s])
  OBVIOUS
<1>1. /\ disk \in Jobs /\ Good(Ran, disk) /\ disk.state = "running" /\ exitFile[s] # "none"
      /\ "torn_write" \notin Events
  BY DEF AllInv, TypeOK, OrderInv, Reconcilable, Evident
<1>2. state \in {"completed", "failed"} /\ state \in States
  BY DEF Outcome, States, Final
<1>3. s \in Ran
  <2>1. Attests(fate, s, state)
    BY <1>1 DEF AllInv, EvidenceInv
  <2> QED
    BY <1>2, <2>1 DEF Attests, Ran, Launched
<1>4. Before(s, disk) /\ (s \in Approvals => disk.steps[s].approved) /\ Unspoiled(disk)
  BY <1>1, <1>3 DEF Good, Covers, Final
<1>5. NoneAwaits(disk) /\ ~AllDone(disk)
  BY <1>1 DEF AllInv, PlanInv, AwaitInv, NoneAwaits, Final
<1>6. /\ ReconciledCopy(s) \in Jobs /\ ReconciledCopy(s).current = disk.current
      /\ ReconciledCopy(s).state = disk.state /\ ReconciledCopy(s).steps[s].state = state
      /\ ReconciledCopy(s).steps[s].approved = disk.steps[s].approved
      /\ \A r \in Steps \ {s} : ReconciledCopy(s).steps[r] = disk.steps[r]
  BY <1>1, <1>2, WithStepTyped, WithStepSteps DEF ReconciledCopy
<1>7. disk.state \notin Final
  BY <1>1 DEF Final
<1> QED
  BY <1>2, <1>4, <1>5, <1>6, <1>7 DEF Ends, Unspoiled

LEMMA PlanInit == Init => PlanInv
<1> SUFFICES ASSUME Init
             PROVE  PlanInv
  OBVIOUS
<1>1. NoneAwaits(disk) /\ AwaitInv(disk)
  BY NoneAwaitsInv DEF Init, NoneAwaits, Fresh
<1>2. ~Working(owner) /\ canceller.pc = "none"
  BY DEF Init, Working, NoOwner, NoCanceller
<1>3. ~AllDone(disk)
  <2>1. 1 \in Steps
    BY JobAssumption DEF Steps
  <2>2. disk.steps[1].state = "pending"
    BY <2>1 DEF Init, Fresh
  <2> QED
    BY <2>1, <2>2 DEF AllDone
<1> QED
  BY <1>1, <1>2, <1>3 DEF PlanInv, HandsOn

\* An action that leaves the files alone.
LEMMA PlanQuiet ==
  ASSUME PlanInv, disk' = disk,
         owner'.pc # "none" \/ canceller'.pc # "none" => NoneAwaits(disk),
         \/ ~Working(owner')
         \/ owner'.pc = owner.pc /\ owner'.step = owner.step /\ owner'.copy = owner.copy,
         canceller'.pc # "none" => \/ canceller.pc # "none" /\ canceller'.copy = canceller.copy
                                   \/ disk.state \notin Final /\ canceller'.copy = disk
  PROVE  PlanInv' /\ Moves(disk, disk')
<1>1. Moves(disk, disk')
  BY StayMoves DEF Moves
<1>2. HandsOn(disk', owner')
  BY DEF PlanInv, HandsOn, Working
<1>3. canceller'.pc # "none" => Follows(disk', canceller'.copy) /\ canceller'.copy.state \notin Final
  BY DEF PlanInv, Follows
<1> QED
  BY <1>1, <1>2, <1>3 DEF PlanInv

LEMMA PlanReap ==
  ASSUME AllInv, ~({"reconcile", "torn_write"} \subseteq Events), Reap
  PROVE  PlanInv' /\ Moves(disk, disk')
<1> PICK s : s = owner.step
  OBVIOUS
<1> PICK state : state = Outcome(Rc)
  OBVIOUS
<1>1. /\ s \in Steps /\ disk \in Jobs /\ ReapedCopy \in Jobs /\ ReapedFinal \in Jobs /\ Reapable
      /\ Ends(disk, ReapedCopy, s, state) /\ ReapedFinal = Merge(Merge(disk, ReapedCopy), Finalize(ReapedCopy))
  BY ReapedTyped, ReapEnds DEF AllInv, TypeOK, Reap, ReapedFinal, ReapedPut
<1>2. /\ Steady(disk, ReapedFinal) \/ Finishes(disk, ReapedFinal)
      /\ NoneAwaits(ReapedFinal) /\ (ReapedFinal.state \in Final \/ Unspoiled(ReapedFinal))
      /\ state = "failed" => ReapedFinal.state \in Final
  BY <1>1, EndFinal DEF AllInv
<1>3. canceller.pc = "none" /\ canceller' = canceller
  <2>1. ~owner.cancel /\ owner.pc = "waiting" /\ canceller' = canceller
    BY <1>1 DEF Reap, Reapable
  <2> QED
    BY <2>1 DEF AllInv, OrderInv, TypeOK, NoCanceller
<1>4. CASE Rc = "zero"
  <2>1. Advances(ReapedFinal, Advance(ReapedFinal).disk, Advance(ReapedFinal).owner)
    BY <1>1, <1>2, AdvanceMoves DEF AllInv
  <2>2. disk' = Advance(ReapedFinal).disk /\ owner' = Advance(ReapedFinal).owner
    BY <1>4 DEF Reap
  <2>3. Advances(ReapedFinal, disk', owner')
    BY <2>1, <2>2
  <2>4. Steady(disk, disk') \/ Finishes(disk, disk')
    BY <1>2, <2>3, Compose DEF Advances
  <2> QED
    BY <1>3, <2>3, <2>4 DEF Advances, PlanInv, Moves
<1>5. CASE Rc # "zero"
  <2>1. disk' = ReapedFinal /\ owner' = NoOwner /\ NoOwner.pc = "none"
    BY <1>5 DEF Reap, NoOwner
  <2>2. state = "failed"
    BY <1>5 DEF Outcome
  <2>3. AwaitInv(disk') /\ HandsOn(disk', owner')
    BY <1>2, <2>1, NoneAwaitsInv DEF HandsOn, Working
  <2> QED
    BY <1>2, <1>3, <2>1, <2>2, <2>3 DEF PlanInv, Moves
<1> QED
  BY <1>4, <1>5

LEMMA PlanLaunch ==
  ASSUME AllInv, Launch
  PROVE  PlanInv' /\ Moves(disk, disk')
<1>1. PICK s \in Steps, k \in Launches, copy \in Jobs :
           /\ owner.pc = "starting" /\ ~owner.cancel /\ owner.step = s
           /\ copy.state = owner.copy.state /\ copy.current = owner.copy.current
           /\ \A r \in Steps : /\ copy.steps[r].state = owner.copy.steps[r].state
                               /\ copy.steps[r].approved = owner.copy.steps[r].approved
           /\ disk' = Merge(disk, copy)
           /\ owner' = [pc |-> "waiting", step |-> s, cancel |-> owner.cancel, copy |-> copy]
           /\ canceller' = canceller
  BY LaunchParts DEF AllInv
<1>2. /\ canceller.pc = "none" /\ disk \in Jobs /\ owner.copy.state \notin Final
      /\ NoneAwaits(disk) /\ HandsOn(disk, owner) /\ Working(owner)
  BY <1>1 DEF AllInv, OrderInv, TypeOK, NoCanceller, GoodOwner, PlanInv, Working
<1>3. \A r \in Steps : disk.steps[r].state \in Final
                   \/ /\ copy.steps[r].state = disk.steps[r].state
                      /\ copy.steps[r].approved = disk.steps[r].approved
  BY <1>1, <1>2 DEF HandsOn, Follows
<1>4. SameDone(disk, disk') /\ SameApproved(disk, disk')
  <2>1. \A r \in Steps : disk.steps[r].state \in Final
                     \/ /\ copy.steps[r].state # "completed"
                        /\ copy.steps[r].approved = disk.steps[r].approved
    BY <1>3 DEF Final
  <2> QED
    BY <1>1, <2>1, MergeSame
<1>5. /\ disk'.state \in Final <=> disk.state \in Final
      /\ disk.state \in Final => disk'.state = disk.state
      /\ disk'.current = s
      /\ \A r \in Steps : disk'.steps[r].state = disk.steps[r].state
  <2>1. disk.state \in States /\ copy.state \in States /\ copy.state \notin Final
    BY <1>1, <1>2, JobParts
  <2>2. disk'.state = Sticky(disk.state, copy.state)
    BY <1>1, MergeSteps1
  <2>3. copy.current = s /\ s # 0
    BY <1>1, <1>2, Bounds DEF HandsOn
  <2>4. disk'.current = s /\ \A r \in Steps : disk'.steps[r].state = disk.steps[r].state
    BY <1>1, <1>3, <2>3, MergeSteps1
  <2> QED
    BY <2>1, <2>2, <2>4, StickyEnds, StickyNames
<1>6. Steady(disk, disk')
  BY <1>4, <1>5 DEF Steady, OutOf
<1>7. NoneAwaits(disk') /\ AwaitInv(disk')
  BY <1>2, <1>5, NoneAwaitsInv DEF NoneAwaits
<1>8. HandsOn(disk', owner')
  <2>1. Follows(disk', copy)
    BY <1>1, MergeFollows
  <2> QED
    BY <1>1, <1>2, <1>5, <2>1 DEF HandsOn
<1>9. "torn_write" \notin Events => disk'.state \in Final \/ ~AllDone(disk')
  BY <1>5 DEF AllInv, PlanInv, AllDone
<1> QED
  BY <1>1, <1>2, <1>6, <1>7, <1>8, <1>9 DEF PlanInv, Moves

LEMMA PlanApprove ==
  ASSUME AllInv, NEW s \in Steps, ApproveAndStart(s)
  PROVE  PlanInv' /\ Moves(disk, disk')
<1>1. /\ disk.state = "awaiting_approval" /\ s = disk.current /\ disk \in Jobs
      /\ disk' = Merge(disk, Approved(disk, s)) /\ canceller' = canceller
      /\ owner' = owner \/ (owner.pc = "none" /\ owner' = Ready)
      /\ Ready.pc = "ready" /\ disk.state \notin Final
      /\ owner \in Owners
  BY DEF ApproveAndStart, OwnerLive, Ready, NoOwner, AllInv, TypeOK, Final
<1>2. \A r \in Steps \ {s} : disk.steps[r].state # "awaiting_approval"
  BY <1>1 DEF AllInv, PlanInv, AwaitInv
<1>a. s # 0 /\ "running" \in States /\ "running" \notin Final
  BY Bounds DEF States, Final
<1>3. CASE Approved(disk, s) = disk
  <2>1. disk'.state = disk.state /\ disk'.current = disk.current /\ \A r \in Steps : disk'.steps[r] = disk.steps[r]
    BY <1>1, <1>3, MergeSteps1, StickyNames
  <2>2. NoneAwaits(disk)
    <3>1. CASE disk.steps[s].state = "awaiting_approval"
      <4>1. s \in Approvals
        BY <1>1, <3>1 DEF AllInv, PlanInv, AwaitInv
      <4>2. FALSE
        BY <1>1, <1>3, <3>1, <4>1, ApprovedFresh
      <4> QED
        BY <4>2
    <3>2. CASE disk.steps[s].state # "awaiting_approval"
      BY <1>2, <3>2 DEF NoneAwaits
    <3> QED
      BY <3>1, <3>2
  <2>3. NoneAwaits(disk') /\ AwaitInv(disk') /\ Steady(disk, disk') /\ (AllDone(disk') => AllDone(disk))
    BY <2>1, <2>2, NoneAwaitsInv DEF NoneAwaits, Steady, SameDone, SameApproved, OutOf, AllDone
  <2>4. HandsOn(disk', owner')
    <3>1. CASE owner' = owner
      BY <1>1, <2>1, <3>1, OwnerParts, HandsOnKept DEF AllInv, PlanInv, Working
    <3>2. CASE owner' = Ready
      BY <1>1, <3>2 DEF HandsOn, Working
    <3> QED
      BY <1>1, <3>1, <3>2
  <2>5. canceller'.pc # "none" => Follows(disk', canceller'.copy) /\ canceller'.copy.state \notin Final
    BY <1>1, <2>1 DEF AllInv, PlanInv, Follows
  <2> QED
    BY <1>1, <2>1, <2>3, <2>4, <2>5 DEF AllInv, PlanInv, Moves
<1>4. CASE /\ s \in Approvals /\ disk.steps[s].state = "awaiting_approval"
           /\ Approved(disk, s).state = Sticky(disk.state, "running")
           /\ Approved(disk, s).current = disk.current
           /\ Approved(disk, s).steps[s].approved /\ Approved(disk, s).steps[s].state = "pending"
           /\ \A r \in Steps \ {s} : Approved(disk, s).steps[r] = disk.steps[r]
  <2>1. disk'.state \notin Final
    <3>1. Approved(disk, s).state \in States /\ Approved(disk, s).state \notin Final /\ disk.state \in States
      BY <1>1, <1>a, <1>4, StickyEnds, StickyTyped, JobParts
    <3> QED
      BY <1>1, <3>1, MergeSteps1, StickyEnds
  <2>2. /\ disk'.steps[s].approved /\ disk'.steps[s].state = "pending"
        /\ \A r \in Steps \ {s} : disk'.steps[r] = disk.steps[r]
    BY <1>1, <1>4, MergeSteps1 DEF Final
  <2>3. NoneAwaits(disk') /\ AwaitInv(disk') /\ SameDone(disk, disk') /\ ~AllDone(disk')
    BY <1>2, <1>4, <2>2, NoneAwaitsInv DEF NoneAwaits, SameDone, AllDone
  <2>4. ~disk.steps[s].approved /\ Before(s, disk)
    BY <1>1, <1>4 DEF AllInv, PlanInv, AwaitInv
  <2>5. Approves(disk, disk')
    BY <1>1, <1>4, <2>1, <2>2, <2>3, <2>4 DEF Approves
  <2>6. owner.pc = "none" /\ canceller.pc = "none"
    BY <1>4 DEF AllInv, PlanInv, NoneAwaits
  <2>7. ~Working(owner')
    BY <1>1, <2>6 DEF Working
  <2> QED
    BY <1>1, <2>1, <2>3, <2>5, <2>6, <2>7 DEF PlanInv, Moves, HandsOn
<1> QED
  BY <1>1, <1>3, <1>4, ApprovedSteps

LEMMA PlanReconcile ==
  ASSUME AllInv, ~({"reconcile", "torn_write"} \subseteq Events), NEW s \in Steps, ReconcileExit(s)
  PROVE  PlanInv' /\ Moves(disk, disk')
<1> PICK state : state = Outcome(exitFile[s])
  OBVIOUS
<1> PICK copy : copy = ReconciledCopy(s)
  OBVIOUS
<1>1. /\ disk' = ReconciledFinal(s) /\ owner' = owner /\ canceller' = canceller
      /\ "reconcile" \in Events /\ Reconcilable(s) /\ s = disk.current /\ disk \in Jobs /\ owner \in Owners
  BY DEF ReconcileExit, Reconcilable, AllInv, TypeOK
<1>2. /\ Ends(disk, copy, s, state) /\ copy \in Jobs /\ copy.current = disk.current
      /\ \A r \in Steps \ {s} : copy.steps[r] = disk.steps[r]
  BY <1>1, ReconcileEnds
<1>3. disk' = Merge(Merge(disk, copy), Finalize(copy))
  BY <1>1 DEF ReconciledFinal, ReconciledPut
<1>4. /\ Steady(disk, disk') \/ Finishes(disk, disk')
      /\ NoneAwaits(disk') /\ disk'.steps[s].state \in Final
      /\ disk'.state \in Final \/ ~AllDone(disk')
  BY <1>1, <1>2, <1>3, EndFinal DEF AllInv
<1>5. disk'.current = disk.current
  <2>1. s # 0 /\ Finalize(copy).current = s
    BY <1>1, <1>2, FinalizeCases, Bounds
  <2> QED
    BY <1>1, <1>3, <2>1, MergeSteps1
<1>6. \A r \in Steps : disk'.steps[r] = disk.steps[r] \/ disk'.steps[r].state \in Final
  <2> TAKE r \in Steps
  <2>1. CASE r = s
    BY <1>4, <2>1
  <2>2. CASE r # s
    <3>1. Finalize(copy).steps[r] = disk.steps[r] /\ copy.steps[r] = disk.steps[r]
      BY <1>2, <2>2, FinalizeCases
    <3> QED
      BY <1>3, <3>1, MergeSteps1
  <2> QED
    BY <2>1, <2>2
<1>7. HandsOn(disk', owner')
  <2>1. Working(owner) => owner.step \in Steps /\ owner.step = s
    BY <1>1, OwnerParts DEF AllInv, PlanInv, HandsOn, Working
  <2>2. HandsOn(disk, owner)
    BY DEF AllInv, PlanInv
  <2> QED
    BY <1>1, <1>4, <1>5, <1>6, <2>1, <2>2, HandsOnKept
<1>8. canceller'.pc # "none" => Follows(disk', canceller'.copy) /\ canceller'.copy.state \notin Final
  BY <1>1, <1>6 DEF AllInv, PlanInv, Follows
<1> QED
  BY <1>4, <1>7, <1>8, NoneAwaitsInv DEF PlanInv, Moves

\* What a death inside a step leaves, where nobody reconciles.
LEMMA PlanTorn ==
  ASSUME AllInv, ~({"reconcile", "torn_write"} \subseteq Events), "torn_write" \in Events,
         NEW d \in TornAdvances \cup TornReaps \cup TornCancels
  PROVE  AwaitInv(d) /\ Moves(disk, d)
<1>0. /\ disk \in Jobs /\ (disk.state \in Final \/ Unspoiled(disk))
      /\ "reconcile" \notin Events
      /\ owner.pc # "none" \/ canceller.pc # "none" => NoneAwaits(disk)
  BY DEF AllInv, TypeOK, OrderInv, Good, PlanInv
<1>1. ASSUME NEW job \in Jobs, job.state \in Final \/ Unspoiled(job), NoneAwaits(job),
             Steady(disk, job) \/ Finishes(disk, job), d = Half(job, Advance(job).disk)
      PROVE  AwaitInv(d) /\ Moves(disk, d)
  <2> PICK b \in Jobs : b = Advance(job).disk
    BY AdvanceTyped
  <2>1. d.state = b.state /\ d.steps = job.steps
    BY <1>1, HalfParts
  <2>2. Advances(job, b, Advance(job).owner)
    BY <1>1, AdvanceMoves DEF AllInv
  <2>3. SameDone(job, d) /\ SameApproved(job, d) /\ NoneAwaits(d)
    BY <1>1, <2>1 DEF SameDone, SameApproved, NoneAwaits
  <2>4. Steady(disk, d) \/ Finishes(disk, d)
    BY <1>1, <2>1, <2>2, <2>3, Compose DEF Advances
  <2> QED
    BY <2>3, <2>4, NoneAwaitsInv DEF Moves
<1>2. CASE d \in TornAdvances
  <2>1. d = Half(disk, Advance(disk).disk) /\ owner.pc = "ready"
    BY <1>2 DEF TornAdvances
  <2> QED
    BY <1>0, <1>1, <2>1, StayMoves
<1>5. CASE d = disk
  BY <1>0, <1>5, StayMoves DEF Moves, AllInv, PlanInv
<1>3. CASE d \in TornReaps
  <2> PICK s : s = owner.step
    OBVIOUS
  <2> PICK state : state = Outcome(Rc)
    OBVIOUS
  <2>1. Reapable /\ d \in {disk, Half(disk, ReapedPut), ReapedPut, Half(ReapedFinal, Advance(ReapedFinal).disk)}
    BY <1>3 DEF TornReaps
  <2>2. /\ s \in Steps /\ ReapedCopy \in Jobs /\ ReapedPut \in Jobs /\ ReapedFinal \in Jobs
        /\ Ends(disk, ReapedCopy, s, state) /\ ReapedPut = Merge(disk, ReapedCopy)
        /\ ReapedFinal = Merge(Merge(disk, ReapedCopy), Finalize(ReapedCopy))
    BY <2>1, ReapedTyped, ReapEnds DEF AllInv, ReapedFinal, ReapedPut
  <2>3. /\ Steady(disk, ReapedPut) \/ Finishes(disk, ReapedPut)
        /\ Steady(disk, Half(disk, ReapedPut)) /\ NoneAwaits(ReapedPut)
    BY <1>0, <2>2, EndPut
  <2>4. /\ Steady(disk, ReapedFinal) \/ Finishes(disk, ReapedFinal)
        /\ NoneAwaits(ReapedFinal) /\ (ReapedFinal.state \in Final \/ Unspoiled(ReapedFinal))
    BY <1>0, <2>2, EndFinal DEF AllInv
  <2>5. CASE d = Half(disk, ReapedPut)
    <3>1. d.steps = disk.steps
      BY <2>2, <2>5, HalfParts
    <3>2. NoneAwaits(d)
      BY <2>2, <3>1 DEF Ends, NoneAwaits
    <3> QED
      BY <2>3, <2>5, <3>2, NoneAwaitsInv DEF Moves
  <2>6. CASE d = ReapedPut
    BY <2>3, <2>6, NoneAwaitsInv DEF Moves
  <2>7. CASE d = Half(ReapedFinal, Advance(ReapedFinal).disk)
    BY <1>1, <2>2, <2>4, <2>7
  <2> QED
    BY <1>5, <2>1, <2>5, <2>6, <2>7
<1>4. CASE d \in TornCancels
  <2> PICK b : b = Merge(disk, CancelledJob(canceller.copy))
    OBVIOUS
  <2>1. canceller.pc = "returning" /\ d = Half(disk, b)
    BY <1>4 DEF TornCancels
  <2>2. canceller.copy \in Jobs /\ Follows(disk, canceller.copy) /\ canceller.copy.state \notin Final
    BY <2>1 DEF AllInv, TypeOK, NoCanceller, PlanInv
  <2>3. b \in Jobs
    BY <1>0, <2>2, CancelledJobTyped, MergeTyped
  <2>4. Steady(disk, d) /\ d.steps = disk.steps
    BY <1>0, <2>1, <2>2, <2>3, CancelMoves, HalfParts
  <2>5. NoneAwaits(d)
    BY <1>0, <2>1, <2>4 DEF NoneAwaits
  <2> QED
    BY <2>4, <2>5, NoneAwaitsInv DEF Moves
<1> QED
  BY <1>2, <1>3, <1>4

LEMMA PlanStep ==
  ASSUME AllInv, ~({"reconcile", "torn_write"} \subseteq Events), [Next]_vars
  PROVE  PlanInv' /\ Moves(disk, disk')
<1>0. /\ TypeOK /\ OrderInv /\ EvidenceInv /\ PlanInv /\ disk \in Jobs /\ owner \in Owners
      /\ disk.state \in Final \/ Unspoiled(disk)
      /\ canceller.pc \in {"none", "awaiting", "returning"}
      /\ canceller.pc = "awaiting" => owner.pc # "none" /\ owner.cancel
      /\ canceller.pc = "returning" => owner.pc \in {"none", "ready"}
      /\ owner.pc # "none" \/ canceller.pc # "none" => NoneAwaits(disk)
      /\ Ready.pc = "ready" /\ NoOwner.pc = "none" /\ NoCanceller.pc = "none"
      /\ ~Working(NoOwner) /\ ~Working(Ready)
  BY DEF AllInv, TypeOK, OrderInv, Good, PlanInv, Ready, NoOwner, NoCanceller, Working
<1>1. CASE OwnerCancelled
  <2>1. /\ disk' = disk /\ owner' = NoOwner /\ (canceller.pc = "none" => canceller'.pc = "none")
        /\ canceller'.copy = canceller.copy
    BY <1>1 DEF OwnerCancelled, AllInv, TypeOK, NoCanceller
  <2> QED
    BY <1>0, <2>1, PlanQuiet
<1>2. CASE OwnerAdvances
  <2>1. /\ disk' = Advance(disk).disk /\ owner' = Advance(disk).owner
        /\ canceller' = canceller /\ canceller.pc = "none" /\ owner.pc = "ready"
    BY <1>0, <1>2 DEF OwnerAdvances
  <2>2. Advances(disk, disk', owner')
    BY <1>0, <2>1, AdvanceMoves DEF AllInv
  <2>3. Steady(disk, disk') \/ Finishes(disk, disk')
    BY <2>2, StayMoves, Compose DEF Advances
  <2> QED
    BY <2>1, <2>2, <2>3 DEF Advances, PlanInv, Moves
<1>3. CASE Launch
  BY <1>3, PlanLaunch
<1>4. CASE LaunchFails
  <2>1. disk' = disk /\ owner' = NoOwner /\ canceller' = canceller
    BY <1>4 DEF LaunchFails
  <2> QED
    BY <1>0, <2>1, PlanQuiet
<1>5. CASE Reap
  BY <1>5, PlanReap
<1>6. CASE Start \/ ReconcilePending
  <2>1. /\ disk' = disk /\ owner' = Ready /\ canceller' = canceller
        /\ disk.state \notin Final /\ disk.state # "awaiting_approval"
    BY <1>6 DEF Start, ReconcilePending, Final
  <2>2. NoneAwaits(disk)
    BY <1>0, <2>1 DEF PlanInv, AwaitInv, NoneAwaits
  <2> QED
    BY <1>0, <2>1, <2>2, PlanQuiet
<1>7. ASSUME NEW s \in Steps, ApproveAndStart(s) PROVE PlanInv' /\ Moves(disk, disk')
  BY <1>7, PlanApprove
<1>8. CASE CancelUnowned
  <2>1. /\ disk' = Merge(disk, CancelledJob(disk)) /\ canceller' = canceller
        /\ canceller.pc = "none" /\ owner' = owner /\ owner.pc = "none" /\ disk.state \notin Final
    BY <1>8 DEF CancelUnowned, OwnerLive
  <2>2. Steady(disk, disk') /\ disk'.state \in Final
    BY <1>0, <2>1, CancelMoves DEF Follows
  <2>3. AwaitInv(disk') /\ HandsOn(disk', owner')
    BY <2>1, <2>2 DEF AwaitInv, HandsOn, Working
  <2> QED
    BY <2>1, <2>2, <2>3 DEF PlanInv, Moves
<1>9. CASE CancelOwned
  <2>1. /\ disk' = disk /\ owner.pc # "none" /\ disk.state \notin Final
        /\ canceller' = [pc |-> "awaiting", copy |-> disk]
        /\ owner'.copy = owner.copy /\ owner'.step = owner.step /\ owner'.pc = owner.pc
    BY <1>9 DEF CancelOwned, OwnerLive, AllInv, TypeOK, Owners, NoOwner
  <2> QED
    BY <1>0, <2>1, PlanQuiet
<1>10. CASE Shutdown
  <2>1. /\ disk' = disk /\ canceller' = canceller
        /\ owner'.copy = owner.copy /\ owner'.step = owner.step /\ owner'.pc = owner.pc
    BY <1>10 DEF Shutdown, AllInv, TypeOK, Owners, NoOwner
  <2> QED
    BY <1>0, <2>1, PlanQuiet
<1>11. CASE CancelReturns
  <2>1. /\ disk' = Merge(disk, CancelledJob(canceller.copy)) /\ canceller' = NoCanceller
        /\ owner' = owner /\ canceller.pc = "returning"
    BY <1>11 DEF CancelReturns
  <2>2. canceller.copy \in Jobs /\ Follows(disk, canceller.copy) /\ canceller.copy.state \notin Final
    BY <2>1 DEF AllInv, TypeOK, NoCanceller, PlanInv
  <2>3. Steady(disk, disk') /\ disk'.state \in Final /\ NoneAwaits(disk')
    BY <1>0, <2>1, <2>2, CancelMoves
  <2>4. ~Working(owner')
    BY <1>0, <2>1 DEF Working
  <2> QED
    BY <1>0, <2>1, <2>3, <2>4, NoneAwaitsInv DEF PlanInv, HandsOn, Moves
<1>12. ASSUME NEW s \in Steps, NEW k \in Launches, WorkerExits(s, k) \/ WorkerLost(s, k)
       PROVE PlanInv' /\ Moves(disk, disk')
  <2>1. disk' = disk /\ owner' = owner /\ canceller' = canceller
    BY <1>12 DEF WorkerExits, WorkerLost
  <2> QED
    BY <1>0, <2>1, PlanQuiet
<1>13. ASSUME NEW s \in Steps, ReconcileExit(s) PROVE PlanInv' /\ Moves(disk, disk')
  BY <1>13, PlanReconcile
<1>14. CASE Restart
  <2>1. disk' = disk /\ owner' = NoOwner /\ canceller' = NoCanceller
    BY <1>14 DEF Restart, Reboot
  <2> QED
    BY <1>0, <2>1, PlanQuiet
<1>15. CASE RestartTorn \/ RestartReaping
  <2>1. "torn_write" \in Events /\ "reconcile" \notin Events
    BY <1>15, TornReboots
  <2>2. TornReconciles = {}
    BY <2>1 DEF TornReconciles, Reconcilable
  <2>3. PICK d \in TornAdvances \cup TornReaps \cup TornCancels : Reboot(d)
    BY <1>15, <2>2, TornReboots DEF Torn
  <2>4. AwaitInv(d) /\ Moves(disk, d)
    BY <2>1, PlanTorn
  <2>5. disk' = d /\ owner' = NoOwner /\ canceller' = NoCanceller
    BY <2>3 DEF Reboot
  <2> QED
    BY <1>0, <2>1, <2>4, <2>5 DEF PlanInv, HandsOn
<1>17. CASE RestartLaunching
  <2>1. disk' = disk /\ owner' = NoOwner /\ canceller' = NoCanceller
    BY <1>17 DEF RestartLaunching, Reboot
  <2> QED
    BY <1>0, <2>1, PlanQuiet
<1>16. CASE UNCHANGED vars
  BY <1>0, <1>16, PlanQuiet DEF vars
<1> QED
  BY <1>1, <1>2, <1>3, <1>4, <1>5, <1>6, <1>7, <1>8, <1>9, <1>10, <1>11, <1>12, <1>13, <1>14,
     <1>15, <1>16, <1>17
     DEF Next, OwnerStep, CallerStep, WorkerStep, Reconcile

-----------------------------------------------------------------------------
(* The refinement mapping: the finished steps are the first ones, so that   *)
(* done counts them.                                                        *)

InPrefix(job) == \A r \in Steps : job.steps[r].state = "completed" => Before(r, job)

PrefixOf(job) == {d \in 0 .. NSteps : \A s \in 1 .. d : job.steps[s].state = "completed"}
DoneOf(job) == CHOOSE d \in PrefixOf(job) : \A e \in PrefixOf(job) : e <= d
ApprovedOf(job) == {s \in Steps : job.steps[s].approved}

LEMMA DoneInPrefix == OrderInv /\ EvidenceInv => InPrefix(disk)
<1> SUFFICES ASSUME OrderInv, EvidenceInv, NEW r \in Steps, disk.steps[r].state = "completed"
             PROVE  Before(r, disk)
  BY DEF InPrefix
<1>1. PICK k \in Launches : fate[r][k] = "zero"
  BY DEF EvidenceInv, Sound, Attests
<1>2. r \in Ran
  BY <1>1 DEF Ran, Launched
<1> QED
  BY <1>2 DEF OrderInv, Good

LEMMA DoneIs ==
  ASSUME NEW job, InPrefix(job)
  PROVE  /\ DoneOf(job) \in 0 .. NSteps
         /\ \A r \in Steps : job.steps[r].state = "completed" <=> r <= DoneOf(job)
<1> DEFINE Left == {r \in Steps : job.steps[r].state # "completed"}
<1>1. PICK d \in 0 .. NSteps : \A r \in Steps : job.steps[r].state = "completed" <=> r <= d
  <2>1. CASE Left = {}
    <3>1. NSteps \in 0 .. NSteps /\ \A r \in Steps : r <= NSteps
      BY JobAssumption DEF Steps
    <3> QED
      BY <2>1, <3>1
  <2>2. CASE Left # {}
    <3>1. Left \in SUBSET Nat
      BY Bounds
    <3>2. PICK m \in Left : \A r \in Left : m <= r
      <4> HIDE DEF Left
      <4> QED
        BY <2>2, <3>1, Least
    <3>3. m \in Steps /\ m - 1 \in 0 .. NSteps
      BY JobAssumption DEF Steps
    <3>4. \A r \in Steps : r < m => job.steps[r].state = "completed"
      <4> SUFFICES ASSUME NEW r \in Steps, r < m, r \in Left PROVE FALSE
        OBVIOUS
      <4> QED
        BY <3>2, <3>3, JobAssumption DEF Steps
    <3>5. \A r \in Steps : job.steps[r].state = "completed" => r < m
      <4> SUFFICES ASSUME NEW r \in Steps, job.steps[r].state = "completed", ~(r < m) PROVE FALSE
        OBVIOUS
      <4>1. r # m /\ m \in 1 .. r - 1
        BY <3>2, <3>3, JobAssumption DEF Steps
      <4> QED
        BY <3>2, <4>1 DEF InPrefix, Before
    <3>6. \A r \in Steps : r < m <=> r <= m - 1
      BY <3>3, JobAssumption DEF Steps
    <3> QED
      BY <3>3, <3>4, <3>5, <3>6
  <2> QED
    BY <2>1, <2>2
<1>2. d \in PrefixOf(job)
  BY <1>1, JobAssumption DEF PrefixOf, Steps
<1>3. \A e \in PrefixOf(job) : e <= d
  <2> SUFFICES ASSUME NEW e \in PrefixOf(job), ~(e <= d) PROVE FALSE
    OBVIOUS
  <2>1. e \in Steps /\ e \in 1 .. e /\ e \in 0 .. NSteps
    BY JobAssumption DEF PrefixOf, Steps
  <2>2. job.steps[e].state = "completed"
    BY <2>1 DEF PrefixOf
  <2> QED
    BY <1>1, <2>1, <2>2
<1>4. \A e \in PrefixOf(job) : (\A g \in PrefixOf(job) : g <= e) => e = d
  BY <1>2, <1>3, JobAssumption DEF PrefixOf
<1>5. DoneOf(job) = d
  BY <1>2, <1>3, <1>4 DEF DoneOf
<1> QED
  BY <1>1, <1>5

\* The next step of the plan is the only one whose predecessors, and not itself,
\* have finished.
LEMMA NextIs ==
  ASSUME NEW job, InPrefix(job), NEW s \in Steps,
         job.steps[s].state # "completed", Before(s, job)
  PROVE  s = DoneOf(job) + 1
<1>1. /\ DoneOf(job) \in 0 .. NSteps
      /\ \A r \in Steps : job.steps[r].state = "completed" <=> r <= DoneOf(job)
  BY DoneIs
<1>2. ~(s <= DoneOf(job))
  BY <1>1
<1>3. CASE s # 1
  <2>1. s - 1 \in Steps /\ s - 1 \in 1 .. s - 1
    BY <1>3, JobAssumption DEF Steps
  <2>2. s - 1 <= DoneOf(job)
    BY <1>1, <2>1 DEF Before
  <2> QED
    BY <1>1, <1>2, <2>2, JobAssumption DEF Steps
<1> QED
  BY <1>1, <1>2, <1>3, JobAssumption DEF Steps

LEMMA SameDoneOf ==
  ASSUME NEW a, NEW b, SameDone(a, b)
  PROVE  DoneOf(a) = DoneOf(b)
<1>1. \A d \in 0 .. NSteps : \A s \in 1 .. d : s \in Steps
  BY JobAssumption DEF Steps
<1>2. PrefixOf(a) = PrefixOf(b)
  BY <1>1 DEF SameDone, PrefixOf
<1> QED
  BY <1>2 DEF DoneOf

LEMMA AllDoneIs ==
  ASSUME NEW job, InPrefix(job)
  PROVE  AllDone(job) <=> DoneOf(job) = NSteps
BY DoneIs, JobAssumption DEF AllDone, Steps

\* A step of StepPlan over the jobs before and after.
PlanMove(a, b) ==
  \/ /\ OutOf(a) = "open" /\ DoneOf(a) + 1 \in Approvals \ ApprovedOf(a)
     /\ ApprovedOf(b) = ApprovedOf(a) \cup {DoneOf(a) + 1}
     /\ OutOf(b) = OutOf(a) /\ DoneOf(b) = DoneOf(a)
  \/ /\ OutOf(a) = "open" /\ DoneOf(a) < NSteps
     /\ DoneOf(a) + 1 \in Approvals => DoneOf(a) + 1 \in ApprovedOf(a)
     /\ DoneOf(b) = DoneOf(a) + 1
     /\ OutOf(b) = "open" \/ (DoneOf(b) = NSteps /\ OutOf(b) = "completed")
     /\ ApprovedOf(b) = ApprovedOf(a)
  \/ /\ OutOf(a) = "open" /\ ApprovedOf(b) = ApprovedOf(a) /\ DoneOf(b) = DoneOf(a)
     /\ \/ OutOf(b) = "completed" /\ DoneOf(a) = NSteps
        \/ OutOf(b) = "failed" /\ DoneOf(a) < NSteps
        \/ OutOf(b) = "cancelled"

Idles(a, b) == OutOf(b) = OutOf(a) /\ DoneOf(b) = DoneOf(a) /\ ApprovedOf(b) = ApprovedOf(a)

LEMMA MovesAreSteps ==
  ASSUME NEW a, NEW b, InPrefix(a), InPrefix(b), a \in Jobs, b \in Jobs, Moves(a, b)
  PROVE  PlanMove(a, b) \/ Idles(a, b)
<1>0. /\ DoneOf(a) \in 0 .. NSteps /\ DoneOf(b) \in 0 .. NSteps
      /\ \A r \in Steps : a.steps[r].state = "completed" <=> r <= DoneOf(a)
      /\ \A r \in Steps : b.steps[r].state = "completed" <=> r <= DoneOf(b)
  BY DoneIs
<1>1. CASE Steady(a, b)
  <2>1. DoneOf(b) = DoneOf(a) /\ ApprovedOf(b) = ApprovedOf(a)
    BY <1>1, SameDoneOf DEF Steady, SameApproved, ApprovedOf
  <2>2. CASE OutOf(b) = OutOf(a)
    BY <2>1, <2>2 DEF Idles
  <2>3. CASE a.state \notin Final /\ b.state = "cancelled"
    BY <2>1, <2>3 DEF PlanMove, OutOf, Final
  <2>4. CASE a.state \notin Final /\ b.state = "failed" /\ ~AllDone(a)
    <3>1. DoneOf(a) < NSteps
      BY <1>0, <2>4, AllDoneIs, JobAssumption
    <3> QED
      BY <2>1, <2>4, <3>1 DEF PlanMove, OutOf, Final
  <2>5. CASE a.state \notin Final /\ b.state = "completed" /\ AllDone(a)
    <3>1. DoneOf(a) = NSteps
      BY <2>5, AllDoneIs
    <3> QED
      BY <2>1, <2>5, <3>1 DEF PlanMove, OutOf, Final
  <2> QED
    BY <1>1, <2>2, <2>3, <2>4, <2>5 DEF Steady
<1>2. CASE Finishes(a, b)
  <2>1. PICK s \in Steps :
          /\ a.steps[s].state # "completed" /\ Before(s, a) /\ (s \in Approvals => a.steps[s].approved)
          /\ \A r \in Steps : b.steps[r].state = "completed" <=> (r = s \/ a.steps[r].state = "completed")
    BY <1>2 DEF Finishes
  <2>2. s = DoneOf(a) + 1
    BY <2>1, NextIs
  <2>3. \A r \in Steps : r <= DoneOf(b) <=> r <= DoneOf(a) + 1
    BY <1>0, <2>1, <2>2, JobAssumption DEF Steps
  <2>4. DoneOf(b) = DoneOf(a) + 1
    <3>1. DoneOf(a) + 1 <= DoneOf(b)
      BY <1>0, <2>1, <2>2
    <3>2. ~(DoneOf(a) + 2 <= DoneOf(b))
      <4> SUFFICES ASSUME DoneOf(a) + 2 <= DoneOf(b) PROVE FALSE
        OBVIOUS
      <4>1. DoneOf(b) \in Steps
        BY <1>0, JobAssumption DEF Steps
      <4> QED
        BY <1>0, <2>3, <4>1
    <3> QED
      BY <1>0, <3>1, <3>2
  <2>5. DoneOf(a) < NSteps
    BY <1>0, <2>4, JobAssumption
  <2>6. DoneOf(a) + 1 \in Approvals => DoneOf(a) + 1 \in ApprovedOf(a)
    BY <2>1, <2>2 DEF ApprovedOf
  <2>7. OutOf(a) = "open" /\ ApprovedOf(b) = ApprovedOf(a)
    BY <1>2 DEF Finishes, OutOf, SameApproved, ApprovedOf
  <2>8. OutOf(b) = "open" \/ (DoneOf(b) = NSteps /\ OutOf(b) = "completed")
    BY <1>2, AllDoneIs DEF Finishes, OutOf, Final
  <2> QED
    BY <2>4, <2>5, <2>6, <2>7, <2>8 DEF PlanMove
<1>3. CASE Approves(a, b)
  <2>1. PICK s \in Steps \cap Approvals :
          /\ a.steps[s].state # "completed" /\ Before(s, a)
          /\ ~a.steps[s].approved /\ b.steps[s].approved
          /\ \A r \in Steps \ {s} : b.steps[r].approved = a.steps[r].approved
    BY <1>3 DEF Approves
  <2>2. s = DoneOf(a) + 1
    BY <2>1, NextIs
  <2>3. DoneOf(b) = DoneOf(a) /\ OutOf(a) = "open" /\ OutOf(b) = "open"
    BY <1>3, SameDoneOf DEF Approves, OutOf
  <2>4. ApprovedOf(b) = ApprovedOf(a) \cup {s} /\ s \in Approvals \ ApprovedOf(a)
    BY <2>1 DEF ApprovedOf
  <2> QED
    BY <2>2, <2>3, <2>4 DEF PlanMove
<1> QED
  BY <1>1, <1>2, <1>3 DEF Moves

\* The job's files implement StepPlan: steps finish one after the other, a step
\* that needs an approval after it has one, and the outcome stays (_advance_job,
\* _execute_step, _merge_job, cancel).  A death between the two puts of a
\* reconciliation is excluded: it can leave a step finished that the plan has not
\* come to.  So is one inside the job's first put (torn_create), after which the
\* next start completes the job with no step done.
THEOREM JobsFollowTheirPlan ==
  ASSUME ~({"reconcile", "torn_write"} \subseteq Events), "torn_create" \notin Events
  PROVE  Spec => ImplementsPlan
<1>1. Init => Plan!PlanInit
  <2> SUFFICES ASSUME Init PROVE Plan!PlanInit
    OBVIOUS
  <2>1. \A s \in Steps : disk.steps[s].state = "pending" /\ ~disk.steps[s].approved
    BY DEF Init, Fresh
  <2>2. InPrefix(disk)
    BY <2>1 DEF InPrefix
  <2>3. DoneOf(disk) = 0
    <3>1. CASE DoneOf(disk) # 0
      <4>1. DoneOf(disk) \in Steps
        BY <2>2, <3>1, DoneIs, JobAssumption DEF Steps
      <4> QED
        BY <2>1, <2>2, <4>1, DoneIs, JobAssumption DEF Steps
    <3> QED
      BY <3>1
  <2>4. disk.state \notin Final
    BY DEF Init, Fresh, Final
  <2> QED
    BY <2>1, <2>3, <2>4 DEF Plan!PlanInit, DoneOf, PrefixOf, Prefix
<1>2. AllInv /\ InPrefix(disk) /\ InPrefix(disk)' /\ TypeOK' /\ [Next]_vars => [Plan!PlanNext]_(Plan!plan)
  <2> SUFFICES ASSUME AllInv, InPrefix(disk), InPrefix(disk)', TypeOK', [Next]_vars
               PROVE  [Plan!PlanNext]_(Plan!plan)
    OBVIOUS
  <2>1. PICK a : a = disk
    OBVIOUS
  <2>2. PICK b : b = disk'
    OBVIOUS
  <2>3. InPrefix(a) /\ InPrefix(b) /\ a \in Jobs /\ b \in Jobs
    BY <2>1, <2>2 DEF AllInv, TypeOK, InPrefix, Before
  <2>4. Moves(a, b)
    BY <2>1, <2>2, PlanStep
  <2>5. PlanMove(a, b) \/ Idles(a, b)
    BY <2>3, <2>4, MovesAreSteps
  <2>6. Prefix = PrefixOf(a) /\ Prefix' = PrefixOf(b)
    BY <2>1, <2>2 DEF Prefix, PrefixOf
  <2> QED
    BY <2>1, <2>2, <2>5, <2>6
       DEF PlanMove, Idles, OutOf, DoneOf, ApprovedOf, Plan!PlanNext, Plan!plan, Plan!Approve,
           Plan!Finish, Plan!Complete, Plan!Fail, Plan!Cancel
<1>3. AllInv /\ [Next]_vars => PlanInv'
  BY PlanStep
<1>4. TypeOK /\ OrderInv /\ [Next]_vars => OrderInv'
  BY OrderKept
<1>5. (Init => whole) /\ (whole /\ [Next]_vars => whole')
  BY ListedStays DEF Init
<1> QED
  BY <1>1, <1>2, <1>3, <1>4, <1>5, TypeCorrect, OrderInit, EvidenceInit, EvidenceStep, PlanInit,
     DoneInPrefix, PTL DEF Spec, AllInv, ImplementsPlan, Plan!PlanSpec
=============================================================================
