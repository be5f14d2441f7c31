------------------------- MODULE TaskKernelTheorems -------------------------
(***************************************************************************)
(* What TaskKernel guarantees, from the invariant of TaskKernelProofs.       *)
(***************************************************************************)
EXTENDS TaskKernelProofs

LEMMA InitInv == KernelInit => Inv
<1>. SUFFICES ASSUME KernelInit PROVE Inv
  OBVIOUS
<1>1. TypeOK
  <2>1. task \in Task
    <3>1. "waiting" \in Terminal \cup {"waiting", "running", "stale"} /\ 1 \in Nat /\ 0 \in Nat
          /\ 0 \in 0 .. MaxEpisodes /\ FALSE \in BOOLEAN
      BY KernelAssumption
    <3>. QED
      BY <3>1, Zenon DEF KernelInit, Task
  <2>2. Unused \in Episode /\ NoEffect \in Effect
    BY KernelAssumption DEF Unused, NoEffect, Episode, EpisodeStates, Effect
  <2>. QED
    BY <2>1, <2>2 DEF KernelInit, TypeOK
<1>2. /\ task.status = "waiting" /\ task.active = 0
      /\ \A p \in Episodes : episode[p].state = "none"
      /\ \A e \in Effects : effect[e].state = "none" /\ effect[e].episode = 0
  BY DEF KernelInit, Unused, NoEffect
<1>3. Ordered
  BY <1>2 DEF Ordered
<1>4. Accounted
  BY <1>2 DEF Accounted, LiveIsActive, ActiveIsNewest, UntouchedHasNone, OutcomeIsSettled,
    CancelledTogether, NoneIsNowhere, OpenIsActive, Proven, Live, Outcomes, Terminal, Episodes
<1>. QED
  BY <1>1, <1>3, <1>4 DEF Inv

LEMMA ReadingTyped ==
  ASSUME TypeOK, NEW proposed \in 0 .. MaxTime
  PROVE  Reading(proposed) \in Nat /\ Reading(proposed) >= clock
BY KernelAssumption DEF TypeOK, Reading

LEMMA UnchangedInv ==
  ASSUME Inv, UNCHANGED <<task, episode, effect>>, clock' \in Nat
  PROVE  Inv'
BY DEF Inv, TypeOK, Ordered, Accounted, LiveIsActive, ActiveIsNewest, UntouchedHasNone,
  OutcomeIsSettled, CancelledTogether, NoneIsNowhere, OpenIsActive, Proven

LEMMA ActiveIsEpisode == Inv /\ task.active # 0 => task.active \in Episodes
BY DEF Inv, TypeOK, Task, Episodes

LEMMA CancelInv ==
  ASSUME Inv, clock' \in Nat, Cancel
  PROVE  Inv'
<1>1. task.status \notin Terminal
  BY DEF Cancel
<1>2. CASE task.active = 0
  BY <1>1, <1>2, CancelIdleInv
<1>3. CASE task.active # 0
  BY <1>1, <1>3, ActiveIsEpisode, CancelActiveInv
<1>. QED
  BY <1>2, <1>3

LEMMA RecoverInv ==
  ASSUME Inv, clock' \in Nat, NEW now \in Nat, RecoverExpired(now)
  PROVE  Inv'
<1>. DEFINE p == task.active
<1>1. p \in Episodes
  BY ActiveIsEpisode DEF RecoverExpired
<1>2. CASE /\ episode[p].state = "leased" /\ EffectsOf(p) = {}
           /\ episode' = Ended(p, "expired") /\ task' = Waiting /\ UNCHANGED effect
  BY <1>1, <1>2, RecoverIdleInv
<1>3. CASE /\ episode[p].state = "running"
           /\ episode' = Ended(p, "unknown") /\ effect' = Lost(p) /\ task' = Stale
  BY <1>1, <1>3, RecoverRunningInv
<1>. QED
  BY <1>2, <1>3 DEF RecoverExpired

LEMMA LeaseOperationInv ==
  ASSUME Inv, clock' \in Nat, NEW now \in Nat, NEW d \in Devices, NEW p \in Episodes,
         LeaseOperation(d, p, now)
  PROVE  Inv'
<1>1. CASE Start(d, p, now)
  BY <1>1, StartInv
<1>2. CASE MarkUnknown(d, p, now)
  BY <1>2, MarkUnknownInv
<1>3. CASE ReleaseUnstarted(d, p, now)
  BY <1>3, ReleaseUnstartedInv
<1>4. CASE Refused(d, p, now)
  BY <1>4, UnchangedInv DEF Refused
<1>5. CASE \E ttl \in Ttls : RenewLease(d, p, ttl, now) \/ Renew(d, p, ttl, now)
  <2>1. PICK ttl \in Ttls : RenewLease(d, p, ttl, now) \/ Renew(d, p, ttl, now)
    BY <1>5
  <2>2. ttl \in Nat
    BY KernelAssumption
  <2>. QED
    BY <2>1, <2>2, RenewLeaseInv, RenewInv
<1>6. CASE \E outcome \in Outcomes : Finish(d, p, outcome, now)
  BY <1>6, FinishInv
<1>7. CASE \E e \in Effects : ConfirmEffect(d, p, e, now) \/ RecordEffectObservation(d, p, e, now)
  BY <1>7, ConfirmEffectInv, RecordEffectObservationInv
<1>8. CASE \E e \in Effects, manifest \in BOOLEAN : DispatchEffect(d, p, e, manifest, now)
  BY <1>8, DispatchEffectInv
<1>. QED
  BY <1>1, <1>2, <1>3, <1>4, <1>5, <1>6, <1>7, <1>8 DEF LeaseOperation

LEMMA OperationInv ==
  ASSUME Inv, clock' \in Nat, NEW now \in Nat, Operation(now)
  PROVE  Inv'
<1>1. CASE Cancel
  BY <1>1, CancelInv
<1>2. CASE Resume
  BY <1>2, ResumeInv
<1>3. CASE RecoverExpired(now)
  BY <1>3, RecoverInv
<1>4. CASE \E d \in Devices, p \in Episodes : LeaseOperation(d, p, now)
  BY <1>4, LeaseOperationInv
<1>5. CASE \E d \in Devices, p \in Episodes, ttl \in Ttls, budget \in Budgets :
             Claim(d, p, ttl, budget, now)
  <2>1. Ttls \subseteq Nat /\ Budgets \subseteq Nat
    BY KernelAssumption
  <2>. QED
    BY <1>5, <2>1, ClaimInv
<1>6. CASE \E d \in Devices, e \in Effects : AdmitObservation(d, e)
  BY <1>6, AdmitObservationInv
<1>7. CASE \E d \in Devices, e \in Effects, outcome \in Outcomes : ReconcileEffect(d, e, outcome)
  BY <1>7, ReconcileEffectInv
<1>. QED
  BY <1>1, <1>2, <1>3, <1>4, <1>5, <1>6, <1>7 DEF Operation

LEMMA StepInv == Inv /\ [KernelNext]_kernelVars => Inv'
<1>. SUFFICES ASSUME Inv, [KernelNext]_kernelVars PROVE Inv'
  OBVIOUS
<1>1. CASE KernelNext
  <2>1. PICK proposed \in 0 .. MaxTime : Transaction(proposed)
    BY <1>1 DEF KernelNext
  <2>2. Reading(proposed) \in Nat
    BY ReadingTyped DEF Inv
  <2>. QED
    BY <2>1, <2>2, OperationInv DEF Transaction
<1>2. CASE UNCHANGED kernelVars
  <2>1. UNCHANGED <<task, episode, effect>> /\ clock' \in Nat
    BY <1>2 DEF kernelVars, Inv, TypeOK
  <2>. QED
    BY <2>1, UnchangedInv
<1>. QED
  BY <1>1, <1>2

LEMMA Invariance == KernelSpec => []Inv
BY InitInv, StepInv, PTL DEF KernelSpec

-----------------------------------------------------------------------------
(* The rows of the task, its episodes and its effects keep their types.      *)
THEOREM TypeCorrect == KernelSpec => []TypeOK
<1>1. Inv => TypeOK
  BY DEF Inv
<1>. QED
  BY <1>1, Invariance, PTL

(* The outcome a task reports is its newest episode's and all its effects    *)
(* are confirmed (kernel.ts finish, reconcileEffect, resume).                *)
THEOREM OutcomesAreProven == KernelSpec => []OutcomeIsProven
<1>1. Inv => OutcomeIsProven
  <2>. SUFFICES ASSUME Inv, task.status \in Outcomes PROVE OutcomeIsProven
    BY DEF OutcomeIsProven
  <2>1. PICK p \in Episodes :
          episode[p].state = task.status /\ \A q \in Episodes : episode[q].state # "none" => q <= p
    BY DEF Inv, Accounted, Proven
  <2>2. Unconfirmed(p) = {}
    BY <2>1 DEF Inv, Accounted, OutcomeIsSettled, Unconfirmed, EffectsOf
  <2>. QED
    BY <2>1, <2>2 DEF OutcomeIsProven
<1>. QED
  BY <1>1, Invariance, PTL

(* Unless the task is cancelled, external work whose outcome is not known    *)
(* belongs to the active episode (kernel.ts claim, markUnknown,               *)
(* recoverExpired, reconcileEffect, resume).                                  *)
THEOREM NothingOpenIsLeftBehind == KernelSpec => []UnresolvedIsActive
<1>1. Inv => UnresolvedIsActive
  <2>. SUFFICES ASSUME Inv, NEW e \in AnyUnconfirmed
                PROVE  task.status = "cancelled" \/ effect[e].episode = task.active
    BY DEF UnresolvedIsActive
  <2>1. e \in Effects /\ effect[e].state \in {"dispatched", "unknown"}
    BY DEF AnyUnconfirmed, Inv, TypeOK, Effect
  <2>. QED
    BY <2>1 DEF Inv, Accounted, OpenIsActive
<1>. QED
  BY <1>1, Invariance, PTL
-----------------------------------------------------------------------------
(* A host task stays within the budget of its claim, whatever else the task  *)
(* does: only renew would not, and it refuses host tasks.                     *)
Budgeted == TypeOK /\ WithinBudget

LEMMA HostStays ==
  ASSUME task \in Task
  PROVE  /\ Saved(task).host = task.host
         /\ Stale.host = task.host /\ Waiting.host = task.host
         /\ \A outcome : Finished(outcome).host = task.host /\ Reconciled(outcome).host = task.host
BY DEF Task, Saved, Stale, Waiting, Finished, Reconciled

LEMMA HostKept ==
  ASSUME TypeOK, NEW now, Operation(now)
  PROVE  task'.host = task.host
<1>. DEFINE Kept == task'.host = task.host
<1>0. task \in Task
  BY DEF TypeOK
<1>1. UNCHANGED task \/ task' = Saved(task) => Kept
  BY <1>0, HostStays
<1>2. task' = Stale \/ task' = Waiting => Kept
  BY <1>0, HostStays
<1>3. (\E outcome : task' = Finished(outcome) \/ task' = Reconciled(outcome)) => Kept
  BY <1>0, HostStays
<1>4. Cancel \/ Resume => Kept
  BY <1>0 DEF Cancel, Resume, Saved, Task
<1>5. ASSUME NEW d, NEW p, NEW ttl, NEW budget, Claim(d, p, ttl, budget, now) PROVE Kept
  BY <1>0, <1>5 DEF Claim, Saved, Task
<1>6. ASSUME NEW d, NEW p, LeaseOperation(d, p, now) PROVE Kept
  BY <1>1, <1>2, <1>3, <1>6 DEF LeaseOperation, Start, MarkUnknown, ReleaseUnstarted, Refused,
    RenewLease, Renew, Finish, ConfirmEffect, RecordEffectObservation, DispatchEffect
<1>7. RecoverExpired(now) => Kept
  BY <1>2 DEF RecoverExpired
<1>8. ASSUME NEW d, NEW e PROVE AdmitObservation(d, e) => Kept
  BY <1>1 DEF AdmitObservation
<1>9. ASSUME NEW d, NEW e, NEW outcome PROVE ReconcileEffect(d, e, outcome) => Kept
  BY <1>3 DEF ReconcileEffect
<1>. HIDE DEF Kept
<1>10. Kept
  BY <1>4, <1>5, <1>6, <1>7, <1>8, <1>9 DEF Operation
<1>. QED
  BY <1>10 DEF Kept

LEMMA BudgetStep == Budgeted /\ TypeOK' /\ [KernelNext]_kernelVars => WithinBudget'
<1>. SUFFICES ASSUME TypeOK, WithinBudget, TypeOK', [KernelNext]_kernelVars, task'.host,
                     NEW q \in Episodes
              PROVE  episode'[q].until <= episode'[q].deadline
  BY DEF Budgeted, WithinBudget
<1>. USE DEF TypeOK, Episode
<1>1. CASE UNCHANGED kernelVars
  BY <1>1 DEF kernelVars, WithinBudget
<1>2. CASE KernelNext
  <2>1. PICK proposed \in 0 .. MaxTime : Operation(Reading(proposed))
    BY <1>2 DEF KernelNext, Transaction
  <2>. DEFINE now == Reading(proposed)
  <2>2. now \in Nat
    BY ReadingTyped
  <2>3. task.host
    BY <2>1, HostKept
  <2>4. episode[q].until <= episode[q].deadline
    BY <2>3 DEF WithinBudget
  <2>. HIDE DEF now
  <2>5. CASE Cancel \/ Resume \/ RecoverExpired(now)
    <3>1. CASE UNCHANGED episode
      BY <2>4, <3>1
    <3>2. CASE episode' = [episode EXCEPT ![task.active] = [@ EXCEPT !.state = "cancelled", !.until = 0]]
      BY <2>4, <3>2
    <3>3. CASE \E state : episode' = Ended(task.active, state)
      BY <2>4, <3>3 DEF Ended
    <3>. QED
      BY <2>5, <3>1, <3>2, <3>3 DEF Cancel, Resume, RecoverExpired
  <2>6. CASE \E d \in Devices, p \in Episodes : LeaseOperation(d, p, now)
    <3>1. PICK d \in Devices, p \in Episodes : LeaseOperation(d, p, now)
      BY <2>6
    <3>2. CASE \E ttl \in Ttls : RenewLease(d, p, ttl, now) \/ Renew(d, p, ttl, now)
      BY <2>2, <2>3, <2>4, <3>2, KernelAssumption DEF RenewLease, Renew
    <3>3. CASE UNCHANGED episode
      BY <2>4, <3>3
    <3>4. CASE \E state : episode' = Ended(p, state) \/ episode' = [episode EXCEPT ![p].state = state]
      BY <2>4, <3>4 DEF Ended
    <3>5. CASE episode' = [episode EXCEPT ![p] = [@ EXCEPT !.state = "unknown", !.until = 0]]
      BY <2>4, <3>5
    <3>. QED
      BY <3>1, <3>2, <3>3, <3>4, <3>5 DEF LeaseOperation, Start, MarkUnknown, ReleaseUnstarted,
        Refused, Finish, ConfirmEffect, RecordEffectObservation, DispatchEffect
  <2>7. CASE \E d \in Devices, p \in Episodes, ttl \in Ttls, budget \in Budgets :
               Claim(d, p, ttl, budget, now)
    BY <2>2, <2>4, <2>7, KernelAssumption DEF Claim
  <2>8. CASE \E d \in Devices, e \in Effects : AdmitObservation(d, e)
    BY <2>4, <2>8 DEF AdmitObservation
  <2>9. CASE \E d \in Devices, e \in Effects, outcome \in Outcomes : ReconcileEffect(d, e, outcome)
    BY <2>4, <2>9 DEF ReconcileEffect
  <2>. QED
    BY <2>1, <2>5, <2>6, <2>7, <2>8, <2>9 DEF Operation, now
<1>. QED
  BY <1>1, <1>2

(* A host command's lease never outlasts the budget of its claim             *)
(* (kernel.ts claim, renewLease, renew).                                       *)
THEOREM HostBudgetHolds == KernelSpec => []WithinBudget
<1>1. KernelInit => WithinBudget
  BY DEF KernelInit, WithinBudget, Unused
<1>2. TypeOK /\ TypeOK' /\ WithinBudget /\ [KernelNext]_kernelVars => WithinBudget'
  BY BudgetStep DEF Budgeted
<1>. QED
  BY <1>1, <1>2, TypeCorrect, PTL DEF KernelSpec

-----------------------------------------------------------------------------
(* A cancelled task never changes again (kernel.ts cancel against every       *)
(* other operation, in any order).                                            *)
THEOREM CancellationIsFinal == KernelSpec => CancelledForGood
<1>1. Inv /\ [KernelNext]_kernelVars
      => [task.status = "cancelled" => UNCHANGED <<task, episode, effect>>]_kernelVars
  <2>. SUFFICES ASSUME Inv, KernelNext, task.status = "cancelled"
                PROVE  UNCHANGED <<task, episode, effect>>
    BY DEF kernelVars
  <2>1. PICK proposed \in 0 .. MaxTime : Operation(Reading(proposed))
    BY DEF KernelNext, Transaction
  <2>2. task.active = 0
    BY ActiveIsEpisode DEF Inv, Accounted, ActiveIsNewest, LiveIsActive, Terminal
  <2>3. ~Cancel /\ ~Resume
    BY DEF Cancel, Resume, Outcomes, Terminal
  <2>4. ~RecoverExpired(Reading(proposed))
    BY <2>2 DEF RecoverExpired
  <2>5. \A d \in Devices, p \in Episodes : ~Lease(d, p, Reading(proposed))
    BY DEF Lease, Terminal
  <2>6. \A d \in Devices, e \in Effects : ~Reconcilable(d, e)
    BY DEF Reconcilable
  <2>7. ~Admitted(Reading(proposed))
    BY DEF Admitted, Terminal
  <2>8. \A d \in Devices, p \in Episodes :
          LeaseOperation(d, p, Reading(proposed)) => Refused(d, p, Reading(proposed))
    BY <2>5 DEF LeaseOperation, Start, MarkUnknown, ReleaseUnstarted, RenewLease, Renew, Finish,
      ConfirmEffect, RecordEffectObservation, DispatchEffect
  <2>9. /\ \A d \in Devices, p \in Episodes, ttl \in Ttls, budget \in Budgets :
             ~Claim(d, p, ttl, budget, Reading(proposed))
        /\ \A d \in Devices, e \in Effects :
             ~AdmitObservation(d, e) /\ \A outcome \in Outcomes : ~ReconcileEffect(d, e, outcome)
    BY <2>6, <2>7 DEF Claim, AdmitObservation, ReconcileEffect
  <2>. QED
    BY <2>1, <2>3, <2>4, <2>8, <2>9 DEF Operation, Refused
<1>. QED
  BY <1>1, Invariance, PTL DEF KernelSpec, CancelledForGood

-----------------------------------------------------------------------------
(* A lease the clock on file has passed is dead for good (kernel.ts lease,    *)
(* database.ts now), although the host's clock may be set back.               *)
DeadStays(p) ==
  /\ episode'[p].state \in {episode[p].state, "expired", "unknown", "cancelled"}
  /\ episode'[p].until <= clock
  /\ \A e \in Effects :
       effect'[e] # effect[e] /\ effect'[e].episode = p => effect'[e].state = "unknown"

LEMMA LapsedStep ==
  ASSUME Inv, NEW now \in Nat, now >= clock, Operation(now), NEW p \in Episodes,
         episode[p].state \in {"leased", "running"}, episode[p].until <= clock
  PROVE  DeadStays(p)
<1>1. TypeOK /\ clock \in Nat /\ episode[p].until \in Nat /\ episode[p] \in Episode
  BY DEF Inv, TypeOK, Episode
<1>2. p = task.active /\ task.status \notin Terminal /\ p # 0
  BY DEF Inv, Accounted, LiveIsActive, Live, Episodes
<1>3. \A d \in Devices, q \in Episodes : ~Lease(d, q, now)
  BY <1>1, <1>2 DEF Lease
<1>4. \A d \in Devices, e \in Effects : ~Reconcilable(d, e)
  BY <1>2 DEF Reconcilable
<1>5. ~Resume
  BY <1>2 DEF Resume, Outcomes, Terminal
<1>6. UNCHANGED <<episode, effect>> => DeadStays(p)
  BY <1>1 DEF DeadStays
<1>7. ASSUME NEW state \in {"expired", "unknown"}, episode' = Ended(p, state),
             UNCHANGED effect \/ effect' = Lost(p)
      PROVE  DeadStays(p)
  <2>1. episode'[p].state = state /\ episode'[p].until = episode[p].until
    BY <1>1, <1>7 DEF Ended, TypeOK, Episode
  <2>2. \A e \in Effects : effect'[e] # effect[e] => effect'[e].state = "unknown"
    BY <1>1, <1>7 DEF Lost, TypeOK, Effect
  <2>. QED
    BY <2>1, <2>2 DEF DeadStays
<1>8. RecoverExpired(now) => DeadStays(p)
  BY <1>2, <1>7 DEF RecoverExpired
<1>9. Cancel => DeadStays(p)
  <2>. SUFFICES ASSUME Cancel PROVE DeadStays(p)
    OBVIOUS
  <2>1. /\ episode' = [episode EXCEPT ![p] = [@ EXCEPT !.state = "cancelled", !.until = 0]]
        /\ effect' = Lost(p)
    BY <1>2 DEF Cancel
  <2>2. episode'[p].state = "cancelled" /\ episode'[p].until = 0
    BY <1>1, <2>1 DEF TypeOK, Episode
  <2>3. \A e \in Effects : effect'[e] # effect[e] => effect'[e].state = "unknown"
    BY <1>1, <2>1 DEF Lost, TypeOK, Effect
  <2>. QED
    BY <1>1, <2>2, <2>3 DEF DeadStays
<1>10. ASSUME NEW d \in Devices, NEW q \in Episodes, NEW ttl \in Ttls, NEW budget \in Budgets,
              Claim(d, q, ttl, budget, now)
       PROVE  DeadStays(p)
  <2>1. q # p /\ UNCHANGED effect
    BY <1>10 DEF Claim
  <2>2. episode'[p] = [episode[p] EXCEPT !.state = "expired"]
    BY <1>2, <1>10, <2>1 DEF Claim
  <2>3. episode'[p].state = "expired" /\ episode'[p].until = episode[p].until
    BY <1>1, <2>2 DEF Episode
  <2>. QED
    BY <2>1, <2>3 DEF DeadStays
<1>11. ASSUME NEW d \in Devices, NEW q \in Episodes, LeaseOperation(d, q, now)
       PROVE  UNCHANGED <<episode, effect>>
  BY <1>3, <1>11 DEF LeaseOperation, Start, MarkUnknown, ReleaseUnstarted, Refused, RenewLease,
    Renew, Finish, ConfirmEffect, RecordEffectObservation, DispatchEffect
<1>12. \A d \in Devices, e \in Effects :
         ~AdmitObservation(d, e) /\ \A outcome \in Outcomes : ~ReconcileEffect(d, e, outcome)
  BY <1>4 DEF AdmitObservation, ReconcileEffect
<1>. QED
  BY <1>5, <1>6, <1>8, <1>9, <1>10, <1>11, <1>12 DEF Operation

THEOREM LapsedLeasesStayDead == KernelSpec => LapsedStaysDead
<1>1. Inv /\ [KernelNext]_kernelVars
      => [\A p \in Episodes :
            episode[p].state \in {"leased", "running"} /\ episode[p].until <= clock =>
              /\ episode'[p].state \in {episode[p].state, "expired", "unknown", "cancelled"}
              /\ episode'[p].until <= clock
              /\ \A e \in Effects :
                   effect'[e] # effect[e] /\ effect'[e].episode = p => effect'[e].state = "unknown"
         ]_kernelVars
  <2>. SUFFICES ASSUME Inv, KernelNext, NEW p \in Episodes,
                       episode[p].state \in {"leased", "running"}, episode[p].until <= clock
                PROVE  DeadStays(p)
    BY DEF DeadStays
  <2>1. PICK proposed \in 0 .. MaxTime : Operation(Reading(proposed))
    BY DEF KernelNext, Transaction
  <2>2. Reading(proposed) \in Nat /\ Reading(proposed) >= clock
    BY ReadingTyped DEF Inv
  <2>. QED
    BY <2>1, <2>2, LapsedStep
<1>. QED
  BY <1>1, Invariance, PTL DEF KernelSpec, LapsedStaysDead

-----------------------------------------------------------------------------
(* Attempts are made one at a time.                                          *)

(* An attempt that is open is the active episode's, or the task is cancelled. *)
LEMMA OpenAttempt ==
  ASSUME Inv, task.status # "cancelled", NEW p \in Episodes, AttemptOf[p] = "open"
  PROVE  p = task.active
<1>1. Begun(p) /\ episode[p].state \notin Outcomes
  BY DEF AttemptOf, Outcomes
<1>2. episode[p].state \notin Untouched
  BY <1>1 DEF Inv, Accounted, UntouchedHasNone, Begun, EffectsOf
<1>3. episode[p].state \in Live
  BY <1>1, <1>2 DEF Inv, Accounted, CancelledTogether, TypeOK, Episode, EpisodeStates, Untouched,
    Live, Outcomes, Terminal
<1>. QED
  BY <1>3 DEF Inv, Accounted, LiveIsActive

(* What most operations leave as it is.                                      *)
SameAttempts ==
  /\ \A e \in Effects : effect'[e].episode = effect[e].episode
  /\ \A p \in Episodes :
       episode'[p].state # episode[p].state => {episode[p].state, episode'[p].state} \cap Outcomes = {}

LEMMA Quiet ==
  ASSUME SameAttempts
  PROVE  AttemptOf' = AttemptOf
<1>1. \A p \in Episodes : Begun(p)' <=> Begun(p)
  BY DEF SameAttempts, Begun, EffectsOf
<1>. QED
  BY <1>1 DEF SameAttempts, AttemptOf

(* The episode that gets its outcome.                                        *)
LEMMA SettleStep ==
  ASSUME Inv, NEW p \in Episodes, episode[p].state \in {"running", "unknown"},
         NEW outcome \in Outcomes, task.status # "cancelled", task'.status # "cancelled",
         \A e \in Effects : effect'[e].episode = effect[e].episode,
         \A q \in Episodes : episode'[q].state = IF q = p THEN outcome ELSE episode[q].state
  PROVE  Sole!Settle(p) \/ UNCHANGED Sole!vars
<1>1. \A q \in Episodes : Begun(q)' <=> Begun(q)
  BY DEF Begun, EffectsOf
<1>2. UNCHANGED Over
  BY DEF Over
<1>3. CASE Begun(p)
  <2>1. AttemptOf[p] = "open"
    BY <1>3 DEF AttemptOf, Outcomes
  <2>2. AttemptOf' = [AttemptOf EXCEPT ![p] = outcome]
    BY <1>1, <1>3 DEF AttemptOf, Outcomes
  <2>3. ~Over
    BY DEF Over
  <2>. QED
    BY <1>2, <2>1, <2>2, <2>3 DEF Sole!Settle, Sole!Outcomes, Outcomes
<1>4. CASE ~Begun(p)
  <2>1. AttemptOf' = AttemptOf
    BY <1>1, <1>4 DEF AttemptOf
  <2>. QED
    BY <1>2, <2>1 DEF Sole!vars
<1>. QED
  BY <1>3, <1>4

LEMMA FinishMaps ==
  ASSUME Inv, NEW now \in Nat, NEW d \in Devices, NEW p \in Episodes, NEW outcome \in Outcomes,
         Finish(d, p, outcome, now)
  PROVE  Sole!Settle(p) \/ UNCHANGED Sole!vars
<1>1. task.status # "cancelled" /\ episode[p].state = "running" /\ UNCHANGED effect
  BY DEF Finish, Lease, Terminal
<1>2. task' = Finished(outcome) /\ episode' = Ended(p, outcome)
  BY DEF Finish
<1>3. task'.status = outcome
  BY <1>2 DEF Finished, Saved, Inv, TypeOK, Task
<1>4. \A q \in Episodes : episode'[q].state = IF q = p THEN outcome ELSE episode[q].state
  BY <1>2 DEF Ended, Inv, TypeOK, Episode
<1>. QED
  BY <1>1, <1>3, <1>4, SettleStep DEF Outcomes

LEMMA ReconcileMaps ==
  ASSUME Inv, NEW d \in Devices, NEW e \in Effects, NEW outcome \in Outcomes,
         ReconcileEffect(d, e, outcome)
  PROVE  \E p \in Episodes : Sole!Settle(p) \/ UNCHANGED Sole!vars
<1>. DEFINE p == task.active
<1>1. p \in Episodes /\ episode[p].state = "unknown" /\ task.status # "cancelled"
  BY ActiveIsEpisode DEF ReconcileEffect, Reconcilable
<1>2. task'.status = outcome
  BY DEF ReconcileEffect, Reconciled, Saved, Inv, TypeOK, Task
<1>3. \A q \in Episodes : episode'[q].state = IF q = p THEN outcome ELSE episode[q].state
  BY <1>1 DEF ReconcileEffect, Inv, TypeOK, Episode
<1>4. \A f \in Effects : effect'[f].episode = effect[f].episode
  BY DEF ReconcileEffect, Inv, TypeOK, Effect
<1>. HIDE DEF p
<1>. QED
  BY <1>1, <1>2, <1>3, <1>4, SettleStep DEF Outcomes

LEMMA DispatchMaps ==
  ASSUME Inv, NEW now \in Nat, NEW d \in Devices, NEW p \in Episodes, NEW e \in Effects,
         NEW manifest \in BOOLEAN, DispatchEffect(d, p, e, manifest, now)
  PROVE  Sole!Begin(p) \/ UNCHANGED Sole!vars
<1>1. /\ task.status # "cancelled" /\ p = task.active /\ episode[p].state = "running"
      /\ UNCHANGED <<task, episode>> /\ effect[e].state = "none"
      /\ effect' = [effect EXCEPT ![e] = Dispatched(p, manifest)]
  BY DEF DispatchEffect, Lease, Terminal
<1>2. UNCHANGED Over /\ ~Over
  BY <1>1 DEF Over
<1>3. effect[e].episode = 0
  BY <1>1 DEF Inv, Accounted, NoneIsNowhere
<1>4. \A f \in Effects : effect'[f].episode = IF f = e THEN p ELSE effect[f].episode
  BY <1>1 DEF Dispatched, Inv, TypeOK, Effect
<1>5. \A q \in Episodes : Begun(q)' <=> Begun(q) \/ q = p
  BY <1>3, <1>4 DEF Begun, EffectsOf, Episodes
<1>6. CASE Begun(p)
  <2>1. AttemptOf' = AttemptOf
    BY <1>1, <1>5, <1>6 DEF AttemptOf
  <2>. QED
    BY <1>2, <2>1 DEF Sole!vars
<1>7. CASE ~Begun(p)
  <2>1. AttemptOf[p] = "none"
    BY <1>7 DEF AttemptOf
  <2>2. \A q \in Episodes : AttemptOf[q] # "open"
    BY <1>1, <2>1, OpenAttempt
  <2>3. AttemptOf' = [AttemptOf EXCEPT ![p] = "open"]
    BY <1>1, <1>5 DEF AttemptOf, Outcomes
  <2>. QED
    BY <1>2, <2>1, <2>2, <2>3 DEF Sole!Begin
<1>. QED
  BY <1>6, <1>7

LEMMA CancelMaps ==
  ASSUME Inv, Cancel
  PROVE  Sole!Cancel
<1>1. task' = Saved([task EXCEPT !.status = "cancelled", !.active = 0, !.fence = @ + 1])
  BY DEF Cancel
<1>2. task'.status = "cancelled"
  BY <1>1 DEF Saved, Inv, TypeOK, Task
<1>3. \A e \in Effects : effect'[e].episode = effect[e].episode
  BY DEF Cancel, Lost, Inv, TypeOK, Effect
<1>4. \A p \in Episodes :
        episode'[p].state # episode[p].state => {episode[p].state, episode'[p].state} \cap Outcomes = {}
  <2>1. CASE task.active = 0
    BY <2>1 DEF Cancel
  <2>2. CASE task.active # 0
    <3>1. episode[task.active].state \in Live
      BY <2>2 DEF Inv, Accounted, ActiveIsNewest
    <3>2. episode' = [episode EXCEPT ![task.active] = [@ EXCEPT !.state = "cancelled", !.until = 0]]
      BY <2>2 DEF Cancel
    <3>. QED
      BY <3>1, <3>2 DEF Inv, TypeOK, Episode, Live, Outcomes
  <2>. QED
    BY <2>1, <2>2
<1>5. AttemptOf' = AttemptOf
  BY <1>3, <1>4, Quiet DEF SameAttempts
<1>. QED
  BY <1>2, <1>5, Zenon DEF Over, Sole!Cancel

LEMMA QuietLeaseOperation ==
  ASSUME Inv, NEW now \in Nat, NEW d \in Devices, NEW p \in Episodes,
         LeaseOperation(d, p, now),
         \A outcome \in Outcomes : ~Finish(d, p, outcome, now),
         \A e \in Effects, manifest \in BOOLEAN : ~DispatchEffect(d, p, e, manifest, now)
  PROVE  SameAttempts /\ (task'.status = "cancelled" <=> task.status = "cancelled")
<1>. USE DEF Inv, TypeOK, Outcomes, SameAttempts
<1>1. UNCHANGED <<episode, effect, task>> => SameAttempts
  OBVIOUS
<1>2. Lease(d, p, now) => task.status # "cancelled"
  BY DEF Lease, Terminal
<1>3. /\ Saved(task).status = task.status /\ Stale.status = "stale" /\ Waiting.status = "waiting"
  BY DEF Saved, Stale, Waiting, Task
<1>4. CASE Start(d, p, now)
  BY <1>2, <1>3, <1>4 DEF Start, Episode
<1>5. CASE MarkUnknown(d, p, now)
  BY <1>2, <1>3, <1>5 DEF MarkUnknown, Lost, Episode, Effect
<1>6. CASE ReleaseUnstarted(d, p, now)
  BY <1>2, <1>3, <1>6 DEF ReleaseUnstarted, Ended, Episode
<1>7. CASE \E ttl \in Ttls : RenewLease(d, p, ttl, now) \/ Renew(d, p, ttl, now)
  BY <1>7 DEF RenewLease, Renew, Episode
<1>8. CASE \E e \in Effects : ConfirmEffect(d, p, e, now) \/ RecordEffectObservation(d, p, e, now)
  BY <1>8 DEF ConfirmEffect, RecordEffectObservation, Effect
<1>9. CASE Refused(d, p, now)
  BY <1>9 DEF Refused
<1>. QED
  BY <1>4, <1>5, <1>6, <1>7, <1>8, <1>9 DEF LeaseOperation

LEMMA QuietOperation ==
  ASSUME Inv, NEW now \in Nat, Resume \/ RecoverExpired(now)
  PROVE  SameAttempts /\ task.status # "cancelled" /\ task'.status # "cancelled"
<1>. USE DEF Inv, TypeOK, Outcomes, SameAttempts
<1>1. CASE Resume
  BY <1>1 DEF Resume, Saved, Task
<1>2. CASE RecoverExpired(now)
  <2>1. task.active \in Episodes /\ episode[task.active].state \in Live /\ task.status # "cancelled"
    BY <1>2, ActiveIsEpisode DEF RecoverExpired, Accounted, ActiveIsNewest, LiveIsActive, Terminal
  <2>2. Stale.status = "stale" /\ Waiting.status = "waiting"
    BY DEF Saved, Stale, Waiting, Task
  <2>3. \A e \in Effects : Lost(task.active)[e].episode = effect[e].episode
    BY DEF Lost, Effect
  <2>4. \A s : s \notin Outcomes /\ episode' = Ended(task.active, s) =>
          \A p \in Episodes :
            episode'[p].state # episode[p].state => {episode[p].state, episode'[p].state} \cap Outcomes = {}
    BY <2>1 DEF Ended, Episode, Live
  <2>. QED
    BY <1>2, <2>1, <2>2, <2>3, <2>4 DEF RecoverExpired
<1>. QED
  BY <1>1, <1>2

LEMMA QuietClaim ==
  ASSUME Inv, NEW now \in Nat, NEW d \in Devices, NEW p \in Episodes, NEW ttl \in Ttls,
         NEW budget \in Budgets, Claim(d, p, ttl, budget, now)
  PROVE  SameAttempts /\ task.status # "cancelled" /\ task'.status # "cancelled"
<1>1. task.status # "cancelled" /\ task'.status = "running" /\ UNCHANGED effect
  BY DEF Claim, Admitted, Terminal, Saved, Inv, TypeOK, Task
<1>2. \A q \in Episodes : episode'[q].state =
        IF q = p THEN "leased" ELSE IF q = task.active THEN "expired" ELSE episode[q].state
  BY DEF Claim, Inv, TypeOK, Episode
<1>3. episode[p].state = "none" /\ (task.active # 0 => episode[task.active].state = "leased")
  BY DEF Claim, Admitted
<1>. QED
  BY <1>1, <1>2, <1>3 DEF SameAttempts, Outcomes, Episodes

LEMMA QuietAdmission ==
  ASSUME Inv, NEW d \in Devices, NEW e \in Effects, AdmitObservation(d, e)
  PROVE  SameAttempts /\ UNCHANGED task
BY DEF AdmitObservation, SameAttempts, Inv, TypeOK, Effect

LEMMA QuietMaps ==
  ASSUME SameAttempts, task'.status = "cancelled" <=> task.status = "cancelled"
  PROVE  UNCHANGED Sole!vars
BY Quiet, Zenon DEF Sole!vars, Over

LEMMA SoleStep == Inv /\ [KernelNext]_kernelVars => [Sole!Next]_(Sole!vars)
<1>. DEFINE Mapped == [Sole!Next]_(Sole!vars)
<1>. SUFFICES ASSUME Inv, [KernelNext]_kernelVars PROVE Mapped
  OBVIOUS
<1>1. UNCHANGED Sole!vars => Mapped
  OBVIOUS
<1>2. ASSUME NEW p \in Episodes, Sole!Begin(p) \/ Sole!Settle(p) PROVE Mapped
  BY <1>2 DEF Sole!Next
<1>3. Sole!Cancel => Mapped
  BY DEF Sole!Next
<1>. HIDE DEF Mapped
<1>4. CASE UNCHANGED kernelVars
  <2>1. SameAttempts /\ UNCHANGED task
    BY <1>4 DEF kernelVars, SameAttempts
  <2>. QED
    BY <1>1, <2>1, QuietMaps
<1>5. CASE KernelNext
  <2>1. PICK proposed \in 0 .. MaxTime : Operation(Reading(proposed))
    BY <1>5 DEF KernelNext, Transaction
  <2>. DEFINE now == Reading(proposed)
  <2>2. now \in Nat
    BY ReadingTyped DEF Inv
  <2>. HIDE DEF now
  <2>3. CASE Cancel
    BY <1>3, <2>3, CancelMaps
  <2>4. CASE Resume \/ RecoverExpired(now)
    BY <1>1, <2>2, <2>4, QuietOperation, QuietMaps
  <2>5. ASSUME NEW d \in Devices, NEW p \in Episodes, LeaseOperation(d, p, now) PROVE Mapped
    <3>1. CASE \E outcome \in Outcomes : Finish(d, p, outcome, now)
      BY <1>1, <1>2, <2>2, <3>1, FinishMaps
    <3>2. CASE \E e \in Effects, manifest \in BOOLEAN : DispatchEffect(d, p, e, manifest, now)
      BY <1>1, <1>2, <2>2, <3>2, DispatchMaps
    <3>3. CASE /\ \A outcome \in Outcomes : ~Finish(d, p, outcome, now)
               /\ \A e \in Effects, manifest \in BOOLEAN : ~DispatchEffect(d, p, e, manifest, now)
      BY <1>1, <2>2, <2>5, <3>3, QuietLeaseOperation, QuietMaps
    <3>. QED
      BY <3>1, <3>2, <3>3
  <2>6. ASSUME NEW d \in Devices, NEW p \in Episodes, NEW ttl \in Ttls, NEW budget \in Budgets,
               Claim(d, p, ttl, budget, now)
        PROVE  Mapped
    BY <1>1, <2>2, <2>6, QuietClaim, QuietMaps
  <2>7. ASSUME NEW d \in Devices, NEW e \in Effects, AdmitObservation(d, e) PROVE Mapped
    BY <1>1, <2>7, QuietAdmission, QuietMaps
  <2>8. ASSUME NEW d \in Devices, NEW e \in Effects, NEW outcome \in Outcomes,
               ReconcileEffect(d, e, outcome)
        PROVE  Mapped
    BY <1>1, <1>2, <2>8, ReconcileMaps
  <2>. QED
    BY <2>1, <2>3, <2>4, <2>5, <2>6, <2>7, <2>8 DEF Operation, now
<1>. QED
  BY <1>4, <1>5

(* The kernel implements SoleAttempt: between a claim on one device, a cancel, *)
(* recovery and reconciliation, no second attempt begins while one is open.    *)
THEOREM KernelMakesSoleAttempts == KernelSpec => ImplementsSole
<1>1. KernelInit => Sole!Init
  BY DEF KernelInit, Sole!Init, AttemptOf, Over, Begun, EffectsOf, NoEffect, Episodes
<1>. QED
  BY <1>1, SoleStep, Invariance, PTL DEF KernelSpec, ImplementsSole, Sole!Spec
=============================================================================
