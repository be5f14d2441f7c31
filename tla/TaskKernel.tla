----------------------------- MODULE TaskKernel -----------------------------
(***************************************************************************)
(* RuntimeKernel (kernel.ts) and the clock of its database (database.ts):   *)
(* one task outside any topology, its execution episodes and the effects     *)
(* recorded before an external operation is handed out.                      *)
(*                                                                         *)
(* Every operation is one SQLite transaction, hence one action.  Callers are *)
(* arbitrary: any device may present the lease of any episode at any time,   *)
(* which covers late, repeated and reordered requests.  A request with a     *)
(* receipt (commands.ts) changes nothing and is not modelled here; see        *)
(* DeviceRuntime for the answers.  A lease is named by its episode: the row    *)
(* has its device and fence.                                                  *)
(***************************************************************************)
EXTENDS Naturals, FiniteSets

CONSTANTS Devices,
          Effects,       \* effect ids
          MaxEpisodes,   \* bound: episodes of the task
          MaxTime,       \* bound: what Date.now may return
          Ttls,          \* lease times a caller may ask for
          Budgets        \* execution times a caller may ask for

ASSUME KernelAssumption ==
  /\ MaxEpisodes \in Nat /\ MaxTime \in Nat
  /\ Ttls \subseteq Nat \ {0} /\ Budgets \subseteq Nat \ {0}

Episodes == 1 .. MaxEpisodes

VARIABLES
  task,      \* the row of tasks
  episode,   \* the rows of episodes and episode_deadlines
  effect,    \* the rows of effects, execution_manifests and effect_observations
  clock      \* the latest reading of Date.now on file

kernelVars == <<task, episode, effect, clock>>

Terminal == {"done", "failed", "cancelled"}
Outcomes == {"done", "failed"}

Task == [status : Terminal \cup {"waiting", "running", "stale"}, revision : Nat,
         fence : Nat, active : 0 .. MaxEpisodes, dirty : BOOLEAN, host : BOOLEAN]
EpisodeStates == Terminal \cup {"none", "leased", "running", "expired", "released", "unknown"}
Episode == [state : EpisodeStates, device : Devices \cup {"none"}, fence : Nat, until : Nat, deadline : Nat]
Effect  == [state : {"none", "dispatched", "confirmed", "unknown"}, episode : 0 .. MaxEpisodes,
            manifest : BOOLEAN, observed : BOOLEAN]

Unused    == [state |-> "none", device |-> "none", fence |-> 0, until |-> 0, deadline |-> 0]
NoEffect  == [state |-> "none", episode |-> 0, manifest |-> FALSE, observed |-> FALSE]

(* submit                                                                   *)
KernelInit ==
  /\ task \in [status : {"waiting"}, revision : {1}, fence : {0}, active : {0},
               dirty : {FALSE}, host : BOOLEAN]
  /\ episode = [p \in Episodes |-> Unused]
  /\ effect = [e \in Effects |-> NoEffect]
  /\ clock = 0

-----------------------------------------------------------------------------
RawReading(proposed) == proposed   \* fault: time may run backwards
(* RuntimeDatabase.now: the host's clock may be set back, its readings as   *)
(* the database gives them never decrease.                                  *)
Reading(proposed) == IF proposed > clock THEN proposed ELSE clock

EffectsOf(p)   == {e \in Effects : effect[e].episode = p}
Unconfirmed(p) == {e \in EffectsOf(p) : effect[e].state # "confirmed"}
AnyUnconfirmed == {e \in Effects : effect[e].state \notin {"none", "confirmed"}}

(* lease(): device d presents the lease of episode p and it is still good.  *)
Lease(d, p, now) ==
  /\ task.status \notin Terminal /\ ~task.dirty
  /\ task.active = p /\ task.fence = episode[p].fence
  /\ episode[p].device = d
  /\ episode[p].until > now
  /\ episode[p].state \in {"leased", "running"}

(* save(): every write of the task row counts.                              *)
Saved(t) == [t EXCEPT !.revision = @ + 1]

Lost(p) == [e \in Effects |->
             IF effect[e].episode = p /\ effect[e].state = "dispatched"
             THEN [effect[e] EXCEPT !.state = "unknown"] ELSE effect[e]]

(* The task after an episode ended without an outcome it can accept.         *)
Stale   == Saved([task EXCEPT !.status = "stale", !.dirty = TRUE, !.fence = @ + 1])
Waiting == Saved([task EXCEPT !.status = "waiting", !.active = 0, !.fence = @ + 1])

Ended(p, state) == [episode EXCEPT ![p].state = state]

-----------------------------------------------------------------------------
AdmittedAnyIdle(now) ==   \* fault: a started episode that ran out may be claimed over
  /\ task.status \notin Terminal /\ ~task.dirty
  /\ task.active # 0 => episode[task.active].until <= now

(* claim: the previous lease, if any, ran out before anything was started.   *)
Admitted(now) ==
  /\ task.status \notin Terminal /\ ~task.dirty
  /\ task.active # 0 =>
       episode[task.active].until <= now /\ episode[task.active].state = "leased"

Claim(d, p, ttl, budget, now) ==
  /\ Admitted(now)
  /\ budget >= ttl
  /\ episode[p].state = "none" /\ \A q \in 1 .. p - 1 : episode[q].state # "none"
  /\ episode' = [q \in Episodes |->
       IF q = p THEN [state |-> "leased", device |-> d, fence |-> task.fence + 1,
                      until |-> now + ttl, deadline |-> now + budget]
       ELSE IF q = task.active THEN [episode[q] EXCEPT !.state = "expired"]
       ELSE episode[q]]
  /\ task' = Saved([task EXCEPT !.fence = @ + 1, !.active = p, !.status = "running"])
  /\ UNCHANGED effect

Start(d, p, now) ==
  /\ Lease(d, p, now) /\ episode[p].state = "leased"
  /\ episode' = [episode EXCEPT ![p].state = "running"]
  /\ task' = Saved(task)
  /\ UNCHANGED effect

(* renewLease: within the budget of the claim, and only to a later time.     *)
RenewLease(d, p, ttl, now) ==
  LET until == IF now + ttl < episode[p].deadline THEN now + ttl ELSE episode[p].deadline
  IN /\ Lease(d, p, now)
     /\ until > episode[p].until
     /\ episode' = [episode EXCEPT ![p].until = until]
     /\ UNCHANGED <<task, effect>>

RenewUnbudgeted(d, p, ttl, now) ==   \* fault: of host tasks too
  /\ Lease(d, p, now)
  /\ now + ttl > episode[p].until
  /\ episode' = [episode EXCEPT ![p].until = now + ttl]
  /\ UNCHANGED <<task, effect>>

(* renew: of a host task it is renewLease, else there is no budget.          *)
Renew(d, p, ttl, now) ==
  /\ ~task.host
  /\ Lease(d, p, now)
  /\ now + ttl > episode[p].until
  /\ episode' = [episode EXCEPT ![p].until = now + ttl]
  /\ UNCHANGED <<task, effect>>

Finished(outcome) == Saved([task EXCEPT !.status = outcome, !.active = 0])

FinishAnyway(d, p, outcome, now) ==   \* fault: effects may be open
  /\ Lease(d, p, now) /\ episode[p].state = "running"
  /\ episode' = Ended(p, outcome)
  /\ task' = Finished(outcome)
  /\ UNCHANGED effect

Finish(d, p, outcome, now) ==
  /\ Lease(d, p, now) /\ episode[p].state = "running"
  /\ Unconfirmed(p) = {}
  /\ episode' = Ended(p, outcome)
  /\ task' = Finished(outcome)
  /\ UNCHANGED effect

Cancel ==
  /\ task.status \notin Terminal
  /\ IF task.active = 0 THEN UNCHANGED <<episode, effect>>
     ELSE /\ episode' = [episode EXCEPT ![task.active] =
                           [@ EXCEPT !.state = "cancelled", !.until = 0]]
          /\ effect' = Lost(task.active)
  /\ task' = Saved([task EXCEPT !.status = "cancelled", !.active = 0, !.fence = @ + 1])

Resume ==
  /\ task.status \in Outcomes /\ ~task.dirty
  /\ AnyUnconfirmed = {}
  /\ task' = Saved([task EXCEPT !.status = "waiting", !.active = 0])
  /\ UNCHANGED <<episode, effect>>

MarkUnknown(d, p, now) ==
  /\ Lease(d, p, now) /\ episode[p].state = "running"
  /\ episode' = [episode EXCEPT ![p] = [@ EXCEPT !.state = "unknown", !.until = 0]]
  /\ effect' = Lost(p)
  /\ task' = Stale

ReleaseStarted(d, p, now) ==   \* fault: whatever has been dispatched
  /\ Lease(d, p, now)
  /\ episode' = Ended(p, "released")
  /\ task' = Waiting
  /\ UNCHANGED effect

ReleaseUnstarted(d, p, now) ==
  /\ Lease(d, p, now) /\ episode[p].state = "leased" /\ EffectsOf(p) = {}
  /\ episode' = Ended(p, "released")
  /\ task' = Waiting
  /\ UNCHANGED effect

(* recoverExpired: run by the service every two seconds.                     *)
RecoverExpired(now) ==
  LET p == task.active IN
  /\ p # 0 /\ episode[p].until <= now
  /\ \/ /\ episode[p].state = "leased"
        /\ EffectsOf(p) = {}
        /\ episode' = Ended(p, "expired")
        /\ task' = Waiting
        /\ UNCHANGED effect
     \/ /\ episode[p].state = "running"
        /\ episode' = Ended(p, "unknown")
        /\ effect' = Lost(p)
        /\ task' = Stale

Dispatched(p, manifest) ==
  [state |-> "dispatched", episode |-> p, manifest |-> manifest, observed |-> FALSE]

DispatchEffect(d, p, e, manifest, now) ==
  /\ Lease(d, p, now) /\ episode[p].state = "running"
  /\ effect[e].state = "none"
  /\ effect' = [effect EXCEPT ![e] = Dispatched(p, manifest)]
  /\ UNCHANGED <<task, episode>>

ConfirmEffect(d, p, e, now) ==
  /\ Lease(d, p, now)
  /\ effect[e].episode = p /\ effect[e].state = "dispatched"
  /\ effect' = [effect EXCEPT ![e].state = "confirmed"]
  /\ UNCHANGED <<task, episode>>

RecordEffectObservation(d, p, e, now) ==
  /\ Lease(d, p, now)
  /\ effect[e].episode = p /\ effect[e].state = "dispatched" /\ ~effect[e].observed
  /\ effect' = [effect EXCEPT ![e].observed = TRUE]
  /\ UNCHANGED <<task, episode>>

(* inspectReconciliationTarget                                              *)
Reconcilable(d, e) ==
  LET p == task.active IN
  /\ task.status = "stale" /\ task.dirty /\ p # 0
  /\ episode[p].state = "unknown" /\ episode[p].device = d
  /\ task.fence > episode[p].fence
  /\ effect[e].episode = p /\ effect[e].state = "unknown" /\ effect[e].manifest

AdmitObservation(d, e) ==
  /\ Reconcilable(d, e) /\ ~effect[e].observed
  /\ effect' = [effect EXCEPT ![e].observed = TRUE]
  /\ UNCHANGED <<task, episode>>

Reconciled(outcome) ==
  Saved([task EXCEPT !.status = outcome, !.dirty = FALSE, !.active = 0])

ReconcileEffect(d, e, outcome) ==
  LET p == task.active IN
  /\ Reconcilable(d, e) /\ effect[e].observed
  /\ Unconfirmed(p) = {e}
  /\ effect' = [effect EXCEPT ![e].state = "confirmed"]
  /\ episode' = [episode EXCEPT ![p] = [@ EXCEPT !.state = outcome, !.until = 0]]
  /\ task' = Reconciled(outcome)

(* lease() finds the lease run out: the refused transaction leaves its       *)
(* reading of the clock behind.                                              *)
Refused(d, p, now) ==
  /\ task.active = p /\ episode[p].device = d /\ episode[p].until <= now
  /\ UNCHANGED <<task, episode, effect>>

-----------------------------------------------------------------------------
LeaseOperation(d, p, now) ==
  \/ Start(d, p, now) \/ MarkUnknown(d, p, now) \/ ReleaseUnstarted(d, p, now) \/ Refused(d, p, now)
  \/ \E ttl \in Ttls : RenewLease(d, p, ttl, now) \/ Renew(d, p, ttl, now)
  \/ \E outcome \in Outcomes : Finish(d, p, outcome, now)
  \/ \E e \in Effects : ConfirmEffect(d, p, e, now) \/ RecordEffectObservation(d, p, e, now)
  \/ \E e \in Effects, manifest \in BOOLEAN : DispatchEffect(d, p, e, manifest, now)

Operation(now) ==
  \/ Cancel \/ Resume \/ RecoverExpired(now)
  \/ \E d \in Devices, p \in Episodes : LeaseOperation(d, p, now)
  \/ \E d \in Devices, p \in Episodes, ttl \in Ttls, budget \in Budgets :
       Claim(d, p, ttl, budget, now)
  \/ \E d \in Devices, e \in Effects : AdmitObservation(d, e)
  \/ \E d \in Devices, e \in Effects, outcome \in Outcomes : ReconcileEffect(d, e, outcome)

(* A transaction: it reads the clock at least for its event, and a refused   *)
(* one keeps the reading too.                                                *)
Transaction(proposed) == Operation(Reading(proposed)) /\ clock' = Reading(proposed)

KernelNext == \E proposed \in 0 .. MaxTime : Transaction(proposed)

KernelSpec == KernelInit /\ [][KernelNext]_kernelVars

-----------------------------------------------------------------------------
TypeOK ==
  /\ task \in Task
  /\ episode \in [Episodes -> Episode]
  /\ effect \in [Effects -> Effect]
  /\ clock \in Nat

(* A lease that the clock on file has passed is dead for good, wherever the  *)
(* host's clock jumps: nothing is started, dispatched, confirmed or finished *)
(* under it and it cannot be renewed (the comment at database.ts:718-720 and *)
(* the guard of lease()).                                                    *)
LapsedStaysDead ==
  [][\A p \in Episodes :
       episode[p].state \in {"leased", "running"} /\ episode[p].until <= clock =>
         /\ episode'[p].state \in {episode[p].state, "expired", "unknown", "cancelled"}
         /\ episode'[p].until <= clock
         /\ \A e \in Effects :
              effect'[e] # effect[e] /\ effect'[e].episode = p => effect'[e].state = "unknown"]_kernelVars

(* An outcome the task reports is that of its newest episode, all of whose   *)
(* effects are confirmed: what inspectCompletedEffect, the outbox and resume *)
(* rely on after finish, reconcileEffect and resume in any order.            *)
OutcomeIsProven ==
  task.status \in Outcomes =>
    \E p \in Episodes :
      /\ episode[p].state = task.status
      /\ Unconfirmed(p) = {}
      /\ \A q \in Episodes : episode[q].state # "none" => q <= p

(* Work whose outcome is not known is the end of the task until somebody     *)
(* reconciles it: unless the task is cancelled, an unsettled effect belongs   *)
(* to the active episode, so nothing newer runs.                              *)
UnresolvedIsActive ==
  \A e \in AnyUnconfirmed : task.status = "cancelled" \/ effect[e].episode = task.active

(* A cancelled task never changes again: no late finish, reconciliation,      *)
(* recovery or resume.                                                        *)
CancelledForGood == [][task.status = "cancelled" => UNCHANGED <<task, episode, effect>>]_kernelVars

(* A host command runs no longer than the claim allowed, whichever way its    *)
(* lease is renewed (the comment at kernel.ts:330).                            *)
WithinBudget ==
  task.host => \A p \in Episodes : episode[p].until <= episode[p].deadline

-----------------------------------------------------------------------------
Begun(p) == EffectsOf(p) # {}

AttemptOf == [p \in Episodes |->
  IF ~Begun(p) THEN "none"
  ELSE IF episode[p].state \in Outcomes THEN episode[p].state ELSE "open"]

Over == task.status = "cancelled"

Sole == INSTANCE SoleAttempt WITH Attempts <- Episodes, attempt <- AttemptOf, over <- Over

(* The kernel makes attempts one at a time: SoleAttempt.                      *)
ImplementsSole == Sole!Spec
=============================================================================
