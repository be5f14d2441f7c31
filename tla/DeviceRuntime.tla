---------------------------- MODULE DeviceRuntime ----------------------------
(***************************************************************************)
(* One task executed by remote devices: RuntimeKernel behind the             *)
(* DeviceCoordinator (device-coordinator.ts, device-reconciliation.ts), the   *)
(* DeviceWorker of every device with its lease authority and client           *)
(* (device-worker.ts, device-client.ts) and its journal (device-journal.ts).  *)
(*                                                                         *)
(* A request stays in "net" until the coordinator handles it, which may be    *)
(* after its sender gave up, or never.  An answer waits in "answers" until     *)
(* its sender reads it or gives up.  No request is sent twice.  Time is one    *)
(* clock: the coordinator's readings and the devices' elapsed clocks advance   *)
(* together (TaskKernel lets the coordinator's clock jump).                    *)
(*                                                                         *)
(* A run of a worker names its one effect itself; here it has the number of    *)
(* its episode.                                                               *)
(***************************************************************************)
EXTENDS TaskKernel

CONSTANTS Prepared,       \* devices whose adapter is a prepared one, with a journal
          Ttl,            \* lease time a worker asks for
          MaxRuns,        \* bound: runs and reconciliations of one worker
          Challenges,     \* bound: ids of reconciliation challenges
          ChallengeTime,  \* lifetime of a challenge
          Faults          \* what may happen, see AllFaults

(*   crash    a worker's process dies                                        *)
(*   revoke   the operator revokes a device                                  *)
(*   cancel   somebody cancels the task                                      *)
(*   resume   somebody resumes the finished task and assigns it again         *)
AllFaults == {"crash", "revoke", "cancel", "resume"}

ASSUME DeviceAssumption ==
  /\ Effects = Episodes
  /\ Prepared \subseteq Devices
  /\ Ttl \in Ttls /\ Ttl \in Budgets
  /\ MaxRuns \in Nat /\ ChallengeTime \in Nat \ {0}
  /\ Faults \subseteq AllFaults

VARIABLES
  worker,      \* the run of every device
  journal,     \* device_execution_records, by effect
  native,      \* the external operation of every effect
  runs,        \* how often it was begun
  net,         \* requests on their way
  answers,     \* answers on their way, to requests that are still awaited
  assigned,    \* the assignment fits the task's authority
  revoked,     \* device_revocations
  challenge    \* device_reconciliations

deviceVars == <<worker, journal, native, runs>>
wireVars   == <<net, answers>>
operatorVars == <<assigned, revoked, challenge>>
vars == <<kernelVars, deviceVars, wireVars, operatorVars>>

Idle(run) == [run |-> run, pc |-> "idle", episode |-> 0, revision |-> 0, sent |-> 0,
              deadline |-> 0, open |-> FALSE, renewing |-> FALSE, asked |-> 0, challenge |-> 0]

NoRecord    == [phase |-> "none", observed |-> FALSE, result |-> "none"]
NoChallenge == [state |-> "none", episode |-> 0, revision |-> 0, fence |-> 0, expires |-> 0]

(* The control points of a run, and what a run awaits there.                *)
Waits == [claiming |-> "claim", starting |-> "start", dispatching |-> "dispatch",
          observing |-> "observe", completing |-> "complete", releasing |-> "release",
          reporting |-> "report"]
Works == {"idle", "leased", "permitted", "native", "observed", "reconciling"}
Points == DOMAIN Waits \cup Works

Init ==
  /\ KernelInit /\ ~task.host
  /\ worker = [d \in Devices |-> Idle(0)]
  /\ journal = [e \in Effects |-> NoRecord]
  /\ native = [e \in Effects |-> "none"]
  /\ runs = [e \in Effects |-> 0]
  /\ net = {} /\ answers = {}
  /\ assigned = TRUE /\ revoked = {}
  /\ challenge = [c \in Challenges |-> NoChallenge]

-----------------------------------------------------------------------------
(* Requests and answers.                                                    *)

(* What a request carries: its run makes it one of a kind.                   *)
Request(d, op) ==
  [op |-> op, device |-> d, run |-> worker[d].run, episode |-> worker[d].episode,
   revision |-> worker[d].revision, challenge |-> worker[d].challenge,
   result |-> IF worker[d].episode = 0 THEN "none" ELSE native[worker[d].episode]]

Send(d, op) == net' = net \cup {Request(d, op)}

Awaits(d, op) ==
  \/ op = "renew" /\ worker[d].renewing
  \/ worker[d].pc \in DOMAIN Waits /\ op = Waits[worker[d].pc]

Awaited(r) == worker[r.device].run = r.run /\ Awaits(r.device, r.op)

Answer(r, ok, p, window) ==
  answers' = IF Awaited(r)
             THEN answers \cup {[op |-> r.op, device |-> r.device, ok |-> ok,
                                 episode |-> p, window |-> window]}
             ELSE answers

Handled(r) == net' = net \ {r}

(* handle, execute and assignment refuse a device that is revoked or whose    *)
(* assignment does not fit the task any more.                                 *)
Authorized(r) == r.device \notin revoked /\ assigned

Held(r) == Authorized(r) /\ Lease(r.device, r.episode, clock)

Refuse(r) == Answer(r, FALSE, 0, 0) /\ UNCHANGED <<task, episode, effect, challenge>>

-----------------------------------------------------------------------------
(* The coordinator: one transaction for every request.                       *)

HandleClaim(r) ==
  LET ok == Authorized(r) /\ r.revision = task.revision /\ Admitted(clock) IN
  /\ r.op = "claim"
  /\ \/ /\ ok
        /\ \E p \in Episodes :
             Claim(r.device, p, Ttl, Ttl, clock) /\ Answer(r, TRUE, p, Ttl)
        /\ UNCHANGED challenge
     \/ ~ok /\ Refuse(r)

HandleStart(r) ==
  LET ok == Held(r) /\ episode[r.episode].state = "leased" IN
  /\ r.op = "start"
  /\ \/ /\ ok /\ Start(r.device, r.episode, clock)
        /\ Answer(r, TRUE, r.episode, episode[r.episode].until - clock)
        /\ UNCHANGED challenge
     \/ ~ok /\ Refuse(r)

(* renew takes MAX(lease_until, now + ttl)                                   *)
HandleRenew(r) ==
  LET until == IF clock + Ttl > episode[r.episode].until
               THEN clock + Ttl ELSE episode[r.episode].until
  IN /\ r.op = "renew"
     /\ \/ /\ Held(r)
           /\ episode' = [episode EXCEPT ![r.episode].until = until]
           /\ Answer(r, TRUE, r.episode, until - clock)
           /\ UNCHANGED <<task, effect, challenge>>
        \/ ~Held(r) /\ Refuse(r)

(* dispatch: a prepared adapter starts the episode in the same transaction.   *)
HandleDispatch(r) ==
  LET p  == r.episode
      ok == Held(r) /\ effect[p].state = "none" IN
  /\ r.op = "dispatch"
  /\ \/ /\ ok
        /\ effect' = [effect EXCEPT ![p] = Dispatched(p, r.device \in Prepared)]
        /\ IF episode[p].state = "leased"
           THEN episode' = [episode EXCEPT ![p].state = "running"] /\ task' = Saved(task)
           ELSE UNCHANGED <<task, episode>>
        /\ Answer(r, TRUE, p, 0)
        /\ UNCHANGED challenge
     \/ ~ok /\ Refuse(r)

HandleObserve(r) ==
  LET ok == /\ Held(r)
            /\ effect[r.episode].state = "dispatched" /\ ~effect[r.episode].observed IN
  /\ r.op = "observe"
  /\ \/ /\ ok /\ RecordEffectObservation(r.device, r.episode, r.episode, clock)
        /\ Answer(r, TRUE, r.episode, 0)
        /\ UNCHANGED challenge
     \/ ~ok /\ Refuse(r)

(* complete: confirmEffect and finish in one transaction.                    *)
HandleComplete(r) ==
  LET p  == r.episode
      ok == /\ Held(r) /\ episode[p].state = "running"
            /\ effect[p].state = "dispatched" /\ effect[p].observed IN
  /\ r.op = "complete"
  /\ \/ /\ ok
        /\ effect' = [effect EXCEPT ![p].state = "confirmed"]
        /\ episode' = Ended(p, r.result)
        /\ task' = Finished(r.result)
        /\ Answer(r, TRUE, p, 0)
        /\ UNCHANGED challenge
     \/ ~ok /\ Refuse(r)

HandleRelease(r) ==
  LET ok == /\ Held(r) /\ episode[r.episode].state = "leased"
            /\ EffectsOf(r.episode) = {} IN
  /\ r.op = "release"
  /\ \/ /\ ok /\ ReleaseUnstarted(r.device, r.episode, clock)
        /\ Answer(r, TRUE, r.episode, 0)
        /\ UNCHANGED challenge
     \/ ~ok /\ Refuse(r)

HandleUnknown(r) ==
  LET ok == Held(r) /\ episode[r.episode].state = "running" IN
  /\ r.op = "unknown"
  /\ \/ /\ ok /\ MarkUnknown(r.device, r.episode, clock)
        /\ UNCHANGED <<answers, challenge>>
     \/ ~ok /\ Refuse(r)

(* DeviceReconciliation.current                                             *)
ChallengeCurrent(c, d) ==
  /\ clock < challenge[c].expires
  /\ assigned
  /\ challenge[c].revision = task.revision /\ challenge[c].fence = task.fence
  /\ Reconcilable(d, challenge[c].episode)

(* DeviceReconciliation.report: admitReconciliationObservation and            *)
(* reconcileEffect in one transaction; a repeated report gets its receipt.    *)
HandleReport(r) ==
  LET c == r.challenge
      p == challenge[c].episode
      known == r.device \notin revoked
      again == known /\ challenge[c].state = "accepted"
      ok    == /\ known /\ challenge[c].state = "pending"
               /\ ChallengeCurrent(c, r.device) /\ Unconfirmed(p) = {p}
  IN
  /\ r.op = "report"
  /\ \/ /\ again
        /\ Answer(r, TRUE, p, 0)
        /\ UNCHANGED <<task, episode, effect, challenge>>
     \/ /\ ok
        /\ effect' = [effect EXCEPT ![p] = [@ EXCEPT !.observed = TRUE, !.state = "confirmed"]]
        /\ episode' = [episode EXCEPT ![p] = [@ EXCEPT !.state = r.result, !.until = 0]]
        /\ task' = Reconciled(r.result)
        /\ challenge' = [challenge EXCEPT ![c].state = "accepted"]
        /\ Answer(r, TRUE, p, 0)
     \/ ~again /\ ~ok /\ Refuse(r)

Handle(r) ==
  /\ \/ HandleClaim(r) \/ HandleStart(r) \/ HandleRenew(r) \/ HandleDispatch(r) \/ HandleObserve(r)
     \/ HandleComplete(r) \/ HandleRelease(r) \/ HandleUnknown(r) \/ HandleReport(r)
  /\ Handled(r)
  /\ UNCHANGED <<clock, deviceVars, assigned, revoked>>

-----------------------------------------------------------------------------
(* The operator, the service and time.                                       *)

Tick ==
  /\ clock < MaxTime
  /\ clock' = clock + 1
  /\ UNCHANGED <<task, episode, effect, deviceVars, wireVars, operatorVars>>

Recover ==
  /\ RecoverExpired(clock)
  /\ UNCHANGED <<clock, deviceVars, wireVars, operatorVars>>

CancelTask ==
  /\ "cancel" \in Faults /\ Cancel
  /\ UNCHANGED <<clock, deviceVars, wireVars, operatorVars>>

Revoke(d) ==
  /\ "revoke" \in Faults /\ d \notin revoked
  /\ revoked' = revoked \cup {d}
  /\ UNCHANGED <<kernelVars, deviceVars, wireVars, assigned, challenge>>

(* A resume writes the task's prompt, which the authority of the assignment   *)
(* covers, so that the task has to be assigned anew.                          *)
ResumeTask ==
  /\ "resume" \in Faults /\ Resume
  /\ assigned' = FALSE
  /\ UNCHANGED <<clock, deviceVars, wireVars, revoked, challenge>>

Assign ==
  /\ ~assigned
  /\ task.status = "waiting" /\ task.active = 0 /\ ~task.dirty
  /\ assigned' = TRUE
  /\ UNCHANGED <<kernelVars, deviceVars, wireVars, revoked, challenge>>

(* DeviceReconciliation.request                                              *)
RequestReconciliation(c, d) ==
  /\ challenge[c].state = "none"
  /\ assigned /\ d \notin revoked
  /\ Reconcilable(d, task.active)
  /\ challenge' = [challenge EXCEPT ![c] =
       [state |-> "pending", episode |-> task.active, revision |-> task.revision,
        fence |-> task.fence, expires |-> clock + ChallengeTime]]
  /\ UNCHANGED <<kernelVars, deviceVars, wireVars, assigned, revoked>>

-----------------------------------------------------------------------------
(* The worker of a device.                                                   *)

(* DeviceLeaseAuthority.assertCurrent                                        *)
Current(d) == worker[d].open /\ clock < worker[d].deadline

Goes(d, pc)     == worker' = [worker EXCEPT ![d].pc = pc]
Stops(d)        == worker' = [worker EXCEPT ![d] = Idle(@.run)]
Journals(p, to) == journal' = [journal EXCEPT ![p].phase = to]
At(d, pc)       == worker[d].pc = pc

(* The answer to what d awaits, and the answers once it was read.            *)
Answered(d, op) == {a \in answers : a.device = d /\ a.op = op}
Dropped(d, op)  == answers \ Answered(d, op)
Read(d, op, ok) == \E a \in Answered(d, op) : a.ok = ok

(* A request that failed: the coordinator refused it, or no answer came in    *)
(* time, which nothing keeps from happening.                                  *)
Failing(d, op) == Awaits(d, op) /\ ~Read(d, op, TRUE)

(* The run is over: its finally block, or the end of its process.            *)
Leaves(d) == Stops(d) /\ answers' = {a \in answers : a.device # d}

(* run: inspect, then claim.                                                 *)
Run(d) ==
  /\ At(d, "idle") /\ worker[d].run < MaxRuns
  /\ assigned /\ d \notin revoked
  /\ LET run == worker[d].run + 1 IN
       /\ worker' = [worker EXCEPT ![d] =
            [Idle(run) EXCEPT !.pc = "claiming", !.revision = task.revision, !.sent = clock]]
       /\ net' = net \cup {[Request(d, "claim") EXCEPT !.run = run, !.revision = task.revision]}
  /\ UNCHANGED <<kernelVars, journal, native, runs, answers, operatorVars>>

(* The claim was answered.  An adapter that is not prepared starts at once.   *)
GotLease(d) ==
  \E a \in Answered(d, "claim") :
    LET deadline == worker[d].sent + a.window IN
    /\ a.ok
    /\ answers' = Dropped(d, "claim")
    /\ IF clock >= deadline THEN Stops(d) /\ UNCHANGED net
       ELSE LET next == IF d \in Prepared THEN "leased" ELSE "starting" IN
            /\ worker' = [worker EXCEPT ![d] =
                 [@ EXCEPT !.pc = next, !.episode = a.episode, !.deadline = deadline,
                           !.open = TRUE, !.sent = clock]]
            /\ net' = IF d \in Prepared THEN net
                      ELSE net \cup {[Request(d, "start") EXCEPT !.episode = a.episode]}
    /\ UNCHANGED <<kernelVars, journal, native, runs, operatorVars>>

NoLease(d) ==
  /\ Failing(d, "claim")
  /\ Leaves(d)
  /\ UNCHANGED <<kernelVars, journal, native, runs, net, operatorVars>>

RenewedOnAnswer(d, sent, window) ==   \* fault: counted from when the answer came
  IF Current(d) THEN [worker[d] EXCEPT !.deadline = clock + window] ELSE [worker[d] EXCEPT !.open = FALSE]

(* The authority takes the answer to a start or a renewal only while it is    *)
(* current, and counts the new lease from before the request was sent.        *)
Renewed(d, sent, window) ==
  IF Current(d) /\ clock < sent + window
  THEN [worker[d] EXCEPT !.deadline = sent + window] ELSE [worker[d] EXCEPT !.open = FALSE]

(* Started: the plain device dispatches at once.                             *)
Started(d) ==
  \E a \in Answered(d, "start") :
    /\ a.ok /\ answers' = Dropped(d, "start")
    /\ LET w == Renewed(d, worker[d].sent, a.window) IN
         IF w.open
         THEN worker' = [worker EXCEPT ![d] = [w EXCEPT !.pc = "dispatching"]] /\ Send(d, "dispatch")
         ELSE Stops(d) /\ Send(d, "unknown")
    /\ UNCHANGED <<kernelVars, journal, native, runs, operatorVars>>

(* The prepared adapter failed or waits for its provider, or time is up.      *)
PrepareFails(d) ==
  /\ At(d, "leased")
  /\ Leaves(d) /\ Send(d, "release")
  /\ UNCHANGED <<kernelVars, journal, native, runs, operatorVars>>

DispatchUnjournaled(d) ==   \* fault: the journal waits for the permit
  /\ At(d, "leased") /\ Current(d)
  /\ Goes(d, "dispatching") /\ Send(d, "dispatch")
  /\ UNCHANGED <<kernelVars, journal, native, runs, answers, operatorVars>>

(* context.dispatch: the manifest is on the device's disk before the request. *)
Dispatch(d) ==
  /\ At(d, "leased") /\ Current(d)
  /\ Goes(d, "dispatching")
  /\ Journals(worker[d].episode, "dispatching")
  /\ Send(d, "dispatch")
  /\ UNCHANGED <<kernelVars, native, runs, answers, operatorVars>>

Permitted(d) ==
  /\ Read(d, "dispatch", TRUE)
  /\ Goes(d, "permitted")
  /\ answers' = Dropped(d, "dispatch")
  /\ IF d \in Prepared THEN Journals(worker[d].episode, "dispatched") ELSE UNCHANGED journal
  /\ UNCHANGED <<kernelVars, native, runs, net, operatorVars>>

(* The adapter begins the external operation: ProcessSupervisor.run asserts   *)
(* the authority last.                                                        *)
Begin(d) ==
  LET p == worker[d].episode IN
  /\ At(d, "permitted") /\ Current(d)
  /\ Goes(d, "native")
  /\ native' = [native EXCEPT ![p] = "running"]
  /\ runs' = [runs EXCEPT ![p] = @ + 1]
  /\ UNCHANGED <<kernelVars, journal, wireVars, operatorVars>>

(* The external operation ends, whatever has become of its worker.            *)
NativeEnds(p) ==
  /\ native[p] = "running"
  /\ \E outcome \in Outcomes : native' = [native EXCEPT ![p] = outcome]
  /\ UNCHANGED <<kernelVars, worker, journal, runs, wireVars, operatorVars>>

(* context.observe: a prepared adapter keeps what it saw, authority or not.   *)
Observe(d) ==
  LET p == worker[d].episode IN
  /\ At(d, "native") /\ native[p] \in Outcomes
  /\ IF d \in Prepared
     THEN journal' = [journal EXCEPT ![p] =
            [@ EXCEPT !.observed = TRUE, !.phase = IF Current(d) THEN "observed" ELSE "unknown"]]
     ELSE UNCHANGED journal
  /\ IF Current(d) THEN Goes(d, "observing") /\ Send(d, "observe") /\ UNCHANGED answers
     ELSE Leaves(d) /\ Send(d, "unknown")
  /\ UNCHANGED <<kernelVars, native, runs, operatorVars>>

Observed(d) ==
  /\ Read(d, "observe", TRUE)
  /\ Goes(d, "observed")
  /\ answers' = Dropped(d, "observe")
  /\ UNCHANGED <<kernelVars, journal, native, runs, net, operatorVars>>

(* The result is verified and the last renewal has been answered.            *)
Complete(d) ==
  LET p == worker[d].episode IN
  /\ At(d, "observed") /\ Current(d) /\ ~worker[d].renewing
  /\ Goes(d, "completing") /\ Send(d, "complete")
  /\ IF d \in Prepared
     THEN journal' = [journal EXCEPT ![p] = [@ EXCEPT !.phase = "verified", !.result = native[p]]]
     ELSE UNCHANGED journal
  /\ UNCHANGED <<kernelVars, native, runs, answers, operatorVars>>

Completed(d) ==
  /\ Read(d, "complete", TRUE)
  /\ Leaves(d)
  /\ IF d \in Prepared THEN Journals(worker[d].episode, "completed") ELSE UNCHANGED journal
  /\ UNCHANGED <<kernelVars, native, runs, net, operatorVars>>

(* The catch block of run.  A prepared adapter whose dispatch was not answered *)
(* tries to give the episode back.                                            *)
GivesBack(d) ==
  /\ d \in Prepared /\ Failing(d, "dispatch")
  /\ Goes(d, "releasing") /\ Send(d, "release")
  /\ Journals(worker[d].episode, "unknown")
  /\ answers' = Dropped(d, "dispatch")
  /\ UNCHANGED <<kernelVars, native, runs, operatorVars>>

GivenBack(d) ==
  /\ Read(d, "release", TRUE)
  /\ Leaves(d)
  /\ Journals(worker[d].episode, "released")
  /\ UNCHANGED <<kernelVars, native, runs, net, operatorVars>>

(* What was attempted has no proof: the device says so and never repeats it.  *)
Unproven(d) ==
  LET p == worker[d].episode IN
  /\ \/ Failing(d, "start") \/ Failing(d, "release")
     \/ Failing(d, "dispatch") /\ d \notin Prepared
     \/ Failing(d, "observe") \/ Failing(d, "complete")
     \/ At(d, "permitted") \/ At(d, "observed")
     \/ At(d, "native") /\ native[p] \in Outcomes
  /\ Leaves(d) /\ Send(d, "unknown")
  /\ IF d \in Prepared THEN Journals(p, "unknown") ELSE UNCHANGED journal
  /\ UNCHANGED <<kernelVars, native, runs, operatorVars>>

(* The timer of the run.                                                     *)
Renews == {"leased", "dispatching", "permitted", "native", "observing", "observed", "releasing"}

RenewSent(d) ==
  /\ worker[d].pc \in Renews /\ Current(d) /\ ~worker[d].renewing
  /\ worker' = [worker EXCEPT ![d] = [@ EXCEPT !.renewing = TRUE, !.asked = clock]]
  /\ Send(d, "renew")
  /\ UNCHANGED <<kernelVars, journal, native, runs, answers, operatorVars>>

RenewAnswered(d) ==
  /\ \/ \E a \in Answered(d, "renew") :
          a.ok /\ worker' = [worker EXCEPT ![d] =
            [Renewed(d, worker[d].asked, a.window) EXCEPT !.renewing = FALSE, !.asked = 0]]
     \/ Failing(d, "renew") /\ worker' = [worker EXCEPT ![d] =
            [@ EXCEPT !.open = FALSE, !.renewing = FALSE, !.asked = 0]]
  /\ answers' = Dropped(d, "renew")
  /\ UNCHANGED <<kernelVars, journal, native, runs, net, operatorVars>>

Crash(d) ==
  /\ "crash" \in Faults /\ ~At(d, "idle")
  /\ Leaves(d)
  /\ UNCHANGED <<kernelVars, journal, native, runs, net, operatorVars>>

-----------------------------------------------------------------------------
(* DeviceWorker.reconcile, on request of a person.                           *)
Acknowledge(p) == journal' = [journal EXCEPT ![p].phase = "completed"]

Fetch(d, c) ==
  LET p == challenge[c].episode
      run == worker[d].run + 1
  IN
  /\ d \in Prepared /\ At(d, "idle") /\ run <= MaxRuns /\ d \notin revoked
  /\ p # 0 /\ episode[p].device = d
  /\ \/ /\ challenge[c].state = "accepted" /\ journal[p].phase # "completed"
        /\ Acknowledge(p)
        /\ worker' = [worker EXCEPT ![d] = Idle(run)]
     \/ /\ challenge[c].state = "pending" /\ ChallengeCurrent(c, d)
        /\ worker' = [worker EXCEPT ![d] = [Idle(run) EXCEPT !.pc = "reconciling",
             !.episode = p, !.challenge = c, !.deadline = challenge[c].expires]]
        /\ UNCHANGED journal
  /\ UNCHANGED <<kernelVars, native, runs, wireVars, operatorVars>>

ReportUnobserved(d) ==   \* fault: whatever the journal holds
  /\ At(d, "reconciling") /\ clock < worker[d].deadline
  /\ journal' = [journal EXCEPT ![worker[d].episode].result = native[worker[d].episode]]
  /\ Goes(d, "reporting") /\ Send(d, "report")
  /\ UNCHANGED <<kernelVars, native, runs, answers, operatorVars>>

(* The adapter reads the native evidence again and the journal keeps the      *)
(* result with the observation it made then.                                  *)
Report(d) ==
  LET p == worker[d].episode IN
  /\ At(d, "reconciling") /\ clock < worker[d].deadline
  /\ journal[p].observed /\ journal[p].phase # "dispatching"
  /\ journal' = [journal EXCEPT ![p].result = native[p]]
  /\ Goes(d, "reporting") /\ Send(d, "report")
  /\ UNCHANGED <<kernelVars, native, runs, answers, operatorVars>>

Reported(d) ==
  /\ Read(d, "report", TRUE)
  /\ Leaves(d) /\ Acknowledge(worker[d].episode)
  /\ UNCHANGED <<kernelVars, native, runs, net, operatorVars>>

ReportFails(d) ==
  /\ At(d, "reconciling") \/ Failing(d, "report")
  /\ Leaves(d)
  /\ UNCHANGED <<kernelVars, journal, native, runs, net, operatorVars>>

-----------------------------------------------------------------------------
Device(d) ==
  \/ Run(d) \/ GotLease(d) \/ NoLease(d) \/ Started(d) \/ PrepareFails(d)
  \/ Dispatch(d) \/ Permitted(d) \/ Begin(d) \/ Observe(d) \/ Observed(d)
  \/ Complete(d) \/ Completed(d) \/ GivesBack(d) \/ GivenBack(d) \/ Unproven(d)
  \/ RenewSent(d) \/ RenewAnswered(d)
  \/ Report(d) \/ Reported(d) \/ ReportFails(d)
  \/ \E c \in Challenges : Fetch(d, c)

Operator ==
  \/ CancelTask \/ ResumeTask \/ Assign
  \/ \E d \in Devices : Revoke(d) \/ Crash(d)
  \/ \E d \in Prepared, c \in Challenges : RequestReconciliation(c, d)

Next ==
  \/ Operator \/ Tick \/ Recover
  \/ \E r \in net : Handle(r)
  \/ \E p \in Episodes : NativeEnds(p)
  \/ \E d \in Devices : Device(d)

Spec == Init /\ [][Next]_vars

-----------------------------------------------------------------------------
Phases == {"none", "dispatching", "dispatched", "observed", "verified", "completed", "released", "unknown"}

DeviceTypeOK ==
  /\ \A d \in Devices :
       /\ worker[d].pc \in Points /\ worker[d].run \in 0 .. MaxRuns
       /\ worker[d].episode \in 0 .. MaxEpisodes
  /\ journal \in [Effects -> [phase : Phases, observed : BOOLEAN, result : Outcomes \cup {"none"}]]
  /\ native \in [Effects -> Outcomes \cup {"none", "running"}]

(* However late requests and answers are, one device at a time works on the    *)
(* task: what assertCurrent lets a device do, the coordinator has granted to    *)
(* no other one.                                                              *)
Working(d) == Current(d) /\ worker[d].pc \notin {"releasing", "completing"}
SoleAuthority == \A d1, d2 \in Devices : Working(d1) /\ Working(d2) => d1 = d2

(* The external operation of an effect is begun at most once, and that of a    *)
(* later episode only after the earlier one's outcome was accepted (the         *)
(* comments "Never repeat a native operation" and "never another provider       *)
(* execution").                                                                *)
NativeOnce ==
  \A p \in Episodes :
    /\ runs[p] <= 1
    /\ \A q \in 1 .. p - 1 : native[p] # "none" /\ native[q] # "none" => effect[q].state = "confirmed"

(* The two ledgers agree, at every point a crash may leave them: a released      *)
(* effect was never dispatched nor begun, a completed one is confirmed, what the  *)
(* coordinator has as dispatched the device has on disk, and behind an outcome    *)
(* the coordinator accepted there are the device's observation and result.       *)
JournalTruth ==
  \A p \in Episodes :
    /\ journal[p].phase = "released" => effect[p].state = "none" /\ native[p] = "none"
    /\ journal[p].phase = "completed" => effect[p].state = "confirmed"
    /\ effect[p].manifest =>
         /\ journal[p].phase # "none"
         /\ native[p] # "none" => journal[p].phase \notin {"dispatching", "released"}
         /\ effect[p].state = "confirmed" =>
              journal[p].observed /\ journal[p].result = episode[p].state /\ native[p] = episode[p].state
=============================================================================
