# ControlMesh in TLA+

A verification development of ControlMesh (`src/`): TLA+ modules of its core
protocols, TLC configurations that check them on small instances, and TLAPS
proofs of the results that hold for every size.

ControlMesh runs coding agents behind chat transports. A chat message becomes a
turn of an agent; an agent hands longer work to background *tasks* and to durable
*host jobs*; both outlive the turn, often the process, and report back. What can
go wrong lives there: results given twice or lost, runs nobody can stop, steps run
out of order, jobs nobody finishes after a restart. The models follow that.

## 1. Inventory

| Component | State it keeps | Operations | Talks to | What is hard, and what makes it correct |
|---|---|---|---|---|
| **TaskHub** `controlmesh/tasks` | registry of tasks (JSON), `_in_flight` and `_run` coroutines, `TOOL_RESULT.json`, `RESULT.md`, agent inbox, slot and process leases | submit, resume, cancel, cancel_all, delete, ask_parent, consume_tool_results, reconcile, shutdown | CLI workers (processes), the parent's result handler (a callback that takes a turn and may call back into the hub), HostJobRunner | A run and its successor overlap in the delivery callback; statuses, ledger and inbox are separate files; recovery after a restart. *A result reaches its parent once; what is running can be stopped; finished means recorded; what was left on disk is resolved.* |
| **HostJobRunner** `controlmesh/runtime/host_jobs.py` | HOST_JOB.json, STEPS.json, exit_code.txt; one `_advance_job` coroutine per job, `_explicit_cancel` | ensure_job, start, approve_step, cancel, shutdown, reconcile_job, detach | workers in sessions of their own; TaskHub, plan_review_loop, HostJobBridge | Copies of the job carried across awaits, sticky merges, cancel against launch and exit, restarts and torn puts. *Steps in order and approved, one worker, final states stay, a cancelled job has no worker, a job settles.* |
| **HostJobBridge** `runtime/host_job_bridge.py`, `cli_commands/hostjob.py` | DISPATCH.json (intent and review), a per-job file lock, the inbox item | run, wait, consume (status only reads) | HostJobRunner and the inbox, from several OS processes | A process dies anywhere; the coroutine it leaves in its event loop writes without the lock; a shell dies before or after it writes the exit code. *An attempt is launched once, its event consumed once, answers are true, a vanished worker is noticed and nobody waits for ever.* |
| **TypeScript runtime kernel** `packages/controlmesh-runtime-core/src/kernel.ts` | tasks, episodes, effects, manifests, observations, a clock in SQLite | claim, start, renew, dispatch, observe, confirm, finish, release, markUnknown, expire, reconcile, cancel, resume | device coordinator | Any device presents any lease at any time; the host clock jumps. *A lapsed lease never acts again, an outcome is proven by confirmed effects, uncertain work stops the task.* |
| **Device coordinator and workers** (`device-coordinator.ts`, `device-worker.ts`, `device-journal.ts`, `device-reconciliation.ts`) | challenges; per device a run, a lease window and an execution journal | the worker's loop, the coordinator's handlers, fetch and report of a challenge | kernel | Late, lost and unanswered requests; crashes between journal and request. *One device works at a time, an external operation is begun once, the ledgers of both sides agree.* |
| **Delivery outbox** (`delivery-outbox.ts`) | outbox rows, routes, attempts, receipts, refusals | project, drain, recover, accept, reconcile, retryBlocked | kernel's terminal events, transports | Overlapping drains that die, refusals, revoked routes, a transport that cannot say. *Posted once, in order, a receipt stays, the head of each queue moves.* |
| **Device scheduler** (`device-scheduler.ts`, `device-runtime-control.ts`) | work table, switch, lease on admission; per process a pump and a map of runs | start, pump, pause, stop, retry | coordinator, executor | Pumps left over from an earlier ownership, late results. *An owner runs what its table says, nothing that may have acted is started again of itself, due rows are served.* |
| **Cron** (TS and Python) | schedules, dependency queue, due occurrences | tick, claim, finish | TaskHub, bus | Ticks missed or taken twice; queue order |
| **Message bus, lock pool** `controlmesh/bus` | per-session locks with eviction | submit, deliver, evict | every observer and transport | Eviction of a lock in use |
| **Inbound spool** (Telegram, Feishu; TS and Python) | durable ingress rows, offsets, attempts | poll, persist, acknowledge, retry | bus | A crash between persist and acknowledge |
| **Team runtime** `controlmesh/team` | dispatch, mailbox and task files of a team | dispatch, claim, report | TaskHub | Shared files, several agents |
| **Runtime evidence** `controlmesh_runtime` | evidence store, promotion receipts | record, decide, promote | - | Promotion of stale evidence |
| **Plan and review loop** | markdown plan of a release, release monitor | approve_current_phase, reconcile | HostJobRunner | Its notion of "awaiting approval" is the job's |
| **Sessions** | one JSON file per store | get, update, reset | orchestrator | Updates from stale copies |
| Supervisor, orchestrator, messengers, CLI providers, webhooks, heartbeat, memory, API, files, infra | configuration, processes, sockets | | | Process management, I/O, parsing and rendering: not modelled, see 7 |

`PROJECT.json` lists every component with its sources and status, and under
`hazards` each place where this code is hard to test.

## 2. Plan

Done, in this order:

1. `TaskHub`, `MCTaskHub`, `TaskHubProofs`.
2. `StepPlan` (what a job promises), `HostJobs`, `MCHostJobs`, `HostJobsProofs`.
3. `HostJobBridge`, `MCHostJobBridge`, `HostJobBridgeProofs`: several processes over one
   attempt.
4. `SoleAttempt` (what a task promises), `TaskKernel`, `MCTaskKernel`,
   `TaskKernelProofs` and `TaskKernelTheorems`.
5. `DeviceRuntime`, `MCDeviceRuntime`, `DeviceRuntimeProofs`: composes the transactions of
   `TaskKernel` with the coordinator's handlers, the workers and their journals.
6. `DeliveryOutbox`, `MCDeliveryOutbox`, `DeliveryOutboxProofs`.
7. `DeviceScheduler`, `MCDeviceScheduler`, `DeviceSchedulerProofs`.

Left, most important first:

8. The lock pool with the message bus; the cron dependency queue and the claim of a due
   occurrence; the inbound spool; team dispatch; evidence promotion; sessions.
9. A composition `TaskHub` x `HostJobs`: a detached task is done when its job is.
10. Theorems about the modules of 8 and 9. Of the modules there are, every invariant and
    action property a run checks is proved (section 7); liveness stays with TLC.

Every module is written to be proved about: constants with named assumptions, one
action per operation, invariants as conjunctions, no RECURSIVE operator.

## 3. Modules

### TaskHub

The hub is one asyncio process, so a step is the code between two awaits. A *run*
is one coroutine of `_run`: the first for submit, one for every resume.

| Variable | In the code |
|---|---|
| `entry` | `TaskRegistry._entries` (saved at each change): status, resumable session, idempotency key |
| `run` | the asyncio task of each run: where it waits, whether it is cancelled, its pending question |
| `inflight`, `slots` | `_in_flight` (keyed by task, not by run) and the route-slot lease |
| `ledger`, `resultMd`, `inbox` | `TOOL_RESULT.json`, `RESULT.md`, the agent-inbox item of the task's tool_use_id |
| `recovery` | the delivery coroutine `_finalize_reconciled_result` creates |
| `worker`, `leases` | CLI processes, and their process leases on file |
| `handed`, `taken` | history: results a handler accepted, results the parent consumed |

| Actions | Code |
|---|---|
| `Submit`, `Resume`, `Cancel`, `CancelAll`, `Delete`, `CleanupOrphans`, `Consume` | `submit`, `resume`, `cancel`, `cancel_all` and `shutdown`, `registry.delete` and `cleanup_finished`, `cleanup_orphans`, `consume_tool_results` |
| `Start`, `Respond`, `Fail`, `Escape`, `Cancelled`, `CancelledBeforeStart`, `CancelledReporting`, `HandlerReturns`, `HandlerRaises`, `FinishInflight` | `_run` and `_deliver` segment by segment: to `cli.execute`, its response, each except branch, the handler, the done-callback |
| `ForwardQuestion`, `WriteResultMd`, `StrayExits` | what a worker process does, also one whose run is over |
| `RecoverLedger`, `RequeueInbox`, `MarkRecovering`, `RecoverResultMd`, `MarkStale`, `RecoveryStarts`, `RecoveryReturns`, `RecoveryRaises` | `reconcile_task_state`, case by case, and the delivery it starts |
| `Restart`, `RestartAfterStatus`, `RestartAfterConsumed` | death of the process, between steps or between two writes of one step, and `_load` |

`Events` says what the environment may do (a resume from inside the delivery, a
cancel during delivery or before the first step, a handler that raises, a worker that
outlives its run, a death between two writes). Each run names its events, so each
property is stated for the environments it holds in; section 5 says in which it does not.

*Abstracted:* one chat and one parent; text, provider selection, evaluator artifacts and
topology state (the evaluator's verdict is a free Boolean); tool grants and reply
targets; native sessions; the tell/pull_updates log; corrupt ledger files; reuse of
pids. Tasks meet only in keys, `max_parallel`, `cancel_all` and orphan folders.

### HostJobs and StepPlan

One job; jobs share nothing but a directory. `disk` is the pair of authority files,
`whole` whether the first put of `ensure_job` got as far as STEPS.json (`Listed`: a reader finds
no step otherwise, ever),
`exitFile` and `fate` what each launched worker left and did, `owner` the
`_advance_job` coroutine with the *copy of the job it carries across its awaits*,
`canceller` a `cancel()` that awaits the coroutine, also with its copy.

| Definitions | Code |
|---|---|
| `Sticky`, `MergeSteps`, `Merge`, `Half` | `_sticky_transition`, `_merge_job`, and a `put` whose second file is missing |
| `Finalize`, `NextStep`, `NeedsApproval`, `InStep`, `Advance` | `_finalize_job`, `_next_runnable_step`, one turn of the loop of `_advance_job` |
| `Start`, `ApproveAndStart`, `CancelUnowned`, `CancelOwned`, `CancelReturns`, `Shutdown` | `ensure_job` and `start`, `approve_step` (from `approve_current_phase`), `cancel` up to and after its await, `shutdown` |
| `OwnerAdvances`, `Launch`, `LaunchFails`, `Reap`, `OwnerCancelled` | `_advance_job` and `_execute_step` between awaits |
| `WorkerExits`, `WorkerLost` | the bash wrapper that writes `exit_code.txt`; a worker that dies without |
| `ReconcilePending`, `ReconcileExit` | `reconcile_job` |
| `Init` | the first put of `ensure_job`, torn where `torn_create` is possible |
| `Restart`, `RestartTorn` | death between steps; inside one, leaving half a put or the puts before the last |
| `RestartReaping` | death after `proc.wait`: the exit code file emptied and not yet written, or written and the puts not all made |
| `RestartLaunching` | death with the worker launched and its pid not on file |

`CancelReturns` writes the copy read before the await; a coroutine started meanwhile is
queued behind it in the event loop, hence the guard of `OwnerAdvances`.
`StepPlan` is the promise: steps finish one after the other, an approval precedes the
step that needs it, the outcome stays. `HostJobs` maps to it by counting the completed
prefix of the steps on disk, and `ImplementsPlan` checks the refinement.

*Abstracted:* commands, logs, timestamps; pids are launch numbers (no reuse). The
release monitor's extra guard on the push step (gate state) is left out, so
`ApproveAndStart` allows more than the code. `detach` and the file lock are in
`HostJobBridge`.

### HostJobBridge

One external attempt, of one step. Each call of `controlmesh hostjob` is an
operating-system process of its own; calls serialise on a file lock that the kernel
frees when its holder dies.

| Variable | In the code |
|---|---|
| `intent` | DISPATCH.json: whether dispatch was marked, the review reason, what is known of quiescence |
| `file`, `exit`, `inbox` | HOST_JOB.json with STEPS.json, exit_code.txt, the inbox item of the attempt |
| `main` | where the call of each process is, with the copy its next put will write |
| `owner` | the `_advance_job` coroutine the dispatching process runs in its event loop |
| `worker`, `busy` | the shell, and what is at work (`Work`): the command, which the shell waits for, only children it has put into the background, or nothing |
| `launches`, `answers`, `handed` | history: launches, answers given, events consumed |

| Actions | Code |
|---|---|
| `Run`, `EnsureJob`, `Dispatch`, `Wait`, `TimesOut` | `run_attempt` from the lock to the wait |
| `Observe`, `Bury`, `MarkGone`, `MarkReview`, `LooksTerminal`, `LooksReviewed` | one turn of `await_terminal_event` under the lock, `_worker_outcome` |
| `Reconcile`, `ReconcileFinalizes` | `reconcile_job` as the bridge calls it |
| `Consume`, `ConsumeMarks`, `ConsumeAnswers` | `consume_terminal_event` |
| `OwnerBegins`, `Launch`, `LaunchFails`, `OwnerNotes`, `OwnerReaps`, `OwnerRecords`, `OwnerFinalizes`, `OwnerWrites` | the coroutine; each put read-and-merged in one step and written in another |
| `CommandEnds`, `ShellExits`, `ShellKilled`, `ChildrenEnd`, `Crash` | the shell, which writes the exit code whether or not background children are left; the death of a process, between steps, between the two files of a put or with the exit code file emptied |

A process is single-threaded: while its call holds the lock and does not await, its
coroutine does not run (`MainRuns`, `OwnerRuns`).

*Abstracted:* the binding (parent, command and workspace are the first ones; a mismatch
or a damaged intent is refused and changes nothing); `status` only reads. An attempt
bound with `--approval-required` is left out: the command has no way to approve it.
An "uncertain" dispatch, marked but never launched, covers the process that dies before
its coroutine runs.

### TaskKernel and SoleAttempt

`kernel.ts` of the TypeScript runtime: one task outside any topology. An operation is
one SQLite transaction, hence one action, and what it reads of the clock is `Reading`: never
earlier than the latest reading on file. `task`, `episode` and `effect` are the rows of
those tables. The callers are arbitrary: any device may present the lease of any episode
at any time, which covers late, repeated and reordered requests.

| Actions | Code |
|---|---|
| `Claim`, `Start`, `Renew`, `Finish`, `MarkUnknown`, `ReleaseUnstarted` | the lease's life |
| `DispatchEffect`, `ConfirmEffect`, `RecordEffectObservation` | the effects recorded before an operation is handed out, and their evidence |
| `ReconcileEffect`, `AdmitObservation`, `RecoverExpired` | what resolves uncertain work, and the sweep of expired leases |
| `Cancel`, `Resume` | the operator |

`SoleAttempt` is the promise: one attempt at a time, an outcome is final, nothing begins
or settles after a cancel. `TaskKernel` maps to it by the state of the episodes.

*Abstracted:* request receipts (a repeated request returns the stored answer and changes
nothing), the mailbox, artifacts, native-session mappings, projections, batches,
topologies.

*What the model shows of the code:* an episode that has started but dispatched nothing
and then expires leaves its task stale, to be cancelled and nothing else; the same
after an effect was confirmed but the task not finished. A cancel keeps
`needs_reconciliation`; resume and finish do not advance the fence.

### DeviceRuntime

Extends `TaskKernel` with the coordinator, one worker per device and its journal. A
request stays in `net` until it is handled, perhaps never; an answer in `answers` until it is
read or its sender gives up. `worker` is where each run is, with the lease window it
believes in (`Current`); `journal` the execution journal of the prepared devices; `native`
and `runs` the external operations, and how often each was begun; `challenge` the
reconciliation challenges; `revoked` and `assigned` what the operator decided.

| Actions | Code |
|---|---|
| `HandleClaim` ... `HandleUnknown`, `HandleReport` | the coordinator's handlers around the kernel's transactions |
| `Run`, `GotLease`, `Started`, `Dispatch`, `Permitted`, `Begin`, `NativeEnds`, `Observe`, `Observed`, `Complete`, `Completed` | the worker from its claim to the outcome |
| `GivesBack`, `GivenBack`, `Unproven`, `PrepareFails`, `NoLease`, `RenewSent`, `RenewAnswered` | its failures and renewals |
| `Fetch`, `Report`, `Reported`, `ReportFails`, `RequestReconciliation`, `Acknowledge` | reconciliation of a journal after a restart |
| `Tick`, `Recover`, `CancelTask`, `Revoke`, `ResumeTask`, `Assign`, `Crash` | time, the sweep, the operator, death of a worker |

*Abstracted:* a plain device starts and dispatches in the step that reads the answer
before; a worker that is aborted is one that crashes; the 50 ms margin of the lease
window is omitted; a challenge is fetched in one step with the coordinator; time is one
clock on both sides. HTTP authentication, enrolment, artifacts and queues are left out.

### DeliveryOutbox

`ended` and `standing` are the terminal events the kernel recorded; `route` the binding of
each task to a chat; `state`, `attempt` and the refusals the rows; `drain` what each `deliver()`
holds; `wire` each row's latest request at the transport, `posts` the messages the recipient has.

| Actions | Code |
|---|---|
| `TaskEnds`, `TaskResumes`, `BindTask`, `RevokeTask` | the kernel's events and the operator's routes |
| `Drain` | `drain`: project, recover and take a snapshot, one step |
| `Take`, `Admit`, `Fails`, `Send`, `Observe`, `Accept`, `RetryAfter`, `HandleRefusal`, `AttemptFails`, `Drained` | `deliver` from await to await |
| `Arrives`, `IsRefused` | the transport, also for a request whose sender gave up |
| `Crash`, `CoolsDown`, `RetryBlocked`, `Reconcile` | death of a drain, the adapter's pause, the operator |

*Abstracted:* one adapter, so its cool-down is a Boolean; an attempt's id is the drain
whose current `deliver` made it; recovery applies to any subset of the rows dispatching,
which stands for the clock. `Batch`, `MaxOpen`, `Capacity` and `MaxRefusals` are 32, 128, 4 and
3 in the code and parameters here.

### DeviceScheduler

`lease` is the token on the device's admission and whether its deadline is ahead (the
generation of the code), `enabled` the switch, `work` the table, `job` the task behind each
row as the coordinator has it, `proc` each process's timer, pump and pause or stop, `active`
the map of runs by work id, `runs` the runs in flight, `asked` an operator's retry that waits for
the coordinator.

| Actions | Code |
|---|---|
| `StartCommand`, `Pause`, `Paused`, `Stop`, `StopEnds`, `PumpAwaited` | the operator's switch, pause and stop with what they await |
| `Tick`, `TimerFails`, `Page`, `Inspect`, `Review`, `Reviewed`, `AdmitNext`, `Admit`, `AdmitBusy`, `Declined`, `PumpGivesUp`, `PumpEnds` | the pump |
| `Claim`, `RunFails`, `RunReturns`, `AttemptChanged` | a run and its result, also after its process lost the lease |
| `AskRetry`, `Retry` | an operator's retry |
| `Lapse`, `Crash`, `JobMoves` | deadlines, deaths, what happens to the task meanwhile |

*Abstracted:* `authorize` fails only for good, which is a lapse; `Begin` is part of `Admit`; the
page is read and used in one step; the checks before an inspect are a step with the
coordinator's reading; the waits of the clock may be over at any time.

The MC modules only name the constants of the runs.

## 4. Runs

| Run | Instance | Shows |
|---|---|---|
| `hub_patient` | 1 task, 2 runs, 2 restarts, everything but `resume_early`, fair | recovery brings nothing the parent has had, unless the task was resumed since; the first result can be found; cancel and ask_parent reach each working run; a question ends as waiting; runs end; recovery resolves what is on disk |
| `hub_eager` | 1 task under one key, 3 runs, 1 restart, only `resume_early` | no result offered twice; no two executors in one folder; running means alive; finished means recorded and stays |
| `hub_question` | the smallest instance, `resume_early` | a comment of the code it does not keep, see 6 |
| `jobs_release` | 3 steps, the middle one approved, 2 launches, 2 restarts, everything but `reconcile` and `torn_create` | order, approvals, one worker, cancel stops, exit codes, refinement of `StepPlan` |
| `jobs_reconcile` | 1 step, 2 launches, 2 restarts, `cancel`, `reconcile`, `worker_lost`, `torn_write`, `torn_create`, fair | final states stay; owned jobs settle; cancel ends; a left exit code resolves the job |
| `bridge_calls` | 2 calls at a time, `kill_late` and `torn`, fair | one launch, one consumed event, true answers, quiescence confirmed only of a command that is over, no endless wait |
| `kernel_anyone` | 2 devices, 2 episodes, 2 effects, times 0 to `MaxTime` | lapsed leases, proven outcomes, uncertain work, budgets, refinement of `SoleAttempt` |
| `device_handover` | a prepared and a plain device, one run each, a resume | one device works at a time; an operation is begun once |
| `device_recovery` | one prepared device, two runs, crash, revoke, cancel, one challenge | journal and kernel agree |
| `outbox_order` | one task with two events, the second of two messages; two drains | posted once, in order, receipts stay |
| `outbox_moves` | two tasks, one drain, one slot, fair | the head of each queue moves |
| `sched_owners` | two processes, one work of two attempts, two faults, fair | an owner runs what it lists, nothing repeated unasked, due rows served |

**Bounds.** *Hub:* two runs are the least with a resume, a stray of the earlier run and a
stale `RESULT.md`; three the least in which a run outlived by two others can disturb the
later. Two restarts let the second find what recovery after the first left. Tasks
meet only where 3 says, so one task is enough for the per-task properties; with one key
it also exercises the attach of a repeated submit. `ToldOnce` also holds with two tasks, and
is proved; `RecoveryIsNewUntilResumed` also holds with three runs, in the environments of
both runs. *Jobs:* three steps with the middle one approved give a
step before, at and after an approval, and two launches a repeated step. *Bridge:* two
processes are the least with a dispatcher and another call beside or after it; since
processes restart as new calls there is no bound on calls. The safety properties also
hold with three (0.8 million states). *Kernel and devices:* two episodes are
the least with a late writer of the first; two effects the least with one confirmed and
one open; the clock needs one tick to let a lease lapse and one beyond. *Outbox:* three
messages over two events are a part after a part and an event after an event; `MaxOpen`
and `Batch` are below the number of rows so that both limits are met. *Scheduler:* two
processes and two attempts give a run of an earlier ownership beside a retry; its safety is
proved for all sizes and was also run with three attempts and three faults.
`MaxLaunches`, `MaxRuns`, `MaxRestarts`, `NTasks`, `MaxEpisodes`, `MaxTime`, `Challenges`,
`MaxResets`, `MaxAttempts` and `MaxFaults` appear in guards only to keep the instances
finite. Where the code may come to rest (every task settled, every bound used up)
deadlock is not checked.

**Fairness.** `TaskHub`: weak fairness of each run's coroutine, of recovery deliveries and
of reconciliation: the event loop runs what is ready, `cli.execute` has a hard timeout, the
reconcile loop wakes every 30 s. Parents, questions and strays owe nothing. `HostJobs`:
weak fairness of the coroutine, of a cancel that returns, and of `Reconcile` where somebody
polls (`jobs_reconcile`). There commands may run for ever and nobody has to approve: the
liveness properties say "unless". `HostJobBridge`: weak fairness of what a live process does
next and of the shell, whose command is assumed to end; strong fairness of a waiting
call's turn, whose poll a contended lock keeps disabling but which blocks in `flock` until
it gets it. `DeliveryOutbox`: weak fairness of a living drain and of the cool-down; strong of a
drain after a time-out and of taking up or admitting a row, which other drains disable
again and again while the pump never stops. `DeviceScheduler`: weak fairness of the timers
and pumps of live processes; strong fairness of reading a page of rows and of the
coordinator's answer about a row, which may fail often but not always. Runs, operators and
the coordinator's tasks owe nothing.

## 5. Where properties stop holding

Found by running each property in each environment; the runs exclude exactly these.

- `InflightTracksRun`, `QuestionMeansWaiting` fail with `resume_early` (a finding).
- `ToldOnce` fails with `cancel_late`, and so does, at four runs, that a result is consumed
  at most once (`ConsumedOnce`, proved without the event and checked by no run): a cancel
  during delivery rewrites the ledger, unread, for a result the parent may already have.
- `StoppedBeforeResumable`, `FinishedUntilResumed` fail with `resume_early` together with
  `handler_raises` or `cancel_late`: the old run's error status lands on a working run. So
  does `RecoveryIsNewUntilResumed`, at three runs. That recovery brings only what the parent
  has not had (`RecoveryIsNew`) fails everywhere after a resume (6).
- `RunningIsLive` fails with `cancel_early` and `error_escapes`: the entry says running
  until the next restart.
- `FinishedIsRecorded` fails with `torn_commit`: the status is on disk before the ledger;
  and with `handler_raises` on a task that waits for an answer.
- That at most one unfinished task has a key fails with two tasks and one key.
- `LaunchedInOrder`, `ImplementsPlan` fail for a job of several steps when `reconcile` and
  `torn_write` are both possible: the failed step is on file, the job not yet failed, and
  the next start goes on with the step after it. Nobody reconciles such jobs today.
- `ImplementsPlan` fails with `torn_create`: a job whose first put was torn has no steps, so
  the next start completes it and no step has run (6). The other properties of jobs hold.
- `ExitResolves` speaks of an exit code that stays on file: a death inside `write_text` may
  empty the file the wrapper had written, and the job then says running for ever.
- `OwnedJobSettles` fails with `launch_fails`: the exception ends the coroutine and the job
  says running.
- `OneWorker`, `CancelledIsStopped` are stated for one process life: after a restart a
  worker may be alive that no coroutine knows.
- `AnswersAreTrue` fails with `kill_attached` together with `kill_late`: the parent of a shell
  killed after it wrote its exit status records the status of the kill over it.
- `QuiescenceIsProven` fails with `kill_attached` (6). It speaks of the command; that nothing
  at all is at work (`busy = "nothing"`) fails in every environment, because an exit code
  says nothing of background children (6).
- `AnswersAreTrue` and `WaitEnds` fail with `emptied`: a dispatcher dies with the exit code file
  emptied while another call is about to answer, or is between the two puts of its
  reconciliation and dies as well. The other properties of the bridge hold with it.
- `WaitEnds` excepts `HalfBegun`, a job
  that says running with its step pending, which a torn put of the bridge's coroutine
  leaves (6). "A final state on file stays" fails in the bridge: the coroutine's stale put
  lands over a reconciliation. What a call has *answered* stays true all the same.
- In the outbox, a head stands still behind `Batch` older pending rows of tasks whose own
  heads are unresolved (`Crowded`), and projection stops at `MaxOpen` unresolved rows. Read
  off the code, outside the model: a binding that throws for one task rolls
  back the projection of all, and overlapping drains may clear each other's retry timer.
- In the scheduler, `DueIsServed` asks for a timer (`Owner`): a start issued while a pause
  still waits leaves the switch on and no timer, and a pump that ends with an error does not
  start its timer again. Rows that say blocked are never reviewed. A refused second run
  deletes the map entry of the first; the row of a completed work may be overwritten by a
  late result of the same attempt and heals at the next review. An inspect error outside
  the listed codes ends each pass of the pump before later rows.

## 6. Divergences

`findings` in `PROJECT.json` quotes each with its lines. `hub_question` is a run of its own:
a question is lost when a run is resumed during delivery. Seen in the model with the
constants given: two unfinished tasks under one idempotency key (two tasks, one key); a
delivered result handed over again by recovery, and a task left stale for ever (a
restart during a resumed run); a job that says awaiting_approval while its approved step
runs; a job completed of which no step ran, its first put torn; a TaskHub job whose exit code
nobody reads after a restart; and for the bridge the four of section 5: quiescence confirmed
after the shell was killed beside its dispatcher, and of a command with background children, a
half-begun job that is neither answered nor flagged, and an unlocked put that takes a
final state back. Read off the code: the status `_load` gives, `max_parallel` on resume,
`RESULT.md` as an authority for completion, and a lookup of a method the runner does not
have.

## 7. Proofs

The theorems hold for every value of the constants that `HubAssumption`, `JobAssumption`,
`BridgeAssumption`, `KernelAssumption`, `DeviceAssumption`, `OutboxAssumption` and
`SchedulerAssumption` admit: types, bounds that are natural numbers, sets that are subsets.
A theorem that needs more says which events of the environment it excludes; section 5 has
the counterexample without it.

| Theorem | States | Argument |
|---|---|---|
| `TaskHubProofs!TypeCorrect` | `[]TypeOK` | inductive by itself, one step per action |
| `TaskHubProofs!LedgerToldOnce` | `[]ToldOnce`, without `cancel_late` | `ToldOnce` with `TypeOK` is inductive |
| `TaskHubProofs!ResultConsumedOnce` | `[]ConsumedOnce`, without `cancel_late` | a conjunct of `ToldOnce` |
| `TaskHubProofs!RecoveryBringsNews` | `RecoveryIsNewUntilResumed`, with `resume_early` only if neither `handler_raises` nor `cancel_late` | `WorkInv` and `KnownInv` below |
| `TaskHubProofs!FirstResultsAreFound` | `[]FirstResultIsConsumable` | `FirstInv`: an inbox item is only consumed by being taken |
| `TaskHubProofs!RunningTasksAreAlive` | `[]RunningIsLive`, without `cancel_early` and `error_escapes` | `LiveInv`: a run that ends writes a status |
| `TaskHubProofs!FinishedTasksAreRecorded` | `[]FinishedIsRecorded`, without `torn_commit` and `handler_raises` | with `TypeOK`, step by step |
| `TaskHubProofs!ResumedTasksHaveStopped`, `FinishedTasksStayFinished` | `[]StoppedBeforeResumable`, `FinishedUntilResumed`, with `resume_early` only if neither `handler_raises` nor `cancel_late` | `WorkInv` below |
| `TaskHubProofs!WorkingRunsAreInFlight`, `QuestionsAreNotLost` | `[]InflightTracksRun`, `QuestionMeansWaiting`, without `resume_early` | `WorkInv` below |
| `HostJobsProofs!TypeCorrect` | `[]TypeOK` | inductive; the coroutine knows its step |
| `HostJobsProofs!OutcomesStay` | `TerminalIsSticky` | each step keeps what is final (`Kept`): a merge does by `MergeKeeps`, and half a put does when the whole put does (`HalfKeeps`) |
| `HostJobsProofs!LaunchesInOrder` | `[]LaunchedInOrder`, without `reconcile` or without `torn_write` | `OrderInv` below |
| `HostJobsProofs!ExitsAreMatched` | `[]StepsMatchExits` | `EvidenceInv`: every copy of the job, too, says of a step only what a worker's end attests |
| `HostJobsProofs!OneWorkerAtATime`, `CancelledJobsAreStopped` | `[]OneWorker`, `[]CancelledIsStopped` | `FirstLife` below |
| `HostJobsProofs!JobsFollowTheirPlan` | `ImplementsPlan`, without `torn_create`, and without `reconcile` or without `torn_write` | `PlanInv` below |
| `HostJobBridgeProofs!BridgeTypes` | `[]TypeOK` | inductive |
| `HostJobBridgeProofs!CommandIsLaunchedOnce` | `[]LaunchedOnce` | one process holds the lock; `dispatched` is on file before the only coroutine starts |
| `HostJobBridgeProofs!EventIsHandedOnce` | `[]HandedOnce` | the same holder; consumed is on file before the event is answered |
| `HostJobBridgeProofs!AnswersStayTrue` | `[]AnswersAreTrue`, without `emptied`, and without `kill_attached` or without `kill_late` | `TruthInv` below |
| `HostJobBridgeProofs!ConfirmedMeansOver` | `[]QuiescenceIsProven`, of the command and not of its background children, without `kill_attached` and `emptied` | while the command is at work there is no exit status and no coroutine that reaped |
| `TaskKernelTheorems!TypeCorrect` | `[]TypeOK` | inductive |
| `TaskKernelTheorems!OutcomesAreProven`, `NothingOpenIsLeftBehind` | `[]OutcomeIsProven`, `[]UnresolvedIsActive` | together inductive with the shape of the rows |
| `TaskKernelTheorems!HostBudgetHolds` | `[]WithinBudget` | from the type invariant and the claim |
| `TaskKernelTheorems!LapsedLeasesStayDead`, `CancellationIsFinal` | `LapsedStaysDead`, `CancelledForGood` | step by step; the reading of the clock never goes back |
| `TaskKernelTheorems!KernelMakesSoleAttempts` | `ImplementsSole` | each transaction is a step of `SoleAttempt` or a stutter, under the invariant |
| `DeviceRuntimeProofs!DeviceTypesHold` | `[]DeviceTypeOK` | from `Basics` and `Once` below |
| `DeviceRuntimeProofs!OperationsBeginOnce` | `[]NativeOnce` | `Once` below |
| `DeviceRuntimeProofs!OneDeviceActs` | `[]SoleAuthority` | `Granted` below |
| `DeviceRuntimeProofs!LedgersAgree` | `[]JournalTruth` | `Truth` below |
| `DeviceRuntimeProofs!DevicesMakeSoleAttempts`, `DeviceOutcomesAreProven` | `ImplementsSole`, `[]OutcomeIsProven` of the composed system | each handler is one step of `SoleAttempt` or a stutter, also the two that make several writes of the kernel in one transaction |
| `DeliveryOutboxProofs!TypeCorrect` | `[]TypeOK` | inductive |
| `DeliveryOutboxProofs!MessagesArePostedOnce` | `[]PostedOnce` | a row that may be sent has no attempt and no request under way |
| `DeliveryOutboxProofs!MessagesAreInOrder` | `[]InOrder` | what a drain holds has every earlier row of its route sent |
| `DeliveryOutboxProofs!SendsAreLimited` | `[]SharedCapacity` | cardinalities, one row at a time |
| `DeliveryOutboxProofs!ReceiptsAreFinal` | `SentForGood` | step by step |
| `DeviceSchedulerProofs!TypeCorrect` | `[]TypeOK` | inductive |
| `DeviceSchedulerProofs!OwnersRunWhatTheyList` | `[]RunningIsRun` | runs, map and rows of one owner agree |
| `DeviceSchedulerProofs!NothingIsRepeatedUnasked` | `NoImplicitRetry` | a row that may be started was never left open, and what a pump holds is of the row's attempt |

*Why ConsumedOnce needs ToldOnce.* `taken <= 1` is not inductive: nothing in it forbids an
unread ledger for a result already taken. The strengthening says that an unread ledger
never reports a taken run, that a run not yet past its response has neither ledger nor
consumption, and that a task is reconciled only when no run of it lives, so recovery never
writes a second ledger for a delivered run.

*Why LaunchedInOrder needs OrderInv.* The file is written from copies. `OrderInv` says of
the job on file that it covers the approvals and the order of every step launched so
far and is over once a step is spoiled (`Good`); of the coroutine's copy that it covers
the same approvals, is unspoiled and not over (`GoodOwner`); of the canceller's copy that
it covers them, and that nothing is launched while a cancel awaits or returns. `MergeGood`
carries the file over a put of any such copy. `RestartTorn` keeps it because half a put
keeps the old steps; between the two puts of a reconciliation it does not, which is the
hypothesis of the theorem. `OrderInv` was model-checked before it was proved.

*Why the plan needs PlanInv.* A put can finish at most the step the coroutine is at, and
only if that step is the job's current one and the file has nothing the copy lacks. `PlanInv`
says so of the coroutine's and of the canceller's copy (`Follows`, `HandsOn`), that only the
current step may await approval, and only while nobody writes, and, where no put is torn,
that a job with every step completed is over. Then every put is one of three moves of the
plan (`Moves`: steady, a step finishes, a step is approved). Of the hypotheses one is that of
`LaunchesInOrder`, for the same reason; the other, that no first put is torn, is needed because
a job that lists no steps completes at once.

*Why one worker needs FirstLife.* Before the first restart a live worker is the one its
coroutine waits for, with its pid in the coroutine's copy; a coroutine that waits and was
cancelled was cancelled explicitly; and while one works the file does not say cancelled. A
restart forgets the coroutine and not the worker, hence the condition on restarts.

*The hub's WorkInv.* A task has at most one working run, its entry says running, and a task
that waits for reconciliation has no run left. Without `resume_early` the run that is not
over is the one in flight with the slot, and a run that asked knows that it did. The old
run's late status is what breaks it, hence `Orderly`.

*What recovery knows: KnownInv.* While a task is running or unresolved, every run whose
result the parent has, is being given, or could be given from the ledger (`Shown`) has a later
run; and nothing shows or is left of a run that was never created. A resume makes the first
true at one stroke, since runs are numbered as they come; an answer, whose run then shows,
takes the task out of these states in the same step, where `Orderly` keeps an old run's
status from landing on a new one.

*Why the bridge answers truly.* The shell writes its exit status once and the coroutine that
reaped it may write it again; they agree unless somebody kills the shell between its write
and its end (`ShellInv`). What is on file, and in every copy still to be written, fits that
status (`Fits`), and a merge of two jobs that fit does so again. A coroutine's unlocked put
may take a final state back: a state that was answered stays true, not on file.

*The devices.* The coordinator's transactions keep the kernel's invariant
(`KernelKept`), and rows only grow (`RowsGrow`), so what a request or an answer once
said of a row can be said of it later. On that rest four layers. `Bearings`: an episode
belongs to the one device that claimed it, a device at work has an episode of its own,
and every request and answer is about one of its sender, however late. `Once`: where in
its run a device can be before, in and after the external operation; a permit that is
still to be read was given to a run that has begun nothing; and nothing open is left
behind a newer episode. `Granted`: while a device is `Working`, its episode is the
task's active one with a lease at the coordinator that ends no earlier than the device's
window, or it is the one episode that was cancelled; an answer still to be read promises
no more than that. Two such devices would have one episode, which belongs to one of
them. `Truth`: what is on a device's disk at each point of its run and behind each
request it sent, so that a crash at any of them leaves a journal the coordinator's rows
agree with.

The only appeal to induction over data is the library's least-element argument for
`NextStep` (`Least`).

**Only model-checked:** liveness (`RunsEnd`, `RecoveryResolves`, `OwnedJobSettles`,
`CancelEnds`, `ExitResolves`, `WaitEnds`, `HeadsMove`, `DueIsServed`): the prover has no
reasoning about fairness or ENABLED. TLC checks them on the instances of section 4. All
other properties of passing runs are theorems.

**Not modelled:** the components marked so in `PROJECT.json`. Those with a protocol are in
the plan; the rest (transports, providers, rendering, search, workspace set-up, updater)
are I/O or pure data without a state that interleaves. The models assume what `infra`
provides: replacing one JSON file is atomic.
