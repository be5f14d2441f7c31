------------------------------ MODULE TaskHub ------------------------------
(***************************************************************************)
(* The background task runtime: TaskHub (controlmesh/tasks/hub.py) over     *)
(* its durable registry (tasks/registry.py), the result ledger              *)
(* TOOL_RESULT.json, the agent inbox (runtime/agent_inbox.py) and the       *)
(* process leases of the CLI workers (runtime/registry.py).                 *)
(*                                                                         *)
(* The hub is one asyncio process: a step of this module is the code        *)
(* between two awaits.  A *run* is one asyncio task created by _spawn: the  *)
(* first for submit, one more for every resume.  entry, ledger, resultMd,   *)
(* inbox, leases and slots are files and survive a restart; run, inflight   *)
(* and recovery live in the process and do not.  Workers are operating      *)
(* system processes.  All tasks belong to one chat and one parent agent.    *)
(***************************************************************************)
EXTENDS Naturals, FiniteSets

CONSTANTS NTasks,        \* bound: tasks created, identified by creation order
          MaxRuns,       \* bound: runs (submit and resumes) of one task
          MaxRestarts,   \* bound: restarts of the hub process
          MaxParallel,   \* config.max_parallel
          Keys,          \* idempotency keys callers use
          NoKey,         \* a submit that gives no idempotency key
          Events         \* what may happen around the hub, see AllEvents

(* What the environment may do; a run of TLC names the events it admits.   *)
(*   resume_early    a parent resumes a task whose earlier run is still in *)
(*                   `await handler(result)`                               *)
(*   cancel_late     a task is cancelled while its result is delivered     *)
(*   cancel_early    a task is cancelled before its coroutine first runs   *)
(*   handler_raises  the result handler raises                             *)
(*   error_escapes   a ValueError _run does not translate                  *)
(*   stray_worker    a worker process outlives its cancelled or timed out  *)
(*                   run, or the hub                                       *)
(*   torn_commit     the process dies between two writes of one step       *)
AllEvents == {"resume_early", "cancel_late", "cancel_early", "handler_raises",
              "error_escapes", "stray_worker", "torn_commit"}

ASSUME HubAssumption ==
  /\ NTasks \in Nat \ {0} /\ MaxRuns \in Nat \ {0}
  /\ MaxRestarts \in Nat /\ MaxParallel \in Nat
  /\ NoKey \notin Keys /\ Events \subseteq AllEvents

Tasks == 1 .. NTasks
Runs  == 1 .. MaxRuns

Finished  == {"done", "failed", "cancelled"}
Resumable == Finished \cup {"waiting"}
Status    == Finished \cup {"absent", "running", "waiting", "stale", "recovering"}

VARIABLES
  entry,     \* TaskRegistry._entries: status, resumable session, key
  run,       \* the asyncio task of every run
  inflight,  \* TaskHub._in_flight: the run registered for a task, or 0
  slots,     \* SlotManager: tasks holding a lease of their route slot
  ledger,    \* TOOL_RESULT.json: run and status it reports, consumed flag
  resultMd,  \* RESULT.md: the run that wrote it, 0 for the seeded template
  inbox,     \* the inbox item of the task's tool_use_id
  recovery,  \* the task-reconcile-deliver coroutine of a task
  worker,    \* runs whose CLI process is alive
  leases,    \* runs whose process lease is on file
  restarts,  \* restarts so far
  handed,    \* history: runs whose result a handler has accepted
  taken      \* history: results of a run the parent has consumed (capped at 2)

vars == <<entry, run, inflight, slots, ledger, resultMd, inbox, recovery,
          worker, leases, restarts, handed, taken>>

(* spawned: scheduled; executing: in cli.execute; delivering, reporting:    *)
(* in the handler, from the try body or from an except branch; ended: done, *)
(* its callback still queued; gone: callback run, or lost in a restart.     *)
Pc     == {"none", "spawned", "executing", "delivering", "reporting", "ended", "gone"}
Live   == {"spawned", "executing", "delivering", "reporting"}
Worked == {"spawned", "executing"}

Entries    == [status : Status, session : BOOLEAN, key : Keys \cup {NoKey}]
RunRecords == [pc : Pc, cancel : BOOLEAN, question : BOOLEAN, asked : BOOLEAN]
InboxStates == {"none", "pending", "delivered", "consumed", "requeued"}

Absent   == [status |-> "absent", session |-> FALSE, key |-> NoKey]
At(pc)   == [pc |-> pc, cancel |-> FALSE, question |-> FALSE, asked |-> FALSE]
NoRun    == At("none")
NoLedger == [run |-> 0, status |-> "none", consumed |-> FALSE]
Ledgers  == {NoLedger} \cup [run : Runs, status : Finished, consumed : BOOLEAN]
Idle     == [pc |-> "none", run |-> 0]
Recoveries == {Idle} \cup [pc : {"created", "handing"}, run : Runs]

Present(t) == entry[t].status # "absent"
IsLive(t, n) == run[t][n].pc \in Live

Init ==
  /\ entry = [t \in Tasks |-> Absent]
  /\ run = [t \in Tasks |-> [n \in Runs |-> NoRun]]
  /\ inflight = [t \in Tasks |-> 0]
  /\ slots = {}
  /\ ledger = [t \in Tasks |-> NoLedger]
  /\ resultMd = [t \in Tasks |-> 0]
  /\ inbox = [t \in Tasks |-> "none"]
  /\ recovery = [t \in Tasks |-> Idle]
  /\ worker = [t \in Tasks |-> {}]
  /\ leases = [t \in Tasks |-> {}]
  /\ restarts = 0
  /\ handed = [t \in Tasks |-> {}]
  /\ taken = [t \in Tasks |-> [n \in Runs |-> 0]]

-----------------------------------------------------------------------------
(* Pieces of steps.                                                         *)

(* registry.update_status: nothing happens for an entry that is gone.       *)
SetStatus(t, s) == [entry EXCEPT ![t].status = IF @ = "absent" THEN @ ELSE s]

(* Fault: a cancelled task gets no ledger.                                  *)
WriteLedgerUnlessCancelled(t, n, s) ==
  IF s = "cancelled" THEN ledger
  ELSE [ledger EXCEPT ![t] = [run |-> n, status |-> s, consumed |-> FALSE]]

(* _write_tool_result_artifact: always a fresh, unconsumed ledger.          *)
WriteLedger(t, n, s) ==
  [ledger EXCEPT ![t] = [run |-> n, status |-> s, consumed |-> FALSE]]

(* The inbox keeps one file per state and tool_use_id; _find returns the    *)
(* oldest item, so "requeued" (a consumed item and a later pending one) is  *)
(* found as consumed.                                                       *)
PendingExists(t) == inbox[t] \in {"pending", "delivered"}
EnqueueNothing(t) == inbox      \* fault: the result is only handed over
EnqueueOnce(t)   == [inbox EXCEPT ![t] = IF @ = "none" THEN "pending" ELSE @]
MarkDelivered(t) == [inbox EXCEPT ![t] = IF @ = "pending" THEN "delivered" ELSE @]
Requeue(t) ==
  [inbox EXCEPT ![t] = CASE @ = "consumed" -> "requeued"
                         [] @ = "none"     -> "pending"
                         [] OTHER          -> @]

(* Fault: a resumed run takes no slot lease.                                *)
SpawnWithoutSlot(t, n) ==
  /\ run' = [run EXCEPT ![t][n] = At("spawned")]
  /\ inflight' = [inflight EXCEPT ![t] = n]
  /\ slots' = IF n = 1 THEN slots \cup {t} ELSE slots

(* _spawn, with the slot lease it takes; the lease is idempotent per task   *)
(* and the hub never passes a capacity below 9999.                          *)
Spawn(t, n) ==
  /\ run' = [run EXCEPT ![t][n] = At("spawned")]
  /\ inflight' = [inflight EXCEPT ![t] = n]
  /\ slots' = slots \cup {t}

(* The prologue of _deliver up to its await: an item for the tool_use_id is *)
(* appended only if there is none, then the run waits for the parent's      *)
(* handler, or is over when no handler is registered.  A cancel is used up; *)
(* a question asked of the run has been looked at.                          *)
DeliverFrom(t, n, pc) ==
  /\ inbox' = EnqueueOnce(t)
  /\ \E next \in {pc, "ended"} : run' = [run EXCEPT ![t][n] = At(next)]

(* A worker whose run is over: gone, or a stray the run left behind.        *)
WorkerLeft(t, n) ==
  worker' = IF "stray_worker" \in Events THEN worker
            ELSE [worker EXCEPT ![t] = @ \ {n}]

Unregister(t, n) == leases' = [leases EXCEPT ![t] = @ \ {n}]

-----------------------------------------------------------------------------
(* Parents: submit, resume, cancel, delete, consume.                        *)

Used(t) == run[t][1].pc # "none"

(* find_by_idempotency_key looks only at the first entry with the key.      *)
Attaches(k) ==
  /\ k # NoKey
  /\ \E t \in Tasks :
       /\ Present(t) /\ entry[t].key = k /\ entry[t].status \notin Finished
       /\ \A u \in 1 .. t - 1 : Present(u) => entry[u].key # k

Active == {t \in Tasks : inflight[t] # 0 /\ IsLive(t, inflight[t])}

(* submit past its idempotency check; attaching changes nothing.            *)
Submit(t, k) ==
  /\ ~Used(t) /\ \A u \in 1 .. t - 1 : Used(u)
  /\ ~Attaches(k)
  /\ Cardinality(Active) < MaxParallel
  /\ entry' = [entry EXCEPT ![t] = [status |-> "running", session |-> FALSE, key |-> k]]
  /\ Spawn(t, 1)
  /\ UNCHANGED <<ledger, resultMd, inbox, recovery, worker, leases, restarts, handed, taken>>

Settled(t) == recovery[t].pc = "none" /\ \A n \in Runs : run[t][n].pc \in {"none", "gone"}

ResumeKeepingStatus(t, n) ==      \* fault: the registry is not reset to running
  /\ run[t][n].pc = "none" /\ n > 1 /\ run[t][n - 1].pc # "none"
  /\ entry[t].status \in Resumable /\ entry[t].session
  /\ "resume_early" \in Events \/ Settled(t)
  /\ Spawn(t, n)
  /\ UNCHANGED <<entry, ledger, resultMd, inbox, recovery, worker, leases, restarts, handed, taken>>

Resume(t, n) ==
  /\ run[t][n].pc = "none" /\ n > 1 /\ run[t][n - 1].pc # "none"
  /\ entry[t].status \in Resumable /\ entry[t].session
  /\ "resume_early" \in Events \/ Settled(t)
  /\ entry' = [entry EXCEPT ![t].status = "running"]
  /\ Spawn(t, n)
  /\ UNCHANGED <<ledger, resultMd, inbox, recovery, worker, leases, restarts, handed, taken>>

Cancellable(t) ==
  /\ t \in Active
  /\ LET pc == run[t][inflight[t]].pc IN
       /\ pc = "spawned" => "cancel_early" \in Events
       /\ pc \in {"delivering", "reporting"} => "cancel_late" \in Events

(* cancel of one known task, cancel_all and shutdown of every one in flight; *)
(* Task.cancel only marks the run, which sees it at its next step.          *)
CancelAmong(targets) ==
  /\ targets # {} /\ targets \subseteq {t \in Tasks : Cancellable(t)}
  /\ run' = [t \in Tasks |->
               IF t \in targets THEN [run[t] EXCEPT ![inflight[t]].cancel = TRUE]
               ELSE run[t]]
  /\ UNCHANGED <<entry, inflight, slots, ledger, resultMd, inbox, recovery,
                 worker, leases, restarts, handed, taken>>

Cancel(t) == Present(t) /\ CancelAmong({t})
CancelAll == CancelAmong({t \in Active : Cancellable(t)})

(* registry.delete and cleanup_finished: the entry and its folder.          *)
Delete(t) ==
  /\ entry[t].status \in Finished
  /\ entry' = [entry EXCEPT ![t] = Absent]
  /\ ledger' = [ledger EXCEPT ![t] = NoLedger]
  /\ resultMd' = [resultMd EXCEPT ![t] = 0]
  /\ UNCHANGED <<run, inflight, slots, inbox, recovery, worker, leases, restarts, handed, taken>>

(* cleanup_orphans, every five hours: folders without a registry entry, which *)
(* a run that outlives its deleted task leaves behind.                        *)
CleanupOrphans ==
  /\ ledger' = [t \in Tasks |-> IF Present(t) THEN ledger[t] ELSE NoLedger]
  /\ UNCHANGED <<entry, run, inflight, slots, resultMd, inbox, recovery, worker,
                 leases, restarts, handed, taken>>

Consumable(t) == inbox[t] \in {"pending", "delivered", "requeued"}
UnreadAlways(t)    == ledger[t].run # 0         \* fault: the flag is not looked at
Unread(t) == ledger[t].run # 0 /\ ~ledger[t].consumed
MarkConsumed(t) ==
  [inbox EXCEPT ![t] = IF @ \in {"pending", "delivered"} THEN "consumed" ELSE @]

(* Fault: the consumed flag is not saved.                                   *)
ConsumeUnsaved(t) ==
  /\ Present(t) /\ Consumable(t) /\ Unread(t)
  /\ inbox' = MarkConsumed(t)
  /\ taken' = [taken EXCEPT ![t][ledger[t].run] = IF @ = 2 THEN 2 ELSE @ + 1]
  /\ UNCHANGED <<entry, run, inflight, slots, ledger, resultMd, recovery, worker, leases, restarts, handed>>

(* consume_tool_results: ledger flag first, then the inbox item.            *)
Consume(t) ==
  /\ Present(t) /\ Consumable(t) /\ Unread(t)
  /\ ledger' = [ledger EXCEPT ![t].consumed = TRUE]
  /\ inbox' = MarkConsumed(t)
  /\ taken' = [taken EXCEPT ![t][ledger[t].run] = IF @ = 2 THEN 2 ELSE @ + 1]
  /\ UNCHANGED <<entry, run, inflight, slots, resultMd, recovery, worker, leases, restarts, handed>>

-----------------------------------------------------------------------------
(* _run, segment by segment.                                                *)

(* A task cancelled before its first step never enters its body.            *)
CancelledBeforeStart(t, n) ==
  /\ run[t][n].pc = "spawned" /\ run[t][n].cancel
  /\ run' = [run EXCEPT ![t][n].pc = "ended"]
  /\ UNCHANGED <<entry, inflight, slots, ledger, resultMd, inbox, recovery,
                 worker, leases, restarts, handed, taken>>

(* Up to cli.execute; resolving another provider rewrites "running".        *)
Start(t, n) ==
  /\ run[t][n].pc = "spawned" /\ ~run[t][n].cancel
  /\ entry' \in {entry, SetStatus(t, "running")}
  /\ run' = [run EXCEPT ![t][n].pc = "executing"]
  /\ worker' = [worker EXCEPT ![t] = @ \cup {n}]
  /\ leases' = [leases EXCEPT ![t] = @ \cup {n}]
  /\ UNCHANGED <<inflight, slots, ledger, resultMd, inbox, recovery, restarts, handed, taken>>

BaseStatusUnasked(t, error) ==      \* fault: the question is not looked at
  IF error THEN "failed" ELSE "done"

(* _response_status, then the evaluator's verdict on a done.                *)
BaseStatus(t, error) ==
  IF error THEN "failed"
  ELSE IF inflight[t] # 0 /\ run[t][inflight[t]].question THEN "waiting" ELSE "done"

(* cli.execute returned: status, session, RESULT.md, ledger, delivery.      *)
Respond(t, n) ==
  /\ run[t][n].pc = "executing" /\ ~run[t][n].cancel
  /\ \E error, rejected, session, body \in BOOLEAN :
       LET base == BaseStatus(t, error)
           s    == IF base = "done" /\ rejected THEN "failed" ELSE base
       IN /\ entry' = [entry EXCEPT ![t] =
                         IF Present(t) THEN [@ EXCEPT !.status = s, !.session = session]
                         ELSE @]
          /\ resultMd' = [resultMd EXCEPT ![t] =
                            IF base = "done" /\ body /\ Present(t) /\ @ = 0 THEN n ELSE @]
          /\ ledger' = IF s \in Finished THEN WriteLedger(t, n, s) ELSE ledger
          /\ IF error THEN WorkerLeft(t, n)
             ELSE worker' = [worker EXCEPT ![t] = @ \ {n}]
  /\ DeliverFrom(t, n, "delivering")
  /\ Unregister(t, n)
  /\ UNCHANGED <<inflight, slots, recovery, restarts, handed, taken>>

(* A translated ValueError or any other exception: failed, from the except  *)
(* branch.                                                                  *)
Fail(t, n) ==
  /\ run[t][n].pc \in Worked /\ ~run[t][n].cancel
  /\ entry' = SetStatus(t, "failed")
  /\ ledger' = WriteLedger(t, n, "failed")
  /\ DeliverFrom(t, n, "reporting")
  /\ WorkerLeft(t, n)
  /\ Unregister(t, n)
  /\ UNCHANGED <<inflight, slots, resultMd, recovery, restarts, handed, taken>>

(* Any other ValueError is raised again by _runtime_provider_error, past    *)
(* every status write of the except branch.                                 *)
Escape(t, n) ==
  /\ "error_escapes" \in Events
  /\ run[t][n].pc \in Worked /\ ~run[t][n].cancel
  /\ run' = [run EXCEPT ![t][n].pc = "ended"]
  /\ WorkerLeft(t, n)
  /\ Unregister(t, n)
  /\ UNCHANGED <<entry, inflight, slots, ledger, resultMd, inbox, recovery,
                 restarts, handed, taken>>

(* CancelledError in cli.execute or in the handler: cancelled and delivered, *)
(* over whatever was there, unless the task already failed.                 *)
Cancelled(t, n) ==
  /\ run[t][n].pc \in {"executing", "delivering"} /\ run[t][n].cancel
  /\ IF entry[t].status = "failed"
     THEN /\ run' = [run EXCEPT ![t][n].pc = "ended"]
          /\ UNCHANGED <<entry, ledger, inbox>>
     ELSE /\ entry' = SetStatus(t, "cancelled")
          /\ ledger' = WriteLedger(t, n, "cancelled")
          /\ DeliverFrom(t, n, "reporting")
  /\ WorkerLeft(t, n)
  /\ Unregister(t, n)
  /\ UNCHANGED <<inflight, slots, resultMd, recovery, restarts, handed, taken>>

CancelledReportingSwallowed(t, n) ==      \* fault: the coroutine never resumes
  /\ FALSE
  /\ UNCHANGED vars

(* A second CancelledError, in an except branch, passes the suppress.       *)
CancelledReporting(t, n) ==
  /\ run[t][n].pc = "reporting" /\ run[t][n].cancel
  /\ run' = [run EXCEPT ![t][n].pc = "ended"]
  /\ UNCHANGED <<entry, inflight, slots, ledger, resultMd, inbox, recovery,
                 worker, leases, restarts, handed, taken>>

InHandler(t, n) == run[t][n].pc \in {"delivering", "reporting"} /\ ~run[t][n].cancel

HandlerReturns(t, n) ==
  /\ InHandler(t, n)
  /\ run' = [run EXCEPT ![t][n].pc = "ended"]
  /\ inbox' = IF Present(t) THEN MarkDelivered(t) ELSE inbox
  /\ handed' = [handed EXCEPT ![t] = @ \cup {n}]
  /\ UNCHANGED <<entry, inflight, slots, ledger, resultMd, recovery, worker,
                 leases, restarts, taken>>

(* tool_result_delivery_failed: failed, whatever the task is doing by now.  *)
HandlerRaises(t, n) ==
  /\ "handler_raises" \in Events
  /\ InHandler(t, n)
  /\ run' = [run EXCEPT ![t][n].pc = "ended"]
  /\ entry' = SetStatus(t, "failed")
  /\ UNCHANGED <<inflight, slots, ledger, resultMd, inbox, recovery, worker,
                 leases, restarts, handed, taken>>

(* The done-callback _finish_inflight knows the task, not the run.          *)
FinishInflight(t, n) ==
  /\ run[t][n].pc = "ended"
  /\ run' = [run EXCEPT ![t][n] = At("gone")]
  /\ inflight' = [inflight EXCEPT ![t] = 0]
  /\ slots' = slots \ {t}
  /\ UNCHANGED <<entry, ledger, resultMd, inbox, recovery, worker, leases,
                 restarts, handed, taken>>

-----------------------------------------------------------------------------
(* Workers: ask_parent, RESULT.md, strays.                                  *)

(* forward_question marks the run in _in_flight, whichever worker asks;     *)
(* asked is a history flag of the run that really did.                      *)
Asked(t, n, m) ==
  [pc       |-> run[t][m].pc,
   cancel   |-> run[t][m].cancel,
   question |-> run[t][m].question \/ m = inflight[t],
   asked    |-> run[t][m].asked \/ (m = n /\ run[t][m].pc = "executing")]

ForwardQuestion(t, n) ==
  /\ n \in worker[t] /\ Present(t)
  /\ run' = [run EXCEPT ![t] = [m \in Runs |-> Asked(t, n, m)]]
  /\ UNCHANGED <<entry, inflight, slots, ledger, resultMd, inbox, recovery,
                 worker, leases, restarts, handed, taken>>

WriteResultMd(t, n) ==
  /\ n \in worker[t] /\ Present(t)
  /\ resultMd' = [resultMd EXCEPT ![t] = n]
  /\ UNCHANGED <<entry, run, inflight, slots, ledger, inbox, recovery, worker,
                 leases, restarts, handed, taken>>

StrayExits(t, n) ==
  /\ n \in worker[t] /\ run[t][n].pc # "executing"
  /\ worker' = [worker EXCEPT ![t] = @ \ {n}]
  /\ UNCHANGED <<entry, run, inflight, slots, ledger, resultMd, inbox, recovery,
                 leases, restarts, handed, taken>>

-----------------------------------------------------------------------------
(* reconcile_task_state, for a task with no host job: the first case that   *)
(* applies, in the order of the code.                                       *)

UnresolvedOrDone(t) ==      \* fault: done tasks are reconciled again
  entry[t].status \in {"stale", "recovering", "done"}
Unresolved(t) == entry[t].status \in {"stale", "recovering"}
InboxMissing(t) == ledger[t].run # 0 /\ ~Unread(t) /\ ~PendingExists(t)

LeaseOnFile(t) == leases[t] # {}      \* fault: the pid is not looked up
(* find_by_label returns the first lease on file.                           *)
LeaseAlive(t) ==
  \E m \in leases[t] : m \in worker[t] /\ \A k \in leases[t] : m <= k

(* Fault: the task stays unresolved.                                        *)
FinalizeUnsettled(t, n, s) ==
  /\ UNCHANGED entry
  /\ inbox' = IF PendingExists(t) THEN inbox ELSE Requeue(t)
  /\ recovery' = [recovery EXCEPT ![t] = [pc |-> "created", run |-> n]]

(* _finalize_reconciled_result *)
Finalize(t, n, s) ==
  /\ entry' = SetStatus(t, s)
  /\ inbox' = IF PendingExists(t) THEN inbox ELSE Requeue(t)
  /\ recovery' = [recovery EXCEPT ![t] = [pc |-> "created", run |-> n]]

(* _recover_terminal_result flags the ledger consumed itself.               *)
RecoverLedger(t) ==
  /\ Unresolved(t) /\ Unread(t)
  /\ ledger' = [ledger EXCEPT ![t].consumed = TRUE]
  /\ Finalize(t, ledger[t].run, ledger[t].status)
  /\ UNCHANGED <<run, inflight, slots, resultMd, worker, leases, restarts, handed, taken>>

RequeueInbox(t) ==
  /\ Unresolved(t) /\ InboxMissing(t)
  /\ inbox' = Requeue(t)
  /\ UNCHANGED <<entry, run, inflight, slots, ledger, resultMd, recovery, worker,
                 leases, restarts, handed, taken>>

Undecided(t) == Unresolved(t) /\ ~Unread(t) /\ ~InboxMissing(t)

MarkRecovering(t) ==
  /\ Undecided(t) /\ LeaseAlive(t)
  /\ entry' = SetStatus(t, "recovering")
  /\ UNCHANGED <<run, inflight, slots, ledger, resultMd, inbox, recovery, worker,
                 leases, restarts, handed, taken>>

RecoverResultMd(t) ==
  /\ Undecided(t) /\ ~LeaseAlive(t) /\ resultMd[t] # 0
  /\ ledger' = IF ledger[t].run = 0 THEN WriteLedger(t, resultMd[t], "done") ELSE ledger
  /\ Finalize(t, resultMd[t], "done")
  /\ UNCHANGED <<run, inflight, slots, resultMd, worker, leases, restarts, handed, taken>>

MarkStale(t) ==
  /\ Undecided(t) /\ ~LeaseAlive(t) /\ resultMd[t] = 0
  /\ entry' = SetStatus(t, "stale")
  /\ UNCHANGED <<run, inflight, slots, ledger, resultMd, inbox, recovery, worker,
                 leases, restarts, handed, taken>>

Reconcile(t) ==
  \/ RecoverLedger(t)
  \/ RequeueInbox(t)
  \/ MarkRecovering(t)
  \/ RecoverResultMd(t)
  \/ MarkStale(t)

(* The coroutine _finalize_reconciled_result creates: _deliver again.       *)
RecoveryStarts(t) ==
  /\ recovery[t].pc = "created"
  /\ inbox' = EnqueueOnce(t)
  /\ recovery' \in {[recovery EXCEPT ![t].pc = "handing"], [recovery EXCEPT ![t] = Idle]}
  /\ UNCHANGED <<entry, run, inflight, slots, ledger, resultMd, worker, leases,
                 restarts, handed, taken>>

RecoveryReturns(t) ==
  /\ recovery[t].pc = "handing"
  /\ recovery' = [recovery EXCEPT ![t] = Idle]
  /\ inbox' = IF Present(t) THEN MarkDelivered(t) ELSE inbox
  /\ handed' = [handed EXCEPT ![t] = @ \cup {recovery[t].run}]
  /\ UNCHANGED <<entry, run, inflight, slots, ledger, resultMd, worker, leases,
                 restarts, taken>>

RecoveryRaises(t) ==
  /\ "handler_raises" \in Events
  /\ recovery[t].pc = "handing"
  /\ recovery' = [recovery EXCEPT ![t] = Idle]
  /\ entry' = SetStatus(t, "failed")
  /\ UNCHANGED <<run, inflight, slots, ledger, resultMd, inbox, worker, leases,
                 restarts, handed, taken>>

-----------------------------------------------------------------------------
(* The process dies and a new one loads the registry.                       *)

LoadAsIs(e) == e      \* fault: running tasks stay running over a restart

Load(e) ==
  [t \in Tasks |-> IF e[t].status \in {"running", "recovering"}
                   THEN [e[t] EXCEPT !.status = "stale"] ELSE e[t]]

(* Orphan folders are removed at startup; leases, slots and live workers    *)
(* stay.                                                                    *)
Reboot(e, l) ==
  /\ restarts < MaxRestarts
  /\ restarts' = restarts + 1
  /\ entry' = Load(e)
  /\ run' = [t \in Tasks |-> [n \in Runs |->
       IF run[t][n].pc = "none" THEN NoRun ELSE At("gone")]]
  /\ inflight' = [t \in Tasks |-> 0]
  /\ recovery' = [t \in Tasks |-> Idle]
  /\ ledger' = [t \in Tasks |-> IF e[t].status = "absent" THEN NoLedger ELSE l[t]]
  /\ worker' = IF "stray_worker" \in Events THEN worker ELSE [t \in Tasks |-> {}]
  /\ UNCHANGED <<slots, resultMd, inbox, handed, taken>>

Restart == Reboot(entry, ledger) /\ UNCHANGED leases

(* The response's status is on disk, its TOOL_RESULT.json is not.           *)
RestartAfterStatus(t, n) ==
  /\ "torn_commit" \in Events
  /\ run[t][n].pc = "executing" /\ ~run[t][n].cancel /\ Present(t)
  /\ \E error \in BOOLEAN :
       Reboot([entry EXCEPT ![t].status = BaseStatus(t, error), ![t].session = TRUE], ledger)
  /\ Unregister(t, n)

(* The ledger is flagged consumed, its inbox item is not and nobody got it. *)
RestartAfterConsumed(t) ==
  /\ "torn_commit" \in Events
  /\ Present(t) /\ Consumable(t) /\ Unread(t)
  /\ Reboot(entry, [ledger EXCEPT ![t].consumed = TRUE])
  /\ UNCHANGED leases

-----------------------------------------------------------------------------
RunStep(t, n) ==
  \/ CancelledBeforeStart(t, n)
  \/ Start(t, n)
  \/ Respond(t, n)
  \/ Fail(t, n)
  \/ Escape(t, n)
  \/ Cancelled(t, n)
  \/ CancelledReporting(t, n)
  \/ HandlerReturns(t, n)
  \/ HandlerRaises(t, n)
  \/ FinishInflight(t, n)

RecoveryStep(t) ==
  \/ RecoveryStarts(t)
  \/ RecoveryReturns(t)
  \/ RecoveryRaises(t)

ParentStep(t) ==
  \/ \E k \in Keys \cup {NoKey} : Submit(t, k)
  \/ \E n \in Runs : Resume(t, n)
  \/ Cancel(t)
  \/ Delete(t)
  \/ Consume(t)

WorkerStep(t, n) ==
  \/ ForwardQuestion(t, n)
  \/ WriteResultMd(t, n)
  \/ StrayExits(t, n)

CrashStep ==
  \/ Restart
  \/ \E t \in Tasks, n \in Runs : RestartAfterStatus(t, n)
  \/ \E t \in Tasks : RestartAfterConsumed(t)

Next ==
  \/ \E t \in Tasks : ParentStep(t) \/ RecoveryStep(t) \/ Reconcile(t)
  \/ \E t \in Tasks, n \in Runs : RunStep(t, n) \/ WorkerStep(t, n)
  \/ CancelAll
  \/ CleanupOrphans
  \/ CrashStep

Spec == Init /\ [][Next]_vars

(* The event loop runs every ready coroutine, the CLI's hard timeout ends   *)
(* every cli.execute, a handler's turn is bounded the same way, and the     *)
(* reconcile loop comes round every 30 s.  Nobody owes the hub a resume, a  *)
(* consumption, a question or the death of a stray worker.                  *)
Fairness ==
  /\ \A t \in Tasks, n \in Runs : WF_vars(RunStep(t, n))
  /\ \A t \in Tasks : WF_vars(RecoveryStep(t)) /\ WF_vars(Reconcile(t))

FairSpec == Spec /\ Fairness
-----------------------------------------------------------------------------
(* Properties.                                                              *)

\* Every variable keeps its type; the registry's statuses are those of the
\* code, less "detached", which only host jobs use.
TypeOK ==
  /\ entry \in [Tasks -> Entries]
  /\ run \in [Tasks -> [Runs -> RunRecords]]
  /\ inflight \in [Tasks -> 0 .. MaxRuns]
  /\ slots \subseteq Tasks
  /\ ledger \in [Tasks -> Ledgers]
  /\ resultMd \in [Tasks -> 0 .. MaxRuns]
  /\ inbox \in [Tasks -> InboxStates]
  /\ recovery \in [Tasks -> Recoveries]
  /\ worker \in [Tasks -> SUBSET Runs]
  /\ leases \in [Tasks -> SUBSET Runs]
  /\ restarts \in 0 .. MaxRestarts
  /\ handed \in [Tasks -> SUBSET Runs]
  /\ taken \in [Tasks -> [Runs -> 0 .. 2]]

\* A task a parent may resume or has deleted has no run that still works: a
\* resume can then never put a second executor into one session and folder.
StoppedBeforeResumable ==
  \A t \in Tasks, n \in Runs :
    entry[t].status \in Resumable \cup {"absent"} => run[t][n].pc \notin Worked

\* A run that works is the one _in_flight names and its task holds its slot:
\* cancel, tell and ask_parent all reach a run through _in_flight.
InflightTracksRun ==
  \A t \in Tasks, n \in Runs : run[t][n].pc \in Worked => inflight[t] = n /\ t \in slots

\* "running" in the registry means that a run is at work: nothing else would
\* ever take the task out of that status before the next restart.
RunningIsLive ==
  \A t \in Tasks : entry[t].status = "running" => \E n \in Runs : run[t][n].pc \in Worked

\* A finished task has its TOOL_RESULT.json and an item in its parent's inbox.
FinishedIsRecorded ==
  \A t \in Tasks :
    entry[t].status \in Finished => ledger[t].run # 0 /\ inbox[t] # "none"

\* The parent is given the result of a run at most once.
ConsumedOnce == \A t \in Tasks, n \in Runs : taken[t][n] <= 1

\* Why ConsumedOnce holds, where no result is cancelled while it is delivered:
\* a ledger for a run is written, unread, before the run is delivered or, with
\* nothing of the task alive, when there is none; never again after that.
Untold == {"none", "spawned", "executing"}

ToldAtMostOnce(t) ==
  /\ Used(t) \/ (/\ ~Present(t) /\ ledger[t].run = 0
                 /\ \A n \in Runs : run[t][n].pc = "none" /\ taken[t][n] = 0)
  /\ Present(t) /\ ledger[t].run = 0 => \A n \in Runs : taken[t][n] = 0
  /\ Unresolved(t) => \A n \in Runs : run[t][n].pc \in {"none", "gone"}
  /\ \A n \in Runs :
       /\ taken[t][n] # 2
       /\ taken[t][n] = 1 => ~(Unread(t) /\ ledger[t].run = n)
       /\ run[t][n].pc \in Untold => taken[t][n] = 0 /\ ledger[t].run # n
       /\ run[t][n].pc = "delivering" => ~run[t][n].cancel
       /\ n \in worker[t] \/ resultMd[t] = n => run[t][n].pc # "none"

ToldOnce == \A t \in Tasks : ToldAtMostOnce(t)

\* Until the parent has consumed a first result of the task, a result it has
\* not consumed is in its inbox, where consume_tool_results finds it.
FirstResultIsConsumable ==
  \A t \in Tasks :
    Present(t) /\ Unread(t) /\ (\A n \in Runs : taken[t][n] = 0) => Consumable(t)

\* The comment in forward_question: a run that asked ends as "waiting".
QuestionMeansWaiting ==
  [][\A t \in Tasks, n \in Runs :
       /\ run[t][n].pc = "executing" /\ run[t][n].asked
       /\ run[t][n].pc # run'[t][n].pc
       => entry'[t].status # "done"]_vars

\* A finished task leaves that state only when a parent resumes it.
FinishedUntilResumed ==
  [][\A t \in Tasks :
       /\ entry[t].status \in Finished
       /\ entry'[t].status \notin Finished \cup {"absent"}
       => \E n \in Runs : run[t][n].pc = "none" /\ run'[t][n].pc = "spawned"]_vars

\* Recovery hands over only results that were not handed over before.
RecoveryIsNew ==
  \A t \in Tasks : recovery[t].pc # "none" => recovery[t].run \notin handed[t]

\* So much of that is so: what the parent has, from its handler or by consuming
\* it, recovery brings again only of a task that has been resumed since.
ResumedSince(t, n) == \E m \in Runs : m > n /\ run[t][m].pc # "none"

RecoveryIsNewUntilResumed ==
  [][\A t \in Tasks, n \in Runs :
       /\ recovery[t].pc = "none" /\ recovery'[t] = [pc |-> "created", run |-> n]
       /\ n \in handed[t] \/ taken[t][n] # 0
       => ResumedSince(t, n)]_vars

\* Submits with one idempotency key never have two unfinished tasks.
OneTaskPerKey ==
  \A t, u \in Tasks :
    /\ t # u /\ entry[t].key = entry[u].key /\ entry[t].key # NoKey
    => entry[t].status \in Finished \/ entry[u].status \in Finished

\* Every run ends and leaves _in_flight.
RunsEnd == \A t \in Tasks, n \in Runs : IsLive(t, n) ~> run[t][n].pc = "gone"

\* A task found unresolved is resolved from what its runs left on disk, an
\* unread ledger or RESULT.md, once no worker of it lives; a parent may read
\* the ledger first.
Recoverable(t) ==
  /\ Unresolved(t) /\ worker[t] = {}
  /\ Unread(t) \/ (ledger[t].run = 0 /\ resultMd[t] # 0)

RecoveryResolves ==
  \A t \in Tasks :
    Recoverable(t) ~> ~Unresolved(t) \/ (ledger[t].run # 0 /\ ~Unread(t))

\* Recovery closes the loop: stale and recovering tasks reach done or failed.
RecoveryCloses == \A t \in Tasks : Unresolved(t) ~> ~Unresolved(t)
=============================================================================
