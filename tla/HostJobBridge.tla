--------------------------- MODULE HostJobBridge ---------------------------
(***************************************************************************)
(* One external attempt: controlmesh/runtime/host_job_bridge.py, as the     *)
(* command "controlmesh hostjob run | wait | consume" uses it, over the     *)
(* HostJobStore, HostJobRunner and AgentInboxStore underneath.              *)
(*                                                                         *)
(* Every call is an operating-system process of its own.  Calls serialise   *)
(* on the per-job file lock, which the kernel frees when its holder dies;   *)
(* the coroutine that a dispatching call leaves behind in its event loop    *)
(* writes the job's files without the lock.  The attempt has one step       *)
(* (default_single_step), asks for no approval, and its parent, command and *)
(* workspace are those it was first bound to.                               *)
(***************************************************************************)
EXTENDS Naturals, FiniteSets

CONSTANTS Processes,  \* calls that may be at work at the same time
          NoOne,
          Events      \* what may happen, see AllEvents

(*   kill_attached  the worker's shell is killed while the process that      *)
(*                  dispatched it is there to collect its exit status        *)
(*   kill_late      the shell is killed after it has written the exit code   *)
(*                  of the command and before it exits with it               *)
(*   torn           a process dies between HOST_JOB.json and STEPS.json of   *)
(*                  a put over an earlier version                            *)
(*   emptied        a process dies when write_text has emptied exit_code.txt *)
(*                  and not yet written it                                   *)
AllEvents == {"kill_attached", "kill_late", "torn", "emptied"}

ASSUME BridgeAssumption == NoOne \notin Processes /\ Events \subseteq AllEvents

VARIABLES
  intent,     \* DISPATCH.json
  file,       \* the job as HOST_JOB.json and STEPS.json have it
  exit,       \* exit_code.txt
  inbox,      \* the item of this attempt in the parent's inbox
  main,       \* of every process, where its call is and what it has in hand
  owner,      \* of every process, its _advance_job coroutine
  worker,     \* the shell that runs the command
  busy,       \* what of the command is at work, see Work
  launches,   \* history: shells launched
  answers,    \* history: final states a call has answered with
  handed      \* history: answers of consume

vars == <<intent, file, exit, inbox, main, owner, worker, busy, launches, answers, handed>>
disk == <<intent, file, exit, inbox>>
shell == <<worker, busy, launches>>
told == <<answers, handed>>

Final   == {"completed", "failed"}
Codes   == {"none", "zero", "other"}
(* At work is the command itself, that is all its shell waits for, or only   *)
(* children it has put into the background, for which the shell does not.    *)
Work    == {"command", "background", "nothing"}
Reasons == {"unknown_process", "wrapper_gone", "dispatcher_lost", "unconfirmed_terminal"}
Job     == [job : {"none", "pending", "running"} \cup Final,
            step : {"none", "pending", "running"} \cup Final,
            pid : BOOLEAN, code : Codes]
NoJob   == [job |-> "none", step |-> "none", pid |-> FALSE, code |-> "none"]
Fresh   == [NoJob EXCEPT !.job = "pending", !.step = "pending"]

(* Where a call is.  In the places of Locked it holds the job's file lock.   *)
Locked == {"preparing", "prepared", "reconciling", "finalizing", "looking",
           "burying", "marking", "answering", "unlinked", "consumed"}
Idle   == [at |-> "idle", seen |-> "none", save |-> NoJob]
(* Where the coroutine is: it awaits in the places of Awaits only.           *)
Awaits == {"none", "ready", "started", "waiting", "reaped"}
Away   == [at |-> "none", save |-> NoJob]

TypeOK ==
  /\ intent \in [state : {"missing", "pending", "dispatched"},
                 review : Reasons \cup {"none"}, quiet : {"none", "unknown", "confirmed"}]
  /\ file \in Job /\ exit \in Codes /\ inbox \in {"none", "pending", "consumed"}
  /\ main \in [Processes -> [at : Locked \cup {"idle", "waiting"},
                             seen : {"none", "vanished", "unknown", "stalled"}, save : Job]]
  /\ owner \in [Processes -> [at : Awaits \cup {"beginning", "launching", "noting",
                                                "recording", "closing"}, save : Job]]
  /\ worker \in [at : {"none", "alive", "wrote", "over"}, parent : Processes \cup {NoOne},
                 code : Codes]
  /\ busy \in Work /\ launches \in 0 .. 2 /\ answers \subseteq Final /\ handed \in 0 .. 2

Init ==
  /\ intent = [state |-> "missing", review |-> "none", quiet |-> "none"]
  /\ file = NoJob /\ exit = "none" /\ inbox = "none"
  /\ main = [p \in Processes |-> Idle] /\ owner = [p \in Processes |-> Away]
  /\ worker = [at |-> "none", parent |-> NoOne, code |-> "none"]
  /\ busy = "nothing" /\ launches = 0 /\ answers = {} /\ handed = 0

Free == \A p \in Processes : main[p].at \notin Locked
(* The two halves of a process share one thread.                             *)
MainRuns(p)  == owner[p].at \in Awaits
OwnerRuns(p) == main[p].at \notin Locked
At(p, place)      == main[p].at = place /\ MainRuns(p)
OwnerAt(p, place) == owner[p].at = place /\ OwnerRuns(p)
Goes(p, place)      == main' = [main EXCEPT ![p].at = place]
Takes(p, place, job) == main' = [main EXCEPT ![p].at = place, ![p].save = job]
OwnerGoes(p, place) == owner' = [owner EXCEPT ![p].at = place]

-----------------------------------------------------------------------------
(* The store.  put reads the job, merges and writes it.                      *)

Merge(old, new) ==
  LET step == IF old.step \in Final THEN old ELSE new
  IN [step EXCEPT !.job = IF \/ old.job \in Final
                             \/ (old.job = "running" /\ new.job = "pending")
                          THEN old.job ELSE new.job]

StateOf(code) == IF code = "zero" THEN "completed" ELSE "failed"

(* A put whose process dies before STEPS.json is written.                    *)
Half(old, new) == [old EXCEPT !.job = new.job]

(* Between these places and the next one the process writes the job.         *)
MainSaves(p)  == main[p].at \in {"reconciling", "finalizing", "burying"}
OwnerSaves(p) == owner[p].at \in {"beginning", "noting", "recording", "closing"}

-----------------------------------------------------------------------------
(* The worker's shell:  { command; }; rc=$?; printf rc > exit_code.txt; exit. *)

PidAlive == worker.at \in {"alive", "wrote"} \/ (worker.at = "over" /\ worker.parent # NoOne)

CommandEnds ==
  /\ worker.at = "alive"
  /\ \E code \in {"zero", "other"} : exit' = code /\ worker' = [worker EXCEPT !.at = "wrote", !.code = code]
  /\ busy' \in {"background", "nothing"}
  /\ UNCHANGED <<intent, file, inbox, main, owner, launches, told>>

ShellExits ==
  /\ worker.at = "wrote"
  /\ worker' = [worker EXCEPT !.at = "over"]
  /\ UNCHANGED <<disk, main, owner, busy, launches, told>>

(* Somebody, or the machine, kills the shell; what the command has started   *)
(* may go on.                                                                *)
ShellKilled ==
  /\ \/ worker.at = "alive"
     \/ worker.at = "wrote" /\ "kill_late" \in Events
  /\ worker.parent # NoOne => "kill_attached" \in Events
  /\ worker' = [worker EXCEPT !.at = "over", !.code = "other"]
  /\ UNCHANGED <<disk, main, owner, busy, launches, told>>

(* What nobody waits for ends some time, in the background or not.           *)
ChildrenEnd ==
  /\ \/ busy = "command" /\ worker.at = "over" /\ busy' \in {"background", "nothing"}
     \/ busy = "background" /\ busy' = "nothing"
  /\ UNCHANGED <<disk, main, owner, worker, launches, told>>

(* The process ends: its shell, if it has one, is init's to collect, and the *)
(* event loop kills a child whose creation it has not finished.              *)
LeavesShell(p, kills) ==
  worker' = IF worker.parent # p THEN worker
            ELSE [worker EXCEPT !.parent = NoOne,
                                !.at = IF kills THEN "over" ELSE @,
                                !.code = IF kills /\ worker.at = "alive" THEN "other" ELSE @]

-----------------------------------------------------------------------------
(* _advance_job and _execute_step, in the process that dispatched.           *)

(* Reads the job; unless it is over, marks the step running.                 *)
OwnerBegins(p) ==
  /\ OwnerAt(p, "ready")
  /\ owner' = [owner EXCEPT ![p] =
       IF file.job \in Final THEN Away
       ELSE [at |-> "beginning", save |-> Merge(file, [file EXCEPT !.job = "running", !.step = "running"])]]
  /\ UNCHANGED <<disk, main, shell, told>>

(* One put comes to its end: what it writes was merged before.               *)
OwnerWrites(p, from, to) ==
  /\ OwnerAt(p, from)
  /\ file' = owner[p].save
  /\ OwnerGoes(p, to)
  /\ UNCHANGED <<intent, exit, inbox, main, shell, told>>

(* create_subprocess_exec forks before it awaits, or raises.                 *)
Launch(p) ==
  /\ OwnerAt(p, "launching") /\ launches < 2
  /\ worker' = [at |-> "alive", parent |-> p, code |-> "none"]
  /\ busy' = "command" /\ launches' = launches + 1
  /\ OwnerGoes(p, "started")
  /\ UNCHANGED <<disk, main, told>>

LaunchFails(p) ==
  /\ OwnerAt(p, "launching")
  /\ owner' = [owner EXCEPT ![p] = Away]
  /\ UNCHANGED <<disk, main, shell, told>>

(* The coroutine notes the pid.                                              *)
Noted == [job |-> "running", step |-> "running", pid |-> TRUE, code |-> "none"]

OwnerNotes(p) ==
  /\ OwnerAt(p, "started")
  /\ owner' = [owner EXCEPT ![p] = [at |-> "noting", save |-> Merge(file, Noted)]]
  /\ UNCHANGED <<disk, main, shell, told>>

(* proc.wait returns: the kernel forgets the process.                        *)
OwnerReaps(p) ==
  /\ OwnerAt(p, "waiting") /\ worker.at = "over" /\ worker.parent = p
  /\ worker' = [worker EXCEPT !.parent = NoOne]
  /\ OwnerGoes(p, "reaped")
  /\ UNCHANGED <<disk, main, busy, launches, told>>

(* The coroutine writes the exit status over the file the shell wrote, and   *)
(* puts the step's outcome; a failed step fails the job at once.             *)
Outcome == [Noted EXCEPT !.step = StateOf(worker.code), !.code = worker.code,
                         !.job = IF worker.code = "zero" THEN "running" ELSE "failed"]

OwnerRecords(p) ==
  /\ OwnerAt(p, "reaped")
  /\ exit' = worker.code
  /\ owner' = [owner EXCEPT ![p] = [at |-> "recording", save |-> Merge(file, Outcome)]]
  /\ UNCHANGED <<intent, file, inbox, main, shell, told>>

(* _finalize_job puts the job's own copy, now in its final state.            *)
OwnerFinalizes(p) ==
  /\ OwnerAt(p, "recording")
  /\ file' = owner[p].save
  /\ owner' = [owner EXCEPT ![p] =
       [at |-> "closing", save |-> Merge(file', [Outcome EXCEPT !.job = StateOf(worker.code)])]]
  /\ UNCHANGED <<intent, exit, inbox, main, shell, told>>

Owner(p) ==
  \/ OwnerBegins(p) \/ OwnerNotes(p) \/ OwnerReaps(p) \/ OwnerRecords(p) \/ OwnerFinalizes(p)
  \/ Launch(p) \/ LaunchFails(p)
  \/ OwnerWrites(p, "beginning", "launching")
  \/ OwnerWrites(p, "noting", "waiting")
  \/ OwnerWrites(p, "closing", "none")

-----------------------------------------------------------------------------
(* A call is over.  asyncio.run, or detach, cancels the coroutine wherever   *)
(* it awaits; the worker goes on.                                            *)

Leaves(p) ==
  /\ main' = [main EXCEPT ![p] = Idle]
  /\ owner' = [owner EXCEPT ![p] = Away]
  /\ LeavesShell(p, owner[p].at = "started")

(* run: the first caller binds the attempt and dispatches it; a later one    *)
(* waits, or is refused when the dispatch is unconfirmed.                    *)
Evidence == file # NoJob \/ exit # "none"

Run(p) ==
  /\ At(p, "idle") /\ Free
  /\ \/ /\ intent.state = "missing" /\ ~Evidence
        /\ intent' = [intent EXCEPT !.state = "pending"]
        /\ Goes(p, "preparing")
     \/ /\ intent.state = "dispatched"
        /\ Goes(p, "waiting")
        /\ UNCHANGED intent
  /\ UNCHANGED <<file, exit, inbox, owner, shell, told>>

EnsureJob(p) ==
  /\ At(p, "preparing")
  /\ file' = IF file = NoJob THEN Fresh ELSE file
  /\ Goes(p, "prepared")
  /\ UNCHANGED <<intent, exit, inbox, owner, shell, told>>

Dispatch(p) ==
  /\ At(p, "prepared")
  /\ intent' = [intent EXCEPT !.state = "dispatched"]
  /\ OwnerGoes(p, "ready") /\ Goes(p, "waiting")
  /\ UNCHANGED <<file, exit, inbox, shell, told>>

(* wait, bound to the same parent.                                           *)
Wait(p) ==
  /\ At(p, "idle") /\ Free /\ intent.state # "missing"
  /\ Goes(p, "waiting")
  /\ UNCHANGED <<disk, owner, shell, told>>

(* The deadline of run or wait: None, and run detaches.                      *)
TimesOut(p) ==
  /\ At(p, "waiting")
  /\ Leaves(p)
  /\ UNCHANGED <<disk, busy, launches, told>>

-----------------------------------------------------------------------------
(* One turn of _wait_for_terminal, under the lock: "waiting" takes it, and   *)
(* after a reconciliation the same turn goes on at "looking".                *)

Looks(p) == (At(p, "waiting") /\ Free) \/ At(p, "looking")

(* _completion_confirmed                                                     *)
ConfirmedByState == file.step \in Final \/ exit # "none"   \* fault: a state is evidence
Confirmed == file.code # "none" \/ exit # "none"

Reconcilable ==
  /\ file.job = "running" /\ file.step # "none"
  /\ ~(file.pid /\ PidAlive)
  /\ exit # "none"

Reconciled == [file EXCEPT !.step = StateOf(exit), !.code = exit]

(* reconcile_job puts the step's outcome, then _finalize_job the job's.      *)
ReconcileAnyJob(p) ==   \* fault: reconcile_job is called of a pending job too, and starts it
  /\ At(p, "waiting") /\ Free
  /\ \/ /\ Reconcilable /\ UNCHANGED owner
        /\ Takes(p, "reconciling", Merge(file, Reconciled))
     \/ /\ file.job = "pending" /\ owner[p] = Away /\ OwnerGoes(p, "ready")
        /\ UNCHANGED main
  /\ UNCHANGED <<disk, shell, told>>

Reconcile(p) ==
  /\ At(p, "waiting") /\ Free /\ Reconcilable
  /\ Takes(p, "reconciling", Merge(file, Reconciled))
  /\ UNCHANGED <<disk, owner, shell, told>>

ReconcileFinalizes(p) ==
  /\ At(p, "reconciling")
  /\ file' = main[p].save
  /\ Takes(p, "finalizing", Merge(file', [main[p].save EXCEPT !.job = main[p].save.step]))
  /\ UNCHANGED <<intent, exit, inbox, owner, shell, told>>

MainWrites(p, from, to) ==
  /\ At(p, from)
  /\ file' = main[p].save
  /\ Goes(p, to)
  /\ UNCHANGED <<intent, exit, inbox, owner, shell, told>>

(* Terminal: evidence of completion clears a review, its absence asks for    *)
(* one; the first reason stands.                                             *)
Reviewed(reason) == IF intent.review = "none" THEN reason ELSE intent.review

LooksTerminal(p) ==
  /\ Looks(p) /\ file.job \in Final
  /\ intent' = IF Confirmed THEN [intent EXCEPT !.review = "none", !.quiet = "confirmed"]
               ELSE [intent EXCEPT !.review = Reviewed("unconfirmed_terminal")]
  /\ Takes(p, "answering", file)
  /\ UNCHANGED <<file, exit, inbox, owner, shell, told>>

Answer(p) ==
  /\ At(p, "answering")
  /\ inbox' = IF inbox = "none" THEN "pending" ELSE inbox
  /\ answers' = answers \cup {main[p].save.job}
  /\ Leaves(p)
  /\ UNCHANGED <<intent, file, exit, busy, launches, handed>>

Looking(p) ==
  /\ Looks(p)
  /\ main[p].at = "waiting" => ~Reconcilable
  /\ file.job \notin Final

(* A review on file is the answer; a job that is not there is an error.      *)
LooksReviewed(p) ==
  /\ Looking(p) /\ (intent.review # "none" \/ file = NoJob)
  /\ Leaves(p)
  /\ UNCHANGED <<disk, busy, launches, told>>

(* What the turn makes of the worker.                                        *)
WorkerOutcomeGuessed ==   \* fault: a worker without a pid is taken for dead
  IF file.job = "pending" /\ file.step \in {"none", "pending"} THEN "stalled"
  ELSE IF file.job # "running" \/ file.step # "running" \/ Confirmed THEN "running"
  ELSE IF file.pid /\ PidAlive THEN "running" ELSE "vanished"

WorkerOutcome ==
  IF file.job = "pending" /\ file.step \in {"none", "pending"} THEN "stalled"
  ELSE IF file.job # "running" \/ file.step # "running" \/ Confirmed THEN "running"
  ELSE IF ~file.pid THEN "unknown"
  ELSE IF PidAlive THEN "running" ELSE "vanished"

LooksOn(p) == Looking(p) /\ intent.review = "none" /\ file # NoJob

(* Nothing wrong, or the first observation of something wrong.               *)
Observe(p) ==
  /\ LooksOn(p)
  /\ WorkerOutcome = "running" \/ main[p].seen = "none"
  /\ main' = [main EXCEPT ![p].at = "waiting",
                          ![p].seen = IF WorkerOutcome = "running" THEN "none" ELSE WorkerOutcome]
  /\ UNCHANGED <<disk, owner, shell, told>>

(* Something wrong for longer than the grace: the first observation decides. *)
Overdue(p, seen) == LooksOn(p) /\ WorkerOutcome # "running" /\ main[p].seen = seen

(* _finalize_vanished_worker looks again before it fails the job.            *)
Vanished == WorkerOutcome = "vanished"

Bury(p) ==
  /\ Overdue(p, "vanished") /\ Vanished
  /\ Takes(p, "burying", Merge(file, [file EXCEPT !.job = "failed", !.step = "failed"]))
  /\ UNCHANGED <<disk, owner, shell, told>>

MarkGone(p) ==
  /\ At(p, "marking")
  /\ intent' = [intent EXCEPT !.quiet = "unknown", !.review = Reviewed("wrapper_gone")]
  /\ Goes(p, "waiting")
  /\ UNCHANGED <<file, exit, inbox, owner, shell, told>>

MarkReviewOfWorker(p) ==   \* fault: a dispatcher that is gone is nobody's case
  /\ Overdue(p, "unknown") /\ intent' = [intent EXCEPT !.review = "unknown_process"]
  /\ Goes(p, "waiting")
  /\ UNCHANGED <<file, exit, inbox, owner, shell, told>>

MarkReview(p) ==
  /\ \/ Overdue(p, "unknown") /\ intent' = [intent EXCEPT !.review = "unknown_process"]
     \/ Overdue(p, "stalled") /\ intent' = [intent EXCEPT !.review = "dispatcher_lost"]
  /\ Goes(p, "waiting")
  /\ UNCHANGED <<file, exit, inbox, owner, shell, told>>

Turn(p) ==
  \/ Reconcile(p) \/ ReconcileFinalizes(p) \/ MainWrites(p, "finalizing", "looking")
  \/ LooksTerminal(p) \/ Answer(p) \/ LooksReviewed(p) \/ Observe(p)
  \/ Bury(p) \/ MainWrites(p, "burying", "marking") \/ MarkGone(p) \/ MarkReview(p)

-----------------------------------------------------------------------------
(* consume, all of it under the lock: _rewrite unlinks the item and then     *)
(* writes it again, and the answer leaves the process last.                  *)

ConsumableAgain == file.job \in Final   \* fault: the item is not looked at
Consumable == file.job \in Final /\ inbox # "consumed"

Consume(p) ==
  /\ At(p, "idle") /\ Free
  /\ intent.state # "missing" /\ Consumable
  /\ inbox' = "none"
  /\ Takes(p, "unlinked", file)
  /\ UNCHANGED <<intent, file, exit, owner, shell, told>>

ConsumeMarks(p) ==
  /\ At(p, "unlinked")
  /\ inbox' = "consumed"
  /\ Goes(p, "consumed")
  /\ UNCHANGED <<intent, file, exit, owner, shell, told>>

ConsumeAnswers(p) ==
  /\ At(p, "consumed") /\ handed < 2
  /\ handed' = handed + 1 /\ answers' = answers \cup {main[p].save.job}
  /\ main' = [main EXCEPT ![p] = Idle]
  /\ UNCHANGED <<disk, owner, shell>>

-----------------------------------------------------------------------------
(* A process dies between any two of its steps; a put it is in has written   *)
(* all its files, none or, over an earlier version, only the first; and it   *)
(* may leave the exit code file empty that it was about to write.            *)
Crash(p) ==
  /\ main[p].at # "idle"
  /\ main' = [main EXCEPT ![p] = Idle] /\ owner' = [owner EXCEPT ![p] = Away]
  /\ LeavesShell(p, FALSE)
  /\ file' \in {file}
       \cup (IF main[p].at = "preparing" /\ file = NoJob THEN {[NoJob EXCEPT !.job = "pending"]} ELSE {})
       \cup (IF "torn" \notin Events THEN {}
             ELSE (IF MainSaves(p) THEN {Half(file, main[p].save)} ELSE {})
                  \cup (IF OwnerSaves(p) THEN {Half(file, owner[p].save)} ELSE {}))
  /\ exit' \in {exit} \cup (IF OwnerAt(p, "reaped") /\ "emptied" \in Events THEN {"none"} ELSE {})
  /\ UNCHANGED <<intent, inbox, busy, launches, told>>

Call(p) ==
  \/ Run(p) \/ EnsureJob(p) \/ Dispatch(p) \/ Wait(p) \/ TimesOut(p) \/ Turn(p)
  \/ Consume(p) \/ ConsumeMarks(p) \/ ConsumeAnswers(p)

Shell == CommandEnds \/ ShellExits \/ ShellKilled \/ ChildrenEnd

Next == Shell \/ \E p \in Processes : Call(p) \/ Owner(p) \/ Crash(p)

Spec == Init /\ [][Next]_vars

(* A call that has begun goes on, an event loop runs its coroutine, and a    *)
(* command ends some time.  The turns of a waiting call are strongly fair: it *)
(* blocks in flock, where the kernel serves it though others come and die.   *)
FairSpec ==
  /\ Spec
  /\ WF_vars(CommandEnds \/ ShellExits)
  /\ \A p \in Processes :
       /\ WF_vars(Owner(p)) /\ SF_vars(Turn(p))
       /\ WF_vars(EnsureJob(p) \/ Dispatch(p) \/ ConsumeMarks(p) \/ ConsumeAnswers(p))

-----------------------------------------------------------------------------
(* run_attempt launches the attempt's command at most once, whoever calls,   *)
(* crashes and calls again: an unconfirmed dispatch is never replayed.       *)
LaunchedOnce == launches <= 1

(* consume_terminal_event gives the attempt's event to the parent at most    *)
(* once, also when a process dies between unlinking the inbox item and       *)
(* writing it again.                                                         *)
HandedOnce == handed <= 1

(* Whatever state a call has answered with is what became of the command,    *)
(* and stays it: "completed" for the exit code zero that its shell wrote,    *)
(* "failed" for any other, and for a shell that is gone without one.  The    *)
(* stale puts of a coroutine that writes without the lock do not get into    *)
(* an answer.                                                                *)
AnswersAreTrue ==
  \A state \in answers : state = (IF exit = "zero" THEN "completed" ELSE "failed")

(* execution_quiescence says confirmed only when the command is over, though *)
(* the shell that waited for it may have been killed and its job failed in   *)
(* the meantime.  It is of the command only: the shell writes its exit code  *)
(* while children in the background go on, and the code confirms then too.   *)
QuiescenceIsProven == intent.quiet = "confirmed" => busy # "command"

(* What a put leaves that is torn between HOST_JOB.json and STEPS.json as     *)
(* the step begins: no branch of the wait looks at it.                       *)
HalfBegun == file.job = "running" /\ file.step \in {"none", "pending"}

(* A call that waits without a time-out ends, with the event or with a       *)
(* review, once the command has: no death of another process and no stale    *)
(* file keeps it waiting for ever, that one torn put apart.                  *)
WaitEnds == \A p \in Processes : main[p].at = "waiting" ~> (main[p].at = "idle" \/ HalfBegun)
=============================================================================
