-------------------------- MODULE DeviceScheduler --------------------------
(***************************************************************************)
(* DeviceScheduler (device-scheduler.ts) of one device, run by processes that *)
(* share the device's database: the work table, the switch of the operator    *)
(* and the lease on automatic admission; and, as far as the scheduler relies   *)
(* on it, the executor (runScheduled and once of device-runtime-control.ts).   *)
(*                                                                         *)
(* A statement or transaction on the database is one step, and so is what a  *)
(* process does between two awaits, except that the pump's checks before it    *)
(* asks the coordinator about a row are a step with the coordinator's reading. *)
(* A lease is live until its deadline, which may pass at any time.  authorize  *)
(* fails only for good (a changed configuration): a lapse to this module.      *)
(* The clock's two waits, between polls and until retry_after, may be over at  *)
(* any time.                                                                 *)
(***************************************************************************)
EXTENDS Naturals, FiniteSets, FiniteSetsExt

CONSTANTS Processes,
          Work,         \* task, assignment and execution a row stands for
          NoOne,
          Parallelism,  \* automatic runs at a time, as far as the map knows
          MaxParallel,  \* runs at a time the executor takes
          MaxPending,   \* rows queued, running or waiting
          MaxAttempts,  \* bound: attempts per row
          MaxFaults     \* bound: lapses, crashes, what operators and the coordinator do

ASSUME SchedulerAssumption ==
  /\ NoOne \notin Processes
  /\ {Parallelism, MaxParallel, MaxPending, MaxAttempts} \subseteq Nat \ {0}
  /\ MaxFaults \in Nat

VARIABLES
  lease,    \* who holds the device's admission, and is the deadline ahead?
  enabled,  \* the operator's switch
  work,     \* per row: state and attempt
  job,      \* per row: its task as the coordinator has it
  proc,     \* per process: its timer, its pump, its pause or stop
  active,   \* per process: the map of runs by work_id, 0 for no entry
  runs,     \* runs in flight
  asked,    \* per process: a retry that waits for the coordinator's answer
  open,     \* rows whose last attempt may have acted
  faults    \* what went wrong or came from outside so far

vars == <<lease, enabled, work, job, proc, active, runs, asked, open, faults>>

RowStates == {"none", "queued", "running", "waiting", "blocked", "unknown",
              "completed", "cancelled", "superseded"}

(* waiting: may be claimed; held: stale, or its outcome to be reconciled;     *)
(* changed: assigned anew, resumed with another prompt, or no longer ours.    *)
JobStates == {"waiting", "active", "held", "done", "cancelled", "changed"}

Rows == [work : Work, attempt : 0 .. MaxAttempts]
Runs == [proc : Processes, work : Work, attempt : 1 .. MaxAttempts,
         aborted : BOOLEAN, claimed : BOOLEAN]
Asks == [row : Rows, answer : JobStates]
Calm == [timer |-> FALSE, pump |-> "idle", todo |-> {}, asks |-> {},
         closing |-> "no", awaited |-> {}]
NoRuns == [w \in Work |-> 0]

TypeOK ==
  /\ lease \in [holder : Processes \cup {NoOne}, live : BOOLEAN]
  /\ enabled \in BOOLEAN
  /\ work \in [Work -> [state : RowStates, attempt : 0 .. MaxAttempts]]
  /\ job \in [Work -> JobStates]
  /\ proc \in [Processes -> [timer : BOOLEAN, pump : {"idle", "page", "review", "admit"},
                             todo : SUBSET Rows, asks : SUBSET Asks,
                             closing : {"no", "pausing", "pauseDrains", "stopping", "stopDrains"},
                             awaited : SUBSET (Work \X (1 .. MaxAttempts))]]
  /\ active \in [Processes -> [Work -> 0 .. MaxAttempts]]
  /\ runs \subseteq Runs
  /\ asked \in [Processes -> SUBSET Rows]
  /\ open \subseteq Work
  /\ faults \in 0 .. MaxFaults

Init ==
  /\ lease = [holder |-> NoOne, live |-> FALSE]
  /\ enabled = TRUE
  /\ work = [w \in Work |-> [state |-> "none", attempt |-> 0]]
  /\ job = [w \in Work |-> "waiting"]
  /\ proc = [p \in Processes |-> Calm]
  /\ active = [p \in Processes |-> NoRuns]
  /\ runs = {}
  /\ asked = [p \in Processes |-> {}]
  /\ open = {}
  /\ faults = 0

Fault == faults < MaxFaults /\ faults' = faults + 1

-----------------------------------------------------------------------------
Stopped(p) == proc[p].closing \in {"stopping", "stopDrains"}

(* current(): this process owns the lease and its deadline has not passed.    *)
Current(p) == ~Stopped(p) /\ lease.live /\ lease.holder = p

RowOf(w) == [work |-> w, attempt |-> work[w].attempt]
InState(S) == {w \in Work : work[w].state \in S}
Settled(j) == j \in {"done", "cancelled", "changed"}
Entries(p) == {w \in Work : active[p][w] # 0}
InMap(r) == active[r.proc][r.work] = r.attempt

RowOfRun(r) == [work |-> r.work, attempt |-> r.attempt]

(* set(): UPDATE ... WHERE work_id=? AND attempt=?.                          *)
SetRow(row, s) ==
  work' = IF work[row.work].attempt = row.attempt
          THEN [work EXCEPT ![row.work].state = s] ELSE work

(* abort() of every run in the map of the process.                           *)
Aborted(p) ==
  {IF r.proc = p /\ InMap(r) THEN [r EXCEPT !.aborted = TRUE] ELSE r : r \in runs}

-----------------------------------------------------------------------------
(* own(), start() and what the interval does.                                *)
MayOwn(p) == lease.holder = p \/ ~lease.live
(* Fault: takes the lease without settling what the last owner ran.           *)
InterruptedByNobody == work


Interrupted ==
  [w \in Work |-> IF work[w].state = "running"
                  THEN [work[w] EXCEPT !.state = "unknown"] ELSE work[w]]
Own(p) == lease' = [holder |-> p, live |-> TRUE] /\ work' = Interrupted

StartTimer(p) == proc' = [proc EXCEPT ![p] = [@ EXCEPT !.timer = TRUE]]

(* start() of the daemon: does nothing against a persisted pause.             *)
Start(p) ==
  /\ ~Stopped(p) /\ enabled /\ ~proc[p].timer /\ MayOwn(p)
  /\ Own(p) /\ StartTimer(p)
  /\ UNCHANGED <<enabled, job, active, runs, asked, open, faults>>

(* start(requestId): a command whose effect is the switch; it takes the      *)
(* lease only when no timer is set.                                          *)
StartCommand(p) ==
  /\ ~Stopped(p) /\ (proc[p].timer \/ MayOwn(p))
  /\ enabled' = TRUE
  /\ IF proc[p].timer THEN UNCHANGED <<lease, work, proc>> ELSE Own(p) /\ StartTimer(p)
  /\ UNCHANGED <<job, active, runs, asked, open, faults>>

Begins(p, stage, todo) ==
  proc' = [proc EXCEPT ![p] = [@ EXCEPT !.pump = stage, !.todo = todo, !.asks = {}]]

(* The interval renews the lease and, unless a pump is at work, starts one.  *)
Tick(p) ==
  /\ proc[p].timer /\ Current(p) /\ enabled /\ proc[p].pump = "idle"
  /\ Begins(p, "page", {})
  /\ UNCHANGED <<lease, enabled, work, job, active, runs, asked, open, faults>>

Disarmed(p) == [proc[p] EXCEPT !.timer = FALSE]

TimerFails(p) ==
  /\ proc[p].timer /\ ~Current(p)
  /\ runs' = Aborted(p)
  /\ proc' = [proc EXCEPT ![p] = Disarmed(p)]
  /\ UNCHANGED <<lease, enabled, work, job, active, asked, open, faults>>

(* An answer of the coordinator is an error or lost: the owner backs off, or  *)
(* disables itself if it was refused for good; anyone else gives up.          *)
BacksOff(p) ==
  /\ Current(p) /\ (proc[p].pump = "page" \/ proc[p].asks # {})
  /\ Begins(p, "idle", {})
  /\ \/ UNCHANGED <<enabled, faults>>
     \/ Fault /\ enabled' = FALSE
  /\ UNCHANGED <<lease, work, job, active, runs, asked, open>>

PumpGivesUp(p) ==
  /\ proc[p].pump # "idle" /\ ~Current(p)
  /\ runs' = Aborted(p)
  /\ proc' = [proc EXCEPT ![p] = [Disarmed(p) EXCEPT !.pump = "idle", !.todo = {}, !.asks = {}]]
  /\ UNCHANGED <<lease, enabled, work, job, active, asked, open, faults>>

-----------------------------------------------------------------------------
(* pump(): a page of the queue becomes rows while there is room; then the     *)
(* rows of unknown outcome are reviewed, then queued and due rows admitted.   *)
Room == MaxPending - Cardinality(InState({"queued", "running", "waiting"}))
Fresh == {w \in Work : job[w] = "waiting" /\ work[w].state = "none"}

Page(p) ==
  /\ proc[p].pump = "page" /\ Current(p)
  /\ \E new \in SUBSET Fresh :
       /\ Cardinality(new) = (IF Room < Cardinality(Fresh) THEN Max({Room, 0}) ELSE Cardinality(Fresh))
       /\ work' = [w \in Work |-> IF w \in new THEN [work[w] EXCEPT !.state = "queued"] ELSE work[w]]
       /\ Begins(p, "review", {RowOf(w) : w \in InState({"unknown"})})
  /\ UNCHANGED <<lease, enabled, job, active, runs, asked, open, faults>>

(* inspectAssignment(): the coordinator reads the task.                       *)
Inspect(p, row) ==
  /\ proc[p].asks = {} /\ row \in proc[p].todo
  /\ proc' = [proc EXCEPT ![p] =
       [@ EXCEPT !.todo = proc[p].todo \ {row}, !.asks = {[row |-> row, answer |-> job[row.work]]}]]

ReviewNext(p) ==
  /\ proc[p].pump = "review" /\ Current(p)
  /\ \E row \in proc[p].todo : Inspect(p, row)
  /\ UNCHANGED <<lease, enabled, work, job, active, runs, asked, open, faults>>

(* settle(): what a final answer of the coordinator makes of the row.         *)
SettledState(answer) ==
  CASE answer = "changed" -> "superseded"
    [] answer = "done" -> "completed"
    [] answer = "cancelled" -> "cancelled"

Answered(p) == proc' = [proc EXCEPT ![p] = [@ EXCEPT !.asks = {}]]

(* Fault: a row whose assignment is gone is left for later.                   *)
ReviewUnlessChanged(p) ==
  /\ proc[p].pump = "review" /\ Current(p)
  /\ \E ask \in proc[p].asks :
       IF ask.answer \in {"done", "cancelled"} THEN SetRow(ask.row, SettledState(ask.answer))
       ELSE UNCHANGED work
  /\ Answered(p)
  /\ UNCHANGED <<lease, enabled, job, active, runs, asked, open, faults>>


Review(p) ==
  /\ proc[p].pump = "review" /\ Current(p)
  /\ \E ask \in proc[p].asks :
       IF Settled(ask.answer) THEN SetRow(ask.row, SettledState(ask.answer))
       ELSE UNCHANGED work
  /\ Answered(p)
  /\ UNCHANGED <<lease, enabled, job, active, runs, asked, open, faults>>

Reviewed(p) ==
  /\ proc[p].pump = "review" /\ Current(p) /\ proc[p].todo = {} /\ proc[p].asks = {}
  /\ \E due \in SUBSET InState({"waiting"}) :
       Begins(p, "admit", {RowOf(w) : w \in InState({"queued"}) \cup due})
  /\ UNCHANGED <<lease, enabled, work, job, active, runs, asked, open, faults>>

(* capacity() of the executor: runs it has not finished.                     *)
InFlight(p) == {r \in runs : r.proc = p}
Busy(p, w) == \E r \in InFlight(p) : r.work = w
MayAdmit(p) ==
  /\ enabled /\ Cardinality(Entries(p)) < Parallelism
  /\ Cardinality(InFlight(p)) < MaxParallel

AdmitNext(p) ==
  /\ proc[p].pump = "admit" /\ Current(p) /\ MayAdmit(p)
  /\ \E row \in proc[p].todo : row.attempt < MaxAttempts /\ Inspect(p, row)
  /\ UNCHANGED <<lease, enabled, work, job, active, runs, asked, open, faults>>

PumpEnds(p) ==
  /\ proc[p].pump = "admit" /\ Current(p) /\ proc[p].asks = {}
  /\ ~MayAdmit(p) \/ \A row \in proc[p].todo : row.attempt = MaxAttempts
  /\ Begins(p, "idle", {})
  /\ UNCHANGED <<lease, enabled, work, job, active, runs, asked, open, faults>>

(* The row was settled while it waited, or its task is not free.              *)
Declined(p) ==
  /\ proc[p].pump = "admit" /\ Current(p)
  /\ \E ask \in proc[p].asks :
       /\ ask.answer # "waiting"
       /\ SetRow(ask.row, IF Settled(ask.answer) THEN SettledState(ask.answer) ELSE "unknown")
  /\ Answered(p)
  /\ UNCHANGED <<lease, enabled, job, active, runs, asked, open, faults>>

(* Fault: trusts the row the pump has read.                                   *)
AnyAttempt(row) == TRUE

(* The transaction that admits a run, for the attempt the pump has read.      *)
SameAttempt(row) == work[row.work].attempt = row.attempt
Chosen(p) == {ask \in proc[p].asks : ask.answer = "waiting" /\ SameAttempt(ask.row)}

Admit(p) ==
  /\ proc[p].pump = "admit" /\ Current(p)
  /\ \E ask \in Chosen(p) :
       LET w == ask.row.work
           n == ask.row.attempt + 1
       IN /\ ~Busy(p, w)
          /\ work' = [work EXCEPT ![w] = [state |-> "running", attempt |-> n]]
          /\ runs' = runs \cup {[proc |-> p, work |-> w, attempt |-> n,
                                 aborted |-> FALSE, claimed |-> FALSE]}
          /\ active' = [active EXCEPT ![p][w] = n]
          /\ open' = open \cup {w}
  /\ Answered(p)
  /\ UNCHANGED <<lease, enabled, job, asked, faults>>

(* The executor refuses a run of a task it runs (device_task_already_running): *)
(* the new attempt waits, and its finally clause removes the entry of the work *)
(* from the map, which was the other run's.                                   *)
AdmitBusy(p) ==
  /\ proc[p].pump = "admit" /\ Current(p)
  /\ \E ask \in Chosen(p) :
       LET w == ask.row.work
       IN /\ Busy(p, w)
          /\ work' = [work EXCEPT ![w] = [state |-> "waiting", attempt |-> ask.row.attempt + 1]]
          /\ active' = [active EXCEPT ![p][w] = 0]
  /\ Answered(p)
  /\ UNCHANGED <<lease, enabled, job, runs, asked, open, faults>>

(* scheduled_attempt_changed ends the pump.                                   *)
AttemptChanged(p) ==
  /\ proc[p].pump = "admit" /\ Current(p)
  /\ \E ask \in proc[p].asks : ask.answer = "waiting" /\ ~SameAttempt(ask.row)
  /\ Begins(p, "idle", {})
  /\ UNCHANGED <<lease, enabled, work, job, active, runs, asked, open, faults>>

-----------------------------------------------------------------------------
(* A run: the worker inspects the task, claims it and works on it.           *)
Admitted(r) == Current(r.proc) /\ ~r.aborted

(* A result is written by the owner alone, and only over its own attempt;    *)
(* the finally clause removes the entry of the work, whichever run's it is.   *)
Ends(r, s) ==
  /\ runs' = runs \ {r}
  /\ active' = [active EXCEPT ![r.proc][r.work] = 0]
  /\ IF Current(r.proc)
     THEN /\ SetRow(RowOfRun(r), s)
          /\ open' = IF s = "waiting" /\ SameAttempt(RowOfRun(r)) THEN open \ {r.work} ELSE open
     ELSE UNCHANGED <<work, open>>

Claim(r) ==
  /\ ~r.claimed /\ Admitted(r) /\ job[r.work] = "waiting"
  /\ job' = [job EXCEPT ![r.work] = "active"]
  /\ runs' = (runs \ {r}) \cup {[r EXCEPT !.claimed = TRUE]}
  /\ UNCHANGED <<lease, enabled, work, proc, active, asked, open, faults>>

(* What the worker returns or throws before it has a claim; refused for       *)
(* backpressure, the row waits for its next turn.                             *)
RunFails(r) ==
  /\ ~r.claimed
  /\ \E s \in {"unknown", "blocked", "waiting"} : Ends(r, s)
  /\ UNCHANGED <<lease, enabled, job, proc, asked, faults>>

(* Its result with a claim: proven, uncertain, or released before anything    *)
(* was started, with a time to retry at or without.  Whoever has lost the     *)
(* claim can neither prove nor release; it is uncertain, or had not begun.    *)
Results ==
  {[state |-> "completed", job |-> "done"], [state |-> "unknown", job |-> "held"],
   [state |-> "waiting", job |-> "waiting"], [state |-> "blocked", job |-> "waiting"]}

RunReturns(r) ==
  /\ r.claimed
  /\ \E res \in Results :
       /\ res.state = "completed" => Admitted(r)
       /\ job' = [job EXCEPT ![r.work] = IF @ = "active" THEN res.job ELSE @]
       /\ job[r.work] # "active" => res.state \in {"unknown", "blocked"}
       /\ Ends(r, res.state)
  /\ UNCHANGED <<lease, enabled, proc, asked, faults>>

-----------------------------------------------------------------------------
(* pause(): the switch first, then the pump in flight, then the runs then in  *)
(* the map, then the timer and the lease.                                     *)
Entered(p) == {<<w, active[p][w]>> : w \in Entries(p)}

Pause(p) ==
  /\ Fault /\ proc[p].closing = "no"
  /\ enabled' = FALSE
  /\ proc' = [proc EXCEPT ![p] = [@ EXCEPT !.closing = "pausing"]]
  /\ UNCHANGED <<lease, work, job, active, runs, asked, open>>

(* stop(): no more admission or authority, and every run in the map aborted.  *)
Stop(p) ==
  /\ Fault /\ ~Stopped(p)
  /\ runs' = Aborted(p)
  /\ proc' = [proc EXCEPT ![p] = [Disarmed(p) EXCEPT !.closing = "stopping"]]
  /\ UNCHANGED <<lease, enabled, work, job, active, asked, open>>

PumpAwaited(p) ==
  /\ proc[p].pump = "idle" /\ proc[p].closing \in {"pausing", "stopping"}
  /\ proc' = [proc EXCEPT ![p] =
       [@ EXCEPT !.closing = IF proc[p].closing = "pausing" THEN "pauseDrains" ELSE "stopDrains",
                 !.awaited = Entered(p)]]
  /\ UNCHANGED <<lease, enabled, work, job, active, runs, asked, open, faults>>

Drained(p) == \A r \in InFlight(p) : <<r.work, r.attempt>> \notin proc[p].awaited
Release(p) == lease' = IF lease.holder = p THEN [lease EXCEPT !.live = FALSE] ELSE lease

Paused(p) ==
  /\ proc[p].closing = "pauseDrains" /\ Drained(p)
  /\ Release(p)
  /\ proc' = [proc EXCEPT ![p] = [Disarmed(p) EXCEPT !.closing = "no", !.awaited = {}]]
  /\ UNCHANGED <<enabled, work, job, active, runs, asked, open, faults>>

(* The process ends, and with it its token and what it has in memory.         *)
Gone(p) ==
  /\ proc' = [proc EXCEPT ![p] = Calm]
  /\ active' = [active EXCEPT ![p] = NoRuns]
  /\ runs' = runs \ InFlight(p)
  /\ asked' = [asked EXCEPT ![p] = {}]

StopEnds(p) ==
  /\ proc[p].closing = "stopDrains" /\ Drained(p)
  /\ work' = IF lease.holder = p THEN Interrupted ELSE work
  /\ lease' = IF lease.holder = p THEN [holder |-> NoOne, live |-> FALSE] ELSE lease
  /\ Gone(p)
  /\ UNCHANGED <<enabled, job, open, faults>>

Crash(p) ==
  /\ Fault
  /\ lease' = IF lease.holder = p THEN [lease EXCEPT !.holder = NoOne] ELSE lease
  /\ Gone(p)
  /\ UNCHANGED <<enabled, work, job, open>>

(* The deadline passes: the process or the machine was suspended or rebooted. *)
Lapse ==
  /\ Fault /\ lease.live
  /\ lease' = [lease EXCEPT !.live = FALSE]
  /\ UNCHANGED <<enabled, work, job, proc, active, runs, asked, open>>

-----------------------------------------------------------------------------
(* retry(): an operator names the attempt to follow; the coordinator is asked *)
(* first, and the row is looked at again when it has answered.                *)
AskRetry(p, w) ==
  /\ Fault /\ ~Stopped(p) /\ asked[p] = {}
  /\ work[w].state # "none" /\ work[w].attempt < MaxAttempts
  /\ job[w] = "waiting"
  /\ asked' = [asked EXCEPT ![p] = {RowOf(w)}]
  /\ UNCHANGED <<lease, enabled, work, job, proc, active, runs, open>>

Retryable(row) ==
  SameAttempt(row) /\ work[row.work].state \in {"blocked", "waiting", "unknown"}

Retry(p) ==
  /\ \E row \in asked[p] :
       IF Retryable(row) /\ ~Stopped(p)
       THEN /\ work' = [work EXCEPT ![row.work].state = "queued"]
            /\ open' = open \ {row.work}
       ELSE UNCHANGED <<work, open>>
  /\ asked' = [asked EXCEPT ![p] = {}]
  /\ UNCHANGED <<lease, enabled, job, proc, active, runs, faults>>

(* The coordinator: a claim expires unstarted or uncertain, and what is      *)
(* uncertain is reconciled; people cancel tasks and assign them anew.         *)
Expires == {<<"active", "waiting">>, <<"active", "held">>, <<"held", "done">>}
Decided ==
  ({"waiting", "active", "held"} \X {"cancelled"})
  \cup ({"waiting", "held", "done", "cancelled"} \X {"changed"})

JobMoves(w) ==
  /\ \E j \in JobStates :
       /\ job' = [job EXCEPT ![w] = j]
       /\ \/ <<job[w], j>> \in Expires /\ UNCHANGED faults
          \/ <<job[w], j>> \in Decided /\ Fault
  /\ UNCHANGED <<lease, enabled, work, proc, active, runs, asked, open>>

Pump(p) ==
  \/ Tick(p) \/ BacksOff(p) \/ PumpGivesUp(p) \/ Page(p) \/ ReviewNext(p) \/ Review(p)
  \/ Reviewed(p) \/ AdmitNext(p) \/ PumpEnds(p) \/ Declined(p) \/ Admit(p) \/ AdmitBusy(p)
  \/ AttemptChanged(p)
Control(p) ==
  \/ Start(p) \/ StartCommand(p) \/ TimerFails(p) \/ Pause(p) \/ Stop(p)
  \/ PumpAwaited(p) \/ Paused(p) \/ StopEnds(p) \/ Crash(p)
Run(r) == Claim(r) \/ RunFails(r) \/ RunReturns(r)

Next ==
  \/ \E p \in Processes : Pump(p) \/ Control(p) \/ Retry(p) \/ \E w \in Work : AskRetry(p, w)
  \/ \E r \in runs : Run(r)
  \/ Lapse \/ \E w \in Work : JobMoves(w)

Spec == Init /\ [][Next]_vars

(* The interval of a living process fires, its pump goes on, and the          *)
(* coordinator, however often it fails to answer about a row, answers again.   *)
(* Nothing is assumed of runs, operators, starts or the coordinator's tasks.  *)
Goes(p) ==
  Tick(p) \/ ReviewNext(p) \/ Reviewed(p) \/ AdmitNext(p) \/ PumpEnds(p) \/ AttemptChanged(p)
Answers(p, w) ==
  /\ \E ask \in proc[p].asks : ask.row.work = w
  /\ Review(p) \/ Declined(p) \/ Admit(p) \/ AdmitBusy(p)

Fairness ==
  \A p \in Processes : /\ WF_vars(Goes(p)) /\ SF_vars(Page(p))
                       /\ \A w \in Work : SF_vars(Answers(p, w))

FairSpec == Spec /\ Fairness

-----------------------------------------------------------------------------
(* A row that says running under a live owner is a run of that owner, for     *)
(* the row's attempt: nobody else looks at running rows again ("Restart        *)
(* retains unknown outcomes", docs/ARCHITECTURE.md:837-839).                  *)
RunningIsRun ==
  \A p \in Processes : Current(p) =>
    \A w \in InState({"running"}) :
      \E r \in runs : r.proc = p /\ RowOfRun(r) = RowOf(w)

(* "It never ... replays unknown effects" (line 28): a work of which an       *)
(* attempt was started is started again only if that attempt proved to have    *)
(* done nothing, or an operator asked for it, whichever process or pump, old    *)
(* or new, comes to it.                                                      *)
Starts(w) ==
  \E r \in runs' : /\ r.work = w
                   /\ \A q \in runs : q.proc # r.proc \/ RowOfRun(q) # RowOfRun(r)
NoImplicitRetry == [][\A w \in Work : Starts(w) => w \notin open]_vars

(* Under a lasting owner a row of unknown outcome whose task is decided, and a *)
(* queued row while there is room for a run, do not stay so: a competing        *)
(* process, a lost answer or a changed attempt does not keep the pump from      *)
(* coming round to it.                                                       *)
Owner(p) == Current(p) /\ proc[p].timer /\ enabled
Free(p) == Cardinality(InFlight(p)) < MaxParallel /\ Cardinality(Entries(p)) < Parallelism
Due(w) ==
  \E p \in Processes : Owner(p) /\
    \/ work[w].state = "unknown" /\ Settled(job[w])
    \/ work[w].state = "queued" /\ work[w].attempt < MaxAttempts /\ Free(p)
DueIsServed == \A w \in Work : Due(w) ~> ~Due(w)
=============================================================================
