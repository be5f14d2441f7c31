------------------------ MODULE DeviceSchedulerProofs ------------------------
(***************************************************************************)
(* Proofs about DeviceScheduler, for any processes, work and limits.          *)
(*                                                                         *)
(* RunningIsRun is inductive given the types: whoever becomes the owner has  *)
(* first settled the running rows of the last one.  NoImplicitRetry needs an  *)
(* invariant: a row that says queued or waiting is not open, and no pump, not *)
(* even one left over from an earlier ownership, has read such a row at an    *)
(* attempt that has since been opened.  A row's attempt number only grows and *)
(* opening takes a new number, so a pump's older reading never matches it.     *)
(***************************************************************************)
EXTENDS DeviceScheduler, TLAPS

ProcState ==
  [timer : BOOLEAN, pump : {"idle", "page", "review", "admit"},
   todo : SUBSET Rows, asks : SUBSET Asks,
   closing : {"no", "pausing", "pauseDrains", "stopping", "stopDrains"},
   awaited : SUBSET (Work \X (1 .. MaxAttempts))]

(* What a pump has read of rows it may admit.                                *)
Reading(p) == proc[p].todo \cup {ask.row : ask \in proc[p].asks}

NotAhead == \A p \in Processes : \A row \in Reading(p) : row.attempt <= work[row.work].attempt
ClosedRows == \A w \in InState({"none", "queued", "waiting"}) : w \notin open
ClosedReadings ==
  \A p \in Processes : proc[p].pump = "admit" =>
    \A row \in Reading(p) : SameAttempt(row) => row.work \notin open
BelowBound ==
  \A p \in Processes : proc[p].pump = "admit" =>
    \A ask \in proc[p].asks : ask.row.attempt < MaxAttempts

-----------------------------------------------------------------------------
LEMMA ProcTyped ==
  ASSUME TypeOK, NEW p \in Processes, NEW r \in ProcState, proc' = [proc EXCEPT ![p] = r]
  PROVE  proc' \in [Processes -> ProcState]
  BY DEF TypeOK, ProcState

LEMMA RowTyped ==
  ASSUME TypeOK, NEW w \in Work
  PROVE  /\ RowOf(w) \in Rows /\ RowOf(w).work = w /\ RowOf(w).attempt = work[w].attempt
         /\ work[w].attempt \in 0 .. MaxAttempts /\ work[w].state \in RowStates
  BY DEF TypeOK, RowOf, Rows

LEMMA RunTyped ==
  ASSUME TypeOK, NEW r \in runs
  PROVE  /\ r.proc \in Processes /\ r.work \in Work /\ r.attempt \in 1 .. MaxAttempts
         /\ RowOfRun(r) \in Rows /\ RowOfRun(r).work = r.work /\ RowOfRun(r).attempt = r.attempt
         /\ r = [proc |-> r.proc, work |-> r.work, attempt |-> r.attempt,
                 aborted |-> r.aborted, claimed |-> r.claimed]
  <1>1. r \in Runs  BY DEF TypeOK
  <1>2. MaxAttempts \in Nat  BY SchedulerAssumption
  <1> QED  BY <1>1, <1>2 DEF Runs, RowOfRun, Rows

(* A run is what it was when it is aborted or claims its task.                *)
LEMMA AbortedTyped ==
  ASSUME TypeOK, NEW p \in Processes
  PROVE  /\ Aborted(p) \subseteq Runs
         /\ \A r \in runs : \E q \in Aborted(p) : q.proc = r.proc /\ RowOfRun(q) = RowOfRun(r)
         /\ \A q \in Aborted(p) : \E r \in runs : q.proc = r.proc /\ RowOfRun(q) = RowOfRun(r)
  <1> DEFINE To(r) == IF r.proc = p /\ InMap(r) THEN [r EXCEPT !.aborted = TRUE] ELSE r
  <1>1. ASSUME NEW r \in runs
        PROVE  To(r) \in Runs /\ To(r).proc = r.proc /\ RowOfRun(To(r)) = RowOfRun(r)
    <2>1. r \in Runs  BY DEF TypeOK
    <2> QED  BY <2>1 DEF Runs, RowOfRun
  <1>2. Aborted(p) = {To(r) : r \in runs}  BY DEF Aborted
  <1> HIDE DEF To
  <1> QED  BY <1>1, <1>2

LEMMA SetRowTyped ==
  ASSUME TypeOK, NEW row \in Rows, NEW s \in RowStates, SetRow(row, s)
  PROVE  /\ work' \in [Work -> [state : RowStates, attempt : 0 .. MaxAttempts]]
         /\ \A w \in Work : work'[w].attempt = work[w].attempt
         /\ \A w \in Work : work'[w] = work[w] \/ (w = row.work /\ SameAttempt(row) /\ work'[w].state = s)
         /\ SameAttempt(row) => work'[row.work].state = s
  BY DEF TypeOK, SetRow, Rows, SameAttempt

LEMMA InterruptedTyped ==
  ASSUME TypeOK
  PROVE  /\ Interrupted \in [Work -> [state : RowStates, attempt : 0 .. MaxAttempts]]
         /\ \A w \in Work : Interrupted[w].attempt = work[w].attempt
         /\ \A w \in Work : Interrupted[w].state # "running"
         /\ \A w \in Work : Interrupted[w].state = work[w].state \/ Interrupted[w].state = "unknown"
  BY DEF TypeOK, Interrupted, RowStates

-----------------------------------------------------------------------------
(* What the steps do to the record of a process.                             *)
LEMMA BeginsEffect ==
  ASSUME TypeOK, NEW p \in Processes, NEW stage \in {"idle", "page", "review", "admit"},
         NEW todo \in SUBSET Rows, Begins(p, stage, todo)
  PROVE  /\ proc' \in [Processes -> ProcState]
         /\ \A q \in Processes : q # p => proc'[q] = proc[q]
         /\ proc'[p].pump = stage /\ proc'[p].todo = todo /\ proc'[p].asks = {}
         /\ proc'[p].closing = proc[p].closing
  <1> DEFINE r == [proc[p] EXCEPT !.pump = stage, !.todo = todo, !.asks = {}]
  <1>1. proc[p] \in ProcState /\ proc \in [Processes -> ProcState]  BY DEF TypeOK, ProcState
  <1>2. r \in ProcState /\ r.pump = stage /\ r.todo = todo /\ r.asks = {} /\ r.closing = proc[p].closing
    BY <1>1 DEF ProcState
  <1>3. proc' = [proc EXCEPT ![p] = r]  BY DEF Begins
  <1> HIDE DEF r
  <1> QED  BY <1>1, <1>2, <1>3

LEMMA AnsweredEffect ==
  ASSUME TypeOK, NEW p \in Processes, Answered(p)
  PROVE  /\ proc' \in [Processes -> ProcState]
         /\ \A q \in Processes : q # p => proc'[q] = proc[q]
         /\ proc'[p].pump = proc[p].pump /\ proc'[p].todo = proc[p].todo /\ proc'[p].asks = {}
         /\ proc'[p].closing = proc[p].closing
  <1> DEFINE r == [proc[p] EXCEPT !.asks = {}]
  <1>1. proc[p] \in ProcState /\ proc \in [Processes -> ProcState]  BY DEF TypeOK, ProcState
  <1>2. r \in ProcState /\ r.pump = proc[p].pump /\ r.todo = proc[p].todo /\ r.asks = {} /\ r.closing = proc[p].closing
    BY <1>1 DEF ProcState
  <1>3. proc' = [proc EXCEPT ![p] = r]  BY DEF Answered
  <1> HIDE DEF r
  <1> QED  BY <1>1, <1>2, <1>3

LEMMA InspectEffect ==
  ASSUME TypeOK, NEW p \in Processes, NEW row, Inspect(p, row)
  PROVE  /\ row \in Rows /\ row \in proc[p].todo
         /\ proc' \in [Processes -> ProcState]
         /\ \A q \in Processes : q # p => proc'[q] = proc[q]
         /\ proc'[p].pump = proc[p].pump /\ proc'[p].todo = proc[p].todo \ {row}
         /\ proc'[p].asks = {[row |-> row, answer |-> job[row.work]]}
         /\ proc'[p].closing = proc[p].closing
  <1> DEFINE new == [row |-> row, answer |-> job[row.work]]
             r == [proc[p] EXCEPT !.todo = proc[p].todo \ {row}, !.asks = {new}]
  <1>1. proc[p] \in ProcState /\ proc \in [Processes -> ProcState] /\ job \in [Work -> JobStates]
    BY DEF TypeOK, ProcState
  <1>2. row \in proc[p].todo /\ row \in Rows  BY <1>1 DEF Inspect, ProcState
  <1>3. new \in Asks  BY <1>1, <1>2 DEF Asks, Rows
  <1>4. proc' = [proc EXCEPT ![p] = r]  BY DEF Inspect
  <1> HIDE DEF new
  <1>5. r \in ProcState /\ r.pump = proc[p].pump /\ r.todo = proc[p].todo \ {row} /\ r.asks = {new} /\ r.closing = proc[p].closing
    BY <1>1, <1>3 DEF ProcState
  <1> HIDE DEF r
  <1> QED  BY <1>1, <1>2, <1>4, <1>5 DEF new

(* Steps that leave the pump alone.                                          *)
SamePump(p) ==
  /\ proc' \in [Processes -> ProcState]
  /\ \A q \in Processes : q # p => proc'[q] = proc[q]
  /\ proc'[p].pump = proc[p].pump /\ proc'[p].todo = proc[p].todo /\ proc'[p].asks = proc[p].asks

LEMMA ControlEffect ==
  ASSUME TypeOK, NEW p \in Processes,
         \/ StartTimer(p) \/ proc' = [proc EXCEPT ![p] = Disarmed(p)]
         \/ Pause(p) \/ Stop(p) \/ PumpAwaited(p) \/ Paused(p)
  PROVE  SamePump(p)
  <1>1. proc[p] \in ProcState /\ proc \in [Processes -> ProcState]  BY DEF TypeOK, ProcState
  <1>2. ASSUME NEW r \in ProcState, r.pump = proc[p].pump, r.todo = proc[p].todo, r.asks = proc[p].asks,
               proc' = [proc EXCEPT ![p] = r]
        PROVE  SamePump(p)
    BY <1>1, <1>2 DEF SamePump
  <1>3. CASE StartTimer(p)
    <2> DEFINE r == [proc[p] EXCEPT !.timer = TRUE]
    <2>1. r \in ProcState /\ r.pump = proc[p].pump /\ r.todo = proc[p].todo /\ r.asks = proc[p].asks
      BY <1>1 DEF ProcState
    <2>2. proc' = [proc EXCEPT ![p] = r]  BY <1>3 DEF StartTimer
    <2> HIDE DEF r
    <2> QED  BY <1>2, <2>1, <2>2
  <1>4. CASE proc' = [proc EXCEPT ![p] = Disarmed(p)]
    <2>1. /\ Disarmed(p) \in ProcState /\ Disarmed(p).pump = proc[p].pump
          /\ Disarmed(p).todo = proc[p].todo /\ Disarmed(p).asks = proc[p].asks
      BY <1>1 DEF ProcState, Disarmed
    <2> QED  BY <1>2, <1>4, <2>1
  <1>5. CASE Pause(p)
    <2> DEFINE r == [proc[p] EXCEPT !.closing = "pausing"]
    <2>1. r \in ProcState /\ r.pump = proc[p].pump /\ r.todo = proc[p].todo /\ r.asks = proc[p].asks
      BY <1>1 DEF ProcState
    <2>2. proc' = [proc EXCEPT ![p] = r]  BY <1>5 DEF Pause
    <2> HIDE DEF r
    <2> QED  BY <1>2, <2>1, <2>2
  <1>6. CASE Stop(p)
    <2> DEFINE r == [Disarmed(p) EXCEPT !.closing = "stopping"]
    <2>1. r \in ProcState /\ r.pump = proc[p].pump /\ r.todo = proc[p].todo /\ r.asks = proc[p].asks
      BY <1>1 DEF ProcState, Disarmed
    <2>2. proc' = [proc EXCEPT ![p] = r]  BY <1>6 DEF Stop
    <2> HIDE DEF r
    <2> QED  BY <1>2, <2>1, <2>2
  <1>7. CASE PumpAwaited(p)
    <2> DEFINE c == IF proc[p].closing = "pausing" THEN "pauseDrains" ELSE "stopDrains"
               r == [proc[p] EXCEPT !.closing = c, !.awaited = Entered(p)]
    <2>1. Entered(p) \in SUBSET (Work \X (1 .. MaxAttempts))
      BY SchedulerAssumption DEF Entered, Entries, TypeOK
    <2>2. c \in {"pauseDrains", "stopDrains"}  OBVIOUS
    <2>3. proc' = [proc EXCEPT ![p] = r]  BY <1>7 DEF PumpAwaited
    <2> HIDE DEF c
    <2>4. r \in ProcState /\ r.pump = proc[p].pump /\ r.todo = proc[p].todo /\ r.asks = proc[p].asks
      BY <1>1, <2>1, <2>2 DEF ProcState
    <2> HIDE DEF r
    <2> QED  BY <1>2, <2>3, <2>4
  <1>8. CASE Paused(p)
    <2> DEFINE r == [Disarmed(p) EXCEPT !.closing = "no", !.awaited = {}]
    <2>1. r \in ProcState /\ r.pump = proc[p].pump /\ r.todo = proc[p].todo /\ r.asks = proc[p].asks
      BY <1>1 DEF ProcState, Disarmed
    <2>2. proc' = [proc EXCEPT ![p] = r]  BY <1>8 DEF Paused
    <2> HIDE DEF r
    <2> QED  BY <1>2, <2>1, <2>2
  <1> QED  BY <1>3, <1>4, <1>5, <1>6, <1>7, <1>8

(* A pump that gives up, or whose process ends, has read nothing.             *)
NoPump(p) ==
  /\ proc' \in [Processes -> ProcState]
  /\ \A q \in Processes : q # p => proc'[q] = proc[q]
  /\ proc'[p].pump = "idle" /\ proc'[p].todo = {} /\ proc'[p].asks = {}

LEMMA GivesUpEffect ==
  ASSUME TypeOK, NEW p \in Processes, PumpGivesUp(p) \/ Gone(p)
  PROVE  NoPump(p)
  <1>1. proc[p] \in ProcState /\ proc \in [Processes -> ProcState]  BY DEF TypeOK, ProcState
  <1>2. CASE PumpGivesUp(p)
    <2> DEFINE r == [Disarmed(p) EXCEPT !.pump = "idle", !.todo = {}, !.asks = {}]
    <2>1. r \in ProcState /\ r.pump = "idle" /\ r.todo = {} /\ r.asks = {}
      BY <1>1 DEF ProcState, Disarmed
    <2>2. proc' = [proc EXCEPT ![p] = r]  BY <1>2 DEF PumpGivesUp
    <2> HIDE DEF r
    <2> QED  BY <1>1, <2>1, <2>2 DEF NoPump
  <1>3. CASE Gone(p)
    <2>1. Calm \in ProcState /\ Calm.pump = "idle" /\ Calm.todo = {} /\ Calm.asks = {}
      BY DEF Calm, ProcState
    <2>2. proc' = [proc EXCEPT ![p] = Calm]  BY <1>3 DEF Gone
    <2> QED  BY <1>1, <2>1, <2>2 DEF NoPump
  <1> QED  BY <1>2, <1>3

-----------------------------------------------------------------------------
(* The invariants only need to know which rows pumps have read, which rows    *)
(* change, and that runs keep their identity.                                *)
LEMMA ReadingsKept ==
  ASSUME TypeOK, TypeOK', NotAhead, ClosedReadings, BelowBound,
         \A q \in Processes : Reading(q)' \subseteq Reading(q),
         \A q \in Processes : proc'[q].pump = "admit" =>
           /\ proc[q].pump = "admit"
           /\ \A ask \in proc'[q].asks : ask \in proc[q].asks \/ ask.row.attempt < MaxAttempts,
         \A w \in Work : \/ work'[w].attempt = work[w].attempt /\ (w \in open' => w \in open)
                         \/ work'[w].attempt > work[w].attempt
  PROVE  NotAhead' /\ ClosedReadings' /\ BelowBound'
  <1>1. ASSUME NEW q \in Processes, NEW row \in Reading(q)'
        PROVE  /\ row \in Reading(q) /\ row \in Rows /\ row.work \in Work /\ row.attempt \in Nat
               /\ row.attempt <= work[row.work].attempt
               /\ work[row.work].attempt \in Nat /\ work'[row.work].attempt \in Nat
    <2>1. row \in Reading(q)  OBVIOUS
    <2>2. row \in Rows  BY <2>1 DEF Reading, TypeOK, Asks
    <2> QED  BY <2>1, <2>2, SchedulerAssumption DEF NotAhead, Rows, TypeOK
  <1>2. NotAhead'
    <2>1. ASSUME NEW q \in Processes, NEW row \in Reading(q)'
          PROVE  row.attempt <= work'[row.work].attempt
      BY <1>1
    <2> QED  BY <2>1 DEF NotAhead
  <1>3. ClosedReadings'
    <2>1. ASSUME NEW q \in Processes, proc'[q].pump = "admit", NEW row \in Reading(q)',
                 row.attempt = work'[row.work].attempt
          PROVE  row.work \notin open'
      <3>1. work'[row.work].attempt = work[row.work].attempt /\ (row.work \in open' => row.work \in open)
        BY <1>1, <2>1
      <3>2. row.work \notin open  BY <1>1, <2>1, <3>1 DEF ClosedReadings, SameAttempt
      <3> QED  BY <3>1, <3>2
    <2> QED  BY <2>1 DEF ClosedReadings, SameAttempt
  <1>4. BelowBound'  BY DEF BelowBound
  <1> QED  BY <1>2, <1>3, <1>4

(* When no process becomes an owner, no row becomes running, and the runs of   *)
(* the owner keep their identity.                                            *)
LEMMA RunningKept ==
  ASSUME TypeOK, RunningIsRun,
         \A p \in Processes : Current(p)' => Current(p),
         \A w \in Work : work'[w].state = "running" =>
           work[w].state = "running" /\ work'[w].attempt = work[w].attempt,
         \A r \in runs : Current(r.proc)' /\ work'[r.work].state = "running"
                           /\ work'[r.work].attempt = r.attempt =>
           \E q \in runs' : q.proc = r.proc /\ RowOfRun(q) = RowOfRun(r)
  PROVE  RunningIsRun'
  <1>1. ASSUME NEW p \in Processes, Current(p)', NEW w \in Work, work'[w].state = "running"
        PROVE  \E r \in runs' : r.proc = p /\ RowOfRun(r) = [work |-> w, attempt |-> work'[w].attempt]
    <2>1. PICK r \in runs : r.proc = p /\ RowOfRun(r) = RowOf(w)
      BY <1>1 DEF RunningIsRun, InState
    <2>2. r.work = w /\ r.attempt = work'[w].attempt /\ RowOfRun(r) = [work |-> w, attempt |-> work'[w].attempt]
      BY <1>1, <2>1 DEF RowOfRun, RowOf
    <2> QED  BY <1>1, <2>1, <2>2
  <1>2. ASSUME NEW p \in Processes, Current(p)', NEW w \in InState({"running"})'
        PROVE  (\E r \in runs : r.proc = p /\ RowOfRun(r) = RowOf(w))'
    <2>1. w \in Work /\ work'[w].state = "running"  BY <1>2 DEF InState
    <2>2. PICK r \in runs' : r.proc = p /\ RowOfRun(r) = [work |-> w, attempt |-> work'[w].attempt]
      BY <1>1, <1>2, <2>1
    <2> QED  BY <2>2 DEF RowOf, RowOfRun
  <1> QED  BY <1>2 DEF RunningIsRun

(* The parts of TypeOK a step may disturb.                                   *)
LEMMA TypeParts ==
  ASSUME TypeOK, proc' \in [Processes -> ProcState],
         lease' \in [holder : Processes \cup {NoOne}, live : BOOLEAN], enabled' \in BOOLEAN,
         work' \in [Work -> [state : RowStates, attempt : 0 .. MaxAttempts]],
         job' \in [Work -> JobStates], active' \in [Processes -> [Work -> 0 .. MaxAttempts]],
         runs' \subseteq Runs, asked' \in [Processes -> SUBSET Rows], open' \subseteq Work,
         faults' \in 0 .. MaxFaults
  PROVE  TypeOK'
  BY DEF TypeOK, ProcState

LEMMA FaultTyped == ASSUME TypeOK, Fault PROVE faults' \in 0 .. MaxFaults
  BY SchedulerAssumption DEF TypeOK, Fault

IInv ==
  TypeOK /\ NotAhead /\ ClosedRows /\ ClosedReadings /\ BelowBound /\ RunningIsRun

(* Steps that change nothing but processes, runs' marks, retries asked for,    *)
(* the coordinator's tasks or the owner's disappearance.                      *)
LEMMA QuietStep ==
  ASSUME IInv, TypeOK',
         UNCHANGED <<work, open>>,
         \A q \in Processes : Reading(q)' \subseteq Reading(q),
         \A q \in Processes : proc'[q].pump = "admit" =>
           /\ proc[q].pump = "admit"
           /\ \A ask \in proc'[q].asks : ask \in proc[q].asks \/ ask.row.attempt < MaxAttempts,
         \A p \in Processes : Current(p)' => Current(p),
         \A r \in runs : Current(r.proc)' => \E q \in runs' : q.proc = r.proc /\ RowOfRun(q) = RowOfRun(r)
  PROVE  IInv'
  <1>1. NotAhead' /\ ClosedReadings' /\ BelowBound'  BY ReadingsKept DEF IInv
  <1>2. ClosedRows'  BY DEF IInv, ClosedRows, InState
  <1>3. RunningIsRun'  BY RunningKept DEF IInv
  <1> QED  BY <1>1, <1>2, <1>3 DEF IInv

LEMMA PumpStep ==
  ASSUME IInv, NEW p \in Processes,
         \/ Tick(p) \/ BacksOff(p) \/ ReviewNext(p) \/ AdmitNext(p) \/ PumpEnds(p) \/ AttemptChanged(p)
  PROVE  IInv'
  <1> USE SchedulerAssumption
  <1>1. CASE ReviewNext(p) \/ AdmitNext(p)
    <2>1. PICK row : Inspect(p, row) /\ (AdmitNext(p) => row.attempt < MaxAttempts)
      BY <1>1 DEF ReviewNext, AdmitNext
    <2>2. TypeOK  BY DEF IInv
    <2> DEFINE new == [row |-> row, answer |-> job[row.work]]
    <2>3. /\ row \in proc[p].todo
          /\ proc' \in [Processes -> ProcState]
          /\ \A q \in Processes : q # p => proc'[q] = proc[q]
          /\ proc'[p].pump = proc[p].pump /\ proc'[p].todo = proc[p].todo \ {row}
          /\ proc'[p].asks = {new} /\ proc'[p].closing = proc[p].closing
      BY <2>1, <2>2, InspectEffect
    <2>4. /\ UNCHANGED <<work, open, lease, runs, enabled, job, active, asked, faults>>
          /\ proc[p].pump = "admit" => AdmitNext(p)
      BY <1>1 DEF ReviewNext, AdmitNext
    <2>5. TypeOK'  BY <2>2, <2>3, <2>4, TypeParts DEF TypeOK
    <2>6. new.row = row  OBVIOUS
    <2> HIDE DEF new
    <2>7. \A q \in Processes : Reading(q)' \subseteq Reading(q)  BY <2>3, <2>6 DEF Reading
    <2>8. ASSUME NEW q \in Processes, proc'[q].pump = "admit"
          PROVE  /\ proc[q].pump = "admit"
                 /\ \A ask \in proc'[q].asks : ask \in proc[q].asks \/ ask.row.attempt < MaxAttempts
      BY <2>1, <2>3, <2>4, <2>6, <2>8
    <2>9. \A q \in Processes : Current(q)' => Current(q)  BY <2>3, <2>4 DEF Current, Stopped
    <2> QED  BY <2>4, <2>5, <2>7, <2>8, <2>9, QuietStep
  <1>2. CASE Tick(p) \/ BacksOff(p) \/ PumpEnds(p) \/ AttemptChanged(p)
    <2>1. TypeOK  BY DEF IInv
    <2>2. \E stage \in {"idle", "page"} : Begins(p, stage, {})
      BY <1>2 DEF Tick, BacksOff, PumpEnds, AttemptChanged
    <2>3. /\ proc' \in [Processes -> ProcState]
          /\ \A q \in Processes : q # p => proc'[q] = proc[q]
          /\ proc'[p].pump \in {"idle", "page"} /\ proc'[p].todo = {} /\ proc'[p].asks = {}
          /\ proc'[p].closing = proc[p].closing
      BY <2>1, <2>2, BeginsEffect
    <2>4. /\ UNCHANGED <<work, open, lease, runs, job, active, asked>>
          /\ enabled' \in BOOLEAN /\ (faults' = faults \/ Fault)
      BY <1>2, <2>1 DEF Tick, BacksOff, PumpEnds, AttemptChanged, TypeOK
    <2>5. faults' \in 0 .. MaxFaults  BY <2>1, <2>4, FaultTyped DEF TypeOK
    <2>6. TypeOK'  BY <2>1, <2>3, <2>4, <2>5, TypeParts DEF TypeOK
    <2>7. \A q \in Processes : Reading(q)' \subseteq Reading(q)  BY <2>3 DEF Reading
    <2>8. ASSUME NEW q \in Processes, proc'[q].pump = "admit"
          PROVE  proc[q].pump = "admit" /\ proc'[q].asks = proc[q].asks
      BY <2>3, <2>8
    <2>9. \A q \in Processes : Current(q)' => Current(q)  BY <2>3, <2>4 DEF Current, Stopped
    <2> QED  BY <2>4, <2>6, <2>7, <2>8, <2>9, QuietStep
  <1> QED  BY <1>1, <1>2

(* A pump that finishes its review reads the rows it may admit: none of them   *)
(* is open.                                                                  *)
LEMMA ReviewedStep ==
  ASSUME IInv, NEW p \in Processes, Reviewed(p)
  PROVE  IInv'
  <1> USE SchedulerAssumption
  <1>1. TypeOK  BY DEF IInv
  <1>2. PICK due \in SUBSET InState({"waiting"}) :
          Begins(p, "admit", {RowOf(w) : w \in InState({"queued"}) \cup due})
    BY DEF Reviewed
  <1> DEFINE todo == {RowOf(w) : w \in InState({"queued"}) \cup due}
  <1>3. ASSUME NEW row \in todo
        PROVE  row \in Rows /\ row.work \in Work /\ row.attempt = work[row.work].attempt
               /\ row.work \notin open
    <2>1. PICK w \in InState({"queued"}) \cup due : row = RowOf(w)  OBVIOUS
    <2>2. w \in Work /\ work[w].state \in {"queued", "waiting"}  BY <2>1 DEF InState
    <2> QED  BY <1>1, <2>1, <2>2, RowTyped DEF IInv, ClosedRows, InState
  <1>4. todo \in SUBSET Rows  BY <1>3
  <1>5. Begins(p, "admit", todo)  BY <1>2
  <1>6. UNCHANGED <<work, open, lease, runs, enabled, job, active, asked, faults>>  BY DEF Reviewed
  <1> HIDE DEF todo
  <1>7. /\ proc' \in [Processes -> ProcState]
        /\ \A q \in Processes : q # p => proc'[q] = proc[q]
        /\ proc'[p].pump = "admit" /\ proc'[p].todo = todo /\ proc'[p].asks = {}
        /\ proc'[p].closing = proc[p].closing
    BY <1>1, <1>4, <1>5, BeginsEffect
  <1>8. TypeOK'  BY <1>1, <1>6, <1>7, TypeParts DEF TypeOK
  <1>9. \A q \in Processes : Reading(q)' = IF q = p THEN todo ELSE Reading(q)
    BY <1>7 DEF Reading
  <1>10. NotAhead'
    <2>1. ASSUME NEW q \in Processes, NEW row \in Reading(q)'
          PROVE  row.attempt <= work'[row.work].attempt
      <3>1. CASE q = p
        <4>1. row \in todo /\ work[row.work].attempt \in Nat  BY <1>1, <1>3, <1>9, <3>1 DEF TypeOK
        <4> QED  BY <1>3, <1>6, <4>1
      <3>2. CASE q # p
        <4>1. row \in Reading(q)  BY <1>9, <3>2
        <4> QED  BY <1>6, <4>1 DEF IInv, NotAhead
      <3> QED  BY <3>1, <3>2
    <2> QED  BY <2>1 DEF NotAhead
  <1>11. ClosedReadings'
    <2>1. ASSUME NEW q \in Processes, proc'[q].pump = "admit", NEW row \in Reading(q)',
                 row.attempt = work'[row.work].attempt
          PROVE  row.work \notin open'
      <3>1. CASE q = p  BY <1>3, <1>6, <1>9, <3>1
      <3>2. CASE q # p
        <4>1. row \in Reading(q) /\ proc[q].pump = "admit"  BY <1>7, <1>9, <2>1, <3>2
        <4> QED  BY <1>6, <2>1, <4>1 DEF IInv, ClosedReadings, SameAttempt
      <3> QED  BY <3>1, <3>2
    <2> QED  BY <2>1 DEF ClosedReadings, SameAttempt
  <1>12. BelowBound'
    <2>1. ASSUME NEW q \in Processes, proc'[q].pump = "admit", NEW ask \in proc'[q].asks
          PROVE  ask.row.attempt < MaxAttempts
      <3>1. q # p /\ proc'[q] = proc[q]  BY <1>7, <2>1
      <3> QED  BY <2>1, <3>1 DEF IInv, BelowBound
    <2> QED  BY <2>1 DEF BelowBound
  <1>13. ClosedRows'  BY <1>6 DEF IInv, ClosedRows, InState
  <1>14. \A q \in Processes : Current(q)' => Current(q)  BY <1>6, <1>7 DEF Current, Stopped
  <1>15. RunningIsRun'  BY <1>1, <1>6, <1>14, RunningKept DEF IInv
  <1> QED  BY <1>8, <1>10, <1>11, <1>12, <1>13, <1>15 DEF IInv

LEMMA SamePumpReads ==
  ASSUME NEW p \in Processes, SamePump(p) \/ NoPump(p)
  PROVE  /\ proc' \in [Processes -> ProcState]
         /\ \A q \in Processes : Reading(q)' \subseteq Reading(q)
         /\ \A q \in Processes : proc'[q].pump = "admit" =>
              proc[q].pump = "admit" /\ proc'[q].asks = proc[q].asks
  <1>1. proc' \in [Processes -> ProcState]  BY DEF SamePump, NoPump
  <1>2. ASSUME NEW q \in Processes
        PROVE  /\ Reading(q)' \subseteq Reading(q)
               /\ proc'[q].pump = "admit" => proc[q].pump = "admit" /\ proc'[q].asks = proc[q].asks
    <2>1. CASE q # p  BY <2>1 DEF SamePump, NoPump, Reading
    <2>2. CASE q = p  BY <2>2 DEF SamePump, NoPump, Reading
    <2> QED  BY <2>1, <2>2
  <1> QED  BY <1>1, <1>2

(* The timer or the pump gives up, a pause or a stop begins or goes on.        *)
LEMMA ControlStep ==
  ASSUME IInv, NEW p \in Processes,
         TimerFails(p) \/ PumpGivesUp(p) \/ Pause(p) \/ Stop(p) \/ PumpAwaited(p) \/ Paused(p)
  PROVE  IInv'
  <1>1. TypeOK  BY DEF IInv
  <1>2. SamePump(p) \/ NoPump(p)
    <2>1. CASE PumpGivesUp(p)  BY <1>1, <2>1, GivesUpEffect
    <2>2. CASE TimerFails(p)
      <3>1. proc' = [proc EXCEPT ![p] = Disarmed(p)]  BY <2>2 DEF TimerFails
      <3> QED  BY <1>1, <3>1, ControlEffect
    <2>3. CASE Pause(p) \/ Stop(p) \/ PumpAwaited(p) \/ Paused(p)  BY <1>1, <2>3, ControlEffect
    <2> QED  BY <2>1, <2>2, <2>3
  <1>3. /\ proc' \in [Processes -> ProcState]
        /\ \A q \in Processes : Reading(q)' \subseteq Reading(q)
        /\ \A q \in Processes : proc'[q].pump = "admit" =>
             proc[q].pump = "admit" /\ proc'[q].asks = proc[q].asks
    BY <1>2, SamePumpReads
  <1>4. /\ UNCHANGED <<work, open, job, active, asked>>
        /\ faults' = faults \/ Fault
        /\ runs' = runs \/ runs' = Aborted(p)
        /\ enabled' \in BOOLEAN
    BY <1>1 DEF TimerFails, PumpGivesUp, Pause, Stop, PumpAwaited, Paused, TypeOK
  <1>5. lease' = lease \/ (lease.holder = p /\ lease' = [lease EXCEPT !.live = FALSE])
    BY DEF TimerFails, PumpGivesUp, Pause, Stop, PumpAwaited, Paused, Release
  <1>6. /\ lease' \in [holder : Processes \cup {NoOne}, live : BOOLEAN]
        /\ lease'.holder = lease.holder /\ (lease'.live => lease.live)
        /\ lease.holder = p /\ lease'.live => lease' = lease
    BY <1>1, <1>5 DEF TypeOK
  <1>7. /\ runs' \subseteq Runs
        /\ \A r \in runs : \E q \in runs' : q.proc = r.proc /\ RowOfRun(q) = RowOfRun(r)
    BY <1>1, <1>4, AbortedTyped DEF TypeOK
  <1>8. faults' \in 0 .. MaxFaults  BY <1>1, <1>4, FaultTyped DEF TypeOK
  <1>9. TypeOK'  BY <1>1, <1>3, <1>4, <1>6, <1>7, <1>8, TypeParts DEF TypeOK
  <1>10. ASSUME NEW q \in Processes, Current(q)' PROVE Current(q)
    <2>1. lease.live /\ lease.holder = q /\ lease'.live /\ ~(proc'[q].closing \in {"stopping", "stopDrains"})
      BY <1>6, <1>10 DEF Current, Stopped
    <2>2. CASE q # p
      <3>1. proc'[q] = proc[q]  BY <1>2, <2>2 DEF SamePump, NoPump
      <3> QED  BY <2>1, <3>1 DEF Current, Stopped
    <2>3. CASE q = p
      <3>1. lease' = lease  BY <1>6, <2>1, <2>3
      <3>2. ~Paused(p)
        BY <1>1, <2>1, <2>3 DEF Paused, Release, TypeOK
      <3>3. proc[p].closing \in {"stopping", "stopDrains"} => proc'[p].closing \in {"stopping", "stopDrains"}
        <4> proc \in [Processes -> ProcState]  BY <1>1 DEF TypeOK, ProcState
        <4>1. CASE TimerFails(p)  BY <4>1 DEF TimerFails, Disarmed, ProcState
        <4>2. CASE PumpGivesUp(p)  BY <4>2 DEF PumpGivesUp, Disarmed, ProcState
        <4>3. CASE Pause(p)  BY <4>3 DEF Pause, ProcState
        <4>4. CASE Stop(p)  BY <4>4 DEF Stop, Stopped
        <4>5. CASE PumpAwaited(p)  BY <4>5 DEF PumpAwaited, ProcState
        <4> QED  BY <3>2, <4>1, <4>2, <4>3, <4>4, <4>5
      <3> QED  BY <2>1, <2>3, <3>3 DEF Current, Stopped
    <2> QED  BY <2>2, <2>3
  <1> QED  BY <1>3, <1>4, <1>7, <1>9, <1>10, QuietStep

(* A process dies: nobody holds its token any more.                          *)
LEMMA CrashStep ==
  ASSUME IInv, NEW p \in Processes, Crash(p)
  PROVE  IInv'
  <1>1. TypeOK  BY DEF IInv
  <1>2. NoPump(p)  BY <1>1, GivesUpEffect DEF Crash
  <1>3. /\ proc' \in [Processes -> ProcState]
        /\ \A q \in Processes : Reading(q)' \subseteq Reading(q)
        /\ \A q \in Processes : proc'[q].pump = "admit" =>
             proc[q].pump = "admit" /\ proc'[q].asks = proc[q].asks
    BY <1>2, SamePumpReads
  <1>4. /\ UNCHANGED <<enabled, work, job, open>> /\ Fault
        /\ runs' = runs \ InFlight(p)
        /\ lease' = IF lease.holder = p THEN [lease EXCEPT !.holder = NoOne] ELSE lease
    BY DEF Crash, Gone
  <1>5. /\ active' \in [Processes -> [Work -> 0 .. MaxAttempts]]
        /\ asked' \in [Processes -> SUBSET Rows]
    BY <1>1, SchedulerAssumption DEF Crash, Gone, TypeOK, NoRuns
  <1>6. /\ lease' \in [holder : Processes \cup {NoOne}, live : BOOLEAN]
        /\ lease'.holder # p
        /\ \A q \in Processes : lease'.holder = q => lease' = lease
    BY <1>1, <1>4, SchedulerAssumption DEF TypeOK
  <1>7. TypeOK'  BY <1>1, <1>3, <1>4, <1>5, <1>6, FaultTyped, TypeParts DEF TypeOK
  <1>8. ASSUME NEW q \in Processes, Current(q)' PROVE Current(q) /\ q # p
    <2>1. lease'.holder = q /\ lease' = lease /\ q # p  BY <1>6, <1>8 DEF Current
    <2>2. proc'[q] = proc[q]  BY <1>2, <2>1 DEF NoPump
    <2> QED  BY <1>8, <2>1, <2>2 DEF Current, Stopped
  <1>9. \A r \in runs : Current(r.proc)' => r \in runs'
    BY <1>1, <1>4, <1>8, RunTyped DEF InFlight
  <1> QED  BY <1>3, <1>4, <1>7, <1>8, <1>9, QuietStep

LEMMA OutsideStep ==
  ASSUME IInv,
         \/ Lapse \/ (\E w \in Work : JobMoves(w))
         \/ (\E p \in Processes, w \in Work : AskRetry(p, w)) \/ (\E r \in runs : Claim(r))
  PROVE  IInv'
  <1>1. TypeOK  BY DEF IInv
  <1>2. UNCHANGED <<work, open, proc, enabled, active>>
    BY DEF Lapse, JobMoves, AskRetry, Claim
  <1>3. faults' \in 0 .. MaxFaults
    BY <1>1, FaultTyped DEF Lapse, JobMoves, AskRetry, Claim, TypeOK
  <1>4. lease' \in [holder : Processes \cup {NoOne}, live : BOOLEAN] /\ lease'.holder = lease.holder
        /\ (lease'.live => lease.live)
    BY <1>1 DEF Lapse, JobMoves, AskRetry, Claim, TypeOK
  <1>5. job' \in [Work -> JobStates]
    <2>1. job \in [Work -> JobStates]  BY <1>1 DEF TypeOK
    <2>2. CASE \E w \in Work : JobMoves(w)  BY <2>1, <2>2 DEF JobMoves
    <2>3. CASE \E r \in runs : Claim(r)  BY <2>1, <2>3 DEF Claim, JobStates
    <2>4. CASE job' = job  BY <2>1, <2>4
    <2> QED  BY <2>2, <2>3, <2>4 DEF Lapse, AskRetry
  <1>6. asked' \in [Processes -> SUBSET Rows]
    <2>1. CASE \E p \in Processes, w \in Work : AskRetry(p, w)
      <3>1. PICK p \in Processes, w \in Work : AskRetry(p, w)  BY <2>1
      <3>2. asked' = [asked EXCEPT ![p] = {RowOf(w)}] /\ RowOf(w) \in Rows
        BY <1>1, <3>1, RowTyped DEF AskRetry
      <3> QED  BY <1>1, <3>2 DEF TypeOK
    <2>2. CASE ~\E p \in Processes, w \in Work : AskRetry(p, w)
      BY <1>1, <2>2 DEF Lapse, JobMoves, Claim, TypeOK
    <2> QED  BY <2>1, <2>2
  <1>7. /\ runs' \subseteq Runs
        /\ \A r \in runs : \E q \in runs' : q.proc = r.proc /\ RowOfRun(q) = RowOfRun(r)
    <2>1. CASE \E r \in runs : Claim(r)
      <3>1. PICK r \in runs : Claim(r)  BY <2>1
      <3> DEFINE c == [r EXCEPT !.claimed = TRUE]
      <3>2. r \in Runs  BY <1>1 DEF TypeOK
      <3>3. c \in Runs /\ c.proc = r.proc /\ RowOfRun(c) = RowOfRun(r)  BY <3>2 DEF Runs, RowOfRun
      <3>4. runs' = (runs \ {r}) \cup {c}  BY <3>1 DEF Claim
      <3> HIDE DEF c
      <3> QED  BY <1>1, <3>3, <3>4 DEF TypeOK
    <2>2. CASE runs' = runs  BY <1>1, <2>2 DEF TypeOK
    <2> QED  BY <2>1, <2>2 DEF Lapse, JobMoves, AskRetry
  <1>8. proc \in [Processes -> ProcState]  BY <1>1 DEF TypeOK, ProcState
  <1>9. TypeOK'
    BY <1>1, <1>2, <1>3, <1>4, <1>5, <1>6, <1>7, <1>8, TypeParts DEF TypeOK
  <1>10. \A q \in Processes : Current(q)' => Current(q)  BY <1>2, <1>4 DEF Current, Stopped
  <1>11. \A q \in Processes : Reading(q)' = Reading(q)  BY <1>2 DEF Reading
  <1> QED  BY <1>2, <1>7, <1>9, <1>10, <1>11, QuietStep

-----------------------------------------------------------------------------
(* Steps that change rows.  A new owner first settles what the last one ran.  *)
LEMMA OwnStep ==
  ASSUME IInv, NEW p \in Processes, Start(p) \/ StartCommand(p)
  PROVE  IInv'
  <1>1. TypeOK  BY DEF IInv
  <1>2. CASE proc[p].timer /\ StartCommand(p)
    <2>1. /\ UNCHANGED <<lease, work, proc, job, active, runs, asked, open, faults>>
          /\ enabled' \in BOOLEAN
      BY <1>2 DEF StartCommand
    <2>2. proc \in [Processes -> ProcState]  BY <1>1 DEF TypeOK, ProcState
    <2>3. TypeOK'  BY <1>1, <2>1, <2>2, TypeParts DEF TypeOK
    <2>4. /\ \A q \in Processes : Reading(q)' = Reading(q)
          /\ \A q \in Processes : Current(q)' = Current(q)
      BY <2>1 DEF Reading, Current, Stopped
    <2> QED  BY <2>1, <2>3, <2>4, QuietStep
  <1>3. CASE Own(p) /\ StartTimer(p)
    <2>1. SamePump(p)  BY <1>1, <1>3, ControlEffect
    <2>2. /\ proc' \in [Processes -> ProcState]
          /\ \A q \in Processes : Reading(q)' \subseteq Reading(q)
          /\ \A q \in Processes : proc'[q].pump = "admit" =>
               proc[q].pump = "admit" /\ proc'[q].asks = proc[q].asks
      BY <2>1, SamePumpReads
    <2>3. /\ UNCHANGED <<job, active, runs, asked, open, faults>> /\ enabled' \in BOOLEAN
          /\ work' = Interrupted /\ lease' = [holder |-> p, live |-> TRUE]
      BY <1>1, <1>3 DEF Start, StartCommand, Own, TypeOK
    <2>4. /\ work' \in [Work -> [state : RowStates, attempt : 0 .. MaxAttempts]]
          /\ \A w \in Work : work'[w].attempt = work[w].attempt
          /\ \A w \in Work : work'[w].state # "running"
          /\ \A w \in Work : work'[w].state = work[w].state \/ work'[w].state = "unknown"
      BY <1>1, <2>3, InterruptedTyped
    <2>5. TypeOK'  BY <1>1, <2>2, <2>3, <2>4, TypeParts DEF TypeOK
    <2>6. NotAhead' /\ ClosedReadings' /\ BelowBound'
      BY <1>1, <2>2, <2>3, <2>4, <2>5, ReadingsKept DEF IInv
    <2>7. ClosedRows'  BY <2>3, <2>4 DEF IInv, ClosedRows, InState
    <2>8. RunningIsRun'  BY <2>4 DEF RunningIsRun, InState
    <2> QED  BY <2>5, <2>6, <2>7, <2>8 DEF IInv
  <1> QED  BY <1>2, <1>3 DEF Start, StartCommand

LEMMA StopEndsStep ==
  ASSUME IInv, NEW p \in Processes, StopEnds(p)
  PROVE  IInv'
  <1>1. TypeOK  BY DEF IInv
  <1>2. NoPump(p)  BY <1>1, GivesUpEffect DEF StopEnds
  <1>3. /\ proc' \in [Processes -> ProcState]
        /\ \A q \in Processes : Reading(q)' \subseteq Reading(q)
        /\ \A q \in Processes : proc'[q].pump = "admit" =>
             proc[q].pump = "admit" /\ proc'[q].asks = proc[q].asks
    BY <1>2, SamePumpReads
  <1>4. /\ UNCHANGED <<enabled, job, open, faults>>
        /\ runs' = runs \ InFlight(p)
        /\ work' = (IF lease.holder = p THEN Interrupted ELSE work)
        /\ lease' = IF lease.holder = p THEN [holder |-> NoOne, live |-> FALSE] ELSE lease
    BY DEF StopEnds, Gone
  <1>5. /\ active' \in [Processes -> [Work -> 0 .. MaxAttempts]]
        /\ asked' \in [Processes -> SUBSET Rows]
    BY <1>1, SchedulerAssumption DEF StopEnds, Gone, TypeOK, NoRuns
  <1>6. /\ lease' \in [holder : Processes \cup {NoOne}, live : BOOLEAN]
        /\ lease'.live => lease.holder # p /\ lease' = lease
    BY <1>1, <1>4, SchedulerAssumption DEF TypeOK
  <1>7. /\ work' \in [Work -> [state : RowStates, attempt : 0 .. MaxAttempts]]
        /\ \A w \in Work : work'[w].attempt = work[w].attempt
        /\ \A w \in Work : work'[w].state = work[w].state \/ work'[w].state = "unknown"
    BY <1>1, <1>4, InterruptedTyped DEF TypeOK
  <1>8. TypeOK'  BY <1>1, <1>3, <1>4, <1>5, <1>6, <1>7, TypeParts DEF TypeOK
  <1>9. NotAhead' /\ ClosedReadings' /\ BelowBound'
    BY <1>1, <1>3, <1>4, <1>7, <1>8, ReadingsKept DEF IInv
  <1>10. ClosedRows'  BY <1>4, <1>7 DEF IInv, ClosedRows, InState
  <1>11. ASSUME NEW q \in Processes, Current(q)' PROVE Current(q) /\ q # p
    <2>1. lease'.live /\ lease'.holder = q /\ lease' = lease /\ q # p  BY <1>6, <1>11 DEF Current
    <2>2. proc'[q] = proc[q]  BY <1>2, <2>1 DEF NoPump
    <2> QED  BY <1>11, <2>1, <2>2 DEF Current, Stopped
  <1>12. \A r \in runs : Current(r.proc)' => r \in runs'
    BY <1>1, <1>4, <1>11, RunTyped DEF InFlight
  <1>13. RunningIsRun'  BY <1>1, <1>7, <1>11, <1>12, RunningKept DEF IInv
  <1> QED  BY <1>8, <1>9, <1>10, <1>13 DEF IInv

(* A page adds rows that were none and so not open; nothing has read them.     *)
LEMMA PageStep ==
  ASSUME IInv, NEW p \in Processes, Page(p)
  PROVE  IInv'
  <1> USE SchedulerAssumption
  <1>1. TypeOK  BY DEF IInv
  <1>2. PICK new \in SUBSET Fresh :
          /\ work' = [w \in Work |-> IF w \in new THEN [work[w] EXCEPT !.state = "queued"] ELSE work[w]]
          /\ Begins(p, "review", {RowOf(w) : w \in InState({"unknown"})})
    BY DEF Page
  <1> DEFINE todo == {RowOf(w) : w \in InState({"unknown"})}
  <1>3. ASSUME NEW row \in todo
        PROVE  row \in Rows /\ row.work \in Work /\ row.attempt = work[row.work].attempt
               /\ row.attempt \in Nat
    <2>1. PICK w \in InState({"unknown"}) : row = RowOf(w)  OBVIOUS
    <2>2. w \in Work  BY <2>1 DEF InState
    <2> QED  BY <1>1, <2>1, <2>2, RowTyped
  <1>4. todo \in SUBSET Rows  BY <1>3
  <1>5. Begins(p, "review", todo)  BY <1>2
  <1> HIDE DEF todo
  <1>6. /\ proc' \in [Processes -> ProcState]
        /\ \A q \in Processes : q # p => proc'[q] = proc[q]
        /\ proc'[p].pump = "review" /\ proc'[p].todo = todo
        /\ proc'[p].asks = {} /\ proc'[p].closing = proc[p].closing
    BY <1>1, <1>4, <1>5, BeginsEffect
  <1>7. UNCHANGED <<lease, enabled, job, active, runs, asked, open, faults>>  BY DEF Page
  <1>8. ASSUME NEW w \in Work
        PROVE  /\ work'[w] \in [state : RowStates, attempt : 0 .. MaxAttempts]
               /\ work'[w].attempt = work[w].attempt /\ work[w].attempt \in Nat
               /\ work'[w] = work[w] \/ (work[w].state = "none" /\ work'[w].state = "queued")
    <2>1. work[w] \in [state : RowStates, attempt : 0 .. MaxAttempts]  BY <1>1 DEF TypeOK
    <2>2. CASE w \in new
      <3>1. work[w].state = "none" /\ work'[w] = [work[w] EXCEPT !.state = "queued"]
        BY <1>2, <2>2 DEF Fresh
      <3> QED  BY <2>1, <3>1 DEF RowStates
    <2>3. CASE w \notin new  BY <1>2, <2>1, <2>3
    <2> QED  BY <2>2, <2>3
  <1>9. work' \in [Work -> [state : RowStates, attempt : 0 .. MaxAttempts]]  BY <1>2, <1>8
  <1>10. TypeOK'  BY <1>1, <1>6, <1>7, <1>9, TypeParts DEF TypeOK
  <1>11. ASSUME NEW q \in Processes, NEW row \in Reading(q)'
         PROVE  row \in Rows /\ row.work \in Work /\ row.attempt <= work[row.work].attempt
                /\ (q # p => row \in Reading(q) /\ proc'[q] = proc[q])
    <2>1. CASE q = p
      <3>1. row \in todo  BY <1>6, <2>1, <1>11 DEF Reading
      <3> QED  BY <1>3, <2>1, <3>1
    <2>2. CASE q # p
      <3>1. row \in Reading(q) /\ proc'[q] = proc[q]  BY <1>6, <2>2, <1>11 DEF Reading
      <3>2. row \in Rows  BY <1>1, <3>1 DEF Reading, TypeOK, Asks
      <3>3. row.attempt <= work[row.work].attempt  BY <3>1 DEF IInv, NotAhead
      <3> QED  BY <3>1, <3>2, <3>3 DEF Rows
    <2> QED  BY <2>1, <2>2
  <1>12. NotAhead'
    <2>1. ASSUME NEW q \in Processes, NEW row \in Reading(q)'
          PROVE  row.attempt <= work'[row.work].attempt
      BY <1>8, <1>11
    <2> QED  BY <2>1 DEF NotAhead
  <1>13. ClosedReadings'
    <2>1. ASSUME NEW q \in Processes, proc'[q].pump = "admit", NEW row \in Reading(q)',
                 row.attempt = work'[row.work].attempt
          PROVE  row.work \notin open'
      <3>1. q # p  BY <1>6, <2>1
      <3>2. row \in Reading(q) /\ proc[q].pump = "admit" /\ row.attempt = work[row.work].attempt
        BY <1>8, <1>11, <2>1, <3>1
      <3> QED  BY <1>7, <3>2 DEF IInv, ClosedReadings, SameAttempt
    <2> QED  BY <2>1 DEF ClosedReadings, SameAttempt
  <1>14. BelowBound'
    <2>1. ASSUME NEW q \in Processes, proc'[q].pump = "admit", NEW ask \in proc'[q].asks
          PROVE  ask.row.attempt < MaxAttempts
      <3>1. q # p /\ proc'[q] = proc[q]  BY <1>6, <2>1
      <3> QED  BY <2>1, <3>1 DEF IInv, BelowBound
    <2> QED  BY <2>1 DEF BelowBound
  <1>15. ClosedRows'
    <2>1. ASSUME NEW w \in Work, work'[w].state \in {"none", "queued", "waiting"}
          PROVE  w \notin open'
      BY <1>7, <1>8, <2>1 DEF IInv, ClosedRows, InState
    <2> QED  BY <2>1 DEF ClosedRows, InState
  <1>16. \A q \in Processes : Current(q)' => Current(q)  BY <1>6, <1>7 DEF Current, Stopped
  <1>17. RunningIsRun'  BY <1>1, <1>7, <1>8, <1>16, RunningKept DEF IInv
  <1> QED  BY <1>10, <1>12, <1>13, <1>14, <1>15, <1>17 DEF IInv

(* The coordinator's answer settles a row, or makes it unknown.               *)
LEMMA SettleStep ==
  ASSUME IInv, NEW p \in Processes, Review(p) \/ Declined(p)
  PROVE  IInv'
  <1> USE SchedulerAssumption
  <1>1. TypeOK  BY DEF IInv
  <1>2. /\ Answered(p)
        /\ UNCHANGED <<lease, enabled, job, active, runs, asked, open, faults>>
    BY DEF Review, Declined
  <1>3. /\ proc' \in [Processes -> ProcState]
        /\ \A q \in Processes : q # p => proc'[q] = proc[q]
        /\ proc'[p].pump = proc[p].pump /\ proc'[p].todo = proc[p].todo /\ proc'[p].asks = {}
        /\ proc'[p].closing = proc[p].closing
    BY <1>1, <1>2, AnsweredEffect
  <1>4. \/ work' = work
        \/ \E row \in Rows, s \in {"completed", "cancelled", "superseded", "unknown"} : SetRow(row, s)
    <2>1. ASSUME NEW ask \in proc[p].asks
          PROVE  ask.row \in Rows /\ (Settled(ask.answer) =>
                   SettledState(ask.answer) \in {"completed", "cancelled", "superseded"})
      BY <1>1 DEF TypeOK, Asks, Settled, SettledState
    <2> QED  BY <2>1 DEF Review, Declined
  <1>5. /\ work' \in [Work -> [state : RowStates, attempt : 0 .. MaxAttempts]]
        /\ \A w \in Work : work'[w].attempt = work[w].attempt
        /\ \A w \in Work : work'[w] = work[w]
                           \/ work'[w].state \in {"completed", "cancelled", "superseded", "unknown"}
    <2>1. CASE work' = work  BY <1>1, <2>1 DEF TypeOK
    <2>2. CASE \E row \in Rows, s \in {"completed", "cancelled", "superseded", "unknown"} : SetRow(row, s)
      <3>1. PICK row \in Rows, s \in {"completed", "cancelled", "superseded", "unknown"} : SetRow(row, s)
        BY <2>2
      <3>2. s \in RowStates  BY DEF RowStates
      <3> QED  BY <1>1, <3>1, <3>2, SetRowTyped
    <2> QED  BY <1>4, <2>1, <2>2
  <1>6. TypeOK'  BY <1>1, <1>2, <1>3, <1>5, TypeParts DEF TypeOK
  <1>7. \A q \in Processes : Reading(q)' \subseteq Reading(q)  BY <1>3 DEF Reading
  <1>8. \A q \in Processes : proc'[q].pump = "admit" =>
          proc[q].pump = "admit" /\ \A ask \in proc'[q].asks : ask \in proc[q].asks
    BY <1>3
  <1>9. NotAhead' /\ ClosedReadings' /\ BelowBound'
    BY <1>1, <1>2, <1>5, <1>6, <1>7, <1>8, ReadingsKept DEF IInv
  <1>10. ClosedRows'
    <2>1. ASSUME NEW w \in Work, work'[w].state \in {"none", "queued", "waiting"}
          PROVE  w \notin open'
      BY <1>2, <1>5, <2>1 DEF IInv, ClosedRows, InState
    <2> QED  BY <2>1 DEF ClosedRows, InState
  <1>11. \A q \in Processes : Current(q)' => Current(q)  BY <1>2, <1>3 DEF Current, Stopped
  <1>12. RunningIsRun'  BY <1>1, <1>2, <1>5, <1>11, RunningKept DEF IInv
  <1> QED  BY <1>6, <1>9, <1>10, <1>12 DEF IInv

-----------------------------------------------------------------------------
(* An admission takes the row's next attempt, so no reading of the row that    *)
(* another pump, or this one, still has matches it any longer.                *)
LEMMA AdmitStep ==
  ASSUME IInv, NEW p \in Processes, Admit(p) \/ AdmitBusy(p)
  PROVE  IInv'
  <1> USE SchedulerAssumption
  <1>1. TypeOK  BY DEF IInv
  <1>2. PICK ask \in Chosen(p) :
          /\ work' = [work EXCEPT ![ask.row.work] =
               [state |-> IF Admit(p) THEN "running" ELSE "waiting", attempt |-> ask.row.attempt + 1]]
          /\ active' = [active EXCEPT ![p][ask.row.work] = IF Admit(p) THEN ask.row.attempt + 1 ELSE 0]
          /\ IF Admit(p)
             THEN /\ runs' = runs \cup {[proc |-> p, work |-> ask.row.work, attempt |-> ask.row.attempt + 1,
                                         aborted |-> FALSE, claimed |-> FALSE]}
                  /\ open' = open \cup {ask.row.work}
             ELSE UNCHANGED <<runs, open>>
    <2>1. CASE Admit(p)  BY <2>1 DEF Admit
    <2>2. CASE ~Admit(p)  BY <2>2 DEF AdmitBusy
    <2> QED  BY <2>1, <2>2
  <1> DEFINE w == ask.row.work
             n == ask.row.attempt + 1
             s == IF Admit(p) THEN "running" ELSE "waiting"
             new == [proc |-> p, work |-> w, attempt |-> n, aborted |-> FALSE, claimed |-> FALSE]
             row1 == [state |-> s, attempt |-> n]
             entry == IF Admit(p) THEN n ELSE 0
  <1>3. /\ Answered(p) /\ proc[p].pump = "admit" /\ Current(p)
        /\ UNCHANGED <<lease, enabled, job, asked, faults>>
    BY DEF Admit, AdmitBusy
  <1>4. /\ ask \in proc[p].asks /\ ask.row \in Rows /\ SameAttempt(ask.row)
        /\ ask.row.attempt < MaxAttempts /\ ask.row.work \notin open
    <2>1. ask \in proc[p].asks /\ SameAttempt(ask.row)  BY DEF Chosen
    <2>2. ask.row \in Rows  BY <1>1, <2>1 DEF TypeOK, Asks
    <2>3. ask.row.attempt < MaxAttempts  BY <1>3, <2>1 DEF IInv, BelowBound
    <2>4. ask.row \in Reading(p)  BY <2>1 DEF Reading
    <2> QED  BY <1>3, <2>1, <2>2, <2>3, <2>4 DEF IInv, ClosedReadings
  <1>5. /\ w \in Work /\ n \in 1 .. MaxAttempts /\ n > work[w].attempt /\ w \notin open
        /\ work[w].attempt \in Nat
    BY <1>1, <1>4 DEF Rows, SameAttempt, TypeOK
  <1>6. s \in {"running", "waiting"} /\ (Admit(p) <=> s = "running") /\ entry \in 0 .. MaxAttempts
    BY <1>5
  <1>7. new \in Runs /\ new.proc = p /\ RowOfRun(new) = [work |-> w, attempt |-> n]
    BY <1>5 DEF Runs, RowOfRun
  <1>8. /\ work' = [work EXCEPT ![w] = row1]
        /\ active' = [active EXCEPT ![p][w] = entry]
        /\ IF Admit(p) THEN runs' = runs \cup {new} /\ open' = open \cup {w} ELSE UNCHANGED <<runs, open>>
    BY <1>2
  <1>9. row1 \in [state : RowStates, attempt : 0 .. MaxAttempts] /\ row1.state = s /\ row1.attempt = n
    BY <1>5, <1>6 DEF RowStates
  <1> HIDE DEF w, n, s, new, row1, entry
  <1>10. /\ proc' \in [Processes -> ProcState]
         /\ \A q \in Processes : q # p => proc'[q] = proc[q]
         /\ proc'[p].pump = proc[p].pump /\ proc'[p].todo = proc[p].todo /\ proc'[p].asks = {}
         /\ proc'[p].closing = proc[p].closing
    BY <1>1, <1>3, AnsweredEffect
  <1>11. /\ work' \in [Work -> [state : RowStates, attempt : 0 .. MaxAttempts]]
         /\ work'[w].attempt = n /\ work'[w].state = s
         /\ \A u \in Work : u # w => work'[u] = work[u]
    BY <1>1, <1>5, <1>8, <1>9 DEF TypeOK
  <1>12. active' \in [Processes -> [Work -> 0 .. MaxAttempts]]
    BY <1>1, <1>5, <1>6, <1>8 DEF TypeOK
  <1>13. runs' \subseteq Runs /\ runs \subseteq runs' /\ open' \subseteq Work
         /\ \A u \in Work : u # w /\ u \in open' => u \in open
    BY <1>1, <1>5, <1>7, <1>8 DEF TypeOK
  <1>14. TypeOK'  BY <1>1, <1>3, <1>10, <1>11, <1>12, <1>13, TypeParts DEF TypeOK
  <1>15. \A q \in Processes : Reading(q)' \subseteq Reading(q)  BY <1>10 DEF Reading
  <1>16. \A q \in Processes : proc'[q].pump = "admit" =>
           proc[q].pump = "admit" /\ \A a \in proc'[q].asks : a \in proc[q].asks
    BY <1>10
  <1>17. ASSUME NEW u \in Work
         PROVE  \/ work'[u].attempt = work[u].attempt /\ (u \in open' => u \in open)
                \/ work'[u].attempt > work[u].attempt
    BY <1>5, <1>11, <1>13
  <1>18. NotAhead' /\ ClosedReadings' /\ BelowBound'
    BY <1>1, <1>14, <1>15, <1>16, <1>17, ReadingsKept DEF IInv
  <1>19. ClosedRows'
    <2>1. ASSUME NEW u \in Work, work'[u].state \in {"none", "queued", "waiting"}
          PROVE  u \notin open'
      <3>1. CASE u = w  BY <1>5, <1>6, <1>8, <1>11, <2>1, <3>1
      <3>2. CASE u # w  BY <1>11, <1>13, <2>1, <3>2 DEF IInv, ClosedRows, InState
      <3> QED  BY <3>1, <3>2
    <2> QED  BY <2>1 DEF ClosedRows, InState
  <1>20. \A q \in Processes : Current(q)' => Current(q) /\ q = p
    BY <1>3, <1>10 DEF Current, Stopped
  <1>21. RunningIsRun'
    <2>1. ASSUME NEW q \in Processes, Current(q)', NEW u \in InState({"running"})'
          PROVE  (\E r \in runs : r.proc = q /\ RowOfRun(r) = RowOf(u))'
      <3>1. u \in Work /\ work'[u].state = "running" /\ q = p /\ Current(p)
        BY <1>20, <2>1 DEF InState
      <3>2. PICK r \in runs' : r.proc = p /\ RowOfRun(r) = [work |-> u, attempt |-> work'[u].attempt]
        <4>1. CASE u = w
          <5>1. runs' = runs \cup {new}  BY <1>6, <1>8, <1>11, <3>1, <4>1
          <5> QED  BY <1>7, <1>11, <4>1, <5>1
        <4>2. CASE u # w
          <5>1. work'[u] = work[u] /\ u \in InState({"running"})  BY <1>11, <3>1, <4>2 DEF InState
          <5>2. PICK r \in runs : r.proc = p /\ RowOfRun(r) = RowOf(u)
            BY <3>1, <5>1 DEF IInv, RunningIsRun
          <5> QED  BY <1>13, <5>1, <5>2 DEF RowOf
        <4> QED  BY <4>1, <4>2
      <3> QED  BY <3>1, <3>2 DEF RowOf, RowOfRun
    <2> QED  BY <2>1 DEF RunningIsRun
  <1> QED  BY <1>14, <1>18, <1>19, <1>21 DEF IInv

(* The owner writes a run's result over the row of its attempt.               *)
LEMMA EndsStep ==
  ASSUME IInv, NEW r \in runs, RunFails(r) \/ RunReturns(r)
  PROVE  IInv'
  <1> USE SchedulerAssumption
  <1>1. TypeOK  BY DEF IInv
  <1>2. PICK s \in {"unknown", "blocked", "completed", "waiting"} : Ends(r, s)
    BY DEF RunFails, RunReturns, Results
  <1>3. /\ UNCHANGED <<lease, enabled, proc, asked, faults>>
        /\ r.proc \in Processes /\ r.work \in Work /\ RowOfRun(r) \in Rows
        /\ RowOfRun(r).work = r.work /\ RowOfRun(r).attempt = r.attempt
    BY <1>1, RunTyped DEF RunFails, RunReturns
  <1>4. job' \in [Work -> JobStates]
    <2>1. job \in [Work -> JobStates]  BY <1>1 DEF TypeOK
    <2>2. CASE RunFails(r)  BY <2>1, <2>2 DEF RunFails
    <2>3. CASE RunReturns(r)
      <3>1. PICK res \in Results : job' = [job EXCEPT ![r.work] = IF @ = "active" THEN res.job ELSE @]
        BY <2>3 DEF RunReturns
      <3>2. res.job \in JobStates  BY DEF Results, JobStates
      <3> QED  BY <1>3, <2>1, <3>1, <3>2
    <2> QED  BY <2>2, <2>3
  <1>5. /\ runs' = runs \ {r} /\ active' = [active EXCEPT ![r.proc][r.work] = 0]
        /\ IF Current(r.proc)
           THEN /\ SetRow(RowOfRun(r), s)
                /\ open' = IF s = "waiting" /\ SameAttempt(RowOfRun(r)) THEN open \ {r.work} ELSE open
           ELSE UNCHANGED <<work, open>>
    BY <1>2 DEF Ends
  <1>6. active' \in [Processes -> [Work -> 0 .. MaxAttempts]]
    BY <1>1, <1>3, <1>5 DEF TypeOK
  <1>7. /\ work' \in [Work -> [state : RowStates, attempt : 0 .. MaxAttempts]]
        /\ \A w \in Work : work'[w].attempt = work[w].attempt
        /\ \A w \in Work : \/ work'[w] = work[w]
                           \/ /\ w = r.work /\ Current(r.proc) /\ SameAttempt(RowOfRun(r))
                              /\ work'[w].state = s
        /\ Current(r.proc) /\ SameAttempt(RowOfRun(r)) => work'[r.work].state = s
    <2>1. CASE Current(r.proc)
      <3>1. SetRow(RowOfRun(r), s) /\ s \in RowStates  BY <1>5, <2>1 DEF RowStates
      <3> QED  BY <1>1, <1>3, <2>1, <3>1, SetRowTyped
    <2>2. CASE ~Current(r.proc)  BY <1>1, <1>5, <2>2 DEF TypeOK
    <2> QED  BY <2>1, <2>2
  <1>8. open' \subseteq open  BY <1>5
  <1>9. /\ proc \in [Processes -> ProcState] /\ runs' \subseteq Runs /\ open' \subseteq Work
    BY <1>1, <1>5, <1>8 DEF TypeOK, ProcState
  <1>10. TypeOK'  BY <1>1, <1>3, <1>4, <1>6, <1>7, <1>9, TypeParts DEF TypeOK
  <1>11. /\ \A q \in Processes : Reading(q)' = Reading(q)
         /\ \A q \in Processes : Current(q)' <=> Current(q)
    BY <1>3 DEF Reading, Current, Stopped
  <1>12. NotAhead' /\ ClosedReadings' /\ BelowBound'
    BY <1>1, <1>3, <1>7, <1>8, <1>10, <1>11, ReadingsKept DEF IInv
  <1>13. ClosedRows'
    <2>1. ASSUME NEW w \in Work, work'[w].state \in {"none", "queued", "waiting"}
          PROVE  w \notin open'
      <3>1. CASE work'[w] = work[w]  BY <1>8, <2>1, <3>1 DEF IInv, ClosedRows, InState
      <3>2. CASE w = r.work /\ Current(r.proc) /\ SameAttempt(RowOfRun(r)) /\ work'[w].state = s
        BY <1>5, <2>1, <3>2
      <3> QED  BY <1>7, <3>1, <3>2
    <2> QED  BY <2>1 DEF ClosedRows, InState
  <1>14. ASSUME NEW q \in runs, Current(q.proc)', work'[q.work].state = "running",
                work'[q.work].attempt = q.attempt
         PROVE  q \in runs'
    <2>1. CASE q = r
      <3>1. Current(r.proc) /\ SameAttempt(RowOfRun(r))
        BY <1>3, <1>7, <1>11, <1>14, <2>1 DEF SameAttempt
      <3> QED  BY <1>7, <1>14, <2>1, <3>1
    <2>2. CASE q # r  BY <1>5, <2>2
    <2> QED  BY <2>1, <2>2
  <1>15. \A w \in Work : work'[w].state = "running" => work'[w] = work[w]  BY <1>7
  <1>16. RunningIsRun'  BY <1>1, <1>11, <1>14, <1>15, RunningKept DEF IInv
  <1> QED  BY <1>10, <1>12, <1>13, <1>16 DEF IInv

(* An operator's retry queues the row and closes it.                          *)
LEMMA RetryStep ==
  ASSUME IInv, NEW p \in Processes, Retry(p)
  PROVE  IInv'
  <1> USE SchedulerAssumption
  <1>1. TypeOK  BY DEF IInv
  <1>2. /\ UNCHANGED <<lease, enabled, job, proc, active, runs, faults>>
        /\ asked' = [asked EXCEPT ![p] = {}]
    BY DEF Retry
  <1>3. \/ UNCHANGED <<work, open>>
        \/ \E w \in Work : /\ work' = [work EXCEPT ![w].state = "queued"]
                           /\ open' = open \ {w}
    <2>1. \A row \in asked[p] : row.work \in Work  BY <1>1 DEF TypeOK, Rows
    <2> QED  BY <2>1 DEF Retry
  <1>4. /\ work' \in [Work -> [state : RowStates, attempt : 0 .. MaxAttempts]]
        /\ \A w \in Work : work'[w].attempt = work[w].attempt
        /\ \A w \in Work : work'[w] = work[w] \/ (work'[w].state = "queued" /\ w \notin open')
        /\ open' \subseteq open
    <2>1. CASE UNCHANGED <<work, open>>  BY <1>1, <2>1 DEF TypeOK
    <2>2. CASE \E w \in Work : work' = [work EXCEPT ![w].state = "queued"] /\ open' = open \ {w}
      <3>1. PICK w \in Work : work' = [work EXCEPT ![w].state = "queued"] /\ open' = open \ {w}
        BY <2>2
      <3>2. work[w] \in [state : RowStates, attempt : 0 .. MaxAttempts]  BY <1>1 DEF TypeOK
      <3> DEFINE row1 == [work[w] EXCEPT !.state = "queued"]
      <3>3. row1 \in [state : RowStates, attempt : 0 .. MaxAttempts]
            /\ row1.state = "queued" /\ row1.attempt = work[w].attempt
        BY <3>2 DEF RowStates
      <3>4. work' = [work EXCEPT ![w] = row1]  BY <3>1
      <3> HIDE DEF row1
      <3> QED  BY <1>1, <3>1, <3>3, <3>4 DEF TypeOK
    <2> QED  BY <1>3, <2>1, <2>2
  <1>5. /\ asked' \in [Processes -> SUBSET Rows] /\ proc \in [Processes -> ProcState]
        /\ open' \subseteq Work
    BY <1>1, <1>2, <1>4 DEF TypeOK, ProcState
  <1>6. TypeOK'  BY <1>1, <1>2, <1>4, <1>5, TypeParts DEF TypeOK
  <1>7. /\ \A q \in Processes : Reading(q)' = Reading(q)
        /\ \A q \in Processes : Current(q)' <=> Current(q)
    BY <1>2 DEF Reading, Current, Stopped
  <1>8. NotAhead' /\ ClosedReadings' /\ BelowBound'
    BY <1>1, <1>2, <1>4, <1>6, <1>7, ReadingsKept DEF IInv
  <1>9. ClosedRows'
    <2>1. ASSUME NEW w \in Work, work'[w].state \in {"none", "queued", "waiting"}
          PROVE  w \notin open'
      BY <1>4, <2>1 DEF IInv, ClosedRows, InState
    <2> QED  BY <2>1 DEF ClosedRows, InState
  <1>10. RunningIsRun'  BY <1>1, <1>2, <1>4, <1>7, RunningKept DEF IInv
  <1> QED  BY <1>6, <1>8, <1>9, <1>10 DEF IInv

-----------------------------------------------------------------------------
LEMMA InitHolds == Init => IInv
  <1> SUFFICES ASSUME Init PROVE IInv  OBVIOUS
  <1> USE SchedulerAssumption
  <1>1. Calm \in ProcState /\ Calm.pump = "idle" /\ Calm.todo = {} /\ Calm.asks = {}
    BY DEF Calm, ProcState
  <1>2. proc \in [Processes -> ProcState]  BY <1>1 DEF Init
  <1>3. work \in [Work -> [state : RowStates, attempt : 0 .. MaxAttempts]]
    BY DEF Init, RowStates
  <1>4. /\ lease \in [holder : Processes \cup {NoOne}, live : BOOLEAN]
        /\ job \in [Work -> JobStates] /\ active \in [Processes -> [Work -> 0 .. MaxAttempts]]
        /\ faults \in 0 .. MaxFaults
    BY DEF Init, JobStates, NoRuns
  <1>5. TypeOK  BY <1>2, <1>3, <1>4 DEF Init, TypeOK, ProcState
  <1>6. \A q \in Processes : proc[q].pump = "idle" /\ Reading(q) = {}
    BY <1>1 DEF Init, Reading
  <1>7. NotAhead /\ ClosedReadings /\ BelowBound
    BY <1>6 DEF NotAhead, ClosedReadings, BelowBound
  <1>8. ClosedRows  BY DEF Init, ClosedRows
  <1>9. RunningIsRun  BY DEF Init, RunningIsRun, Current
  <1> QED  BY <1>5, <1>7, <1>8, <1>9 DEF IInv

LEMMA StepHolds == IInv /\ [Next]_vars => IInv'
  <1> SUFFICES ASSUME IInv, [Next]_vars PROVE IInv'  OBVIOUS
  <1>1. ASSUME NEW p \in Processes, Pump(p) PROVE IInv'
    BY <1>1, PumpStep, ControlStep, PageStep, SettleStep, ReviewedStep, AdmitStep DEF Pump
  <1>2. ASSUME NEW p \in Processes, Control(p) PROVE IInv'
    BY <1>2, OwnStep, ControlStep, StopEndsStep, CrashStep DEF Control
  <1>3. ASSUME NEW p \in Processes, Retry(p) PROVE IInv'
    BY <1>3, RetryStep
  <1>4. ASSUME NEW r \in runs, RunFails(r) \/ RunReturns(r) PROVE IInv'
    BY <1>4, EndsStep
  <1>5. CASE \/ Lapse \/ (\E w \in Work : JobMoves(w))
             \/ (\E p \in Processes, w \in Work : AskRetry(p, w)) \/ (\E r \in runs : Claim(r))
    BY <1>5, OutsideStep
  <1>6. CASE UNCHANGED vars
    <2>1. /\ UNCHANGED <<lease, enabled, work, job, proc, active, runs, asked, open, faults>>
      BY <1>6 DEF vars
    <2>2. proc \in [Processes -> ProcState]  BY DEF IInv, TypeOK, ProcState
    <2>3. TypeOK'  BY <2>1, <2>2, TypeParts DEF IInv, TypeOK
    <2>4. /\ \A q \in Processes : Reading(q)' = Reading(q)
          /\ \A q \in Processes : Current(q)' = Current(q)
      BY <2>1 DEF Reading, Current, Stopped
    <2> QED  BY <2>1, <2>3, <2>4, QuietStep
  <1> QED  BY <1>1, <1>2, <1>3, <1>4, <1>5, <1>6 DEF Next, Run

LEMMA Invariance == Spec => []IInv
  BY InitHolds, StepHolds, PTL DEF Spec

(* The state of the scheduler and of its runs keeps its types.                *)
THEOREM TypeCorrect == Spec => []TypeOK
  <1>1. IInv => TypeOK  BY DEF IInv
  <1> QED  BY <1>1, Invariance, PTL

(* A row that says running under a live owner is a run of that owner.         *)
THEOREM OwnersRunWhatTheyList == Spec => []RunningIsRun
  <1>1. IInv => RunningIsRun  BY DEF IInv
  <1> QED  BY <1>1, Invariance, PTL

(* Only Admit brings a run that was not there.                               *)
LEMMA OnlyAdmitStarts ==
  ASSUME TypeOK, [Next]_vars, ~\E p \in Processes : Admit(p)
  PROVE  \A w \in Work : ~Starts(w)
  <1> SUFFICES \A r \in runs' : \E q \in runs : q.proc = r.proc /\ RowOfRun(q) = RowOfRun(r)
    BY DEF Starts
  <1>1. CASE runs' \subseteq runs  BY <1>1
  <1>2. CASE \E p \in Processes : runs' = Aborted(p)  BY <1>2, AbortedTyped
  <1>3. CASE \E r \in runs : Claim(r)
    <2>1. PICK r \in runs : Claim(r)  BY <1>3
    <2> DEFINE c == [r EXCEPT !.claimed = TRUE]
    <2>2. r \in Runs  BY DEF TypeOK
    <2>3. c.proc = r.proc /\ RowOfRun(c) = RowOfRun(r)  BY <2>2 DEF Runs, RowOfRun
    <2>4. runs' = (runs \ {r}) \cup {c}  BY <2>1 DEF Claim
    <2> HIDE DEF c
    <2> QED  BY <2>3, <2>4
  <1>4. ASSUME NEW p \in Processes, Pump(p) PROVE runs' \subseteq runs \/ runs' = Aborted(p)
    BY <1>4 DEF Pump, Tick, BacksOff, PumpGivesUp, Page, ReviewNext, Review, Reviewed, AdmitNext,
      PumpEnds, Declined, AdmitBusy, AttemptChanged
  <1>5. ASSUME NEW p \in Processes, Control(p) PROVE runs' \subseteq runs \/ runs' = Aborted(p)
    BY <1>5 DEF Control, Start, StartCommand, TimerFails, Pause, Stop, PumpAwaited, Paused,
      StopEnds, Crash, Gone
  <1>6. ASSUME NEW p \in Processes, Retry(p) \/ \E w \in Work : AskRetry(p, w)
        PROVE  runs' \subseteq runs
    BY <1>6 DEF Retry, AskRetry
  <1>7. ASSUME NEW r \in runs, RunFails(r) \/ RunReturns(r) PROVE runs' \subseteq runs
    BY <1>7 DEF RunFails, RunReturns, Ends
  <1>8. CASE Lapse \/ (\E w \in Work : JobMoves(w)) \/ UNCHANGED vars
    BY <1>1, <1>8 DEF Lapse, JobMoves, vars
  <1> QED  BY <1>1, <1>2, <1>3, <1>4, <1>5, <1>6, <1>7, <1>8 DEF Next, Run

LEMMA AdmitStarts ==
  ASSUME IInv, NEW p \in Processes, Admit(p), NEW w \in Work, Starts(w)
  PROVE  w \notin open
  <1>1. PICK ask \in Chosen(p) :
          runs' = runs \cup {[proc |-> p, work |-> ask.row.work, attempt |-> ask.row.attempt + 1,
                              aborted |-> FALSE, claimed |-> FALSE]}
    BY DEF Admit
  <1>2. ask.row \in Reading(p) /\ SameAttempt(ask.row) /\ proc[p].pump = "admit"
    BY DEF Chosen, Reading, Admit
  <1>3. ask.row.work \notin open  BY <1>2 DEF IInv, ClosedReadings
  <1>4. PICK r \in runs' : r.work = w /\ r \notin runs  BY DEF Starts
  <1>5. w = ask.row.work  BY <1>1, <1>4
  <1> QED  BY <1>3, <1>5

(* A work whose last attempt may have acted is not started again of itself.   *)
THEOREM NothingIsRepeatedUnasked == Spec => NoImplicitRetry
  <1>1. IInv /\ [Next]_vars => [\A w \in Work : Starts(w) => w \notin open]_vars
    <2> SUFFICES ASSUME IInv, [Next]_vars PROVE \A w \in Work : Starts(w) => w \notin open
      OBVIOUS
    <2>1. CASE \E p \in Processes : Admit(p)  BY <2>1, AdmitStarts
    <2>2. CASE ~\E p \in Processes : Admit(p)  BY <2>2, OnlyAdmitStarts DEF IInv
    <2> QED  BY <2>1, <2>2
  <1> QED  BY <1>1, Invariance, PTL DEF Spec, NoImplicitRetry
=============================================================================
