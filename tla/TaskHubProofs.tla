--------------------------- MODULE TaskHubProofs ---------------------------
(***************************************************************************)
(* Theorems about TaskHub, for every number of tasks, runs and restarts.    *)
(***************************************************************************)
EXTENDS TaskHub, TLAPS

\* The records the module names belong to the sets TypeOK names.
LEMMA Records ==
  /\ \A p \in Pc : At(p) \in RunRecords
  /\ NoRun \in RunRecords
  /\ Absent \in Entries
  /\ NoLedger \in Ledgers
  /\ Idle \in Recoveries
<1>1. (\A p \in Pc : At(p) \in RunRecords) /\ NoRun \in RunRecords
  BY DEF NoRun, At, RunRecords, Pc
<1>2. Absent \in Entries
  BY DEF Absent, Entries, Status
<1>3. NoLedger \in Ledgers
  BY DEF Ledgers
<1>4. Idle \in Recoveries
  BY DEF Recoveries
<1> QED
  BY <1>1, <1>2, <1>3, <1>4

\* A run number is a value of the fields that hold one.
LEMMA RunNumbers == Runs \subseteq 0 .. MaxRuns /\ 0 \in 0 .. MaxRuns
BY HubAssumption DEF Runs

\* What the pieces of steps write has the type of the variable it is for.
LEMMA SetStatusTyped ==
  ASSUME entry \in [Tasks -> Entries], NEW t \in Tasks, NEW s \in Status
  PROVE  SetStatus(t, s) \in [Tasks -> Entries]
<1>1. CASE entry[t].status = "absent"
  BY <1>1 DEF SetStatus, Entries
<1>2. CASE entry[t].status # "absent"
  BY <1>2 DEF SetStatus, Entries
<1> QED
  BY <1>1, <1>2

LEMMA WriteLedgerTyped ==
  ASSUME ledger \in [Tasks -> Ledgers], NEW t \in Tasks, NEW n \in Runs, NEW s \in Finished
  PROVE  WriteLedger(t, n, s) \in [Tasks -> Ledgers]
<1>1. [run |-> n, status |-> s, consumed |-> FALSE] \in Ledgers
  BY DEF Ledgers
<1> QED
  BY <1>1 DEF WriteLedger

LEMMA ConsumedTyped ==
  ASSUME ledger \in [Tasks -> Ledgers], NEW t \in Tasks, Unread(t)
  PROVE  /\ ledger[t].run \in Runs /\ ledger[t].status \in Finished
         /\ [ledger EXCEPT ![t].consumed = TRUE] \in [Tasks -> Ledgers]
<1>1. ledger[t] \in [run : Runs, status : Finished, consumed : BOOLEAN]
  BY DEF Ledgers, NoLedger, Unread
<1>2. [ledger[t] EXCEPT !.consumed = TRUE] \in Ledgers
  BY <1>1 DEF Ledgers
<1> QED
  BY <1>1, <1>2

LEMMA InboxTyped ==
  ASSUME inbox \in [Tasks -> InboxStates], NEW t \in Tasks
  PROVE  /\ EnqueueOnce(t) \in [Tasks -> InboxStates]
         /\ MarkDelivered(t) \in [Tasks -> InboxStates]
         /\ Requeue(t) \in [Tasks -> InboxStates]
         /\ MarkConsumed(t) \in [Tasks -> InboxStates]
BY DEF EnqueueOnce, MarkDelivered, Requeue, MarkConsumed, InboxStates

LEMMA RunTyped ==
  ASSUME run \in [Tasks -> [Runs -> RunRecords]], NEW t \in Tasks, NEW n \in Runs,
         NEW p \in Pc
  PROVE  /\ [run EXCEPT ![t][n].pc = p] \in [Tasks -> [Runs -> RunRecords]]
         /\ [run EXCEPT ![t][n] = At(p)] \in [Tasks -> [Runs -> RunRecords]]
<1>1. [run EXCEPT ![t][n].pc = p] \in [Tasks -> [Runs -> RunRecords]]
  BY DEF RunRecords
<1>2. [run EXCEPT ![t][n] = At(p)] \in [Tasks -> [Runs -> RunRecords]]
  BY Records
<1> QED
  BY <1>1, <1>2

LEMMA WorkerTyped ==
  ASSUME worker \in [Tasks -> SUBSET Runs], leases \in [Tasks -> SUBSET Runs],
         NEW t \in Tasks, NEW n \in Runs
  PROVE  /\ WorkerLeft(t, n) => worker' \in [Tasks -> SUBSET Runs]
         /\ Unregister(t, n) => leases' \in [Tasks -> SUBSET Runs]
BY DEF WorkerLeft, Unregister

\* The inductive step of TypeOK, by the part of the system that moves.
LEMMA InitTyped == Init => TypeOK
BY Records, RunNumbers, HubAssumption DEF Init, TypeOK, InboxStates

LEMMA SpawnTyped ==
  ASSUME TypeOK, NEW t \in Tasks, NEW n \in Runs, Spawn(t, n)
  PROVE  /\ run' \in [Tasks -> [Runs -> RunRecords]]
         /\ inflight' \in [Tasks -> 0 .. MaxRuns]
         /\ slots' \subseteq Tasks
BY RunTyped, RunNumbers DEF TypeOK, Spawn, Pc

LEMMA DeliverTyped ==
  ASSUME TypeOK, NEW t \in Tasks, NEW n \in Runs,
         NEW p \in {"delivering", "reporting"}, DeliverFrom(t, n, p)
  PROVE  /\ run' \in [Tasks -> [Runs -> RunRecords]]
         /\ inbox' \in [Tasks -> InboxStates]
<1>1. PICK q \in {p, "ended"} : run' = [run EXCEPT ![t][n] = At(q)]
  BY DEF DeliverFrom
<1>2. q \in Pc
  BY DEF Pc
<1> QED
  BY <1>1, <1>2, RunTyped, InboxTyped DEF TypeOK, DeliverFrom

LEMMA EntryTyped ==
  ASSUME entry \in [Tasks -> Entries], NEW t \in Tasks, NEW s \in Status, NEW b \in BOOLEAN
  PROVE  /\ [entry EXCEPT ![t].status = s] \in [Tasks -> Entries]
         /\ [entry[t] EXCEPT !.status = s, !.session = b] \in Entries
BY DEF Entries

LEMMA CancelTyped ==
  ASSUME NEW runs \in [Runs -> RunRecords], NEW n \in Runs
  PROVE  [runs EXCEPT ![n].cancel = TRUE] \in [Runs -> RunRecords]
<1>1. runs[n] \in RunRecords
  OBVIOUS
<1>2. [runs[n] EXCEPT !.cancel = TRUE] \in RunRecords
  BY <1>1 DEF RunRecords
<1> QED
  BY <1>2

\* A task in flight names one of its runs.
LEMMA ActiveTyped ==
  ASSUME inflight \in [Tasks -> 0 .. MaxRuns], NEW t \in Active
  PROVE  t \in Tasks /\ inflight[t] \in Runs
BY HubAssumption DEF Active, Runs

LEMMA CancelAmongTyped ==
  ASSUME TypeOK, NEW targets, CancelAmong(targets)
  PROVE  TypeOK'
<1>1. ASSUME NEW t \in Tasks, t \in targets
      PROVE  [run[t] EXCEPT ![inflight[t]].cancel = TRUE] \in [Runs -> RunRecords]
  <2>1. t \in Active
    BY <1>1 DEF CancelAmong, Cancellable
  <2>2. inflight[t] \in Runs
    BY <2>1, ActiveTyped DEF TypeOK
  <2> QED
    BY <2>2, CancelTyped DEF TypeOK
<1>2. run' \in [Tasks -> [Runs -> RunRecords]]
  BY <1>1 DEF CancelAmong, TypeOK
<1> QED
  BY <1>2 DEF CancelAmong, TypeOK

LEMMA ParentTyped ==
  ASSUME TypeOK, NEW t \in Tasks, ParentStep(t)
  PROVE  TypeOK'
<1>1. ASSUME NEW k \in Keys \cup {NoKey}, Submit(t, k) PROVE TypeOK'
  <2>1. 1 \in Runs
    BY HubAssumption DEF Runs
  <2>2. entry' \in [Tasks -> Entries]
    BY <1>1 DEF Submit, TypeOK, Entries, Status
  <2> QED
    BY <1>1, <2>1, <2>2, SpawnTyped DEF Submit, TypeOK
<1>2. ASSUME NEW n \in Runs, Resume(t, n) PROVE TypeOK'
  <2>1. entry' \in [Tasks -> Entries]
    BY <1>2, EntryTyped DEF Resume, TypeOK, Status
  <2> QED
    BY <1>2, <2>1, SpawnTyped DEF Resume, TypeOK
<1>3. ASSUME Cancel(t) PROVE TypeOK'
  BY <1>3, CancelAmongTyped DEF Cancel
<1>4. ASSUME Delete(t) PROVE TypeOK'
  BY <1>4, Records, RunNumbers DEF Delete, TypeOK
<1>5. ASSUME Consume(t) PROVE TypeOK'
  <2>1. ledger' \in [Tasks -> Ledgers] /\ inbox' \in [Tasks -> InboxStates]
    BY <1>5, ConsumedTyped, InboxTyped DEF Consume, TypeOK
  <2>4. ledger[t].run \in Runs
    BY <1>5, ConsumedTyped DEF Consume, TypeOK
  <2>5. taken' \in [Tasks -> [Runs -> 0 .. 2]]
    <3>1. taken[t][ledger[t].run] \in 0 .. 2
      BY <2>4 DEF TypeOK
    <3> DEFINE r == ledger[t].run
               q == IF taken[t][r] = 2 THEN 2 ELSE taken[t][r] + 1
    <3>2. q \in 0 .. 2
      BY <3>1
    <3>3. taken' = [taken EXCEPT ![t] = [taken[t] EXCEPT ![r] = q]]
      BY <1>5 DEF Consume
    <3> HIDE DEF q
    <3> QED
      BY <2>4, <3>2, <3>3 DEF TypeOK
  <2> QED
    BY <1>5, <2>1, <2>5 DEF Consume, TypeOK
<1> QED
  BY <1>1, <1>2, <1>3, <1>4, <1>5 DEF ParentStep

LEMMA RunStepTyped ==
  ASSUME TypeOK, NEW t \in Tasks, NEW n \in Runs, RunStep(t, n)
  PROVE  TypeOK'
<1> DEFINE Ended == [run EXCEPT ![t][n].pc = "ended"]
<1>0. Ended \in [Tasks -> [Runs -> RunRecords]]
  BY RunTyped DEF TypeOK, Pc
<1> HIDE DEF Ended
<1>1. CASE CancelledBeforeStart(t, n)
  BY <1>1, <1>0 DEF CancelledBeforeStart, TypeOK, Ended
<1>2. CASE Start(t, n)
  <2>1. entry' \in [Tasks -> Entries]
    BY <1>2, SetStatusTyped DEF Start, TypeOK, Status
  <2>2. run' \in [Tasks -> [Runs -> RunRecords]]
    BY <1>2, RunTyped DEF Start, TypeOK, Pc
  <2> QED
    BY <1>2, <2>1, <2>2 DEF Start, TypeOK
<1>3. CASE Respond(t, n)
  <2>1. PICK error \in BOOLEAN, rejected \in BOOLEAN, session \in BOOLEAN, body \in BOOLEAN :
          LET base == BaseStatus(t, error)
              s    == IF base = "done" /\ rejected THEN "failed" ELSE base
          IN /\ entry' = [entry EXCEPT ![t] =
                            IF Present(t) THEN [@ EXCEPT !.status = s, !.session = session]
                            ELSE @]
             /\ resultMd' = [resultMd EXCEPT ![t] =
                               IF base = "done" /\ body /\ Present(t) /\ @ = 0 THEN n ELSE @]
             /\ ledger' = IF s \in Finished THEN WriteLedger(t, n, s) ELSE ledger
             /\ IF error THEN WorkerLeft(t, n)
                ELSE worker' = [worker EXCEPT ![t] = @ \ {n}]
    BY <1>3 DEF Respond
  <2> DEFINE base == BaseStatus(t, error)
             s    == IF base = "done" /\ rejected THEN "failed" ELSE base
  <2>2. s \in Status
    BY DEF BaseStatus, Status, Finished
  <2> HIDE DEF base, s
  <2>3. entry' = [entry EXCEPT ![t] =
                    IF Present(t) THEN [entry[t] EXCEPT !.status = s, !.session = session]
                    ELSE entry[t]]
    BY <2>1 DEF base, s
  <2>4. entry' \in [Tasks -> Entries]
    BY <2>2, <2>3, EntryTyped DEF TypeOK
  <2>5. resultMd' = resultMd \/ resultMd' = [resultMd EXCEPT ![t] = n]
    BY <2>1 DEF TypeOK
  <2>6. ledger' \in [Tasks -> Ledgers]
    BY <2>1, WriteLedgerTyped DEF TypeOK, s, base
  <2>7. worker' \in [Tasks -> SUBSET Runs]
    <3>1. CASE error
      BY <2>1, <3>1, WorkerTyped DEF TypeOK
    <3>2. CASE ~error
      <4>1. worker' = [worker EXCEPT ![t] = @ \ {n}]
        BY <2>1, <3>2
      <4> QED
        BY <4>1 DEF TypeOK
    <3> QED
      BY <3>1, <3>2
  <2>8. /\ run' \in [Tasks -> [Runs -> RunRecords]]
        /\ inbox' \in [Tasks -> InboxStates]
        /\ leases' \in [Tasks -> SUBSET Runs]
    BY <1>3, DeliverTyped, WorkerTyped DEF Respond, TypeOK
  <2>9. resultMd' \in [Tasks -> 0 .. MaxRuns]
    BY <2>5, RunNumbers DEF TypeOK
  <2> QED
    BY <1>3, <2>4, <2>6, <2>7, <2>8, <2>9 DEF Respond, TypeOK
<1>4. CASE Fail(t, n)
  <2>1. /\ entry' \in [Tasks -> Entries]
        /\ ledger' \in [Tasks -> Ledgers]
    BY <1>4, SetStatusTyped, WriteLedgerTyped DEF Fail, TypeOK, Status, Finished
  <2>2. /\ run' \in [Tasks -> [Runs -> RunRecords]]
        /\ inbox' \in [Tasks -> InboxStates]
    BY <1>4, DeliverTyped DEF Fail
  <2> QED
    BY <1>4, <2>1, <2>2, WorkerTyped DEF Fail, TypeOK
<1>5. CASE Escape(t, n)
  BY <1>0, <1>5, WorkerTyped DEF Escape, TypeOK, Ended
<1>6. CASE Cancelled(t, n)
  <2>1. /\ run' \in [Tasks -> [Runs -> RunRecords]]
        /\ entry' \in [Tasks -> Entries]
        /\ ledger' \in [Tasks -> Ledgers]
        /\ inbox' \in [Tasks -> InboxStates]
    <3>1. CASE entry[t].status = "failed"
      BY <1>0, <1>6, <3>1 DEF Cancelled, TypeOK, Ended
    <3>2. CASE entry[t].status # "failed"
      BY <1>6, <3>2, DeliverTyped, SetStatusTyped, WriteLedgerTyped
         DEF Cancelled, TypeOK, Status, Finished
    <3> QED
      BY <3>1, <3>2
  <2> QED
    BY <1>6, <2>1, WorkerTyped DEF Cancelled, TypeOK
<1>7. CASE CancelledReporting(t, n)
  BY <1>0, <1>7 DEF CancelledReporting, TypeOK, Ended
<1>8. CASE HandlerReturns(t, n)
  <2>1. inbox' \in [Tasks -> InboxStates]
    BY <1>8, InboxTyped DEF HandlerReturns, TypeOK
  <2> QED
    BY <1>0, <1>8, <2>1 DEF HandlerReturns, TypeOK, Ended
<1>9. CASE HandlerRaises(t, n)
  <2>1. entry' \in [Tasks -> Entries]
    BY <1>9, SetStatusTyped DEF HandlerRaises, TypeOK, Status, Finished
  <2> QED
    BY <1>0, <1>9, <2>1 DEF HandlerRaises, TypeOK, Ended
<1>10. CASE FinishInflight(t, n)
  BY <1>10, RunTyped, RunNumbers DEF FinishInflight, TypeOK, Pc
<1> QED
  BY <1>1, <1>2, <1>3, <1>4, <1>5, <1>6, <1>7, <1>8, <1>9, <1>10 DEF RunStep

LEMMA WorkerStepTyped ==
  ASSUME TypeOK, NEW t \in Tasks, NEW n \in Runs, WorkerStep(t, n)
  PROVE  TypeOK'
<1>1. CASE ForwardQuestion(t, n)
  <2>1. ASSUME NEW m \in Runs PROVE Asked(t, n, m) \in RunRecords
    <3>1. run[t][m] \in RunRecords
      BY DEF TypeOK
    <3>2. /\ run[t][m].pc \in Pc
          /\ run[t][m].cancel \in BOOLEAN
          /\ (run[t][m].question \/ m = inflight[t]) \in BOOLEAN
          /\ (run[t][m].asked \/ (m = n /\ run[t][m].pc = "executing")) \in BOOLEAN
      BY <3>1, Zenon DEF RunRecords
    <3> QED
      BY <3>2 DEF Asked, RunRecords
  <2>2. run' = [run EXCEPT ![t] = [m \in Runs |-> Asked(t, n, m)]]
    BY <1>1 DEF ForwardQuestion
  <2>3. run' \in [Tasks -> [Runs -> RunRecords]]
    BY <2>1, <2>2 DEF TypeOK
  <2> QED
    BY <1>1, <2>3 DEF ForwardQuestion, TypeOK
<1>2. CASE WriteResultMd(t, n)
  BY <1>2, RunNumbers DEF WriteResultMd, TypeOK
<1>3. CASE StrayExits(t, n)
  BY <1>3 DEF StrayExits, TypeOK
<1> QED
  BY <1>1, <1>2, <1>3 DEF WorkerStep

LEMMA FinalizeTyped ==
  ASSUME TypeOK, NEW t \in Tasks, NEW n \in Runs, NEW s \in Status, Finalize(t, n, s)
  PROVE  /\ entry' \in [Tasks -> Entries]
         /\ inbox' \in [Tasks -> InboxStates]
         /\ recovery' \in [Tasks -> Recoveries]
<1>1. [pc |-> "created", run |-> n] \in Recoveries
  BY DEF Recoveries
<1>2. recovery' \in [Tasks -> Recoveries]
  BY <1>1 DEF Finalize, TypeOK
<1>3. inbox' \in [Tasks -> InboxStates]
  BY InboxTyped DEF Finalize, TypeOK
<1> QED
  BY <1>2, <1>3, SetStatusTyped DEF Finalize, TypeOK

LEMMA ReconcileTyped ==
  ASSUME TypeOK, NEW t \in Tasks, Reconcile(t)
  PROVE  TypeOK'
<1>1. CASE RecoverLedger(t)
  <2>1. /\ ledger' \in [Tasks -> Ledgers]
        /\ ledger[t].run \in Runs /\ ledger[t].status \in Finished
    BY <1>1, ConsumedTyped DEF RecoverLedger, TypeOK
  <2>2. /\ entry' \in [Tasks -> Entries]
        /\ inbox' \in [Tasks -> InboxStates]
        /\ recovery' \in [Tasks -> Recoveries]
    BY <1>1, <2>1, RunNumbers, FinalizeTyped DEF RecoverLedger, Status
  <2> QED
    BY <1>1, <2>1, <2>2 DEF RecoverLedger, TypeOK
<1>2. CASE RequeueInbox(t)
  BY <1>2, InboxTyped DEF RequeueInbox, TypeOK
<1>3. CASE MarkRecovering(t)
  BY <1>3, SetStatusTyped DEF MarkRecovering, TypeOK, Status
<1>4. CASE RecoverResultMd(t)
  <2>0. resultMd[t] \in Runs
    BY <1>4, HubAssumption DEF RecoverResultMd, TypeOK, Runs
  <2>1. CASE ledger' = ledger
    BY <2>0, <2>1, <1>4, FinalizeTyped DEF RecoverResultMd, TypeOK, Status, Finished
  <2>2. CASE ledger' = WriteLedger(t, resultMd[t], "done")
    <3>2. ledger' \in [Tasks -> Ledgers]
      BY <2>0, <2>2, WriteLedgerTyped DEF TypeOK, Finished
    <3> QED
      BY <2>0, <3>2, <1>4, FinalizeTyped DEF RecoverResultMd, TypeOK, Status, Finished
  <2> QED
    BY <1>4, <2>1, <2>2 DEF RecoverResultMd
<1>5. CASE MarkStale(t)
  BY <1>5, SetStatusTyped DEF MarkStale, TypeOK, Status
<1> QED
  BY <1>1, <1>2, <1>3, <1>4, <1>5 DEF Reconcile

LEMMA RecoveryStepTyped ==
  ASSUME TypeOK, NEW t \in Tasks, RecoveryStep(t)
  PROVE  TypeOK'
<1>0. [recovery EXCEPT ![t] = Idle] \in [Tasks -> Recoveries]
  BY Records DEF TypeOK
<1>1. CASE RecoveryStarts(t)
  <2>0. recovery[t] \in [pc : {"created", "handing"}, run : Runs]
    BY <1>1 DEF RecoveryStarts, TypeOK, Recoveries, Idle
  <2>1. [recovery[t] EXCEPT !.pc = "handing"] \in Recoveries
    BY <2>0 DEF Recoveries
  <2>2. recovery' \in [Tasks -> Recoveries]
    BY <1>0, <1>1, <2>1 DEF RecoveryStarts, TypeOK
  <2> QED
    BY <1>1, <2>2, InboxTyped DEF RecoveryStarts, TypeOK
<1>2. CASE RecoveryReturns(t)
  <2>1. recovery[t].run \in Runs
    BY <1>2 DEF RecoveryReturns, TypeOK, Recoveries, Idle
  <2>2. inbox' \in [Tasks -> InboxStates]
    BY <1>2, InboxTyped DEF RecoveryReturns, TypeOK
  <2>3. handed' \in [Tasks -> SUBSET Runs]
    BY <1>2, <2>1 DEF RecoveryReturns, TypeOK
  <2> QED
    BY <1>0, <1>2, <2>2, <2>3 DEF RecoveryReturns, TypeOK
<1>3. CASE RecoveryRaises(t)
  <2>1. entry' \in [Tasks -> Entries]
    BY <1>3, SetStatusTyped DEF RecoveryRaises, TypeOK, Status, Finished
  <2> QED
    BY <1>0, <1>3, <2>1 DEF RecoveryRaises, TypeOK
<1> QED
  BY <1>1, <1>2, <1>3 DEF RecoveryStep

LEMMA LoadTyped ==
  ASSUME NEW e \in [Tasks -> Entries]
  PROVE  Load(e) \in [Tasks -> Entries]
<1>1. ASSUME NEW t \in Tasks PROVE [e[t] EXCEPT !.status = "stale"] \in Entries
  BY DEF Entries, Status
<1> QED
  BY <1>1 DEF Load

LEMMA RebootTyped ==
  ASSUME TypeOK, NEW e \in [Tasks -> Entries], NEW l \in [Tasks -> Ledgers],
         leases' \in [Tasks -> SUBSET Runs], Reboot(e, l)
  PROVE  TypeOK'
<1>1. entry' \in [Tasks -> Entries]
  BY LoadTyped DEF Reboot
<1>2. run' \in [Tasks -> [Runs -> RunRecords]]
  <2>1. NoRun \in RunRecords /\ At("gone") \in RunRecords
    BY Records DEF Pc
  <2> QED
    BY <2>1 DEF Reboot
<1>3. ledger' \in [Tasks -> Ledgers]
  BY Records DEF Reboot
<1>4. recovery' \in [Tasks -> Recoveries]
  BY Records DEF Reboot
<1>5. worker' \in [Tasks -> SUBSET Runs]
  BY DEF Reboot, TypeOK
<1>6. restarts' \in 0 .. MaxRestarts
  BY HubAssumption DEF Reboot, TypeOK
<1>7. inflight' \in [Tasks -> 0 .. MaxRuns]
  BY RunNumbers DEF Reboot
<1> QED
  BY <1>1, <1>2, <1>3, <1>4, <1>5, <1>6, <1>7 DEF Reboot, TypeOK

LEMMA CrashTyped ==
  ASSUME TypeOK, CrashStep
  PROVE  TypeOK'
<1>1. CASE Restart
  BY <1>1, RebootTyped DEF Restart, TypeOK
<1>2. ASSUME NEW t \in Tasks, NEW n \in Runs, RestartAfterStatus(t, n)
      PROVE  TypeOK'
  <2>1. PICK error \in BOOLEAN :
          Reboot([entry EXCEPT ![t].status = BaseStatus(t, error), ![t].session = TRUE], ledger)
    BY <1>2 DEF RestartAfterStatus
  <2>2. BaseStatus(t, error) \in Status
    BY DEF BaseStatus, Status, Finished
  <2>3. [entry[t] EXCEPT !.status = BaseStatus(t, error), !.session = TRUE] \in Entries
    BY <2>2, EntryTyped DEF TypeOK
  <2>4. [entry EXCEPT ![t].status = BaseStatus(t, error), ![t].session = TRUE]
          = [entry EXCEPT ![t] = [entry[t] EXCEPT !.status = BaseStatus(t, error),
                                                  !.session = TRUE]]
    BY DEF TypeOK
  <2>5. [entry EXCEPT ![t].status = BaseStatus(t, error), ![t].session = TRUE]
          \in [Tasks -> Entries]
    BY <2>3, <2>4 DEF TypeOK
  <2>6. leases' \in [Tasks -> SUBSET Runs]
    BY <1>2 DEF RestartAfterStatus, Unregister, TypeOK
  <2> QED
    BY <2>1, <2>5, <2>6, RebootTyped DEF TypeOK
<1>3. ASSUME NEW t \in Tasks, RestartAfterConsumed(t)
      PROVE  TypeOK'
  <2>1. [ledger EXCEPT ![t].consumed = TRUE] \in [Tasks -> Ledgers]
    BY <1>3, ConsumedTyped DEF RestartAfterConsumed, TypeOK
  <2> QED
    BY <1>3, <2>1, RebootTyped DEF RestartAfterConsumed, TypeOK
<1> QED
  BY <1>1, <1>2, <1>3 DEF CrashStep

\* Every step of the system keeps every variable in its type.
LEMMA StepTyped == TypeOK /\ [Next]_vars => TypeOK'
<1> SUFFICES ASSUME TypeOK, [Next]_vars PROVE TypeOK'
  OBVIOUS
<1>1. CASE UNCHANGED vars
  BY <1>1 DEF vars, TypeOK
<1>2. CASE CleanupOrphans
  <2>1. ledger' \in [Tasks -> Ledgers]
    BY <1>2, Records DEF CleanupOrphans, TypeOK
  <2> QED
    BY <1>2, <2>1 DEF CleanupOrphans, TypeOK
<1>3. CASE Next /\ ~CleanupOrphans
  BY <1>3, ParentTyped, RecoveryStepTyped, ReconcileTyped, RunStepTyped,
     WorkerStepTyped, CancelAmongTyped, CrashTyped DEF Next, CancelAll
<1> QED
  BY <1>1, <1>2, <1>3

\* The type invariant of the hub holds in every state of every execution:
\* no handler, recovery or restart leaves a status, run or ledger of a form
\* the code does not have.
THEOREM TypeCorrect == Spec => []TypeOK
BY InitTyped, StepTyped, PTL DEF Spec

-----------------------------------------------------------------------------
\* The inductive step of ToldOnce.  Every action but CancelAmong and Reboot
\* moves one task: the others keep what ToldOnce looks at.
Kept(t) ==
  /\ entry'[t] = entry[t] /\ run'[t] = run[t] /\ ledger'[t] = ledger[t]
  /\ resultMd'[t] = resultMd[t] /\ worker'[t] = worker[t] /\ taken'[t] = taken[t]

LEMMA OneTaskMoves ==
  ASSUME ToldOnce, NEW t \in Tasks, ToldAtMostOnce(t)',
         \A u \in Tasks : u # t => Kept(u)
  PROVE  ToldOnce'
<1> SUFFICES ASSUME NEW u \in Tasks, u # t PROVE ToldAtMostOnce(u)'
  BY DEF ToldOnce
<1>1. ToldAtMostOnce(u) /\ Kept(u)
  BY DEF ToldOnce
<1> QED
  BY <1>1 DEF Kept, ToldAtMostOnce, Present, Used, Unresolved, Unread

\* A step that moves no run, writes no ledger and hands out nothing.
LEMMA StatusMoves ==
  ASSUME ToldOnce, NEW t \in Tasks,
         Present(t)' => Present(t), Unresolved(t)' => Unresolved(t),
         run'[t] = run[t], ledger'[t] = ledger[t], taken'[t] = taken[t],
         worker'[t] \subseteq worker[t],
         resultMd'[t] = resultMd[t] \/ resultMd'[t] \in worker[t]
  PROVE  ToldAtMostOnce(t)'
BY DEF ToldOnce, ToldAtMostOnce, Used, Unread, Present, Unresolved

\* What a step that moves one run, under way, may do to the registry.
Answers(t) ==
  /\ Present(t)' => Present(t)
  /\ entry'[t].status \notin {"stale", "recovering"} \/ entry'[t].status = entry[t].status

\* A run under way moves on; no ledger is written and nothing handed out.
LEMMA RunMoves ==
  ASSUME TypeOK, ToldOnce, NEW t \in Tasks, NEW n \in Runs,
         NEW p \in Pc \ {"none", "delivering"},
         run[t][n].pc \notin {"none", "gone"}, p \in Untold => run[t][n].pc \in Untold,
         run' = [run EXCEPT ![t][n].pc = p] \/ run' = [run EXCEPT ![t][n] = At(p)],
         Answers(t), ledger'[t] = ledger[t], taken'[t] = taken[t],
         resultMd'[t] = resultMd[t], worker'[t] \subseteq worker[t] \cup {n}
  PROVE  ToldAtMostOnce(t)'
<1>1. /\ run'[t][n].pc = p
      /\ \A m \in Runs \ {n} : run'[t][m] = run[t][m]
  BY DEF At, TypeOK, RunRecords
<1>2. ToldAtMostOnce(t) /\ ~Unresolved(t)'
  BY DEF ToldOnce, ToldAtMostOnce, Answers, Unresolved
<1>3. Used(t)' <=> Used(t)
  <2>1. 1 \in Runs
    BY HubAssumption DEF Runs
  <2> QED
    BY <1>1, <2>1 DEF Used
<1> QED
  BY <1>1, <1>2, <1>3 DEF ToldAtMostOnce, Present, Unread, Untold, Answers

LEMMA RunEnds ==
  ASSUME TypeOK, ToldOnce, NEW t \in Tasks, NEW n \in Runs,
         run[t][n].pc \in Live, run' = [run EXCEPT ![t][n].pc = "ended"],
         Answers(t), ledger' = ledger, taken' = taken, resultMd' = resultMd,
         worker'[t] \subseteq worker[t]
  PROVE  ToldAtMostOnce(t)'
<1>1. "ended" \in Pc \ {"none", "delivering"} /\ "ended" \notin Untold
  BY DEF Pc, Untold
<1>2. run[t][n].pc \notin {"none", "gone"}
  BY DEF Live
<1> QED
  BY <1>1, <1>2, RunMoves

\* A run that nobody was told of writes its ledger, if any, and goes to its
\* delivery.
LEMMA RunReports ==
  ASSUME TypeOK, ToldOnce, NEW t \in Tasks, NEW n \in Runs,
         NEW p \in {"delivering", "reporting", "ended"},
         run[t][n].pc \in {"spawned", "executing"}, run' = [run EXCEPT ![t][n] = At(p)],
         Answers(t), taken'[t] = taken[t],
         ledger'[t] = ledger[t] \/ (ledger'[t].run = n /\ ~ledger'[t].consumed),
         resultMd'[t] \in {resultMd[t], n}, worker'[t] \subseteq worker[t]
  PROVE  ToldAtMostOnce(t)'
<1>1. /\ run'[t][n].pc = p /\ ~run'[t][n].cancel
      /\ \A m \in Runs \ {n} : run'[t][m] = run[t][m]
  BY DEF At, TypeOK
<1>2. ToldAtMostOnce(t) /\ ~Unresolved(t)'
  BY DEF ToldOnce, ToldAtMostOnce, Answers, Unresolved
<1>3. Used(t)' /\ Used(t)
  <2>1. 1 \in Runs /\ n # 0
    BY HubAssumption DEF Runs
  <2>2. CASE n = 1
    BY <1>1, <2>2 DEF Used
  <2>3. CASE n # 1
    BY <2>1, <2>3, <1>1, <1>2 DEF Used, ToldAtMostOnce
  <2> QED
    BY <2>2, <2>3
<1> QED
  <2>1. n # 0
    BY DEF Runs
  <2>2. CASE ledger'[t] = ledger[t]
    BY <1>1, <1>2, <1>3, <2>1, <2>2 DEF ToldAtMostOnce, Present, Unread, Untold, Answers
  <2>3. CASE ledger'[t].run = n /\ ~ledger'[t].consumed
    BY <1>1, <1>2, <1>3, <2>1, <2>3 DEF ToldAtMostOnce, Present, Unread, Untold, Answers
  <2> QED
    BY <2>2, <2>3

\* SetStatus never brings an entry back, nor makes another task's look.
LEMMA SetStatusMoves ==
  ASSUME TypeOK, NEW t \in Tasks, NEW s \in Status, entry' = SetStatus(t, s)
  PROVE  /\ Present(t)' <=> Present(t) /\ s # "absent"
         /\ entry'[t].status \in {s, "absent"}
         /\ \A u \in Tasks : u # t => entry'[u] = entry[u]
<1>1. entry[t] \in Entries
  BY DEF TypeOK
<1>2. CASE entry[t].status = "absent"
  BY <1>1, <1>2 DEF SetStatus, Present, TypeOK, Entries
<1>3. CASE entry[t].status # "absent"
  BY <1>1, <1>3 DEF SetStatus, Present, TypeOK, Entries
<1> QED
  BY <1>2, <1>3

LEMMA RunStepTold ==
  ASSUME TypeOK, ToldOnce, NEW t \in Tasks, NEW n \in Runs, RunStep(t, n)
  PROVE  ToldAtMostOnce(t)'
<1>1. CASE CancelledBeforeStart(t, n)
  BY <1>1, RunEnds DEF CancelledBeforeStart, Answers, Present, Live
<1>2. CASE Start(t, n)
  <2>1. Answers(t)
    BY <1>2, SetStatusMoves DEF Start, Answers, Present, Status
  <2>2. worker'[t] \subseteq worker[t] \cup {n}
    BY <1>2 DEF Start, TypeOK
  <2> QED
    BY <1>2, <2>1, <2>2, RunMoves DEF Start, Pc, Untold
<1>3. CASE Respond(t, n)
  <2>1. PICK s \in {"done", "failed", "waiting"}, session \in BOOLEAN :
          /\ entry' = [entry EXCEPT ![t] =
               IF Present(t) THEN [@ EXCEPT !.status = s, !.session = session] ELSE @]
          /\ ledger' = IF s \in Finished THEN WriteLedger(t, n, s) ELSE ledger
    <3>1. PICK error \in BOOLEAN, rejected \in BOOLEAN, session \in BOOLEAN :
            LET base == BaseStatus(t, error)
                s    == IF base = "done" /\ rejected THEN "failed" ELSE base
            IN /\ entry' = [entry EXCEPT ![t] =
                    IF Present(t) THEN [@ EXCEPT !.status = s, !.session = session] ELSE @]
               /\ ledger' = IF s \in Finished THEN WriteLedger(t, n, s) ELSE ledger
      BY <1>3 DEF Respond
    <3> DEFINE r == IF BaseStatus(t, error) = "done" /\ rejected THEN "failed"
                    ELSE BaseStatus(t, error)
    <3>2. r \in {"done", "failed", "waiting"}
      BY DEF BaseStatus
    <3> HIDE DEF r
    <3>3. /\ entry' = [entry EXCEPT ![t] =
               IF Present(t) THEN [@ EXCEPT !.status = r, !.session = session] ELSE @]
          /\ ledger' = IF r \in Finished THEN WriteLedger(t, n, r) ELSE ledger
      BY <3>1 DEF r
    <3> QED
      BY <3>2, <3>3
  <2>2. Answers(t)
    BY <2>1 DEF Answers, Present, TypeOK, Entries
  <2>3. ledger'[t] = ledger[t] \/ (ledger'[t].run = n /\ ~ledger'[t].consumed)
    BY <2>1 DEF WriteLedger, TypeOK
  <2>4. worker'[t] \subseteq worker[t] /\ resultMd'[t] \in {resultMd[t], n}
    BY <1>3 DEF Respond, WorkerLeft, TypeOK
  <2>5. PICK p \in {"delivering", "ended"} : run' = [run EXCEPT ![t][n] = At(p)]
    BY <1>3 DEF Respond, DeliverFrom
  <2> QED
    BY <1>3, <2>2, <2>3, <2>4, <2>5, RunReports DEF Respond
<1>4. CASE Fail(t, n)
  <2>1. Answers(t)
    BY <1>4, SetStatusMoves DEF Fail, Answers, Status, Finished
  <2>2. ledger'[t].run = n /\ ~ledger'[t].consumed
    BY <1>4 DEF Fail, WriteLedger, TypeOK
  <2>3. worker'[t] \subseteq worker[t]
    BY <1>4 DEF Fail, WorkerLeft, TypeOK
  <2>4. PICK p \in {"reporting", "ended"} : run' = [run EXCEPT ![t][n] = At(p)]
    BY <1>4 DEF Fail, DeliverFrom
  <2> QED
    BY <1>4, <2>1, <2>2, <2>3, <2>4, RunReports DEF Fail, Worked
<1>5. CASE Escape(t, n)
  <2>1. worker'[t] \subseteq worker[t]
    BY <1>5 DEF Escape, WorkerLeft, TypeOK
  <2> QED
    BY <1>5, <2>1, RunEnds DEF Escape, Answers, Present, Live, Worked
<1>6. CASE Cancelled(t, n)
  <2>0. run[t][n].pc = "executing"
    BY <1>6 DEF Cancelled, ToldOnce, ToldAtMostOnce
  <2>1. worker'[t] \subseteq worker[t]
    BY <1>6 DEF Cancelled, WorkerLeft, TypeOK
  <2>2. CASE entry[t].status = "failed"
    BY <1>6, <2>0, <2>1, <2>2, RunEnds DEF Cancelled, Answers, Present, Live
  <2>3. CASE entry[t].status # "failed"
    <3>1. Answers(t)
      BY <1>6, <2>3, SetStatusMoves DEF Cancelled, Answers, Status, Finished
    <3>2. ledger'[t].run = n /\ ~ledger'[t].consumed
      BY <1>6, <2>3 DEF Cancelled, WriteLedger, TypeOK
    <3>3. PICK p \in {"reporting", "ended"} : run' = [run EXCEPT ![t][n] = At(p)]
      BY <1>6, <2>3 DEF Cancelled, DeliverFrom
    <3> QED
      BY <1>6, <2>0, <2>1, <3>1, <3>2, <3>3, RunReports DEF Cancelled
  <2> QED
    BY <2>2, <2>3
<1>7. CASE CancelledReporting(t, n)
  BY <1>7, RunEnds DEF CancelledReporting, Answers, Present, Live
<1>8. CASE HandlerReturns(t, n)
  BY <1>8, RunEnds DEF HandlerReturns, InHandler, Answers, Present, Live
<1>9. CASE HandlerRaises(t, n)
  <2>1. Answers(t)
    BY <1>9, SetStatusMoves DEF HandlerRaises, Answers, Status, Finished
  <2> QED
    BY <1>9, <2>1, RunEnds DEF HandlerRaises, InHandler, Live
<1>10. CASE FinishInflight(t, n)
  BY <1>10, RunMoves DEF FinishInflight, Answers, Present, Pc, Untold
<1> QED
  BY <1>1, <1>2, <1>3, <1>4, <1>5, <1>6, <1>7, <1>8, <1>9, <1>10 DEF RunStep

LEMMA SpawnTold ==
  ASSUME TypeOK, ToldOnce, NEW t \in Tasks, NEW n \in Runs, Spawn(t, n),
         run[t][n].pc = "none", n = 1 \/ Used(t), ~Used(t) \/ Present(t),
         entry'[t].status = "running",
         ledger' = ledger, taken' = taken, worker' = worker, resultMd' = resultMd
  PROVE  ToldAtMostOnce(t)'
<1>1. /\ run'[t][n].pc = "spawned"
      /\ \A m \in Runs \ {n} : run'[t][m] = run[t][m]
  BY DEF Spawn, At, TypeOK
<1>2. ToldAtMostOnce(t)
  BY DEF ToldOnce
<1>3. Used(t)'
  <2>1. 1 \in Runs
    BY HubAssumption DEF Runs
  <2> QED
    BY <1>1, <2>1 DEF Used
<1> QED
  BY <1>1, <1>2, <1>3 DEF ToldAtMostOnce, Present, Unresolved, Unread, Untold

LEMMA ParentTold ==
  ASSUME TypeOK, ToldOnce, NEW t \in Tasks, ParentStep(t), ~Cancel(t)
  PROVE  ToldAtMostOnce(t)'
<1>0. ToldAtMostOnce(t)
  BY DEF ToldOnce
<1>1. ASSUME NEW k \in Keys \cup {NoKey}, Submit(t, k) PROVE ToldAtMostOnce(t)'
  <2>1. 1 \in Runs
    BY HubAssumption DEF Runs
  <2>2. entry'[t].status = "running"
    BY <1>1 DEF Submit, TypeOK
  <2> QED
    BY <1>1, <2>1, <2>2, SpawnTold DEF Submit, Used
<1>2. ASSUME NEW n \in Runs, Resume(t, n) PROVE ToldAtMostOnce(t)'
  <2>1. entry'[t].status = "running"
    BY <1>2 DEF Resume, TypeOK, Entries
  <2>2. Present(t)
    BY <1>2 DEF Resume, Present, Resumable, Finished
  <2>3. Used(t)
    BY <1>0, <2>2 DEF ToldAtMostOnce
  <2> QED
    BY <1>2, <2>1, <2>2, <2>3, SpawnTold DEF Resume
<1>3. CASE Delete(t)
  <2>1. entry'[t] = Absent /\ ledger'[t] = NoLedger /\ resultMd'[t] = 0
    BY <1>3 DEF Delete, TypeOK
  <2>2. Used(t)
    BY <1>0, <1>3 DEF Delete, ToldAtMostOnce, Present, Finished
  <2> QED
    BY <1>0, <1>3, <2>1, <2>2
    DEF Delete, ToldAtMostOnce, Absent, NoLedger, Present, Unresolved, Unread, Used, Runs
<1>4. CASE Consume(t)
  <2> DEFINE r == ledger[t].run
  <2>1. r \in Runs
    BY <1>4, ConsumedTyped DEF Consume, TypeOK
  <2>2. ledger'[t].run = r /\ ledger'[t].consumed
    BY <1>4 DEF Consume, TypeOK, Ledgers, NoLedger
  <2>3. taken[t][r] = 0
    BY <1>0, <1>4, <2>1 DEF Consume, ToldAtMostOnce, TypeOK
  <2>4. /\ taken'[t][r] = 1
        /\ \A m \in Runs \ {r} : taken'[t][m] = taken[t][m]
    BY <1>4, <2>1, <2>3 DEF Consume, TypeOK
  <2>5. run[t][r].pc \notin Untold
    BY <1>0, <2>1 DEF ToldAtMostOnce
  <2>6. Used(t)
    BY <1>0, <1>4 DEF Consume, ToldAtMostOnce
  <2> QED
    BY <1>0, <1>4, <2>1, <2>2, <2>4, <2>5, <2>6
    DEF Consume, ToldAtMostOnce, Present, Unresolved, Unread, Used, Runs
<1> QED
  BY <1>1, <1>2, <1>3, <1>4 DEF ParentStep

\* Only a task's cancellation while it is delivered could deliver it again.
LEMMA CancelTold ==
  ASSUME TypeOK, ToldOnce, "cancel_late" \notin Events, NEW targets, CancelAmong(targets)
  PROVE  ToldOnce'
<1> SUFFICES ASSUME NEW t \in Tasks PROVE ToldAtMostOnce(t)'
  BY DEF ToldOnce
<1>1. ASSUME NEW m \in Runs
      PROVE  /\ run'[t][m].pc = run[t][m].pc
             /\ run'[t][m].cancel => run[t][m].cancel \/ run[t][m].pc # "delivering"
  <2>1. CASE t \in targets
    <3>1. run'[t] = [run[t] EXCEPT ![inflight[t]].cancel = TRUE]
      BY <2>1 DEF CancelAmong
    <3>2. Cancellable(t)
      BY <2>1 DEF CancelAmong
    <3>3. run[t][m] \in RunRecords
      BY DEF TypeOK
    <3>4. CASE m = inflight[t]
      <4>0. DOMAIN run[t] = Runs
        BY DEF TypeOK
      <4>1. run'[t][m] = [run[t][m] EXCEPT !.cancel = TRUE]
        BY <3>1, <3>4, <4>0
      <4>2. run[t][m].pc # "delivering"
        BY <3>2, <3>4 DEF Cancellable
      <4> QED
        BY <3>3, <4>1, <4>2 DEF RunRecords
    <3>5. CASE m # inflight[t]
      <4>1. run[t] \in [Runs -> RunRecords]
        BY DEF TypeOK
      <4> QED
        BY <3>1, <3>5, <4>1
    <3> QED
      BY <3>4, <3>5
  <2>2. CASE t \notin targets
    BY <2>2 DEF CancelAmong
  <2> QED
    BY <2>1, <2>2
<1>2. ToldAtMostOnce(t)
  BY DEF ToldOnce
<1>3. Used(t)' <=> Used(t)
  <2>1. 1 \in Runs
    BY HubAssumption DEF Runs
  <2> QED
    BY <1>1, <2>1 DEF Used
<1> QED
  BY <1>1, <1>2, <1>3 DEF CancelAmong, ToldAtMostOnce, Present, Unresolved, Unread, Untold

LEMMA WorkerTold ==
  ASSUME TypeOK, ToldOnce, NEW t \in Tasks, NEW n \in Runs, WorkerStep(t, n)
  PROVE  ToldAtMostOnce(t)'
<1>0. ToldAtMostOnce(t)
  BY DEF ToldOnce
<1>1. CASE ForwardQuestion(t, n)
  <2>1. \A m \in Runs : /\ run'[t][m].pc = run[t][m].pc
                        /\ run'[t][m].cancel = run[t][m].cancel
    BY <1>1 DEF ForwardQuestion, Asked, TypeOK
  <2>2. Used(t)' <=> Used(t)
    <3>1. 1 \in Runs
      BY HubAssumption DEF Runs
    <3> QED
      BY <2>1, <3>1 DEF Used
  <2> QED
    BY <1>0, <1>1, <2>1, <2>2
    DEF ForwardQuestion, ToldAtMostOnce, Present, Unresolved, Unread, Untold
<1>2. CASE WriteResultMd(t, n)
  BY <1>2, StatusMoves DEF WriteResultMd, Present, Unresolved, TypeOK
<1>3. CASE StrayExits(t, n)
  <2>1. worker'[t] \subseteq worker[t]
    BY <1>3 DEF StrayExits, TypeOK
  <2> QED
    BY <1>3, <2>1, StatusMoves DEF StrayExits, Present, Unresolved
<1> QED
  BY <1>1, <1>2, <1>3 DEF WorkerStep

LEMMA RecoveryTold ==
  ASSUME TypeOK, ToldOnce, NEW t \in Tasks, RecoveryStep(t)
  PROVE  ToldAtMostOnce(t)'
<1>1. CASE RecoveryStarts(t)
  BY <1>1, StatusMoves DEF RecoveryStarts, Present, Unresolved
<1>2. CASE RecoveryReturns(t)
  BY <1>2, StatusMoves DEF RecoveryReturns, Present, Unresolved
<1>3. CASE RecoveryRaises(t)
  <2>1. (Present(t)' => Present(t)) /\ ~Unresolved(t)'
    BY <1>3, SetStatusMoves DEF RecoveryRaises, Unresolved, Status, Finished
  <2> QED
    BY <1>3, <2>1, StatusMoves DEF RecoveryRaises
<1> QED
  BY <1>1, <1>2, <1>3 DEF RecoveryStep

\* Reconciliation writes a ledger only for a task that has none, and then
\* nothing of the task was ever handed out or is under way.
LEMMA ReconcileTold ==
  ASSUME TypeOK, ToldOnce, NEW t \in Tasks, Reconcile(t)
  PROVE  ToldAtMostOnce(t)'
<1>0. ToldAtMostOnce(t) /\ Present(t)
  BY DEF ToldOnce, Reconcile, RecoverLedger, RequeueInbox, MarkRecovering,
         RecoverResultMd, MarkStale, Undecided, Unresolved, Present
<1>1. CASE RecoverLedger(t)
  <2>1. ledger'[t].run = ledger[t].run /\ ledger'[t].consumed
    BY <1>1 DEF RecoverLedger, Unread, TypeOK, Ledgers, NoLedger
  <2>2. ledger[t].run \in Runs /\ ledger[t].status \in Finished
    BY <1>1, ConsumedTyped DEF RecoverLedger, TypeOK
  <2>3. (Present(t)' => Present(t)) /\ ~Unresolved(t)'
    BY <1>1, <2>2, SetStatusMoves DEF RecoverLedger, Finalize, Unresolved, Status, Finished
  <2>4. Used(t)
    BY <1>0 DEF ToldAtMostOnce
  <2> QED
    BY <1>0, <1>1, <2>1, <2>3, <2>4
    DEF RecoverLedger, ToldAtMostOnce, Unread, Used, Present, Unresolved
<1>2. CASE RequeueInbox(t)
  BY <1>2, StatusMoves DEF RequeueInbox, Present, Unresolved
<1>3. CASE MarkRecovering(t)
  <2>1. (Present(t)' => Present(t)) /\ Unresolved(t)
    BY <1>3, SetStatusMoves DEF MarkRecovering, Undecided, Status
  <2> QED
    BY <1>3, <2>1, StatusMoves DEF MarkRecovering
<1>4. CASE RecoverResultMd(t)
  <2>1. (Present(t)' => Present(t)) /\ ~Unresolved(t)'
    BY <1>4, SetStatusMoves DEF RecoverResultMd, Finalize, Unresolved, Status, Finished
  <2>2. CASE ledger[t].run # 0
    BY <1>4, <2>1, <2>2, StatusMoves DEF RecoverResultMd
  <2>3. CASE ledger[t].run = 0
    <3> DEFINE r == resultMd[t]
    <3>1. r \in Runs
      BY <1>4, HubAssumption DEF RecoverResultMd, TypeOK, Runs
    <3>2. run[t][r].pc \notin Untold
      BY <1>0, <1>4, <3>1 DEF RecoverResultMd, Undecided, ToldAtMostOnce, Untold
    <3>3. ledger'[t].run = r
      BY <1>4, <2>3 DEF RecoverResultMd, WriteLedger, TypeOK
    <3>4. Used(t)
      BY <1>0 DEF ToldAtMostOnce
    <3> QED
      BY <1>0, <1>4, <2>1, <2>3, <3>1, <3>2, <3>3, <3>4
      DEF RecoverResultMd, ToldAtMostOnce, Unread, Used, Present, Unresolved, Untold, Runs
  <2> QED
    BY <2>2, <2>3
<1>5. CASE MarkStale(t)
  <2>1. (Present(t)' => Present(t)) /\ Unresolved(t)
    BY <1>5, SetStatusMoves DEF MarkStale, Undecided, Status
  <2> QED
    BY <1>5, <2>1, StatusMoves DEF MarkStale
<1> QED
  BY <1>1, <1>2, <1>3, <1>4, <1>5 DEF Reconcile

\* A restart ends every run; what it may lose of a step only makes a result
\* harder to be handed out again.
LEMMA RebootTold ==
  ASSUME TypeOK, ToldOnce, NEW e \in [Tasks -> Entries], NEW l \in [Tasks -> Ledgers],
         Reboot(e, l),
         \A t \in Tasks : /\ e[t].status = "absent" <=> ~Present(t)
                          /\ l[t].run = ledger[t].run
                          /\ ledger[t].consumed => l[t].consumed
  PROVE  ToldOnce'
<1> SUFFICES ASSUME NEW t \in Tasks PROVE ToldAtMostOnce(t)'
  BY DEF ToldOnce
<1>0. ToldAtMostOnce(t)
  BY DEF ToldOnce
<1>1. \A n \in Runs : /\ run'[t][n].pc = IF run[t][n].pc = "none" THEN "none" ELSE "gone"
  BY DEF Reboot, At, NoRun
<1>2. Present(t)' <=> Present(t)
  BY DEF Reboot, Load, Present, Entries
<1>3. ledger'[t] = IF Present(t) THEN l[t] ELSE NoLedger
  BY DEF Reboot
<1>4. worker'[t] \subseteq worker[t]
  BY DEF Reboot
<1>5. Used(t)' <=> Used(t)
  <2>1. 1 \in Runs
    BY HubAssumption DEF Runs
  <2> QED
    BY <1>1, <2>1 DEF Used
<1> QED
  BY <1>0, <1>1, <1>2, <1>3, <1>4, <1>5
  DEF Reboot, ToldAtMostOnce, Unread, Untold, NoLedger, Runs

LEMMA CrashTold ==
  ASSUME TypeOK, ToldOnce, CrashStep
  PROVE  ToldOnce'
<1>1. CASE Restart
  BY <1>1, RebootTold DEF Restart, TypeOK, Present
<1>2. ASSUME NEW t \in Tasks, NEW n \in Runs, RestartAfterStatus(t, n)
      PROVE  ToldOnce'
  <2>1. PICK error \in BOOLEAN :
          Reboot([entry EXCEPT ![t].status = BaseStatus(t, error), ![t].session = TRUE], ledger)
    BY <1>2 DEF RestartAfterStatus
  <2> DEFINE r == BaseStatus(t, error)
             e == [entry EXCEPT ![t] = [entry[t] EXCEPT !.status = r, !.session = TRUE]]
  <2>2. r \in {"done", "failed", "waiting"}
    BY DEF BaseStatus
  <2>3. r \in Status
    BY <2>2 DEF Status, Finished
  <2> HIDE DEF r
  <2>4. entry[t] \in Entries /\ [entry[t] EXCEPT !.status = r, !.session = TRUE] \in Entries
    BY <2>3, EntryTyped DEF TypeOK
  <2>5. [entry[t] EXCEPT !.status = r, !.session = TRUE].status = r
    BY <2>4 DEF Entries
  <2>6. e \in [Tasks -> Entries]
    BY <2>4 DEF TypeOK
  <2>7. \A u \in Tasks : e[u].status = "absent" <=> ~Present(u)
    BY <1>2, <2>2, <2>5 DEF RestartAfterStatus, Present, TypeOK
  <2> HIDE DEF e
  <2>8. Reboot(e, ledger)
    BY <2>1 DEF e, r, TypeOK
  <2> QED
    BY <2>6, <2>7, <2>8, RebootTold DEF TypeOK
<1>3. ASSUME NEW t \in Tasks, RestartAfterConsumed(t)
      PROVE  ToldOnce'
  <2> DEFINE l == [ledger EXCEPT ![t].consumed = TRUE]
  <2>1. l \in [Tasks -> Ledgers]
    BY <1>3, ConsumedTyped DEF RestartAfterConsumed, TypeOK
  <2>2. \A u \in Tasks : l[u].run = ledger[u].run /\ (ledger[u].consumed => l[u].consumed)
    BY DEF TypeOK, Ledgers, NoLedger
  <2> HIDE DEF l
  <2>3. Reboot(entry, l)
    BY <1>3 DEF RestartAfterConsumed, l
  <2> QED
    BY <2>1, <2>2, <2>3, RebootTold DEF TypeOK, Present
<1> QED
  BY <1>1, <1>2, <1>3 DEF CrashStep

\* What the steps of one task leave alone of the others.
LEMMA OthersKept ==
  ASSUME TypeOK, NEW t \in Tasks, NEW u \in Tasks, u # t
  PROVE  /\ ParentStep(t) /\ ~Cancel(t) => Kept(u)
         /\ RecoveryStep(t) \/ Reconcile(t) => Kept(u)
         /\ \A n \in Runs : RunStep(t, n) \/ WorkerStep(t, n) => Kept(u)
<1>1. ASSUME ParentStep(t), ~Cancel(t) PROVE Kept(u)
  BY <1>1 DEF ParentStep, Submit, Resume, Delete, Consume, Spawn, Kept, TypeOK
<1>2. ASSUME RecoveryStep(t) PROVE Kept(u)
  BY <1>2 DEF RecoveryStep, RecoveryStarts, RecoveryReturns, RecoveryRaises, SetStatus,
              Kept, TypeOK
<1>3. ASSUME Reconcile(t) PROVE Kept(u)
  BY <1>3 DEF Reconcile, RecoverLedger, RequeueInbox, MarkRecovering, RecoverResultMd,
              MarkStale, Finalize, SetStatus, WriteLedger, Kept, TypeOK
<1>4. ASSUME NEW n \in Runs, RunStep(t, n) PROVE Kept(u)
  <2>1. run'[u] = run[u]
    BY <1>4 DEF RunStep, CancelledBeforeStart, Start, Respond, Fail, Escape, Cancelled,
      CancelledReporting, HandlerReturns, HandlerRaises, FinishInflight, DeliverFrom, TypeOK
  <2>2. entry'[u] = entry[u]
    <3>1. CASE Respond(t, n)
      BY <3>1 DEF Respond, TypeOK
    <3>2. CASE ~Respond(t, n)
      <4>1. entry' = entry \/ \E s \in Status : entry' = SetStatus(t, s)
        BY <1>4, <3>2 DEF RunStep, CancelledBeforeStart, Start, Fail, Escape, Cancelled,
          CancelledReporting, HandlerReturns, HandlerRaises, FinishInflight, Status, Finished
      <4> QED
        BY <4>1 DEF SetStatus, TypeOK
    <3> QED
      BY <3>1, <3>2
  <2>3. ledger'[u] = ledger[u] /\ resultMd'[u] = resultMd[u] /\ taken'[u] = taken[u]
    <3>1. CASE Respond(t, n)
      BY <3>1 DEF Respond, WriteLedger, TypeOK
    <3>2. CASE ~Respond(t, n)
      <4>1. /\ resultMd' = resultMd /\ taken' = taken
            /\ ledger' = ledger \/ \E s \in Status : ledger' = WriteLedger(t, n, s)
        BY <1>4, <3>2 DEF RunStep, CancelledBeforeStart, Start, Fail, Escape, Cancelled,
          CancelledReporting, HandlerReturns, HandlerRaises, FinishInflight, Status, Finished
      <4> QED
        BY <4>1 DEF WriteLedger, TypeOK
    <3> QED
      BY <3>1, <3>2
  <2>4. worker'[u] = worker[u]
    BY <1>4 DEF RunStep, CancelledBeforeStart, Start, Respond, Fail, Escape, Cancelled,
      CancelledReporting, HandlerReturns, HandlerRaises, FinishInflight, WorkerLeft, TypeOK
  <2> QED
    BY <2>1, <2>2, <2>3, <2>4 DEF Kept
<1>5. ASSUME NEW n \in Runs, WorkerStep(t, n) PROVE Kept(u)
  BY <1>5 DEF WorkerStep, ForwardQuestion, WriteResultMd, StrayExits, Kept, TypeOK
<1> QED
  BY <1>1, <1>2, <1>3, <1>4, <1>5

LEMMA InitTold == Init => ToldOnce
BY HubAssumption
DEF Init, ToldOnce, ToldAtMostOnce, NoRun, At, Absent, NoLedger, Present, Unresolved,
    Unread, Untold, Used, Runs

LEMMA StepTold ==
  ASSUME "cancel_late" \notin Events, TypeOK, ToldOnce, [Next]_vars
  PROVE  ToldOnce'
<1>1. CASE UNCHANGED vars
  BY <1>1 DEF vars, ToldOnce, ToldAtMostOnce, Present, Used, Unresolved, Unread
<1>2. ASSUME NEW t \in Tasks, ParentStep(t) \/ RecoveryStep(t) \/ Reconcile(t)
      PROVE  ToldOnce'
  <2>1. CASE Cancel(t)
    BY <2>1, CancelTold DEF Cancel
  <2>2. CASE ~Cancel(t)
    <3>1. ToldAtMostOnce(t)'
      BY <1>2, <2>2, ParentTold, RecoveryTold, ReconcileTold
    <3>2. \A u \in Tasks : u # t => Kept(u)
      BY <1>2, <2>2, OthersKept
    <3> QED
      BY <3>1, <3>2, OneTaskMoves
  <2> QED
    BY <2>1, <2>2
<1>3. ASSUME NEW t \in Tasks, NEW n \in Runs, RunStep(t, n) \/ WorkerStep(t, n)
      PROVE  ToldOnce'
  <2>1. ToldAtMostOnce(t)'
    BY <1>3, RunStepTold, WorkerTold
  <2>2. \A u \in Tasks : u # t => Kept(u)
    BY <1>3, OthersKept
  <2> QED
    BY <2>1, <2>2, OneTaskMoves
<1>4. CASE CancelAll
  BY <1>4, CancelTold DEF CancelAll
<1>5. CASE CrashStep
  BY <1>5, CrashTold
<1>6. CASE CleanupOrphans
  <2> SUFFICES ASSUME NEW t \in Tasks PROVE ToldAtMostOnce(t)'
    BY DEF ToldOnce
  <2>1. ToldAtMostOnce(t)
    BY DEF ToldOnce
  <2>2. ledger'[t] = IF Present(t) THEN ledger[t] ELSE NoLedger
    BY <1>6 DEF CleanupOrphans
  <2> QED
    BY <1>6, <2>1, <2>2
    DEF CleanupOrphans, ToldAtMostOnce, Present, Used, Unresolved, Unread, NoLedger, Runs
<1> QED
  BY <1>1, <1>2, <1>3, <1>4, <1>5, <1>6 DEF Next

\* The invariant of the ledger protocol: whoever resumes, cancels, deletes or
\* asks, and wherever the hub crashes, no ledger of a run is written unread
\* once its result was handed out.
THEOREM LedgerToldOnce ==
  ASSUME "cancel_late" \notin Events
  PROVE  Spec => []ToldOnce
<1>1. TypeOK /\ ToldOnce /\ [Next]_vars => TypeOK' /\ ToldOnce'
  BY StepTyped, StepTold
<1> QED
  BY <1>1, InitTyped, InitTold, PTL DEF Spec

\* consume_tool_results gives the parent the result of a run at most once, for
\* every number of tasks, runs and restarts, as long as no result is cancelled
\* while its handler runs.
THEOREM ResultConsumedOnce ==
  ASSUME "cancel_late" \notin Events
  PROVE  Spec => []ConsumedOnce
<1>1. TypeOK /\ ToldOnce => ConsumedOnce
  BY DEF TypeOK, ToldOnce, ToldAtMostOnce, ConsumedOnce
<1> QED
  BY <1>1, TypeCorrect, LedgerToldOnce, PTL

-----------------------------------------------------------------------------
(* What a step leaves alone of the tasks it is not about, and what it does  *)
(* to the run it is about, field by field.                                  *)

Untouched(t) ==
  /\ Kept(t) /\ inbox'[t] = inbox[t] /\ inflight'[t] = inflight[t]
  /\ recovery'[t] = recovery[t] /\ (t \in slots' <=> t \in slots)

LEMMA OthersUntouched ==
  ASSUME TypeOK, NEW t \in Tasks, NEW u \in Tasks, u # t
  PROVE  /\ ParentStep(t) /\ ~Cancel(t) => Untouched(u)
         /\ RecoveryStep(t) \/ Reconcile(t) => Untouched(u)
         /\ \A n \in Runs : RunStep(t, n) \/ WorkerStep(t, n) => Untouched(u)
<1>1. ASSUME ParentStep(t), ~Cancel(t) PROVE Untouched(u)
  <2>1. Kept(u)
    BY <1>1, OthersKept
  <2> QED
    BY <1>1, <2>1 DEF ParentStep, Submit, Resume, Delete, Consume, Spawn, MarkConsumed, Untouched, TypeOK
<1>2. ASSUME RecoveryStep(t) PROVE Untouched(u)
  <2>1. Kept(u)
    BY <1>2, OthersKept
  <2> QED
    BY <1>2, <2>1 DEF RecoveryStep, RecoveryStarts, RecoveryReturns, RecoveryRaises, EnqueueOnce,
                      MarkDelivered, Untouched, TypeOK
<1>3. ASSUME Reconcile(t) PROVE Untouched(u)
  <2>1. Kept(u)
    BY <1>3, OthersKept
  <2> QED
    BY <1>3, <2>1 DEF Reconcile, RecoverLedger, RequeueInbox, MarkRecovering, RecoverResultMd,
                      MarkStale, Finalize, Requeue, Untouched, TypeOK
<1>4. ASSUME NEW n \in Runs, RunStep(t, n) PROVE Untouched(u)
  <2>1. Kept(u)
    BY <1>4, OthersKept
  <2>2. inbox'[u] = inbox[u]
    BY <1>4 DEF RunStep, CancelledBeforeStart, Start, Respond, Fail, Escape, Cancelled,
      CancelledReporting, HandlerReturns, HandlerRaises, FinishInflight, DeliverFrom,
      EnqueueOnce, MarkDelivered, TypeOK
  <2>3. inflight'[u] = inflight[u] /\ recovery'[u] = recovery[u] /\ (u \in slots' <=> u \in slots)
    BY <1>4 DEF RunStep, CancelledBeforeStart, Start, Respond, Fail, Escape, Cancelled,
      CancelledReporting, HandlerReturns, HandlerRaises, FinishInflight, TypeOK
  <2> QED
    BY <2>1, <2>2, <2>3 DEF Untouched
<1>5. ASSUME NEW n \in Runs, WorkerStep(t, n) PROVE Untouched(u)
  <2>1. Kept(u)
    BY <1>5, OthersKept
  <2> QED
    BY <1>5, <2>1 DEF WorkerStep, ForwardQuestion, WriteResultMd, StrayExits, Untouched
<1> QED
  BY <1>1, <1>2, <1>3, <1>4, <1>5

LEMMA RunAt ==
  ASSUME TypeOK, NEW t \in Tasks, NEW n \in Runs, NEW p \in Pc, run' = [run EXCEPT ![t][n] = At(p)]
  PROVE  /\ run'[t][n].pc = p /\ ~run'[t][n].cancel /\ ~run'[t][n].asked /\ ~run'[t][n].question
         /\ \A m \in Runs : m # n => run'[t][m] = run[t][m]
<1>1. run'[t][n] = At(p)
  BY DEF TypeOK
<1> QED
  BY <1>1 DEF TypeOK, At

LEMMA RunPc ==
  ASSUME TypeOK, NEW t \in Tasks, NEW n \in Runs, NEW p \in Pc, run' = [run EXCEPT ![t][n].pc = p]
  PROVE  /\ run'[t][n].pc = p /\ run'[t][n].cancel = run[t][n].cancel
         /\ run'[t][n].asked = run[t][n].asked /\ run'[t][n].question = run[t][n].question
         /\ \A m \in Runs : m # n => run'[t][m] = run[t][m]
<1>1. run[t] \in [Runs -> RunRecords] /\ run[t][n] \in RunRecords
  BY DEF TypeOK
<1>2. run'[t] = [run[t] EXCEPT ![n].pc = p]
  BY DEF TypeOK
<1>3. run'[t][n] = [run[t][n] EXCEPT !.pc = p]
  BY <1>1, <1>2
<1>4. \A m \in Runs : m # n => run'[t][m] = run[t][m]
  BY <1>1, <1>2
<1> QED
  BY <1>1, <1>3, <1>4 DEF RunRecords

\* A run answers: s is the status it leaves, on file for a task that exists.
Answered(t, n, s) ==
  /\ entry'[t].status = IF Present(t) THEN s ELSE "absent"
  /\ s \in Finished => ledger'[t].run = n
  /\ s \notin Finished => ledger'[t] = ledger[t]
  /\ inbox'[t] = IF inbox[t] = "none" THEN "pending" ELSE inbox[t]
  /\ run'[t][n].pc \in {"delivering", "reporting", "ended"}
  /\ ~run'[t][n].cancel /\ ~run'[t][n].asked
  /\ \A m \in Runs : m # n => run'[t][m] = run[t][m]
  /\ inflight' = inflight /\ slots' = slots /\ recovery' = recovery /\ taken' = taken

LEMMA Delivered ==
  ASSUME TypeOK, NEW t \in Tasks, NEW n \in Runs, NEW p \in {"delivering", "reporting"},
         DeliverFrom(t, n, p)
  PROVE  /\ inbox'[t] = IF inbox[t] = "none" THEN "pending" ELSE inbox[t]
         /\ run'[t][n].pc \in {"delivering", "reporting", "ended"}
         /\ ~run'[t][n].cancel /\ ~run'[t][n].asked
         /\ \A m \in Runs : m # n => run'[t][m] = run[t][m]
<1>1. PICK q \in {p, "ended"} : run' = [run EXCEPT ![t][n] = At(q)]
  BY DEF DeliverFrom
<1>2. q \in Pc
  BY DEF Pc
<1>3. /\ run'[t][n].pc = q /\ ~run'[t][n].cancel /\ ~run'[t][n].asked
      /\ \A m \in Runs : m # n => run'[t][m] = run[t][m]
  BY <1>1, <1>2, RunAt
<1> QED
  BY <1>3 DEF DeliverFrom, EnqueueOnce, TypeOK

LEMMA LedgerWritten ==
  ASSUME TypeOK, NEW t \in Tasks, NEW n \in Runs, NEW s, ledger' = WriteLedger(t, n, s)
  PROVE  ledger'[t].run = n
BY DEF WriteLedger, TypeOK

LEMMA RespondAnswers ==
  ASSUME TypeOK, NEW t \in Tasks, NEW n \in Runs, Respond(t, n)
  PROVE  \E s \in {"done", "failed", "waiting"} :
           /\ Answered(t, n, s)
           /\ s = "done" => ~(inflight[t] # 0 /\ run[t][inflight[t]].question)
<1>1. PICK error \in BOOLEAN, rejected \in BOOLEAN, session \in BOOLEAN :
        LET base == BaseStatus(t, error)
            s    == IF base = "done" /\ rejected THEN "failed" ELSE base
        IN /\ entry' = [entry EXCEPT ![t] =
                IF Present(t) THEN [@ EXCEPT !.status = s, !.session = session] ELSE @]
           /\ ledger' = IF s \in Finished THEN WriteLedger(t, n, s) ELSE ledger
  BY DEF Respond
<1> DEFINE s == IF BaseStatus(t, error) = "done" /\ rejected THEN "failed" ELSE BaseStatus(t, error)
<1>2. /\ s \in {"done", "failed", "waiting"}
      /\ s = "done" => ~(inflight[t] # 0 /\ run[t][inflight[t]].question)
  BY DEF BaseStatus
<1> HIDE DEF s
<1>3. /\ entry' = [entry EXCEPT ![t] =
           IF Present(t) THEN [@ EXCEPT !.status = s, !.session = session] ELSE @]
      /\ ledger' = IF s \in Finished THEN WriteLedger(t, n, s) ELSE ledger
  BY <1>1 DEF s
<1>4. entry'[t].status = IF Present(t) THEN s ELSE "absent"
  BY <1>3 DEF Present, TypeOK, Entries
<1>5. (s \in Finished => ledger'[t].run = n) /\ (s \notin Finished => ledger'[t] = ledger[t])
  BY <1>3, LedgerWritten
<1> QED
  BY <1>2, <1>4, <1>5, Delivered DEF Respond, Answered

LEMMA SetStatusIs ==
  ASSUME TypeOK, NEW t \in Tasks, NEW s \in Status, entry' = SetStatus(t, s)
  PROVE  entry'[t].status = IF Present(t) THEN s ELSE "absent"
<1>1. entry[t] \in Entries
  BY DEF TypeOK
<1> QED
  BY <1>1 DEF SetStatus, Present, TypeOK, Entries

LEMMA FailAnswers ==
  ASSUME TypeOK, NEW t \in Tasks, NEW n \in Runs, Fail(t, n)
  PROVE  Answered(t, n, "failed")
<1>1. entry'[t].status = IF Present(t) THEN "failed" ELSE "absent"
  BY SetStatusIs DEF Fail, Status, Finished
<1>2. ledger'[t].run = n
  BY LedgerWritten DEF Fail
<1> QED
  BY <1>1, <1>2, Delivered DEF Fail, Answered, Finished

LEMMA CancelledAnswers ==
  ASSUME TypeOK, NEW t \in Tasks, NEW n \in Runs, Cancelled(t, n), entry[t].status # "failed"
  PROVE  Answered(t, n, "cancelled")
<1>1. entry'[t].status = IF Present(t) THEN "cancelled" ELSE "absent"
  BY SetStatusIs DEF Cancelled, Status, Finished
<1>2. ledger'[t].run = n
  BY LedgerWritten DEF Cancelled
<1> QED
  BY <1>1, <1>2, Delivered DEF Cancelled, Answered, Finished

\* A cancel only marks runs that are under way.
LEMMA CancelMarks ==
  ASSUME TypeOK, NEW targets, CancelAmong(targets), NEW t \in Tasks, NEW m \in Runs
  PROVE  /\ run'[t][m].pc = run[t][m].pc /\ run'[t][m].asked = run[t][m].asked
         /\ run'[t][m].question = run[t][m].question
         /\ run'[t][m].cancel # run[t][m].cancel => Cancellable(t) /\ m = inflight[t]
<1>1. CASE t \in targets
  <2>1. run'[t] = [run[t] EXCEPT ![inflight[t]].cancel = TRUE] /\ Cancellable(t)
    BY <1>1 DEF CancelAmong
  <2>2. run[t] \in [Runs -> RunRecords] /\ run[t][m] \in RunRecords
    BY DEF TypeOK
  <2>3. CASE m = inflight[t]
    <3>1. run'[t][m] = [run[t][m] EXCEPT !.cancel = TRUE]
      BY <2>1, <2>2, <2>3
    <3> QED
      BY <2>1, <2>2, <2>3, <3>1 DEF RunRecords
  <2>4. CASE m # inflight[t]
    BY <2>1, <2>2, <2>4
  <2> QED
    BY <2>3, <2>4
<1>2. CASE t \notin targets
  BY <1>2 DEF CancelAmong
<1> QED
  BY <1>1, <1>2

-----------------------------------------------------------------------------
(* Results reach the inbox.  An item leaves the states in which it can be   *)
(* consumed only by being consumed, and no ledger is written without one.   *)

FirstTask(t) ==
  /\ inbox[t] \in {"consumed", "requeued"} => \E n \in Runs : taken[t][n] # 0
  /\ ledger[t].run # 0 => inbox[t] # "none"

FirstInv == \A t \in Tasks : FirstTask(t)

\* What no step does to the inbox of a task.
InboxKept(t) ==
  /\ inbox'[t] \in {"consumed", "requeued"} =>
       inbox[t] \in {"consumed", "requeued"} \/ \E n \in Runs : taken'[t][n] # 0
  /\ \A n \in Runs : taken[t][n] # 0 => taken'[t][n] # 0
  /\ ledger'[t].run # 0 => ledger[t].run # 0 \/ inbox'[t] # "none"
  /\ inbox[t] # "none" => inbox'[t] # "none"

LEMMA AnswerInbox ==
  ASSUME NEW t \in Tasks, NEW n \in Runs, NEW s, Answered(t, n, s)
  PROVE  InboxKept(t) /\ inbox'[t] # "none"
BY DEF Answered, InboxKept

LEMMA InboxSame ==
  ASSUME NEW t \in Tasks, inbox'[t] = inbox[t], taken'[t] = taken[t],
         ledger'[t].run \in {0, ledger[t].run}
  PROVE  InboxKept(t)
BY DEF InboxKept

LEMMA RunStepInbox ==
  ASSUME TypeOK, NEW t \in Tasks, NEW n \in Runs, RunStep(t, n)
  PROVE  InboxKept(t)
<1>1. CASE Respond(t, n)
  BY <1>1, RespondAnswers, AnswerInbox
<1>2. CASE Fail(t, n)
  BY <1>2, FailAnswers, AnswerInbox
<1>3. CASE Cancelled(t, n)
  <2>1. CASE entry[t].status = "failed"
    BY <1>3, <2>1, InboxSame DEF Cancelled
  <2> QED
    BY <1>3, <2>1, CancelledAnswers, AnswerInbox
<1>4. CASE HandlerReturns(t, n)
  BY <1>4 DEF HandlerReturns, MarkDelivered, InboxKept, TypeOK
<1>5. CASE CancelledBeforeStart(t, n) \/ Start(t, n) \/ Escape(t, n) \/ CancelledReporting(t, n)
           \/ HandlerRaises(t, n) \/ FinishInflight(t, n)
  <2>1. inbox' = inbox /\ taken' = taken /\ ledger' = ledger
    BY <1>5 DEF CancelledBeforeStart, Start, Escape, CancelledReporting, HandlerRaises, FinishInflight
  <2> QED
    BY <2>1, InboxSame
<1> QED
  BY <1>1, <1>2, <1>3, <1>4, <1>5 DEF RunStep

LEMMA ParentInbox ==
  ASSUME TypeOK, NEW t \in Tasks, ParentStep(t), ~Cancel(t)
  PROVE  InboxKept(t)
<1>1. CASE Consume(t)
  <2>1. /\ ledger[t].run \in Runs /\ taken' = [taken EXCEPT ![t][ledger[t].run] = IF @ = 2 THEN 2 ELSE @ + 1]
        /\ ledger' = [ledger EXCEPT ![t].consumed = TRUE] /\ inbox' = MarkConsumed(t)
    BY <1>1, ConsumedTyped DEF Consume, TypeOK
  <2>2. /\ taken'[t][ledger[t].run] # 0
        /\ \A n \in Runs : n # ledger[t].run => taken'[t][n] = taken[t][n]
    <3>1. taken[t] \in [Runs -> 0 .. 2]
      BY DEF TypeOK
    <3>2. taken'[t] = [taken[t] EXCEPT ![ledger[t].run] = IF @ = 2 THEN 2 ELSE @ + 1]
      BY <2>1 DEF TypeOK
    <3> QED
      BY <2>1, <3>1, <3>2
  <2>3. ledger'[t].run = ledger[t].run
    BY <2>1 DEF TypeOK, Ledgers, NoLedger
  <2>4. inbox'[t] # "none" \/ inbox[t] = "none"
    BY <2>1 DEF MarkConsumed, TypeOK
  <2> QED
    BY <2>1, <2>2, <2>3, <2>4 DEF InboxKept
<1>2. CASE Delete(t)
  BY <1>2, InboxSame DEF Delete, NoLedger, TypeOK
<1>3. ASSUME NEW k \in Keys \cup {NoKey}, Submit(t, k) PROVE InboxKept(t)
  BY <1>3, InboxSame DEF Submit
<1>4. ASSUME NEW n \in Runs, Resume(t, n) PROVE InboxKept(t)
  BY <1>4, InboxSame DEF Resume
<1> QED
  BY <1>1, <1>2, <1>3, <1>4 DEF ParentStep

LEMMA RecoveryInbox ==
  ASSUME TypeOK, NEW t \in Tasks, RecoveryStep(t)
  PROVE  InboxKept(t)
BY DEF RecoveryStep, RecoveryStarts, RecoveryReturns, RecoveryRaises, EnqueueOnce, MarkDelivered,
       InboxKept, TypeOK

LEMMA Requeued ==
  ASSUME TypeOK, NEW t \in Tasks, inbox' = Requeue(t)
  PROVE  /\ inbox'[t] # "none"
         /\ inbox'[t] \in {"consumed", "requeued"} => inbox[t] \in {"consumed", "requeued"}
<1>1. inbox[t] \in InboxStates
  BY DEF TypeOK
<1>2. inbox'[t] = CASE inbox[t] = "consumed" -> "requeued"
                    [] inbox[t] = "none" -> "pending"
                    [] OTHER -> inbox[t]
  BY DEF Requeue, TypeOK
<1> QED
  BY <1>1, <1>2 DEF InboxStates

LEMMA FinalizeInbox ==
  ASSUME TypeOK, NEW t \in Tasks, NEW n, NEW s, Finalize(t, n, s)
  PROVE  /\ inbox'[t] # "none"
         /\ inbox'[t] \in {"consumed", "requeued"} => inbox[t] \in {"consumed", "requeued"}
BY Requeued DEF Finalize, PendingExists

LEMMA ReconcileInbox ==
  ASSUME TypeOK, NEW t \in Tasks, Reconcile(t)
  PROVE  InboxKept(t)
<1>1. CASE RecoverLedger(t)
  <2>1. taken' = taken /\ ledger[t].run # 0 /\ Finalize(t, ledger[t].run, ledger[t].status)
    BY <1>1 DEF RecoverLedger, Unread
  <2> QED
    BY <2>1, FinalizeInbox DEF InboxKept
<1>2. CASE RequeueInbox(t)
  <2>1. taken' = taken /\ inbox' = Requeue(t)
    BY <1>2 DEF RequeueInbox
  <2> QED
    BY <2>1, Requeued DEF InboxKept
<1>3. CASE RecoverResultMd(t)
  <2>1. taken' = taken /\ Finalize(t, resultMd[t], "done")
    BY <1>3 DEF RecoverResultMd
  <2> QED
    BY <2>1, FinalizeInbox DEF InboxKept
<1>4. CASE MarkRecovering(t) \/ MarkStale(t)
  BY <1>4, InboxSame DEF MarkRecovering, MarkStale
<1> QED
  BY <1>1, <1>2, <1>3, <1>4 DEF Reconcile

\* A crash loses a ledger or keeps the run it reports.
LEMMA CrashLedger ==
  ASSUME TypeOK, NEW u \in Tasks, CrashStep
  PROVE  ledger'[u].run \in {0, ledger[u].run}
<1>1. CASE Restart
  BY <1>1 DEF Restart, Reboot, NoLedger
<1>2. ASSUME NEW t \in Tasks, NEW n \in Runs, RestartAfterStatus(t, n)
      PROVE  ledger'[u].run \in {0, ledger[u].run}
  BY <1>2 DEF RestartAfterStatus, Reboot, NoLedger
<1>3. ASSUME NEW t \in Tasks, RestartAfterConsumed(t)
      PROVE  ledger'[u].run \in {0, ledger[u].run}
  <2> DEFINE l == [ledger EXCEPT ![t].consumed = TRUE]
  <2>1. l[u].run = ledger[u].run
    BY DEF TypeOK, Ledgers, NoLedger
  <2>2. ledger'[u] = IF entry[u].status = "absent" THEN NoLedger ELSE l[u]
    BY <1>3 DEF RestartAfterConsumed, Reboot
  <2> QED
    BY <2>1, <2>2 DEF NoLedger
<1> QED
  BY <1>1, <1>2, <1>3 DEF CrashStep

LEMMA CrashInbox ==
  ASSUME TypeOK, NEW u \in Tasks, CrashStep
  PROVE  InboxKept(u)
<1>1. inbox' = inbox /\ taken' = taken
  BY DEF CrashStep, Restart, RestartAfterStatus, RestartAfterConsumed, Reboot
<1> QED
  BY <1>1, CrashLedger, InboxSame

LEMMA StepInbox ==
  ASSUME TypeOK, [Next]_vars, NEW u \in Tasks
  PROVE  InboxKept(u)
<1>0. Untouched(u) => InboxKept(u)
  BY InboxSame DEF Untouched, Kept
<1>1. ASSUME NEW t \in Tasks, ParentStep(t) \/ RecoveryStep(t) \/ Reconcile(t)
      PROVE  InboxKept(u)
  <2>1. CASE Cancel(t)
    BY <2>1, InboxSame DEF Cancel, CancelAmong
  <2> QED
    BY <1>0, <1>1, <2>1, OthersUntouched, ParentInbox, RecoveryInbox, ReconcileInbox
<1>2. ASSUME NEW t \in Tasks, NEW n \in Runs, RunStep(t, n) PROVE InboxKept(u)
  BY <1>0, <1>2, OthersUntouched, RunStepInbox
<1>3. ASSUME NEW t \in Tasks, NEW n \in Runs, WorkerStep(t, n) PROVE InboxKept(u)
  BY <1>3, InboxSame DEF WorkerStep, ForwardQuestion, WriteResultMd, StrayExits
<1>4. CASE CancelAll
  BY <1>4, InboxSame DEF CancelAll, CancelAmong
<1>5. CASE CleanupOrphans
  BY <1>5, InboxSame DEF CleanupOrphans, NoLedger
<1>6. CASE UNCHANGED vars
  BY <1>6, InboxSame DEF vars
<1> QED
  BY <1>1, <1>2, <1>3, <1>4, <1>5, <1>6, CrashInbox DEF Next

\* Until the parent has consumed a first result of a task, a result it has not
\* consumed is in its inbox (_deliver, _finalize_reconciled_result,
\* consume_tool_results), whoever cancels, resumes or deletes the task and wherever
\* the hub crashes.
THEOREM FirstResultsAreFound == Spec => []FirstResultIsConsumable
<1>1. Init => FirstInv
  BY DEF Init, FirstInv, FirstTask, NoLedger
<1>2. TypeOK /\ FirstInv /\ [Next]_vars => FirstInv'
  <2> SUFFICES ASSUME TypeOK, FirstInv, [Next]_vars, NEW t \in Tasks
               PROVE  FirstTask(t)'
    BY DEF FirstInv
  <2> QED
    BY StepInbox DEF FirstInv, FirstTask, InboxKept
<1>3. TypeOK /\ FirstInv => FirstResultIsConsumable
  BY DEF TypeOK, FirstInv, FirstTask, FirstResultIsConsumable, Unread, Consumable, InboxStates
<1> QED
  BY <1>1, <1>2, <1>3, TypeCorrect, PTL DEF Spec

-----------------------------------------------------------------------------
(* What each step does to the status of a task.                             *)

\* A crash loads what was on file, or a response's status over a working run.
LEMMA CrashStatus ==
  ASSUME TypeOK, CrashStep, NEW u \in Tasks
  PROVE  /\ entry'[u].status \notin {"running", "recovering"}
         /\ \/ entry'[u].status \in {entry[u].status, "stale"}
               /\ (entry'[u].status # entry[u].status => entry[u].status \in {"running", "recovering"})
            \/ /\ "torn_commit" \in Events /\ entry'[u].status \in {"done", "failed", "waiting"}
               /\ \E n \in Runs :
                    /\ run[u][n].pc = "executing"
                    /\ entry'[u].status = "done" => ~(inflight[u] # 0 /\ run[u][inflight[u]].question)
         /\ \A m \in Runs : run'[u][m].pc = IF run[u][m].pc = "none" THEN "none" ELSE "gone"
         /\ \A m \in Runs : ~run'[u][m].cancel
         /\ recovery'[u].pc = "none"
<1> DEFINE Loaded(e) ==
             /\ entry' = Load(e) /\ recovery'[u].pc = "none"
             /\ \A m \in Runs :
                  /\ run'[u][m].pc = IF run[u][m].pc = "none" THEN "none" ELSE "gone"
                  /\ ~run'[u][m].cancel
<1>0. ASSUME NEW e, NEW l, Reboot(e, l) PROVE Loaded(e)
  BY <1>0 DEF Reboot, NoRun, At, Idle
<1>1. ASSUME NEW e \in [Tasks -> Entries], Loaded(e)
      PROVE  entry'[u].status = IF e[u].status \in {"running", "recovering"} THEN "stale" ELSE e[u].status
  BY <1>1 DEF Load, Entries
<1> HIDE DEF Loaded
<1>2. CASE Restart \/ \E t \in Tasks : RestartAfterConsumed(t)
  <2>1. Loaded(entry)
    BY <1>0, <1>2 DEF Restart, RestartAfterConsumed
  <2>2. entry'[u].status = IF entry[u].status \in {"running", "recovering"} THEN "stale" ELSE entry[u].status
    BY <1>1, <2>1 DEF TypeOK
  <2> QED
    BY <2>1, <2>2 DEF Loaded
<1>3. ASSUME NEW t \in Tasks, NEW n \in Runs, RestartAfterStatus(t, n)
      PROVE  /\ \/ entry'[u].status \in {entry[u].status, "stale"}
                   /\ (entry'[u].status # entry[u].status => entry[u].status \in {"running", "recovering"})
                \/ /\ "torn_commit" \in Events /\ entry'[u].status \in {"done", "failed", "waiting"}
                   /\ \E m \in Runs :
                        /\ run[u][m].pc = "executing"
                        /\ entry'[u].status = "done" => ~(inflight[u] # 0 /\ run[u][inflight[u]].question)
             /\ entry'[u].status \notin {"running", "recovering"}
             /\ \E e : Loaded(e)
  <2>1. PICK error \in BOOLEAN :
          Reboot([entry EXCEPT ![t].status = BaseStatus(t, error), ![t].session = TRUE], ledger)
    BY <1>3 DEF RestartAfterStatus
  <2> DEFINE r == BaseStatus(t, error)
             e == [entry EXCEPT ![t] = [entry[t] EXCEPT !.status = r, !.session = TRUE]]
  <2>2. /\ r \in {"done", "failed", "waiting"} /\ r \in Status
        /\ r = "done" => ~(inflight[t] # 0 /\ run[t][inflight[t]].question)
    BY DEF BaseStatus, Status, Finished
  <2> HIDE DEF r
  <2>3. [entry[t] EXCEPT !.status = r, !.session = TRUE] \in Entries
    BY <2>2, EntryTyped DEF TypeOK
  <2>4. [entry[t] EXCEPT !.status = r, !.session = TRUE].status = r
    BY DEF TypeOK, Entries
  <2>5. e \in [Tasks -> Entries]
    BY <2>3 DEF TypeOK
  <2>6. e[u].status = IF u = t THEN r ELSE entry[u].status
    BY <2>4 DEF TypeOK
  <2> HIDE DEF e
  <2>7. Reboot(e, ledger)
    BY <2>1 DEF e, r, TypeOK
  <2>8. Loaded(e) /\ "torn_commit" \in Events /\ run[t][n].pc = "executing"
    BY <1>0, <1>3, <2>7 DEF RestartAfterStatus
  <2>9. entry'[u].status = IF e[u].status \in {"running", "recovering"} THEN "stale" ELSE e[u].status
    BY <1>1, <2>5, <2>8
  <2>10. \E f : Loaded(f)
    BY <2>8
  <2>11. CASE u = t
    BY <2>2, <2>8, <2>6, <2>9, <2>10, <2>11
  <2>12. CASE u # t
    BY <2>6, <2>9, <2>10, <2>12
  <2> QED
    BY <2>11, <2>12
<1> QED
  BY <1>2, <1>3 DEF CrashStep, Loaded

\* Reconciliation looks only at unresolved tasks, and moves no run.
LEMMA ReconcileStatus ==
  ASSUME TypeOK, NEW t \in Tasks, Reconcile(t)
  PROVE  /\ Unresolved(t) /\ run' = run /\ inflight' = inflight /\ slots' = slots
         /\ entry'[t].status \in Finished \cup {"stale", "recovering"}
         /\ entry'[t].status \in Finished => ledger'[t].run # 0 /\ inbox'[t] # "none"
<1>0. Unresolved(t) /\ Present(t) /\ run' = run /\ inflight' = inflight /\ slots' = slots
  BY DEF Reconcile, RecoverLedger, RequeueInbox, MarkRecovering, RecoverResultMd, MarkStale,
         Undecided, Unresolved, Present
<1>1. CASE RecoverLedger(t)
  <2>1. ledger[t].run \in Runs /\ ledger[t].status \in Finished /\ ledger[t].status \in Status
    BY <1>1, ConsumedTyped DEF RecoverLedger, TypeOK, Status
  <2>2. ledger'[t].run = ledger[t].run /\ ledger[t].run # 0
    BY <1>1 DEF RecoverLedger, Unread, TypeOK, Ledgers, NoLedger
  <2>3. entry'[t].status = ledger[t].status /\ inbox'[t] # "none"
    BY <1>0, <1>1, <2>1, SetStatusIs, FinalizeInbox DEF RecoverLedger, Finalize
  <2> QED
    BY <1>0, <2>1, <2>2, <2>3
<1>2. CASE RequeueInbox(t)
  BY <1>0, <1>2 DEF RequeueInbox, Unresolved, Finished
<1>3. CASE MarkRecovering(t)
  BY <1>0, <1>3, SetStatusIs DEF MarkRecovering, Status, Finished
<1>4. CASE RecoverResultMd(t)
  <2>1. resultMd[t] # 0 /\ ledger'[t].run # 0
    BY <1>4 DEF RecoverResultMd, WriteLedger, TypeOK
  <2>2. entry'[t].status = "done" /\ inbox'[t] # "none"
    BY <1>0, <1>4, SetStatusIs, FinalizeInbox DEF RecoverResultMd, Finalize, Status, Finished
  <2> QED
    BY <1>0, <2>1, <2>2 DEF Finished
<1>5. CASE MarkStale(t)
  BY <1>0, <1>5, SetStatusIs DEF MarkStale, Status, Finished
<1> QED
  BY <1>1, <1>2, <1>3, <1>4, <1>5 DEF Reconcile

\* A task set up or taken away by its parent.
LEMMA SpawnIs ==
  ASSUME TypeOK, NEW t \in Tasks, NEW n \in Runs, Spawn(t, n)
  PROVE  /\ run'[t][n].pc = "spawned" /\ ~run'[t][n].cancel /\ ~run'[t][n].asked
         /\ \A m \in Runs : m # n => run'[t][m] = run[t][m]
         /\ inflight'[t] = n /\ t \in slots'
<1>1. "spawned" \in Pc
  BY DEF Pc
<1>2. run' = [run EXCEPT ![t][n] = At("spawned")]
  BY DEF Spawn
<1>3. /\ run'[t][n].pc = "spawned" /\ ~run'[t][n].cancel /\ ~run'[t][n].asked
      /\ \A m \in Runs : m # n => run'[t][m] = run[t][m]
  BY <1>1, <1>2, RunAt
<1> QED
  BY <1>3 DEF Spawn, TypeOK

LEMMA SubmitIs ==
  ASSUME TypeOK, NEW t \in Tasks, NEW k \in Keys \cup {NoKey}, Submit(t, k)
  PROVE  /\ 1 \in Runs /\ Spawn(t, 1) /\ ~Used(t) /\ entry'[t].status = "running"
         /\ recovery' = recovery /\ ledger' = ledger /\ inbox' = inbox
<1>1. 1 \in Runs
  BY HubAssumption DEF Runs
<1> QED
  BY <1>1 DEF Submit, TypeOK

LEMMA ResumeIs ==
  ASSUME TypeOK, NEW t \in Tasks, NEW n \in Runs, Resume(t, n)
  PROVE  /\ Spawn(t, n) /\ entry[t].status \in Resumable /\ entry'[t].status = "running"
         /\ run[t][n].pc = "none" /\ n - 1 \in Runs /\ run[t][n - 1].pc # "none" /\ n # 1
         /\ "resume_early" \in Events \/ Settled(t)
         /\ recovery' = recovery /\ ledger' = ledger /\ inbox' = inbox
<1>1. n - 1 \in Runs /\ n # 1
  BY HubAssumption DEF Resume, Runs
<1> QED
  BY <1>1 DEF Resume, TypeOK, Entries

-----------------------------------------------------------------------------
(* Running means alive: whatever ends a run's work leaves a status, except  *)
(* a cancel before the first step and an error nobody translates.           *)

LiveTask(t) ==
  /\ entry[t].status = "running" => \E n \in Runs : run[t][n].pc \in Worked
  /\ \A n \in Runs : run[t][n].pc = "spawned" => ~run[t][n].cancel

LiveInv == \A t \in Tasks : LiveTask(t)

LEMMA StillLive ==
  ASSUME NEW t \in Tasks, LiveTask(t), entry'[t].status \in {entry[t].status} \cup (Status \ {"running"}),
         \A n \in Runs : run[t][n].pc \in Worked /\ entry'[t].status = "running" => run'[t][n].pc \in Worked,
         \A n \in Runs : run'[t][n].pc = "spawned" => run[t][n].pc = "spawned" /\ ~run'[t][n].cancel
  PROVE  LiveTask(t)'
BY DEF LiveTask

LEMMA RunStepLive ==
  ASSUME TypeOK, LiveInv, {"cancel_early", "error_escapes"} \cap Events = {},
         NEW t \in Tasks, NEW n \in Runs, RunStep(t, n)
  PROVE  LiveTask(t)'
<1>0. LiveTask(t) /\ entry[t] \in Entries
  BY DEF LiveInv, TypeOK
<1>1. ASSUME NEW s \in {"done", "failed", "waiting", "cancelled"}, Answered(t, n, s)
      PROVE  LiveTask(t)'
  <2>1. entry'[t].status \in Status \ {"running"}
    BY <1>1 DEF Answered, Status, Finished
  <2> QED
    BY <1>0, <1>1, <2>1, StillLive DEF Answered, LiveTask
<1>2. CASE CancelledBeforeStart(t, n) \/ Escape(t, n)
  BY <1>0, <1>2 DEF CancelledBeforeStart, Escape, LiveTask
<1>3. CASE Start(t, n)
  <2>1. /\ run'[t][n].pc = "executing" /\ \A m \in Runs : m # n => run'[t][m] = run[t][m]
    BY <1>3, RunPc DEF Start, Pc
  <2> QED
    BY <1>0, <2>1 DEF LiveTask, Worked
<1>4. CASE Cancelled(t, n) /\ entry[t].status = "failed"
  <2>1. /\ run'[t][n].pc = "ended" /\ \A m \in Runs : m # n => run'[t][m] = run[t][m]
    BY <1>4, RunPc DEF Cancelled, Pc
  <2> QED
    BY <1>0, <1>4, <2>1 DEF Cancelled, LiveTask
<1>5. CASE CancelledReporting(t, n) \/ HandlerReturns(t, n) \/ HandlerRaises(t, n)
  <2>1. /\ run'[t][n].pc = "ended" /\ \A m \in Runs : m # n => run'[t][m] = run[t][m]
    <3>1. run' = [run EXCEPT ![t][n].pc = "ended"] /\ "ended" \in Pc
      BY <1>5 DEF CancelledReporting, HandlerReturns, HandlerRaises, Pc
    <3> QED
      BY <3>1, RunPc
  <2>2. run[t][n].pc \notin Worked
    BY <1>5 DEF CancelledReporting, HandlerReturns, HandlerRaises, InHandler, Worked
  <2>3. entry'[t].status \in {entry[t].status, "failed", "absent"}
    BY <1>5, SetStatusIs DEF CancelledReporting, HandlerReturns, HandlerRaises, Status, Finished
  <2> QED
    BY <1>0, <2>1, <2>2, <2>3 DEF LiveTask
<1>6. CASE FinishInflight(t, n)
  <2>1. /\ run'[t][n].pc = "gone" /\ \A m \in Runs : m # n => run'[t][m] = run[t][m]
    <3>1. run' = [run EXCEPT ![t][n] = At("gone")] /\ "gone" \in Pc
      BY <1>6 DEF FinishInflight, Pc
    <3> QED
      BY <3>1, RunAt
  <2> QED
    BY <1>0, <1>6, <2>1 DEF FinishInflight, LiveTask, Worked
<1> QED
  BY <1>1, <1>2, <1>3, <1>4, <1>5, <1>6, RespondAnswers, FailAnswers, CancelledAnswers DEF RunStep

LEMMA StepLive ==
  ASSUME TypeOK, LiveInv, {"cancel_early", "error_escapes"} \cap Events = {}, [Next]_vars,
         NEW u \in Tasks
  PROVE  LiveTask(u)'
<1>0. LiveTask(u)
  BY DEF LiveInv
<1>a. Untouched(u) => LiveTask(u)'
  BY <1>0 DEF Untouched, Kept, LiveTask
<1>b. entry'[u] = entry[u] /\ run'[u] = run[u] => LiveTask(u)'
  BY <1>0 DEF LiveTask
<1>c. ASSUME NEW targets, CancelAmong(targets) PROVE LiveTask(u)'
  <2>1. \A m \in Runs : /\ run'[u][m].pc = run[u][m].pc
                        /\ run'[u][m].cancel # run[u][m].cancel => Cancellable(u) /\ m = inflight[u]
    BY <1>c, CancelMarks
  <2>2. entry' = entry
    BY <1>c DEF CancelAmong
  <2>3. \A m \in Runs : run[u][m].pc = "spawned" => run'[u][m].cancel = run[u][m].cancel
    BY <2>1 DEF Cancellable
  <2> QED
    BY <1>0, <2>1, <2>2, <2>3 DEF LiveTask
<1>1. ASSUME NEW k \in Keys \cup {NoKey}, Submit(u, k) PROVE LiveTask(u)'
  BY <1>0, <1>1, SubmitIs, SpawnIs DEF LiveTask, Worked
<1>2. ASSUME NEW n \in Runs, Resume(u, n) PROVE LiveTask(u)'
  BY <1>0, <1>2, ResumeIs, SpawnIs DEF LiveTask, Worked
<1>3. CASE Delete(u)
  BY <1>0, <1>3 DEF Delete, LiveTask, Absent, TypeOK
<1>4. CASE Consume(u)
  BY <1>4, <1>b DEF Consume
<1>5. CASE RecoveryStep(u)
  <2>1. entry'[u].status \in {entry[u].status, "failed", "absent"}
    BY <1>5, SetStatusIs DEF RecoveryStep, RecoveryStarts, RecoveryReturns, RecoveryRaises, Status, Finished
  <2>2. run' = run
    BY <1>5 DEF RecoveryStep, RecoveryStarts, RecoveryReturns, RecoveryRaises
  <2> QED
    BY <1>0, <2>1, <2>2 DEF LiveTask
<1>6. CASE Reconcile(u)
  BY <1>0, <1>6, ReconcileStatus DEF LiveTask, Finished
<1>7. ASSUME NEW n \in Runs, WorkerStep(u, n) PROVE LiveTask(u)'
  <2>1. entry' = entry /\ \A m \in Runs : run'[u][m].pc = run[u][m].pc /\ run'[u][m].cancel = run[u][m].cancel
    BY <1>7 DEF WorkerStep, ForwardQuestion, WriteResultMd, StrayExits, Asked, TypeOK
  <2> QED
    BY <1>0, <2>1 DEF LiveTask
<1>8. CASE CrashStep
  BY <1>8, CrashStatus DEF LiveTask
<1>9. ASSUME NEW t \in Tasks, ParentStep(t) \/ RecoveryStep(t) \/ Reconcile(t)
      PROVE  LiveTask(u)'
  <2>1. CASE Cancel(t)
    BY <1>c, <2>1 DEF Cancel
  <2>2. CASE ~Cancel(t) /\ t # u
    BY <1>9, <1>a, <2>2, OthersUntouched
  <2>3. CASE ~Cancel(t) /\ t = u
    BY <1>1, <1>2, <1>3, <1>4, <1>5, <1>6, <1>9, <2>3 DEF ParentStep
  <2> QED
    BY <2>1, <2>2, <2>3
<1>10. ASSUME NEW t \in Tasks, NEW n \in Runs, RunStep(t, n) \/ WorkerStep(t, n)
       PROVE  LiveTask(u)'
  BY <1>7, <1>10, <1>a, OthersUntouched, RunStepLive
<1>11. CASE CancelAll
  BY <1>c, <1>11 DEF CancelAll
<1>12. CASE CleanupOrphans \/ UNCHANGED vars
  BY <1>12, <1>b DEF CleanupOrphans, vars
<1> QED
  BY <1>8, <1>9, <1>10, <1>11, <1>12 DEF Next

\* "running" in the registry means that a run is at work (submit, resume, the
\* except branches of _run, _load), as long as no task is cancelled before its first
\* step and every ValueError of a run is translated.
THEOREM RunningTasksAreAlive ==
  ASSUME {"cancel_early", "error_escapes"} \cap Events = {}
  PROVE  Spec => []RunningIsLive
<1>1. Init => LiveInv
  BY DEF Init, LiveInv, LiveTask, Absent, NoRun, At
<1>2. TypeOK /\ LiveInv /\ [Next]_vars => LiveInv'
  BY StepLive DEF LiveInv
<1>3. LiveInv => RunningIsLive
  BY DEF LiveInv, LiveTask, RunningIsLive
<1> QED
  BY <1>1, <1>2, <1>3, TypeCorrect, PTL DEF Spec

-----------------------------------------------------------------------------
(* Finished means recorded.                                                 *)

Recorded(t) == entry[t].status \in Finished => ledger[t].run # 0 /\ inbox[t] # "none"

\* A task whose registry entry becomes finished is given its ledger in that step.
LEMMA StepRecords ==
  ASSUME TypeOK, FinishedIsRecorded, {"torn_commit", "handler_raises"} \cap Events = {},
         [Next]_vars, NEW u \in Tasks
  PROVE  Recorded(u)'
<1>0. Recorded(u) /\ entry[u] \in Entries /\ inbox[u] \in InboxStates
  BY DEF FinishedIsRecorded, Recorded, TypeOK
<1>a. InboxKept(u)
  BY StepInbox
<1>b. ASSUME entry'[u].status \in {entry[u].status} \cup (Status \ Finished),
             ledger'[u].run = ledger[u].run
      PROVE  Recorded(u)'
  BY <1>0, <1>a, <1>b DEF Recorded, InboxKept
<1>c. Untouched(u) => Recorded(u)'
  BY <1>b DEF Untouched, Kept
<1>d. ASSUME NEW n \in Runs, NEW s, Answered(u, n, s) PROVE Recorded(u)'
  BY <1>0, <1>d, AnswerInbox DEF Answered, Recorded, Finished, Runs
<1>1. ASSUME NEW n \in Runs, RunStep(u, n) PROVE Recorded(u)'
  <2>1. CASE CancelledBeforeStart(u, n) \/ Start(u, n) \/ Escape(u, n) \/ CancelledReporting(u, n)
             \/ HandlerReturns(u, n) \/ FinishInflight(u, n)
    <3>1. ledger' = ledger
      BY <2>1 DEF CancelledBeforeStart, Start, Escape, CancelledReporting, HandlerReturns, FinishInflight
    <3>2. entry' = entry \/ entry' = SetStatus(u, "running")
      BY <2>1 DEF CancelledBeforeStart, Start, Escape, CancelledReporting, HandlerReturns, FinishInflight
    <3>3. entry'[u].status \in {entry[u].status, "running", "absent"}
      BY <3>2, SetStatusIs DEF Status
    <3> QED
      BY <1>b, <3>1, <3>3 DEF Status, Finished
  <2>2. CASE Cancelled(u, n) /\ entry[u].status = "failed"
    BY <1>b, <2>2 DEF Cancelled
  <2> QED
    BY <1>1, <1>d, <2>1, <2>2, RespondAnswers, FailAnswers, CancelledAnswers DEF RunStep, HandlerRaises
<1>2. ASSUME NEW k \in Keys \cup {NoKey}, Submit(u, k) PROVE Recorded(u)'
  BY <1>b, <1>2, SubmitIs DEF Status, Finished
<1>3. ASSUME NEW n \in Runs, Resume(u, n) PROVE Recorded(u)'
  BY <1>b, <1>3, ResumeIs DEF Status, Finished
<1>4. CASE Delete(u)
  BY <1>4 DEF Delete, Recorded, Absent, Finished, TypeOK
<1>5. CASE Consume(u)
  <2>1. ledger'[u].run = ledger[u].run
    BY <1>5 DEF Consume, Unread, TypeOK, Ledgers, NoLedger
  <2> QED
    BY <1>b, <1>5, <2>1 DEF Consume
<1>6. CASE RecoveryStep(u)
  BY <1>b, <1>6 DEF RecoveryStep, RecoveryStarts, RecoveryReturns, RecoveryRaises
<1>7. CASE Reconcile(u)
  BY <1>7, ReconcileStatus DEF Recorded
<1>8. CASE CrashStep
  <2>1. entry'[u].status \in {entry[u].status, "stale"}
    BY <1>8, CrashStatus
  <2>2. ~Present(u) \/ ledger'[u] = ledger[u]
    BY <1>8 DEF CrashStep, Restart, RestartAfterStatus, RestartAfterConsumed, Reboot, Present
  <2> QED
    BY <1>0, <1>a, <2>1, <2>2 DEF Recorded, InboxKept, Present, Finished
<1>9. ASSUME NEW t \in Tasks, ParentStep(t) \/ RecoveryStep(t) \/ Reconcile(t)
      PROVE  Recorded(u)'
  <2>1. CASE Cancel(t)
    BY <1>b, <2>1 DEF Cancel, CancelAmong
  <2>2. CASE ~Cancel(t) /\ t # u
    BY <1>9, <1>c, <2>2, OthersUntouched
  <2>3. CASE ~Cancel(t) /\ t = u
    BY <1>2, <1>3, <1>4, <1>5, <1>6, <1>7, <1>9, <2>3 DEF ParentStep
  <2> QED
    BY <2>1, <2>2, <2>3
<1>10. ASSUME NEW t \in Tasks, NEW n \in Runs, RunStep(t, n) PROVE Recorded(u)'
  BY <1>1, <1>10, <1>c, OthersUntouched
<1>11. ASSUME NEW t \in Tasks, NEW n \in Runs, WorkerStep(t, n) PROVE Recorded(u)'
  BY <1>b, <1>11 DEF WorkerStep, ForwardQuestion, WriteResultMd, StrayExits
<1>12. CASE CleanupOrphans
  BY <1>0, <1>12 DEF CleanupOrphans, Recorded, Present, Finished
<1>13. CASE CancelAll \/ UNCHANGED vars
  BY <1>b, <1>13 DEF CancelAll, CancelAmong, vars
<1> QED
  BY <1>8, <1>9, <1>10, <1>11, <1>12, <1>13 DEF Next

\* A finished task has its TOOL_RESULT.json and an item in its parent's inbox
\* (_run, _finalize_reconciled_result), as long as the process does not die between
\* a status and its ledger and the result handler does not raise.
THEOREM FinishedTasksAreRecorded ==
  ASSUME {"torn_commit", "handler_raises"} \cap Events = {}
  PROVE  Spec => []FinishedIsRecorded
<1>1. Init => FinishedIsRecorded
  BY DEF Init, FinishedIsRecorded, Absent, Finished
<1>2. TypeOK /\ FinishedIsRecorded /\ [Next]_vars => FinishedIsRecorded'
  BY StepRecords DEF FinishedIsRecorded, Recorded
<1> QED
  BY <1>1, <1>2, TypeCorrect, PTL DEF Spec

-----------------------------------------------------------------------------
(* One executor at a time.  A resume finds no run at work because the       *)
(* status stays "running" as long as one is; where a parent waits for the   *)
(* delivery to end, whatever of the task is under way is what _in_flight    *)
(* names.                                                                   *)

\* Who resumes from inside a delivery meets no handler that raises and no
\* cancel of a delivery.
Orderly == "resume_early" \notin Events \/ {"handler_raises", "cancel_late"} \cap Events = {}

Patient == "resume_early" \notin Events

Over(t, n)    == run[t][n].pc \in {"none", "gone"}
Working(t, n) == run[t][n].pc \in Worked

WorkTask(t) ==
  /\ Used(t) \/ (/\ ~Present(t) /\ recovery[t].pc = "none"
                 /\ \A n \in Runs : run[t][n].pc = "none")
  /\ Unresolved(t) => \A n \in Runs : Over(t, n)
  /\ \A n \in Runs : Working(t, n) => entry[t].status = "running"
  /\ \A n, m \in Runs : Working(t, n) /\ Working(t, m) => n = m
  /\ "cancel_late" \notin Events =>
       \A n \in Runs : run[t][n].pc = "delivering" => ~run[t][n].cancel
  /\ Patient =>
       \A n \in Runs :
         /\ Over(t, n) \/ (inflight[t] = n /\ t \in slots /\ recovery[t].pc = "none")
         /\ Working(t, n) /\ run[t][n].asked => run[t][n].question

WorkInv == \A t \in Tasks : WorkTask(t)

LEMMA UntouchedWork ==
  ASSUME NEW t \in Tasks, WorkTask(t), Untouched(t)
  PROVE  WorkTask(t)'
BY DEF WorkTask, Untouched, Kept, Used, Present, Unresolved, Over, Working, Patient

\* One run, under way, moves on to p.
LEMMA OneRunWorks ==
  ASSUME NEW t \in Tasks, NEW n \in Runs, NEW p \in Pc \ {"none"}, WorkTask(t), ~Over(t, n),
         run'[t][n].pc = p, \A m \in Runs : m # n => run'[t][m] = run[t][m],
         p \in Worked =>
           /\ Working(t, n) /\ entry'[t].status = "running"
           /\ run'[t][n].asked = run[t][n].asked
           /\ run'[t][n].question = run[t][n].question,
         entry'[t].status = entry[t].status
           \/ (/\ entry'[t].status \notin {"stale", "recovering"}
               /\ \A m \in Runs : m # n => ~Working(t, m)),
         p = "delivering" => ~run'[t][n].cancel,
         p # "gone" => inflight'[t] = inflight[t] /\ (t \in slots' <=> t \in slots),
         recovery'[t] = recovery[t]
  PROVE  WorkTask(t)'
<1>1. Used(t)'
  <2>1. 1 \in Runs
    BY HubAssumption DEF Runs
  <2>2. Used(t)
    BY DEF WorkTask, Over
  <2> QED
    BY <2>1, <2>2 DEF Used
<1>2. ~Unresolved(t)'
  BY DEF WorkTask, Unresolved
<1>3. /\ \A m \in Runs : Working(t, m)' => Working(t, m)
      /\ \A l, m \in Runs : Working(t, l)' /\ Working(t, m)' => l = m
  BY DEF Working, WorkTask
<1>4. \A m \in Runs : Working(t, m)' => entry'[t].status = "running"
  <2> SUFFICES ASSUME NEW m \in Runs, Working(t, m)'
               PROVE  entry'[t].status = "running"
    OBVIOUS
  <2>1. CASE m = n
    BY <2>1 DEF Working
  <2>2. CASE m # n
    BY <1>3, <2>2 DEF WorkTask
  <2> QED
    BY <2>1, <2>2
<1>5. "cancel_late" \notin Events =>
        \A m \in Runs : run'[t][m].pc = "delivering" => ~run'[t][m].cancel
  BY DEF WorkTask
<1>6. ASSUME Patient, NEW m \in Runs
      PROVE  /\ Over(t, m)' \/ (inflight'[t] = m /\ t \in slots' /\ recovery'[t].pc = "none")
             /\ Working(t, m)' /\ run'[t][m].asked => run'[t][m].question
  <2>1. inflight[t] = n /\ t \in slots /\ recovery[t].pc = "none"
    BY <1>6 DEF WorkTask
  <2>2. CASE m = n
    BY <1>6, <2>1, <2>2 DEF WorkTask, Over, Working
  <2>3. CASE m # n
    <3>1. Over(t, m)
      BY <1>6, <2>1, <2>3 DEF WorkTask
    <3> QED
      BY <2>3, <3>1 DEF Over, Working, Worked
  <2> QED
    BY <2>2, <2>3
<1> QED
  BY <1>1, <1>2, <1>3, <1>4, <1>5, <1>6 DEF WorkTask

LEMMA RunStepWorks ==
  ASSUME TypeOK, Orderly, WorkInv, NEW t \in Tasks, NEW n \in Runs, RunStep(t, n)
  PROVE  WorkTask(t)'
<1>0. WorkTask(t)
  BY DEF WorkInv
<1>a. Working(t, n) => \A m \in Runs : m # n => ~Working(t, m)
  BY <1>0 DEF WorkTask
<1>b. Patient /\ ~Over(t, n) => \A m \in Runs : m # n => ~Working(t, m)
  BY <1>0 DEF WorkTask, Over, Working, Worked
<1>c. ASSUME NEW s \in {"done", "failed", "waiting", "cancelled"}, Answered(t, n, s), ~Over(t, n),
             \A m \in Runs : m # n => ~Working(t, m)
      PROVE  WorkTask(t)'
  <2>1. entry'[t].status \notin {"stale", "recovering"}
    BY <1>c DEF Answered
  <2>2. run'[t][n].pc \in Pc \ ({"none"} \cup Worked)
    BY <1>c DEF Answered, Pc, Worked
  <2>3. run'[t][n].pc # "gone" /\ ~run'[t][n].cancel /\ \A m \in Runs : m # n => run'[t][m] = run[t][m]
    BY <1>c DEF Answered
  <2>4. inflight'[t] = inflight[t] /\ (t \in slots' <=> t \in slots) /\ recovery'[t] = recovery[t]
    BY <1>c DEF Answered
  <2> QED
    BY <1>0, <1>c, <2>1, <2>2, <2>3, <2>4, OneRunWorks
<1>d. ASSUME run' = [run EXCEPT ![t][n].pc = "ended"], inflight' = inflight, slots' = slots,
             recovery' = recovery, ~Over(t, n),
             entry'[t].status = entry[t].status
               \/ (/\ entry'[t].status \notin {"stale", "recovering"}
                   /\ \A m \in Runs : m # n => ~Working(t, m))
      PROVE  WorkTask(t)'
  <2>1. "ended" \in Pc \ ({"none", "gone", "delivering"} \cup Worked)
    BY DEF Pc, Worked
  <2>2. run'[t][n].pc = "ended" /\ \A m \in Runs : m # n => run'[t][m] = run[t][m]
    BY <1>d, <2>1, RunPc
  <2> QED
    BY <1>0, <1>d, <2>1, <2>2, OneRunWorks
<1>1. CASE Respond(t, n)
  <2>1. Working(t, n) /\ ~Over(t, n)
    BY <1>1 DEF Respond, Working, Over, Worked
  <2> QED
    BY <1>1, <1>a, <1>c, <2>1, RespondAnswers
<1>2. CASE Fail(t, n)
  <2>1. Working(t, n) /\ ~Over(t, n)
    BY <1>2 DEF Fail, Working, Over, Worked
  <2> QED
    BY <1>2, <1>a, <1>c, <2>1, FailAnswers
<1>3. CASE Cancelled(t, n)
  <2>1. ~Over(t, n)
    BY <1>3 DEF Cancelled, Over
  <2>2. \A m \in Runs : m # n => ~Working(t, m)
    <3>1. CASE run[t][n].pc = "executing"
      BY <1>a, <3>1 DEF Working, Worked
    <3>2. CASE run[t][n].pc = "delivering"
      <4>1. Patient
        BY <1>0, <1>3, <3>2 DEF Cancelled, WorkTask, Orderly, Patient
      <4> QED
        BY <1>b, <2>1, <4>1
    <3> QED
      BY <1>3, <3>1, <3>2 DEF Cancelled
  <2>3. CASE entry[t].status = "failed"
    BY <1>3, <1>d, <2>1, <2>3 DEF Cancelled
  <2> QED
    BY <1>3, <1>c, <2>1, <2>2, <2>3, CancelledAnswers
<1>4. CASE Start(t, n)
  <2>1. /\ run'[t][n].pc = "executing" /\ \A m \in Runs : m # n => run'[t][m] = run[t][m]
        /\ run'[t][n].asked = run[t][n].asked /\ run'[t][n].question = run[t][n].question
    <3>1. run' = [run EXCEPT ![t][n].pc = "executing"] /\ "executing" \in Pc
      BY <1>4 DEF Start, Pc
    <3> QED
      BY <3>1, RunPc
  <2>2. Working(t, n) /\ ~Over(t, n) /\ entry[t].status = "running"
    BY <1>0, <1>4 DEF Start, Working, Over, Worked, WorkTask
  <2>3. entry'[t].status = "running"
    BY <1>4, <2>2, SetStatusIs DEF Start, Present, Status
  <2>4. inflight' = inflight /\ slots' = slots /\ recovery' = recovery
    BY <1>4 DEF Start
  <2> QED
    BY <1>0, <2>1, <2>2, <2>3, <2>4, OneRunWorks DEF Pc
<1>5. CASE CancelledBeforeStart(t, n) \/ Escape(t, n) \/ CancelledReporting(t, n) \/ HandlerReturns(t, n)
  <2>1. /\ run' = [run EXCEPT ![t][n].pc = "ended"] /\ inflight' = inflight /\ slots' = slots
        /\ recovery' = recovery /\ entry' = entry
    BY <1>5 DEF CancelledBeforeStart, Escape, CancelledReporting, HandlerReturns
  <2>2. ~Over(t, n)
    BY <1>5 DEF CancelledBeforeStart, Escape, CancelledReporting, HandlerReturns, InHandler, Over, Worked
  <2> QED
    BY <1>d, <2>1, <2>2
<1>6. CASE HandlerRaises(t, n)
  <2>1. ~Over(t, n)
    BY <1>6 DEF HandlerRaises, InHandler, Over
  <2>2. \A m \in Runs : m # n => ~Working(t, m)
    BY <1>6, <1>b, <2>1 DEF HandlerRaises, Orderly, Patient
  <2>3. entry'[t].status \in {"failed", "absent"}
    BY <1>6, SetStatusIs DEF HandlerRaises, Status, Finished
  <2>4. /\ run' = [run EXCEPT ![t][n].pc = "ended"] /\ inflight' = inflight /\ slots' = slots
        /\ recovery' = recovery
    BY <1>6 DEF HandlerRaises
  <2> QED
    BY <1>d, <2>1, <2>2, <2>3, <2>4
<1>7. CASE FinishInflight(t, n)
  <2>1. "gone" \in Pc \ ({"none", "delivering"} \cup Worked)
    BY DEF Pc, Worked
  <2>2. run' = [run EXCEPT ![t][n] = At("gone")] /\ entry' = entry /\ recovery' = recovery
    BY <1>7 DEF FinishInflight
  <2>3. run'[t][n].pc = "gone" /\ \A m \in Runs : m # n => run'[t][m] = run[t][m]
    BY <2>1, <2>2, RunAt
  <2>4. ~Over(t, n)
    BY <1>7 DEF FinishInflight, Over
  <2> QED
    BY <1>0, <2>1, <2>2, <2>3, <2>4, OneRunWorks
<1> QED
  BY <1>1, <1>2, <1>3, <1>4, <1>5, <1>6, <1>7 DEF RunStep

LEMMA ParentWorks ==
  ASSUME TypeOK, Orderly, WorkInv, NEW t \in Tasks, ParentStep(t), ~Cancel(t)
  PROVE  WorkTask(t)'
<1>0. WorkTask(t)
  BY DEF WorkInv
<1>1. ASSUME NEW k \in Keys \cup {NoKey}, Submit(t, k) PROVE WorkTask(t)'
  <2>1. /\ 1 \in Runs /\ run'[t][1].pc = "spawned" /\ ~run'[t][1].asked /\ inflight'[t] = 1 /\ t \in slots'
        /\ \A m \in Runs : m # 1 => run'[t][m] = run[t][m]
        /\ entry'[t].status = "running" /\ recovery' = recovery
    BY <1>1, SubmitIs, SpawnIs
  <2>2. \A m \in Runs : run[t][m].pc = "none"
    BY <1>0, <1>1, SubmitIs DEF WorkTask
  <2>3. recovery[t].pc = "none"
    BY <1>0, <1>1, SubmitIs DEF WorkTask
  <2> QED
    BY <2>1, <2>2, <2>3 DEF WorkTask, Used, Present, Unresolved, Over, Working, Worked
<1>2. ASSUME NEW n \in Runs, Resume(t, n) PROVE WorkTask(t)'
  <2>1. /\ run'[t][n].pc = "spawned" /\ ~run'[t][n].asked /\ inflight'[t] = n /\ t \in slots'
        /\ \A m \in Runs : m # n => run'[t][m] = run[t][m]
        /\ entry'[t].status = "running" /\ recovery' = recovery
    BY <1>2, ResumeIs, SpawnIs
  <2>2. /\ entry[t].status # "running" /\ n - 1 \in Runs /\ run[t][n - 1].pc # "none" /\ n # 1
        /\ Patient => Settled(t)
    BY <1>2, ResumeIs DEF Resumable, Finished, Patient
  <2>3. \A m \in Runs : ~Working(t, m)
    BY <1>0, <2>2 DEF WorkTask
  <2>4. Used(t)'
    <3>1. 1 \in Runs /\ Used(t)
      BY <1>0, <2>2, HubAssumption DEF WorkTask, Runs
    <3> QED
      BY <2>1, <2>2, <3>1 DEF Used
  <2>5. /\ \A m \in Runs : Working(t, m)' => m = n
        /\ \A m \in Runs : run'[t][m].pc = "delivering" => m # n
    BY <2>1, <2>3 DEF Working
  <2>6. Patient => recovery[t].pc = "none" /\ \A m \in Runs : Over(t, m)
    BY <2>2 DEF Settled, Over
  <2>7. ASSUME Patient, NEW m \in Runs
        PROVE  /\ Over(t, m)' \/ (inflight'[t] = m /\ t \in slots' /\ recovery'[t].pc = "none")
               /\ Working(t, m)' /\ run'[t][m].asked => run'[t][m].question
    BY <2>1, <2>5, <2>6, <2>7 DEF Over
  <2>8. ~Unresolved(t)'
    BY <2>1 DEF Unresolved
  <2>9. "cancel_late" \notin Events =>
          \A m \in Runs : run'[t][m].pc = "delivering" => ~run'[t][m].cancel
    BY <1>0, <2>1, <2>5 DEF WorkTask
  <2> QED
    BY <2>1, <2>4, <2>5, <2>7, <2>8, <2>9 DEF WorkTask
<1>3. CASE Delete(t)
  <2>1. \A m \in Runs : ~Working(t, m)
    BY <1>0, <1>3 DEF Delete, WorkTask, Finished
  <2>2. entry'[t].status = "absent"
    BY <1>3 DEF Delete, Absent, TypeOK
  <2> QED
    BY <1>0, <1>3, <2>1, <2>2 DEF Delete, WorkTask, Used, Present, Unresolved, Over, Working
<1>4. CASE Consume(t)
  BY <1>0, <1>4 DEF Consume, WorkTask, Used, Present, Unresolved, Over, Working
<1> QED
  BY <1>1, <1>2, <1>3, <1>4 DEF ParentStep

\* A delivery that recovery starts finds no run of the task under way, and none
\* comes under way before it has returned, where parents are patient.
LEMMA RecoveryWorks ==
  ASSUME TypeOK, Orderly, WorkInv, NEW t \in Tasks, RecoveryStep(t)
  PROVE  WorkTask(t)'
<1>0. WorkTask(t) /\ recovery[t].pc # "none"
  BY DEF WorkInv, RecoveryStep, RecoveryStarts, RecoveryReturns, RecoveryRaises
<1>1. run' = run /\ inflight' = inflight /\ slots' = slots
  BY DEF RecoveryStep, RecoveryStarts, RecoveryReturns, RecoveryRaises
<1>2. Patient => \A n \in Runs : Over(t, n)
  BY <1>0 DEF WorkTask
<1>3. \/ entry' = entry
      \/ Patient /\ entry'[t].status \in {"failed", "absent"}
  BY SetStatusIs DEF RecoveryStep, RecoveryStarts, RecoveryReturns, RecoveryRaises, Orderly, Patient, Status, Finished
<1> QED
  BY <1>0, <1>1, <1>2, <1>3 DEF WorkTask, Used, Present, Unresolved, Over, Working, Worked

LEMMA StepWorks ==
  ASSUME TypeOK, Orderly, WorkInv, [Next]_vars, NEW u \in Tasks
  PROVE  WorkTask(u)'
<1>0. WorkTask(u)
  BY DEF WorkInv
<1>a. entry'[u] = entry[u] /\ run'[u] = run[u] /\ inflight' = inflight /\ slots' = slots /\ recovery' = recovery
        => WorkTask(u)'
  BY <1>0 DEF WorkTask, Used, Present, Unresolved, Over, Working
<1>b. ASSUME NEW targets, CancelAmong(targets) PROVE WorkTask(u)'
  <2>1. /\ \A m \in Runs : /\ run'[u][m].pc = run[u][m].pc /\ run'[u][m].asked = run[u][m].asked
                           /\ run'[u][m].question = run[u][m].question
                           /\ run'[u][m].cancel # run[u][m].cancel => Cancellable(u) /\ m = inflight[u]
    BY <1>b, CancelMarks
  <2>2. entry' = entry /\ inflight' = inflight /\ slots' = slots /\ recovery' = recovery
    BY <1>b DEF CancelAmong
  <2>3. "cancel_late" \notin Events =>
          \A m \in Runs : run[u][m].pc = "delivering" => run'[u][m].cancel = run[u][m].cancel
    BY <2>1 DEF Cancellable
  <2>4. Used(u)' <=> Used(u)
    <3>1. 1 \in Runs
      BY HubAssumption DEF Runs
    <3> QED
      BY <2>1, <3>1 DEF Used
  <2> QED
    BY <1>0, <2>1, <2>2, <2>3, <2>4 DEF WorkTask, Present, Unresolved, Over, Working
<1>1. CASE Reconcile(u)
  <2>1. Unresolved(u) /\ run' = run /\ entry'[u].status \in Finished \cup {"stale", "recovering"}
    BY <1>1, ReconcileStatus
  <2>2. Used(u) /\ \A n \in Runs : Over(u, n)
    BY <1>0, <2>1 DEF WorkTask, Unresolved, Present
  <2>3. Used(u)' /\ \A n \in Runs : Over(u, n)' /\ ~Working(u, n)' /\ run'[u][n].pc # "delivering"
    BY <2>1, <2>2 DEF Used, Over, Working, Worked
  <2>4. \A n, m \in Runs : ~Working(u, n)' /\ ~Working(u, m)'
    BY <2>3
  <2> QED
    BY <2>3, <2>4 DEF WorkTask
<1>2. ASSUME NEW n \in Runs, WorkerStep(u, n) PROVE WorkTask(u)'
  <2>1. CASE ForwardQuestion(u, n)
    <3>1. \A m \in Runs : /\ run'[u][m].pc = run[u][m].pc /\ run'[u][m].cancel = run[u][m].cancel
                          /\ run'[u][m].question = (run[u][m].question \/ m = inflight[u])
                          /\ run'[u][m].asked = (run[u][m].asked \/ (m = n /\ run[u][m].pc = "executing"))
      BY <2>1 DEF ForwardQuestion, Asked, TypeOK
    <3>2. entry' = entry /\ inflight' = inflight /\ slots' = slots /\ recovery' = recovery
      BY <2>1 DEF ForwardQuestion
    <3>3. Used(u)' <=> Used(u)
      <4>1. 1 \in Runs
        BY HubAssumption DEF Runs
      <4> QED
        BY <3>1, <4>1 DEF Used
    <3>4. Patient => \A m \in Runs : Working(u, m) => inflight[u] = m
      BY <1>0 DEF WorkTask, Working, Over, Worked
    <3>5. Patient => \A m \in Runs : Working(u, m)' => run'[u][m].question
      BY <3>1, <3>4 DEF Working
    <3> QED
      BY <1>0, <3>1, <3>2, <3>3, <3>5 DEF WorkTask, Present, Unresolved, Over, Working
  <2> QED
    BY <1>2, <1>a, <2>1 DEF WorkerStep, WriteResultMd, StrayExits
<1>3. CASE CrashStep
  <2>1. /\ entry'[u].status # "running" /\ recovery'[u].pc = "none"
        /\ \A m \in Runs : run'[u][m].pc = IF run[u][m].pc = "none" THEN "none" ELSE "gone"
    BY <1>3, CrashStatus
  <2>2. \A m \in Runs : Over(u, m)' /\ ~Working(u, m)' /\ run'[u][m].pc # "delivering"
    BY <2>1 DEF Over, Working, Worked
  <2>3. Used(u)' \/ (~Present(u)' /\ \A m \in Runs : run'[u][m].pc = "none")
    <3>1. 1 \in Runs
      BY HubAssumption DEF Runs
    <3>2. CASE Used(u)
      BY <2>1, <3>1, <3>2 DEF Used
    <3>3. CASE ~Used(u)
      <4>1. ~Present(u) /\ \A m \in Runs : run[u][m].pc = "none"
        BY <1>0, <3>3 DEF WorkTask
      <4>2. entry'[u].status \in {entry[u].status, "stale"}
            /\ (entry'[u].status # entry[u].status => entry[u].status \in {"running", "recovering"})
        BY <1>3, <4>1, CrashStatus
      <4> QED
        BY <2>1, <4>1, <4>2 DEF Present
    <3> QED
      BY <3>2, <3>3
  <2> QED
    BY <2>1, <2>2, <2>3 DEF WorkTask
<1>4. ASSUME NEW t \in Tasks, ParentStep(t) \/ RecoveryStep(t) \/ Reconcile(t)
      PROVE  WorkTask(u)'
  <2>1. CASE Cancel(t)
    BY <1>b, <2>1 DEF Cancel
  <2>2. CASE ~Cancel(t) /\ t # u
    BY <1>0, <1>4, <2>2, OthersUntouched, UntouchedWork
  <2>3. CASE ~Cancel(t) /\ t = u
    BY <1>1, <1>4, <2>3, ParentWorks, RecoveryWorks
  <2> QED
    BY <2>1, <2>2, <2>3
<1>5. ASSUME NEW t \in Tasks, NEW n \in Runs, RunStep(t, n) \/ WorkerStep(t, n)
      PROVE  WorkTask(u)'
  <2>1. CASE t # u
    BY <1>0, <1>5, <2>1, OthersUntouched, UntouchedWork
  <2> QED
    BY <1>2, <1>5, <2>1, RunStepWorks
<1>6. CASE CancelAll
  BY <1>b, <1>6 DEF CancelAll
<1>7. CASE CleanupOrphans \/ UNCHANGED vars
  BY <1>a, <1>7 DEF CleanupOrphans, vars
<1> QED
  BY <1>3, <1>4, <1>5, <1>6, <1>7 DEF Next

LEMMA WorkHolds ==
  ASSUME Orderly
  PROVE  Spec => []WorkInv
<1>1. Init => WorkInv
  <2> SUFFICES ASSUME Init, NEW t \in Tasks PROVE WorkTask(t)
    BY DEF WorkInv
  <2>1. \A n \in Runs : run[t][n].pc = "none" /\ run[t][n] = NoRun
    BY DEF Init, NoRun, At
  <2>2. entry[t].status = "absent" /\ recovery[t].pc = "none"
    BY DEF Init, Absent, Idle
  <2> QED
    BY <2>1, <2>2 DEF WorkTask, Used, Present, Unresolved, Over, Working, Worked
<1>2. TypeOK /\ WorkInv /\ [Next]_vars => WorkInv'
  BY StepWorks DEF WorkInv
<1> QED
  BY <1>1, <1>2, TypeCorrect, PTL DEF Spec

\* A task a parent may resume or has deleted has no run that still works (resume,
\* _run, registry.delete): no second executor in one session and folder.  A parent
\* that resumes from inside a delivery meets here no handler that raises and no
\* cancel of a delivery: the status of the old run would land on the new one.
THEOREM ResumedTasksHaveStopped ==
  ASSUME Orderly
  PROVE  Spec => []StoppedBeforeResumable
<1>1. WorkInv => StoppedBeforeResumable
  BY DEF WorkInv, WorkTask, Working, StoppedBeforeResumable, Resumable, Finished
<1> QED
  BY <1>1, WorkHolds, PTL

\* Where parents are patient, a run at work is the one _in_flight names, and its
\* task holds its slot (_spawn, _finish_inflight): cancel, tell and ask_parent
\* reach it.
THEOREM WorkingRunsAreInFlight ==
  ASSUME Patient
  PROVE  Spec => []InflightTracksRun
<1>1. Orderly
  BY DEF Orderly, Patient
<1>2. WorkInv => InflightTracksRun
  BY DEF WorkInv, WorkTask, Working, Over, Worked, InflightTracksRun
<1> QED
  BY <1>1, <1>2, WorkHolds, PTL

\* A crash, or a step about another task, and the steps no coroutine makes.
LEMMA NotARun ==
  ASSUME TypeOK, [Next]_vars, NEW t \in Tasks
  PROVE  \/ \E n \in Runs : RunStep(t, n)
         \/ \E k \in Keys \cup {NoKey} : Submit(t, k)
         \/ \E n \in Runs : Resume(t, n)
         \/ Delete(t) \/ RecoveryStep(t) \/ Reconcile(t) \/ CrashStep
         \/ entry'[t] = entry[t] /\ \A n \in Runs : run'[t][n].pc = run[t][n].pc
<1>1. ASSUME NEW targets, CancelAmong(targets)
      PROVE  entry' = entry /\ \A n \in Runs : run'[t][n].pc = run[t][n].pc
  BY <1>1, CancelMarks DEF CancelAmong
<1>2. ASSUME NEW n \in Runs, WorkerStep(t, n)
      PROVE  entry' = entry /\ \A m \in Runs : run'[t][m].pc = run[t][m].pc
  BY <1>2 DEF WorkerStep, ForwardQuestion, WriteResultMd, StrayExits, Asked, TypeOK
<1>3. Consume(t) \/ CleanupOrphans \/ UNCHANGED vars => entry' = entry /\ run' = run
  BY DEF Consume, CleanupOrphans, vars
<1>4. ASSUME NEW u \in Tasks, u # t,
             (ParentStep(u) /\ ~Cancel(u)) \/ RecoveryStep(u) \/ Reconcile(u)
               \/ \E n \in Runs : RunStep(u, n) \/ WorkerStep(u, n)
      PROVE  entry'[t] = entry[t] /\ run'[t] = run[t]
  <2>1. Kept(t)
    BY <1>4, OthersKept
  <2> QED
    BY <2>1 DEF Kept
<1>5. ASSUME NEW u \in Tasks, ParentStep(u), u # t \/ Cancel(u)
      PROVE  entry'[t] = entry[t] /\ \A n \in Runs : run'[t][n].pc = run[t][n].pc
  <2>1. CASE Cancel(u)
    BY <1>1, <2>1 DEF Cancel
  <2> QED
    BY <1>4, <1>5, <2>1
<1>6. CancelAll => entry' = entry /\ \A n \in Runs : run'[t][n].pc = run[t][n].pc
  BY <1>1 DEF CancelAll
<1> QED
  BY <1>2, <1>3, <1>4, <1>5, <1>6 DEF Next, ParentStep

\* A finished task leaves that state only when a parent resumes it (resume, the
\* except branches of _run, reconcile_task_state): a late answer, a recovery or a
\* restart never reopens it.
THEOREM FinishedTasksStayFinished ==
  ASSUME Orderly
  PROVE  Spec => FinishedUntilResumed
<1>1. ASSUME TypeOK, WorkInv, [Next]_vars
      PROVE  \A t \in Tasks :
               /\ entry[t].status \in Finished
               /\ entry'[t].status \notin Finished \cup {"absent"}
               => \E n \in Runs : run[t][n].pc = "none" /\ run'[t][n].pc = "spawned"
  <2> SUFFICES ASSUME NEW t \in Tasks, entry[t].status \in Finished,
                      entry'[t].status \notin Finished \cup {"absent"}
               PROVE  \E n \in Runs : run[t][n].pc = "none" /\ run'[t][n].pc = "spawned"
    OBVIOUS
  <2>0. WorkTask(t) /\ \A n \in Runs : ~Working(t, n)
    BY <1>1 DEF WorkInv, WorkTask, Finished
  <2>1. ASSUME NEW n \in Runs, RunStep(t, n) PROVE FALSE
    <3>1. ~Respond(t, n) /\ ~Fail(t, n) /\ ~Start(t, n)
      BY <2>0 DEF Respond, Fail, Start, Working, Worked
    <3>2. Cancelled(t, n) => entry'[t].status \in {entry[t].status, "cancelled", "absent"}
      BY <1>1, CancelledAnswers DEF Answered, Cancelled
    <3>3. HandlerRaises(t, n) => entry'[t].status \in {"failed", "absent"}
      BY <1>1, SetStatusIs DEF HandlerRaises, Status, Finished
    <3> QED
      BY <2>1, <3>1, <3>2, <3>3
         DEF RunStep, CancelledBeforeStart, Escape, CancelledReporting, HandlerReturns, FinishInflight, Finished
  <2>2. ASSUME NEW k \in Keys \cup {NoKey}, Submit(t, k)
        PROVE  \E n \in Runs : run[t][n].pc = "none" /\ run'[t][n].pc = "spawned"
    <3>1. 1 \in Runs /\ run'[t][1].pc = "spawned" /\ ~Used(t)
      BY <1>1, <2>2, SubmitIs, SpawnIs
    <3> QED
      BY <3>1 DEF Used
  <2>3. ASSUME NEW n \in Runs, Resume(t, n)
        PROVE  \E m \in Runs : run[t][m].pc = "none" /\ run'[t][m].pc = "spawned"
    BY <1>1, <2>3, ResumeIs, SpawnIs
  <2>4. ~Delete(t)
    BY <1>1 DEF Delete, Absent, TypeOK
  <2>5. ~RecoveryStep(t)
    BY <1>1, SetStatusIs DEF RecoveryStep, RecoveryStarts, RecoveryReturns, RecoveryRaises, Status, Finished
  <2>6. ~Reconcile(t)
    BY <1>1, ReconcileStatus DEF Unresolved, Finished
  <2>7. ~CrashStep
    <3> SUFFICES ASSUME CrashStep PROVE FALSE
      OBVIOUS
    <3>1. ~\E n \in Runs : run[t][n].pc = "executing"
      BY <2>0 DEF Working, Worked
    <3>2. entry'[t].status \in {entry[t].status, "stale"}
          /\ (entry'[t].status # entry[t].status => entry[t].status \in {"running", "recovering"})
      BY <1>1, <3>1, CrashStatus
    <3> QED
      BY <3>2 DEF Finished
  <2> QED
    BY <1>1, <2>1, <2>2, <2>3, <2>4, <2>5, <2>6, <2>7, NotARun
<1> QED
  BY <1>1, TypeCorrect, WorkHolds, PTL DEF Spec, FinishedUntilResumed

\* forward_question: a run that asked its parent ends as "waiting" or worse, never
\* as "done" (_response_status), where parents are patient.
THEOREM QuestionsAreNotLost ==
  ASSUME Patient
  PROVE  Spec => QuestionMeansWaiting
<1>0. Orderly
  BY DEF Orderly, Patient
<1>1. ASSUME TypeOK, WorkInv, [Next]_vars
      PROVE  \A t \in Tasks, n \in Runs :
               /\ run[t][n].pc = "executing" /\ run[t][n].asked
               /\ run[t][n].pc # run'[t][n].pc
               => entry'[t].status # "done"
  <2> SUFFICES ASSUME NEW t \in Tasks, NEW n \in Runs, run[t][n].pc = "executing", run[t][n].asked,
                      run[t][n].pc # run'[t][n].pc
               PROVE  entry'[t].status # "done"
    OBVIOUS
  <2>0. /\ entry[t].status = "running" /\ inflight[t] = n /\ n # 0 /\ run[t][n].question
        /\ \A m \in Runs : ~Over(t, m) => m = n
        /\ Used(t) /\ ~Unresolved(t) /\ recovery[t].pc = "none"
    BY <1>1 DEF WorkInv, WorkTask, Working, Worked, Over, Runs
  <2>1. ASSUME NEW m \in Runs, RunStep(t, m) PROVE entry'[t].status # "done"
    <3>1. m = n
      BY <2>0, <2>1 DEF RunStep, CancelledBeforeStart, Start, Respond, Fail, Escape, Cancelled,
        CancelledReporting, HandlerReturns, HandlerRaises, FinishInflight, InHandler, Over, Worked
    <3>2. Respond(t, m) => entry'[t].status # "done"
      BY <1>1, <2>0, RespondAnswers DEF Answered
    <3>3. Fail(t, m) => entry'[t].status # "done"
      BY <1>1, FailAnswers DEF Answered
    <3>4. Cancelled(t, m) => entry'[t].status # "done"
      BY <1>1, <2>0, CancelledAnswers DEF Answered
    <3>5. Escape(t, m) => entry'[t].status # "done"
      BY <2>0 DEF Escape
    <3> QED
      BY <2>1, <3>1, <3>2, <3>3, <3>4, <3>5
         DEF RunStep, CancelledBeforeStart, Start, CancelledReporting, HandlerReturns, HandlerRaises,
             FinishInflight, InHandler
  <2>2. ~\E k \in Keys \cup {NoKey} : Submit(t, k)
    BY <2>0 DEF Submit
  <2>3. ~\E m \in Runs : Resume(t, m)
    BY <2>0 DEF Resume, Resumable, Finished
  <2>4. ~Delete(t) /\ ~RecoveryStep(t) /\ ~Reconcile(t)
    BY <1>1, <2>0, ReconcileStatus DEF Delete, Finished, RecoveryStep, RecoveryStarts, RecoveryReturns, RecoveryRaises
  <2>5. CrashStep => entry'[t].status # "done"
    BY <1>1, <2>0, CrashStatus
  <2> QED
    BY <1>1, <2>0, <2>1, <2>2, <2>3, <2>4, <2>5, NotARun
<1> QED
  BY <1>0, <1>1, TypeCorrect, WorkHolds, PTL DEF Spec, QuestionMeansWaiting

-----------------------------------------------------------------------------
(* What recovery may bring again.  While a task is under way or unresolved,  *)
(* whatever its parent has, or is about to get, of a run of it was there     *)
(* before the task was last resumed.                                         *)

Open == {"running", "stale", "recovering"}

Shown(t, n) ==
  \/ n \in handed[t] \/ taken[t][n] # 0 \/ ledger[t].run = n
  \/ run[t][n].pc \in {"delivering", "reporting"}
  \/ recovery[t].pc # "none" /\ recovery[t].run = n

Left(t, n) == Shown(t, n) \/ resultMd[t] = n \/ n \in worker[t]

KnownTask(t) ==
  /\ \A m, n \in Runs : m < n /\ run[t][n].pc # "none" => run[t][m].pc # "none"
  /\ \A n \in Runs : Left(t, n) => run[t][n].pc # "none"
  /\ entry[t].status \in Open => \A n \in Runs : Shown(t, n) => ResumedSince(t, n)

KnownInv == \A t \in Tasks : KnownTask(t)

SameRuns(t) == \A n \in Runs : run'[t][n].pc = "none" <=> run[t][n].pc = "none"

\* A step that creates no run, and shows nothing of a task it leaves open.
LEMMA NothingShown ==
  ASSUME NEW t \in Tasks, KnownTask(t), SameRuns(t),
         \A n \in Runs : Left(t, n)' => run[t][n].pc # "none",
         entry'[t].status \in Open =>
           entry[t].status \in Open /\ \A n \in Runs : Shown(t, n)' => Shown(t, n)
  PROVE  KnownTask(t)'
<1>1. \A n \in Runs : ResumedSince(t, n) => ResumedSince(t, n)'
  BY DEF ResumedSince, SameRuns
<1> QED
  BY <1>1 DEF KnownTask, SameRuns

\* A step about another task.
LEMMA OthersHanded ==
  ASSUME TypeOK, NEW t \in Tasks, NEW u \in Tasks, u # t,
         ParentStep(t) \/ RecoveryStep(t) \/ Reconcile(t)
           \/ \E n \in Runs : RunStep(t, n) \/ WorkerStep(t, n)
  PROVE  handed'[u] = handed[u]
<1>1. CASE ParentStep(t)
  BY <1>1 DEF ParentStep, Submit, Resume, Cancel, CancelAmong, Delete, Consume
<1>2. CASE RecoveryStep(t)
  BY <1>2 DEF RecoveryStep, RecoveryStarts, RecoveryReturns, RecoveryRaises, TypeOK
<1>3. CASE Reconcile(t)
  BY <1>3 DEF Reconcile, RecoverLedger, RequeueInbox, MarkRecovering, RecoverResultMd, MarkStale
<1>4. ASSUME NEW n \in Runs, RunStep(t, n) PROVE handed'[u] = handed[u]
  BY <1>4 DEF RunStep, CancelledBeforeStart, Start, Respond, Fail, Escape, Cancelled,
     CancelledReporting, HandlerReturns, HandlerRaises, FinishInflight, TypeOK
<1>5. ASSUME NEW n \in Runs, WorkerStep(t, n) PROVE handed'[u] = handed[u]
  BY <1>5 DEF WorkerStep, ForwardQuestion, WriteResultMd, StrayExits
<1> QED
  BY <1>1, <1>2, <1>3, <1>4, <1>5

\* A run answers, and leaves a task that is over or waits for its parent.
LEMMA AnswerKnown ==
  ASSUME TypeOK, NEW t \in Tasks, KnownTask(t), NEW n \in Runs, run[t][n].pc # "none",
         NEW s \in {"done", "failed", "waiting", "cancelled"}, Answered(t, n, s),
         handed' = handed, resultMd'[t] \in {resultMd[t], n}, worker'[t] \subseteq worker[t]
  PROVE  KnownTask(t)'
<1>1. /\ run'[t][n].pc \in {"delivering", "reporting", "ended"}
      /\ \A m \in Runs : m # n => run'[t][m] = run[t][m]
      /\ ledger'[t].run \in {ledger[t].run, n} /\ recovery' = recovery /\ taken' = taken
  BY DEF Answered
<1>2. SameRuns(t)
  BY <1>1 DEF SameRuns
<1>3. ASSUME NEW m \in Runs, Left(t, m)' PROVE run[t][m].pc # "none"
  <2>1. CASE m = n
    BY <2>1
  <2>2. CASE m # n
    <3>1. Left(t, m)
      BY <1>1, <1>3, <2>2 DEF Left, Shown
    <3> QED
      BY <3>1 DEF KnownTask
  <2> QED
    BY <2>1, <2>2
<1>4. entry'[t].status \notin Open
  BY DEF Answered, Open
<1> QED
  BY <1>2, <1>3, <1>4, NothingShown

\* A run under way moves on, and is not about to deliver.
LEMMA MoveKnown ==
  ASSUME TypeOK, NEW t \in Tasks, KnownTask(t), NEW n \in Runs, run[t][n].pc # "none",
         run'[t][n].pc \in {"executing", "ended", "gone"},
         \A m \in Runs : m # n => run'[t][m] = run[t][m],
         entry'[t].status \in Open => entry[t].status \in Open,
         \A m \in handed'[t] : m \in handed[t] \/ Shown(t, m),
         taken' = taken, ledger' = ledger, recovery' = recovery, resultMd' = resultMd,
         worker'[t] \subseteq worker[t] \cup {n}
  PROVE  KnownTask(t)'
<1>1. SameRuns(t)
  BY DEF SameRuns
<1>2. ASSUME NEW m \in Runs, Shown(t, m)' PROVE Shown(t, m)
  <2>1. CASE m \in handed'[t]
    BY <2>1 DEF Shown
  <2>2. CASE m \notin handed'[t] /\ m = n
    BY <1>2, <2>2 DEF Shown
  <2>3. CASE m \notin handed'[t] /\ m # n
    BY <1>2, <2>3 DEF Shown
  <2> QED
    BY <2>1, <2>2, <2>3
<1>3. ASSUME NEW m \in Runs, Left(t, m)' PROVE run[t][m].pc # "none"
  <2>1. Left(t, m) \/ m = n
    BY <1>2, <1>3 DEF Left
  <2> QED
    BY <2>1 DEF KnownTask
<1> QED
  BY <1>1, <1>2, <1>3, NothingShown

LEMMA RunStepKnown ==
  ASSUME TypeOK, Orderly, WorkInv, NEW t \in Tasks, KnownTask(t), NEW n \in Runs, RunStep(t, n)
  PROVE  KnownTask(t)'
<1>0. WorkTask(t)
  BY DEF WorkInv
<1>1. run[t][n].pc # "none"
  BY DEF RunStep, CancelledBeforeStart, Start, Respond, Fail, Escape, Cancelled,
     CancelledReporting, HandlerReturns, HandlerRaises, FinishInflight, InHandler, Worked
<1>a. worker'[t] \subseteq worker[t] \cup {n}
  <2>1. CASE Respond(t, n)
    BY <2>1 DEF Respond, WorkerLeft, TypeOK
  <2>2. CASE Start(t, n)
    BY <2>2 DEF Start, TypeOK
  <2>3. CASE Fail(t, n) \/ Escape(t, n) \/ Cancelled(t, n)
    BY <2>3 DEF Fail, Escape, Cancelled, WorkerLeft, TypeOK
  <2>4. CASE CancelledBeforeStart(t, n) \/ CancelledReporting(t, n) \/ HandlerReturns(t, n)
             \/ HandlerRaises(t, n) \/ FinishInflight(t, n)
    BY <2>4 DEF CancelledBeforeStart, CancelledReporting, HandlerReturns, HandlerRaises, FinishInflight
  <2> QED
    BY <2>1, <2>2, <2>3, <2>4 DEF RunStep
<1>2. CASE Respond(t, n)
  <2>1. resultMd'[t] \in {resultMd[t], n} /\ handed' = handed
    BY <1>2 DEF Respond, TypeOK
  <2>2. PICK s \in {"done", "failed", "waiting"} : Answered(t, n, s)
    BY <1>2, RespondAnswers
  <2>3. worker'[t] \subseteq worker[t]
    BY <1>2 DEF Respond, WorkerLeft, TypeOK
  <2> QED
    BY <1>1, <2>1, <2>2, <2>3, AnswerKnown
<1>3. CASE Fail(t, n)
  <2>1. resultMd' = resultMd /\ handed' = handed /\ worker'[t] \subseteq worker[t]
    BY <1>3 DEF Fail, WorkerLeft, TypeOK
  <2> QED
    BY <1>1, <1>3, <2>1, FailAnswers, AnswerKnown
<1>4. CASE Cancelled(t, n) /\ entry[t].status # "failed"
  <2>1. resultMd' = resultMd /\ handed' = handed /\ worker'[t] \subseteq worker[t]
    BY <1>4 DEF Cancelled, WorkerLeft, TypeOK
  <2> QED
    BY <1>1, <1>4, <2>1, CancelledAnswers, AnswerKnown
<1>b. ASSUME NEW p \in {"executing", "ended", "gone"},
             run' = [run EXCEPT ![t][n].pc = p] \/ run' = [run EXCEPT ![t][n] = At(p)]
      PROVE  run'[t][n].pc = p /\ \A m \in Runs : m # n => run'[t][m] = run[t][m]
  <2>1. p \in Pc
    BY DEF Pc
  <2> QED
    BY <1>b, <2>1, RunPc, RunAt
<1>5. CASE Start(t, n)
  <2>1. entry[t].status \in Open
    BY <1>0, <1>5 DEF Start, WorkTask, Working, Worked, Open
  <2>2. run' = [run EXCEPT ![t][n].pc = "executing"]
        /\ UNCHANGED <<taken, ledger, recovery, resultMd, handed>>
    BY <1>5 DEF Start
  <2> QED
    BY <1>1, <1>a, <1>b, <2>1, <2>2, MoveKnown
<1>6. CASE CancelledBeforeStart(t, n) \/ Escape(t, n) \/ CancelledReporting(t, n)
  <2>1. run' = [run EXCEPT ![t][n].pc = "ended"]
        /\ UNCHANGED <<entry, taken, ledger, recovery, resultMd, handed>>
    BY <1>6 DEF CancelledBeforeStart, Escape, CancelledReporting
  <2> QED
    BY <1>1, <1>a, <1>b, <2>1, MoveKnown
<1>7. CASE Cancelled(t, n) /\ entry[t].status = "failed"
  <2>1. run' = [run EXCEPT ![t][n].pc = "ended"]
        /\ UNCHANGED <<entry, taken, ledger, recovery, resultMd, handed>>
    BY <1>7 DEF Cancelled
  <2> QED
    BY <1>1, <1>a, <1>b, <2>1, MoveKnown
<1>8. CASE HandlerReturns(t, n)
  <2>1. run' = [run EXCEPT ![t][n].pc = "ended"]
        /\ UNCHANGED <<entry, taken, ledger, recovery, resultMd>>
    BY <1>8 DEF HandlerReturns
  <2>2. Shown(t, n)
    BY <1>8 DEF HandlerReturns, InHandler, Shown
  <2>3. \A m \in handed'[t] : m \in handed[t] \/ Shown(t, m)
    BY <1>8, <2>2 DEF HandlerReturns, TypeOK
  <2> QED
    BY <1>1, <1>a, <1>b, <2>1, <2>3, MoveKnown
<1>9. CASE HandlerRaises(t, n)
  <2>1. run' = [run EXCEPT ![t][n].pc = "ended"]
        /\ UNCHANGED <<taken, ledger, recovery, resultMd, handed>>
    BY <1>9 DEF HandlerRaises
  <2>2. entry'[t].status \in {"failed", "absent"}
    BY <1>9, SetStatusIs DEF HandlerRaises, Status, Finished
  <2> QED
    BY <1>1, <1>a, <1>b, <2>1, <2>2, MoveKnown DEF Open
<1>10. CASE FinishInflight(t, n)
  <2>1. run' = [run EXCEPT ![t][n] = At("gone")]
        /\ UNCHANGED <<entry, taken, ledger, recovery, resultMd, handed>>
    BY <1>10 DEF FinishInflight
  <2> QED
    BY <1>1, <1>a, <1>b, <2>1, MoveKnown
<1> QED
  BY <1>2, <1>3, <1>4, <1>5, <1>6, <1>7, <1>8, <1>9, <1>10 DEF RunStep

LEMMA ParentKnown ==
  ASSUME TypeOK, NEW t \in Tasks, WorkTask(t), KnownTask(t), ParentStep(t), ~Cancel(t)
  PROVE  KnownTask(t)'
<1>1. ASSUME NEW k \in Keys \cup {NoKey}, Submit(t, k) PROVE KnownTask(t)'
  <2>1. /\ 1 \in Runs /\ run'[t][1].pc = "spawned" /\ \A m \in Runs : m # 1 => run'[t][m] = run[t][m]
        /\ \A m \in Runs : run[t][m].pc = "none"
    BY <1>1, SubmitIs, SpawnIs DEF WorkTask
  <2>2. UNCHANGED <<handed, taken, ledger, recovery, resultMd, worker>>
    BY <1>1 DEF Submit
  <2>3. \A n \in Runs : ~Left(t, n)
    BY <2>1 DEF KnownTask
  <2>4. \A n \in Runs : ~Left(t, n)' /\ ~Shown(t, n)'
    BY <2>1, <2>2, <2>3 DEF Left, Shown
  <2>5. \A m, n \in Runs : m < n /\ run'[t][n].pc # "none" => run'[t][m].pc # "none"
    BY <2>1 DEF Runs
  <2> QED
    BY <2>4, <2>5 DEF KnownTask
<1>2. ASSUME NEW n \in Runs, Resume(t, n) PROVE KnownTask(t)'
  <2>1. /\ run'[t][n].pc = "spawned" /\ \A m \in Runs : m # n => run'[t][m] = run[t][m]
        /\ run[t][n].pc = "none" /\ n - 1 \in Runs /\ run[t][n - 1].pc # "none"
    BY <1>2, ResumeIs, SpawnIs
  <2>2. UNCHANGED <<handed, taken, ledger, recovery, resultMd, worker>>
    BY <1>2 DEF Resume
  <2>3. ASSUME NEW m \in Runs PROVE run[t][m].pc # "none" <=> m < n
    BY <2>1 DEF KnownTask, Runs
  <2>4. ASSUME NEW m \in Runs PROVE run'[t][m].pc # "none" <=> m <= n
    BY <2>1, <2>3 DEF Runs
  <2>5. \A m \in Runs : Left(t, m)' => Left(t, m)
    BY <2>1, <2>2 DEF Left, Shown
  <2>6. ASSUME NEW m \in Runs, Left(t, m)' PROVE m < n
    BY <2>3, <2>5, <2>6 DEF KnownTask
  <2>7. \A m \in Runs : Left(t, m)' => ResumedSince(t, m)' /\ run'[t][m].pc # "none"
    BY <2>4, <2>6 DEF ResumedSince, Runs
  <2>8. \A l, m \in Runs : l < m /\ run'[t][m].pc # "none" => run'[t][l].pc # "none"
    BY <2>4 DEF Runs
  <2> QED
    BY <2>7, <2>8 DEF KnownTask, Left
<1>3. CASE Delete(t)
  <2>1. /\ entry'[t].status \notin Open /\ ledger'[t].run = 0 /\ resultMd'[t] = 0
        /\ UNCHANGED <<run, recovery, worker, handed, taken>>
    BY <1>3 DEF Delete, Absent, NoLedger, Open, TypeOK
  <2>2. \A n \in Runs : Left(t, n)' => Left(t, n)
    BY <2>1 DEF Left, Shown, Runs
  <2> QED
    BY <2>1, <2>2, NothingShown DEF SameRuns, KnownTask
<1>4. CASE Consume(t)
  <2>1. /\ ledger[t].run \in Runs /\ ledger' = [ledger EXCEPT ![t].consumed = TRUE]
        /\ taken' = [taken EXCEPT ![t][ledger[t].run] = IF @ = 2 THEN 2 ELSE @ + 1]
        /\ UNCHANGED <<entry, run, recovery, worker, handed, resultMd>>
    BY <1>4, ConsumedTyped DEF Consume, TypeOK
  <2>2. ledger'[t].run = ledger[t].run
    BY <2>1 DEF TypeOK, Ledgers, NoLedger
  <2>3. \A n \in Runs : n # ledger[t].run => taken'[t][n] = taken[t][n]
    <3>1. taken[t] \in [Runs -> 0 .. 2]
      BY DEF TypeOK
    <3>2. taken'[t] = [taken[t] EXCEPT ![ledger[t].run] = IF @ = 2 THEN 2 ELSE @ + 1]
      BY <2>1 DEF TypeOK
    <3> QED
      BY <2>1, <3>1, <3>2
  <2>4. ASSUME NEW n \in Runs, Shown(t, n)' PROVE Shown(t, n)
    BY <2>1, <2>2, <2>3, <2>4 DEF Shown
  <2>5. \A n \in Runs : Left(t, n)' => Left(t, n)
    BY <2>1, <2>4 DEF Left
  <2> QED
    BY <2>1, <2>4, <2>5, NothingShown DEF SameRuns, KnownTask
<1> QED
  BY <1>1, <1>2, <1>3, <1>4 DEF ParentStep

LEMMA RecoveryKnown ==
  ASSUME TypeOK, NEW t \in Tasks, KnownTask(t), RecoveryStep(t)
  PROVE  KnownTask(t)'
<1>1. UNCHANGED <<run, ledger, resultMd, worker, taken>>
  BY DEF RecoveryStep, RecoveryStarts, RecoveryReturns, RecoveryRaises
<1>2. entry'[t].status \in Open => entry[t].status \in Open
  BY SetStatusIs DEF RecoveryStep, RecoveryStarts, RecoveryReturns, RecoveryRaises, Status, Finished, Open
<1>3. /\ recovery[t].pc # "none"
      /\ recovery'[t].pc = "none" \/ recovery'[t].run = recovery[t].run
  BY DEF RecoveryStep, RecoveryStarts, RecoveryReturns, RecoveryRaises, Idle, TypeOK, Recoveries
<1>4. handed'[t] \subseteq handed[t] \cup {recovery[t].run}
  BY DEF RecoveryStep, RecoveryStarts, RecoveryReturns, RecoveryRaises, TypeOK
<1>5. ASSUME NEW n \in Runs, Shown(t, n)' PROVE Shown(t, n)
  BY <1>1, <1>3, <1>4, <1>5 DEF Shown
<1>6. \A n \in Runs : Left(t, n)' => Left(t, n)
  BY <1>1, <1>5 DEF Left
<1> QED
  BY <1>1, <1>2, <1>5, <1>6, NothingShown DEF SameRuns, KnownTask

\* What reconciliation brings is what the ledger or RESULT.md names.
LEMMA ReconcileKnown ==
  ASSUME TypeOK, NEW t \in Tasks, KnownTask(t), Reconcile(t)
  PROVE  KnownTask(t)'
<1>1. UNCHANGED <<run, resultMd, worker, taken, handed>> /\ Unresolved(t)
  BY ReconcileStatus DEF Reconcile, RecoverLedger, RequeueInbox, MarkRecovering, RecoverResultMd, MarkStale
<1>2. entry[t].status \in Open
  BY <1>1 DEF Unresolved, Open
<1>3. CASE RequeueInbox(t) \/ MarkRecovering(t) \/ MarkStale(t)
  <2>1. UNCHANGED <<ledger, recovery>>
    BY <1>3 DEF RequeueInbox, MarkRecovering, MarkStale
  <2> QED
    BY <1>1, <1>2, <2>1, NothingShown DEF SameRuns, KnownTask, Left, Shown
<1>4. ASSUME NEW n, NEW s \in Finished, Finalize(t, n, s), n \in {ledger[t].run, resultMd[t]},
             ledger'[t].run \in {ledger[t].run, n}
      PROVE  KnownTask(t)'
  <2>1. entry'[t].status \notin Open
    BY <1>4, SetStatusIs DEF Finalize, Status, Finished, Open
  <2>2. recovery'[t].run = n
    BY <1>4 DEF Finalize, TypeOK
  <2>3. \A m \in Runs : Left(t, m)' => Left(t, m)
    BY <1>1, <1>4, <2>2 DEF Left, Shown
  <2> QED
    BY <1>1, <2>1, <2>3, NothingShown DEF SameRuns, KnownTask
<1>5. CASE RecoverLedger(t)
  <2>1. ledger[t].status \in Finished
    BY <1>5, ConsumedTyped DEF RecoverLedger, TypeOK
  <2>2. ledger'[t].run = ledger[t].run
    BY <1>5 DEF RecoverLedger, TypeOK, Ledgers, NoLedger
  <2> QED
    BY <1>4, <1>5, <2>1, <2>2 DEF RecoverLedger
<1>6. CASE RecoverResultMd(t)
  <2>1. ledger'[t].run \in {ledger[t].run, resultMd[t]}
    BY <1>6 DEF RecoverResultMd, WriteLedger, TypeOK
  <2> QED
    BY <1>4, <1>6, <2>1 DEF RecoverResultMd, Finished
<1> QED
  BY <1>3, <1>5, <1>6 DEF Reconcile

LEMMA CrashKnown ==
  ASSUME TypeOK, Orderly, WorkInv, CrashStep, NEW u \in Tasks, KnownTask(u)
  PROVE  KnownTask(u)'
<1>1. UNCHANGED <<resultMd, handed, taken>> /\ worker'[u] \subseteq worker[u]
  BY DEF CrashStep, Restart, RestartAfterStatus, RestartAfterConsumed, Reboot
<1>2. /\ \A m \in Runs : run'[u][m].pc = IF run[u][m].pc = "none" THEN "none" ELSE "gone"
      /\ recovery'[u].pc = "none"
      /\ entry'[u].status \in Open => entry[u].status \in Open
  BY CrashStatus DEF Open
<1>3. ledger'[u].run \in {0, ledger[u].run}
  BY CrashLedger
<1>4. ASSUME NEW n \in Runs, Shown(u, n)' PROVE Shown(u, n)
  <2>1. n # 0
    BY DEF Runs
  <2> QED
    BY <1>1, <1>2, <1>3, <1>4, <2>1 DEF Shown
<1>5. \A n \in Runs : Left(u, n)' => Left(u, n)
  BY <1>1, <1>4 DEF Left
<1>6. SameRuns(u)
  BY <1>2 DEF SameRuns
<1> QED
  BY <1>2, <1>4, <1>5, <1>6, NothingShown DEF KnownTask

LEMMA StepKnown ==
  ASSUME TypeOK, Orderly, WorkInv, KnownInv, [Next]_vars, NEW u \in Tasks
  PROVE  KnownTask(u)'
<1>0. KnownTask(u) /\ WorkTask(u)
  BY DEF KnownInv, WorkInv
<1>a. ASSUME entry'[u] = entry[u], \A n \in Runs : run'[u][n].pc = run[u][n].pc, handed'[u] = handed[u],
             taken'[u] = taken[u], ledger'[u].run \in {0, ledger[u].run}, recovery'[u] = recovery[u],
             \A n \in Runs : n \in worker'[u] \/ resultMd'[u] = n => n \in worker[u] \/ resultMd[u] = n
      PROVE  KnownTask(u)'
  <2>1. ASSUME NEW n \in Runs, Shown(u, n)' PROVE Shown(u, n)
    <3>1. n # 0
      BY DEF Runs
    <3> QED
      BY <1>a, <2>1, <3>1 DEF Shown
  <2>2. \A n \in Runs : Left(u, n)' => Left(u, n)
    BY <1>a, <2>1 DEF Left
  <2> QED
    BY <1>0, <1>a, <2>1, <2>2, NothingShown DEF SameRuns, KnownTask
<1>1. ASSUME NEW t \in Tasks, t # u,
             (ParentStep(t) /\ ~Cancel(t)) \/ RecoveryStep(t) \/ Reconcile(t)
               \/ \E n \in Runs : RunStep(t, n) \/ WorkerStep(t, n)
      PROVE  KnownTask(u)'
  <2>1. Untouched(u) /\ handed'[u] = handed[u]
    BY <1>1, OthersUntouched, OthersHanded
  <2> QED
    BY <1>a, <2>1 DEF Untouched, Kept
<1>2. ASSUME NEW targets, CancelAmong(targets) PROVE KnownTask(u)'
  <2>1. \A n \in Runs : run'[u][n].pc = run[u][n].pc
    BY <1>2, CancelMarks
  <2>2. UNCHANGED <<entry, handed, taken, ledger, recovery, worker, resultMd>>
    BY <1>2 DEF CancelAmong
  <2> QED
    BY <1>a, <2>1, <2>2
<1>3. ASSUME NEW n \in Runs, WorkerStep(u, n) PROVE KnownTask(u)'
  <2>1. \A m \in Runs : run'[u][m].pc = run[u][m].pc
    BY <1>3 DEF WorkerStep, ForwardQuestion, WriteResultMd, StrayExits, Asked, TypeOK
  <2>2. UNCHANGED <<entry, handed, taken, ledger, recovery>>
    BY <1>3 DEF WorkerStep, ForwardQuestion, WriteResultMd, StrayExits
  <2>3. \A m \in Runs : m \in worker'[u] \/ resultMd'[u] = m => m \in worker[u] \/ resultMd[u] = m
    BY <1>3 DEF WorkerStep, ForwardQuestion, WriteResultMd, StrayExits, TypeOK
  <2> QED
    BY <1>a, <2>1, <2>2, <2>3
<1>4. CASE CleanupOrphans
  <2>1. UNCHANGED <<entry, run, handed, taken, recovery, worker, resultMd>>
    BY <1>4 DEF CleanupOrphans
  <2>2. ledger'[u].run \in {0, ledger[u].run}
    BY <1>4 DEF CleanupOrphans, NoLedger
  <2> QED
    BY <1>a, <2>1, <2>2
<1>5. CASE UNCHANGED vars
  BY <1>a, <1>5 DEF vars
<1>6. CASE CrashStep
  BY <1>0, <1>6, CrashKnown
<1>7. CASE CancelAll
  BY <1>2, <1>7 DEF CancelAll
<1>8. ASSUME NEW t \in Tasks, ParentStep(t) \/ RecoveryStep(t) \/ Reconcile(t)
      PROVE  KnownTask(u)'
  <2>1. CASE Cancel(t)
    BY <1>2, <2>1 DEF Cancel
  <2>2. CASE ~Cancel(t) /\ t # u
    BY <1>1, <1>8, <2>2
  <2>3. CASE ~Cancel(t) /\ t = u
    BY <1>0, <1>8, <2>3, ParentKnown, RecoveryKnown, ReconcileKnown
  <2> QED
    BY <2>1, <2>2, <2>3
<1>9. ASSUME NEW t \in Tasks, NEW n \in Runs, RunStep(t, n) \/ WorkerStep(t, n)
      PROVE  KnownTask(u)'
  <2>1. CASE t # u
    BY <1>1, <1>9, <2>1
  <2>2. CASE t = u
    BY <1>0, <1>3, <1>9, <2>2, RunStepKnown
  <2> QED
    BY <2>1, <2>2
<1> QED
  BY <1>4, <1>5, <1>6, <1>7, <1>8, <1>9 DEF Next

\* What the parent has of a run, from its handler or by consuming it, recovery
\* (reconcile_task_state, _finalize_reconciled_result) brings again only of a task
\* that was resumed after that run.
THEOREM RecoveryBringsNews ==
  ASSUME Orderly
  PROVE  Spec => RecoveryIsNewUntilResumed
<1>1. Init => KnownInv
  <2> SUFFICES ASSUME Init, NEW t \in Tasks PROVE KnownTask(t)
    BY DEF KnownInv
  <2>1. /\ \A n \in Runs : run[t][n].pc = "none" /\ n # 0
        /\ handed[t] = {} /\ \A n \in Runs : taken[t][n] = 0
        /\ ledger[t].run = 0 /\ recovery[t].pc = "none" /\ resultMd[t] = 0 /\ worker[t] = {}
    BY DEF Init, NoRun, At, NoLedger, Idle, Runs
  <2> QED
    BY <2>1 DEF KnownTask, Left, Shown
<1>2. TypeOK /\ WorkInv /\ KnownInv /\ [Next]_vars => KnownInv'
  BY StepKnown DEF KnownInv
<1>3. ASSUME TypeOK, KnownInv, [Next]_vars
      PROVE  \A t \in Tasks, n \in Runs :
               /\ recovery[t].pc = "none" /\ recovery'[t] = [pc |-> "created", run |-> n]
               /\ n \in handed[t] \/ taken[t][n] # 0
               => ResumedSince(t, n)
  <2> SUFFICES ASSUME NEW t \in Tasks, NEW n \in Runs, recovery[t].pc = "none",
                      recovery'[t] = [pc |-> "created", run |-> n],
                      n \in handed[t] \/ taken[t][n] # 0
               PROVE  ResumedSince(t, n)
    OBVIOUS
  <2>0. recovery'[t].pc = "created"
    OBVIOUS
  <2>1. ASSUME recovery'[t] = recovery[t] PROVE FALSE
    BY <2>0, <2>1
  <2>2. ASSUME NEW u \in Tasks, ParentStep(u) \/ RecoveryStep(u)
        PROVE  FALSE
    <3>1. CASE ParentStep(u)
      BY <2>1, <3>1 DEF ParentStep, Submit, Resume, Cancel, CancelAmong, Delete, Consume
    <3>2. CASE RecoveryStep(u) /\ u # t
      BY <1>3, <2>1, <3>2, OthersUntouched DEF Untouched
    <3>3. CASE RecoveryStep(u) /\ u = t
      BY <3>3 DEF RecoveryStep, RecoveryStarts, RecoveryReturns, RecoveryRaises
    <3> QED
      BY <2>2, <3>1, <3>2, <3>3
  <2>3. ASSUME NEW u \in Tasks, NEW m \in Runs, RunStep(u, m) \/ WorkerStep(u, m)
        PROVE  FALSE
    <3>1. recovery' = recovery
      BY <2>3 DEF RunStep, CancelledBeforeStart, Start, Respond, Fail, Escape, Cancelled,
        CancelledReporting, HandlerReturns, HandlerRaises, FinishInflight,
        WorkerStep, ForwardQuestion, WriteResultMd, StrayExits
    <3> QED
      BY <2>1, <3>1
  <2>4. ~CrashStep
    BY <1>3, <2>0, CrashStatus
  <2>5. ~CancelAll /\ ~CleanupOrphans /\ ~UNCHANGED vars
    BY <2>1 DEF CancelAll, CancelAmong, CleanupOrphans, vars
  <2>6. PICK u \in Tasks : Reconcile(u)
    BY <1>3, <2>2, <2>3, <2>4, <2>5 DEF Next
  <2>7. u = t
    BY <1>3, <2>1, <2>6, OthersUntouched DEF Untouched
  <2>8. entry[t].status \in Open
    BY <1>3, <2>6, <2>7, ReconcileStatus DEF Unresolved, Open
  <2>9. Shown(t, n)
    BY DEF Shown
  <2> QED
    BY <1>3, <2>8, <2>9 DEF KnownInv, KnownTask
<1> QED
  BY <1>1, <1>2, <1>3, TypeCorrect, WorkHolds, PTL DEF Spec, RecoveryIsNewUntilResumed
=============================================================================
