------------------------ MODULE HostJobBridgeProofs ------------------------
(***************************************************************************)
(* Theorems about HostJobBridge, for any number of processes that call it,  *)
(* and, where a theorem does not say otherwise, for every environment.      *)
(***************************************************************************)
EXTENDS HostJobBridge, TLAPS

-----------------------------------------------------------------------------
(* Jobs and the puts that write them.                                       *)

Stages == {"none", "pending", "running"} \cup Final

LEMMA JobFields ==
  ASSUME NEW job \in Job
  PROVE  /\ job.job \in Stages /\ job.step \in Stages
         /\ job.pid \in BOOLEAN /\ job.code \in Codes
BY DEF Job, Stages

LEMMA JobBuilt ==
  ASSUME NEW j \in Stages, NEW s \in Stages, NEW b \in BOOLEAN, NEW c \in Codes
  PROVE  [job |-> j, step |-> s, pid |-> b, code |-> c] \in Job
BY DEF Job, Stages

\* A job with one of its states changed, by its fields.
LEMMA JobChanged ==
  ASSUME NEW job \in Job, NEW j \in Stages
  PROVE  /\ [job EXCEPT !.job = j] \in Job
         /\ [job EXCEPT !.job = j].job = j
         /\ [job EXCEPT !.job = j].step = job.step
         /\ [job EXCEPT !.job = j].pid = job.pid
         /\ [job EXCEPT !.job = j].code = job.code
BY DEF Job, Stages

\* What a put leaves: job from either side, the rest from one of them.
LEMMA MergeFields ==
  ASSUME NEW old \in Job, NEW new \in Job
  PROVE  /\ Merge(old, new) \in Job
         /\ Merge(old, new).job \in {old.job, new.job}
         /\ \E one \in {old, new} : /\ Merge(old, new).step = one.step
                                    /\ Merge(old, new).pid = one.pid
                                    /\ Merge(old, new).code = one.code
<1> DEFINE one == IF old.step \in Final THEN old ELSE new
           j   == IF \/ old.job \in Final
                     \/ (old.job = "running" /\ new.job = "pending")
                  THEN old.job ELSE new.job
<1>1. Merge(old, new) = [one EXCEPT !.job = j]
  BY DEF Merge
<1>2. one \in Job /\ one \in {old, new} /\ j \in {old.job, new.job} /\ j \in Stages
  BY JobFields
<1> HIDE DEF one, j
<1>3. /\ Merge(old, new) \in Job /\ Merge(old, new).job = j
      /\ Merge(old, new).step = one.step /\ Merge(old, new).pid = one.pid
      /\ Merge(old, new).code = one.code
  BY <1>1, <1>2, JobChanged
<1> QED
  BY <1>2, <1>3

LEMMA MergeTyped ==
  ASSUME NEW old \in Job, NEW new \in Job
  PROVE  Merge(old, new) \in Job
BY MergeFields

LEMMA HalfFields ==
  ASSUME NEW old \in Job, NEW new \in Job
  PROVE  /\ Half(old, new) \in Job
         /\ Half(old, new).job = new.job /\ Half(old, new).step = old.step
         /\ Half(old, new).pid = old.pid /\ Half(old, new).code = old.code
BY JobFields, JobChanged DEF Half

LEMMA KnownJobs ==
  /\ NoJob \in Job /\ Fresh \in Job /\ Noted \in Job
  /\ [NoJob EXCEPT !.job = "pending"] \in Job
BY DEF NoJob, Fresh, Noted, Job, Final, Codes

-----------------------------------------------------------------------------
(* Types.  A call that is about to answer has a final state in hand.        *)

Calls  == [at : Locked \cup {"idle", "waiting"},
           seen : {"none", "vanished", "unknown", "stalled"}, save : Job]
Owners == [at : Awaits \cup {"beginning", "launching", "noting", "recording", "closing"},
           save : Job]
Shells == [at : {"none", "alive", "wrote", "over"}, parent : Processes \cup {NoOne},
           code : Codes]
Intents == [state : {"missing", "pending", "dispatched"},
            review : Reasons \cup {"none"}, quiet : {"none", "unknown", "confirmed"}]

Holding == {"answering", "unlinked", "consumed"}
InHand  == \A p \in Processes : main[p].at \in Holding => main[p].save.job \in Final

TypeInv == TypeOK /\ InHand

LEMMA TypeParts ==
  ASSUME TypeOK
  PROVE  /\ intent \in Intents /\ file \in Job /\ exit \in Codes
         /\ inbox \in {"none", "pending", "consumed"}
         /\ main \in [Processes -> Calls] /\ owner \in [Processes -> Owners]
         /\ worker \in Shells
         /\ busy \in Work /\ launches \in 0 .. 2 /\ answers \subseteq Final /\ handed \in 0 .. 2
BY DEF TypeOK, Intents, Calls, Owners, Shells

Places == Awaits \cup {"beginning", "launching", "noting", "recording", "closing"}

LEMMA OwnerMoves ==
  ASSUME NEW f \in [Processes -> Owners], NEW p \in Processes, NEW a \in Places, NEW j \in Job
  PROVE  [f EXCEPT ![p] = [at |-> a, save |-> j]] \in [Processes -> Owners]
BY DEF Owners, Places

LEMMA GoesFields ==
  ASSUME TypeOK, NEW p \in Processes, NEW a \in Locked \cup {"idle", "waiting"}, Goes(p, a)
  PROVE  /\ main' \in [Processes -> Calls]
         /\ main'[p].at = a /\ main'[p].save = main[p].save
         /\ \A q \in Processes \ {p} : main'[q] = main[q]
BY TypeParts DEF Goes, Calls

LEMMA OwnerGoesFields ==
  ASSUME TypeOK, NEW p \in Processes, NEW a \in Places, OwnerGoes(p, a)
  PROVE  /\ owner' \in [Processes -> Owners]
         /\ owner'[p].at = a /\ owner'[p].save = owner[p].save
         /\ \A q \in Processes \ {p} : owner'[q] = owner[q]
BY TypeParts DEF OwnerGoes, Owners, Places

LEMMA OwnerGoneFields ==
  ASSUME TypeOK, NEW p \in Processes, owner' = [owner EXCEPT ![p] = Away]
  PROVE  /\ owner' \in [Processes -> Owners]
         /\ owner'[p] = Away /\ Away.at = "none" /\ Away.save = NoJob
         /\ \A q \in Processes \ {p} : owner'[q] = owner[q]
BY TypeParts, KnownJobs DEF Owners, Away, Awaits

LEMMA IdleTyped == Idle \in Calls /\ Idle.at = "idle" /\ Idle.save = NoJob
BY KnownJobs DEF Idle, Calls

LEMMA LeavesTyped ==
  ASSUME TypeOK, NEW p \in Processes, NEW kills \in BOOLEAN, LeavesShell(p, kills)
  PROVE  worker' \in Shells
<1>1. worker \in Shells
  BY TypeParts
<1>2. CASE worker.parent # p
  BY <1>1, <1>2 DEF LeavesShell
<1>3. CASE worker.parent = p
  <2> DEFINE a == IF kills THEN "over" ELSE worker.at
             c == IF kills /\ worker.at = "alive" THEN "other" ELSE worker.code
  <2>1. a \in {"none", "alive", "wrote", "over"} /\ c \in Codes
    BY <1>1 DEF Shells, Codes
  <2>2. worker' = [worker EXCEPT !.parent = NoOne, !.at = a, !.code = c]
    BY <1>3 DEF LeavesShell
  <2> HIDE DEF a, c
  <2> QED
    BY <1>1, <2>1, <2>2 DEF Shells
<1> QED
  BY <1>2, <1>3

LEMMA OutcomeTyped ==
  ASSUME TypeOK
  PROVE  Outcome \in Job /\ [Outcome EXCEPT !.job = StateOf(worker.code)] \in Job
<1>1. worker.code \in Codes
  BY TypeParts DEF Shells
<1> QED
  BY <1>1 DEF Outcome, Noted, StateOf, Job, Final

LEMMA ReconciledTyped ==
  ASSUME TypeOK
  PROVE  Reconciled \in Job
BY TypeParts DEF Reconciled, StateOf, Job, Final

LEMMA BegunTyped ==
  ASSUME NEW job \in Job
  PROVE  /\ [job EXCEPT !.job = "running", !.step = "running"] \in Job
         /\ [job EXCEPT !.job = "failed", !.step = "failed"] \in Job
BY DEF Job, Final

LEMMA TypeInit == Init => TypeInv
<1> SUFFICES ASSUME Init PROVE TypeInv
  OBVIOUS
<1>1. Idle \in Calls /\ Away \in Owners /\ NoJob \in Job
  BY KnownJobs, IdleTyped DEF Away, Owners, Awaits
<1>2. main \in [Processes -> Calls] /\ owner \in [Processes -> Owners]
  BY <1>1 DEF Init
<1>3. TypeOK
  <2>1. worker \in Shells /\ intent \in Intents
    BY DEF Init, Shells, Intents, Codes
  <2>2. file \in Job /\ exit \in Codes /\ inbox \in {"none", "pending", "consumed"}
    BY <1>1 DEF Init, Codes
  <2>3. launches \in 0 .. 2 /\ answers \subseteq Final /\ handed \in 0 .. 2
    BY DEF Init
  <2>4. busy \in Work
    BY DEF Init, Work
  <2> QED
    BY <1>2, <2>1, <2>2, <2>3, <2>4 DEF TypeOK, Calls, Owners, Shells, Intents
<1>4. InHand
  BY DEF Init, InHand, Idle, Holding
<1> QED
  BY <1>3, <1>4 DEF TypeInv

\* What TypeOK says, from the parts.
LEMMA TypeWhole ==
  ASSUME intent' \in Intents, file' \in Job, exit' \in Codes,
         inbox' \in {"none", "pending", "consumed"},
         main' \in [Processes -> Calls], owner' \in [Processes -> Owners],
         worker' \in Shells, busy' \in Work, launches' \in 0 .. 2,
         answers' \subseteq Final, handed' \in 0 .. 2
  PROVE  TypeOK'
BY DEF TypeOK, Intents, Calls, Owners, Shells

LEMMA ShellTypes ==
  ASSUME TypeInv, Shell
  PROVE  TypeInv'
<1> USE TypeParts DEF TypeInv
<1>1. worker' \in Shells /\ exit' \in Codes /\ busy' \in Work
  BY DEF Shell, CommandEnds, ShellExits, ShellKilled, ChildrenEnd, Shells, Codes, Work, disk
<1>2. UNCHANGED <<intent, file, inbox, main, owner, launches, told>>
  BY DEF Shell, CommandEnds, ShellExits, ShellKilled, ChildrenEnd, disk
<1>3. TypeOK'
  BY <1>1, <1>2, TypeWhole DEF told
<1> QED
  BY <1>2, <1>3 DEF InHand

LEMMA OwnerTypes ==
  ASSUME TypeInv, NEW p \in Processes, Owner(p)
  PROVE  TypeInv'
<1> USE TypeParts DEF TypeInv
<1>0. UNCHANGED <<intent, inbox, main, told>>
  BY DEF Owner, OwnerBegins, OwnerNotes, OwnerReaps, OwnerRecords, OwnerFinalizes, Launch,
         LaunchFails, OwnerWrites, disk, shell, told
<1>1. owner[p].save \in Job /\ worker.code \in Codes
  BY DEF Owners, Shells
<1> SUFFICES /\ file' \in Job /\ exit' \in Codes /\ owner' \in [Processes -> Owners]
             /\ worker' \in Shells /\ busy' \in Work /\ launches' \in 0 .. 2
  BY <1>0, TypeWhole DEF told, InHand
<1>2. CASE OwnerBegins(p)
  <2>1. Merge(file, [file EXCEPT !.job = "running", !.step = "running"]) \in Job
    BY BegunTyped, MergeTyped
  <2> QED
    BY <1>2, <2>1, OwnerMoves, OwnerGoneFields DEF OwnerBegins, disk, shell, Places
<1>3. CASE OwnerNotes(p)
  BY <1>3, KnownJobs, MergeTyped, OwnerMoves DEF Places, OwnerNotes, disk, shell
<1>4. CASE OwnerReaps(p)
  <2>1. owner' \in [Processes -> Owners]
    BY <1>4, OwnerGoesFields DEF OwnerReaps, Places, Awaits
  <2> QED
    BY <1>4, <2>1 DEF OwnerReaps, disk, Shells
<1>5. CASE OwnerRecords(p)
  BY <1>1, <1>5, OutcomeTyped, MergeTyped, OwnerMoves DEF Places, OwnerRecords, shell
<1>6. CASE OwnerFinalizes(p)
  <2>1. file' = owner[p].save /\ file' \in Job
    BY <1>1, <1>6 DEF OwnerFinalizes
  <2>2. Merge(file', [Outcome EXCEPT !.job = StateOf(worker.code)]) \in Job
    BY <2>1, OutcomeTyped, MergeTyped
  <2> QED
    BY <1>6, <2>1, <2>2, OwnerMoves DEF Places, OwnerFinalizes, shell
<1>7. CASE Launch(p)
  <2>1. owner' \in [Processes -> Owners]
    BY <1>7, OwnerGoesFields DEF Launch, Places, Awaits
  <2>2. worker' \in Shells
    BY <1>7 DEF Launch, Shells, Codes
  <2> QED
    BY <1>7, <2>1, <2>2 DEF Launch, Work, disk
<1>8. CASE LaunchFails(p)
  BY <1>8, OwnerGoneFields DEF LaunchFails, disk, shell
<1>9. ASSUME NEW from, NEW to \in Places, OwnerWrites(p, from, to)
      PROVE  /\ file' \in Job /\ exit' \in Codes /\ owner' \in [Processes -> Owners]
             /\ worker' \in Shells /\ busy' \in Work /\ launches' \in 0 .. 2
  BY <1>1, <1>9, OwnerGoesFields DEF OwnerWrites, shell
<1>10. "launching" \in Places /\ "waiting" \in Places /\ "none" \in Places
  BY DEF Places, Awaits
<1> QED
  BY <1>2, <1>3, <1>4, <1>5, <1>6, <1>7, <1>8, <1>9, <1>10 DEF Owner

LEMMA LeavesFields ==
  ASSUME TypeOK, NEW p \in Processes, Leaves(p)
  PROVE  /\ main' \in [Processes -> Calls] /\ main'[p] = Idle
         /\ \A q \in Processes \ {p} : main'[q] = main[q]
         /\ owner' \in [Processes -> Owners] /\ owner'[p] = Away
         /\ \A q \in Processes \ {p} : owner'[q] = owner[q]
         /\ worker' \in Shells
<1>1. (owner[p].at = "started") \in BOOLEAN
  BY Zenon
<1>2. worker' \in Shells
  BY <1>1, LeavesTyped DEF Leaves
<1> QED
  BY <1>2, TypeParts, IdleTyped, OwnerGoneFields DEF Leaves

\* A call that takes a step with a job in hand.
LEMMA TakesFields ==
  ASSUME TypeOK, NEW p \in Processes, NEW a \in Locked \cup {"idle", "waiting"}, NEW j \in Job,
         Takes(p, a, j)
  PROVE  /\ main' \in [Processes -> Calls]
         /\ main'[p].at = a /\ main'[p].save = j
         /\ \A q \in Processes \ {p} : main'[q] = main[q]
BY TypeParts DEF Takes, Calls

LEMMA IdlesFields ==
  ASSUME TypeOK, NEW p \in Processes, main' = [main EXCEPT ![p] = Idle]
  PROVE  /\ main' \in [Processes -> Calls] /\ main'[p] = Idle
         /\ \A q \in Processes \ {p} : main'[q] = main[q]
BY TypeParts, IdleTyped

\* The calls of other processes, and a step of p that leaves it with the
\* final state in hand or without need of one.
LEMMA InHandStep ==
  ASSUME InHand, NEW p \in Processes, \A q \in Processes \ {p} : main'[q] = main[q],
         main'[p].at \in Holding => main'[p].save.job \in Final
  PROVE  InHand'
BY DEF InHand

LEMMA StartTypes ==
  ASSUME TypeInv, NEW p \in Processes,
         Run(p) \/ EnsureJob(p) \/ Dispatch(p) \/ Wait(p) \/ TimesOut(p)
  PROVE  TypeInv'
<1> USE TypeParts DEF TypeInv
<1>1. /\ UNCHANGED <<exit, inbox, busy, launches, answers, handed>>
      /\ file' \in Job /\ intent' \in Intents
  BY KnownJobs DEF Run, EnsureJob, Dispatch, Wait, TimesOut, disk, shell, told, Intents
<1>2. /\ main' \in [Processes -> Calls] /\ \A q \in Processes \ {p} : main'[q] = main[q]
      /\ main'[p].at \notin Holding
  <2>1. CASE Run(p)
    <3>1. CASE Goes(p, "preparing")
      BY <3>1, GoesFields DEF Locked, Holding
    <3>2. CASE Goes(p, "waiting")
      BY <3>2, GoesFields DEF Holding
    <3> QED
      BY <2>1, <3>1, <3>2 DEF Run
  <2>2. CASE EnsureJob(p)
    BY <2>2, GoesFields DEF EnsureJob, Locked, Holding
  <2>3. CASE Dispatch(p)
    BY <2>3, GoesFields DEF Dispatch, Holding
  <2>4. CASE Wait(p)
    BY <2>4, GoesFields DEF Wait, Holding
  <2>5. CASE TimesOut(p)
    BY <2>5, LeavesFields, IdleTyped DEF TimesOut, Holding
  <2> QED
    BY <2>1, <2>2, <2>3, <2>4, <2>5
<1>3. owner' \in [Processes -> Owners] /\ worker' \in Shells
  <2>1. CASE Dispatch(p)
    BY <2>1, OwnerGoesFields DEF Dispatch, shell, Places, Awaits
  <2>2. CASE TimesOut(p)
    BY <2>2, LeavesFields DEF TimesOut
  <2>3. CASE Run(p) \/ EnsureJob(p) \/ Wait(p)
    BY <2>3 DEF Run, EnsureJob, Wait, shell
  <2> QED
    BY <2>1, <2>2, <2>3
<1>4. TypeOK'
  BY <1>1, <1>2, <1>3, TypeWhole
<1> QED
  BY <1>2, <1>4, InHandStep

LEMMA ReviewedTyped ==
  ASSUME TypeOK, NEW reason \in Reasons
  PROVE  Reviewed(reason) \in Reasons
BY TypeParts DEF Reviewed, Intents

LEMMA IntentMoves ==
  ASSUME NEW i \in Intents, NEW r \in Reasons \cup {"none"}, NEW q \in {"none", "unknown", "confirmed"}
  PROVE  /\ [i EXCEPT !.review = r, !.quiet = q] \in Intents
         /\ [i EXCEPT !.quiet = q, !.review = r] \in Intents
         /\ [i EXCEPT !.review = r] \in Intents
BY DEF Intents

LEMMA TurnTypes ==
  ASSUME TypeInv, NEW p \in Processes, Turn(p)
  PROVE  TypeInv'
<1> USE TypeParts DEF TypeInv
<1>1. UNCHANGED <<exit, busy, launches, handed>> /\ inbox' \in {"none", "pending", "consumed"}
  BY DEF Turn, Reconcile, ReconcileFinalizes, MainWrites, LooksTerminal, Answer, LooksReviewed,
         Observe, Bury, MarkGone, MarkReview, disk, shell, told
<1>2. main[p].save \in Job /\ main[p].save.step \in Stages
  BY JobFields DEF Calls
<1> SUFFICES /\ intent' \in Intents /\ file' \in Job /\ answers' \subseteq Final
             /\ owner' \in [Processes -> Owners] /\ worker' \in Shells
             /\ main' \in [Processes -> Calls]
             /\ \A q \in Processes \ {p} : main'[q] = main[q]
             /\ main'[p].at \in Holding => main'[p].save.job \in Final
  BY <1>1, TypeWhole, InHandStep
<1>3. CASE Reconcile(p)
  <2>1. Merge(file, Reconciled) \in Job
    BY ReconciledTyped, MergeTyped
  <2> QED
    BY <1>3, <2>1, TakesFields DEF Reconcile, disk, shell, told, Locked, Holding
<1>4. CASE ReconcileFinalizes(p)
  <2>1. file' \in Job /\ file' = main[p].save
    BY <1>2, <1>4 DEF ReconcileFinalizes
  <2>2. Merge(file', [main[p].save EXCEPT !.job = main[p].save.step]) \in Job
    BY <1>2, <2>1, JobChanged, MergeTyped
  <2> QED
    BY <1>4, <2>1, <2>2, TakesFields DEF ReconcileFinalizes, shell, told, Locked, Holding
<1>5. ASSUME NEW from, NEW to \in {"looking", "marking"}, MainWrites(p, from, to)
      PROVE  /\ intent' \in Intents /\ file' \in Job /\ answers' \subseteq Final
             /\ owner' \in [Processes -> Owners] /\ worker' \in Shells
             /\ main' \in [Processes -> Calls]
             /\ \A q \in Processes \ {p} : main'[q] = main[q]
             /\ main'[p].at \in Holding => main'[p].save.job \in Final
  BY <1>2, <1>5, GoesFields DEF MainWrites, shell, told, Locked, Holding
<1>6. CASE LooksTerminal(p)
  <2>1. Reviewed("unconfirmed_terminal") \in Reasons
    BY ReviewedTyped DEF Reasons
  <2>2. intent' \in Intents
    BY <1>6, <2>1, IntentMoves DEF LooksTerminal
  <2> QED
    BY <1>6, <2>2, TakesFields DEF LooksTerminal, shell, told, Locked, Holding
<1>7. CASE Answer(p)
  <2>1. main[p].save.job \in Final
    BY <1>7 DEF Answer, At, InHand, Holding
  <2> QED
    BY <1>7, <2>1, LeavesFields, IdleTyped DEF Answer, Holding
<1>8. CASE LooksReviewed(p)
  BY <1>8, LeavesFields, IdleTyped DEF LooksReviewed, disk, told, Holding
<1>9. CASE Observe(p)
  <2> DEFINE s == IF WorkerOutcome = "running" THEN "none" ELSE WorkerOutcome
  <2>1. s \in {"none", "vanished", "unknown", "stalled"}
    BY DEF WorkerOutcome
  <2>2. main' = [main EXCEPT ![p].at = "waiting", ![p].seen = s]
    BY <1>9 DEF Observe
  <2> HIDE DEF s
  <2>3. /\ main' \in [Processes -> Calls]
        /\ main'[p].at = "waiting" /\ \A q \in Processes \ {p} : main'[q] = main[q]
    BY <2>1, <2>2 DEF Calls
  <2> QED
    BY <1>9, <2>3 DEF Observe, disk, shell, told, Holding
<1>10. CASE Bury(p)
  <2>1. Merge(file, [file EXCEPT !.job = "failed", !.step = "failed"]) \in Job
    BY BegunTyped, MergeTyped
  <2> QED
    BY <1>10, <2>1, TakesFields DEF Bury, disk, shell, told, Locked, Holding
<1>11. CASE MarkGone(p)
  <2>1. Reviewed("wrapper_gone") \in Reasons
    BY ReviewedTyped DEF Reasons
  <2>2. intent' \in Intents
    BY <1>11, <2>1, IntentMoves DEF MarkGone
  <2> QED
    BY <1>11, <2>2, GoesFields DEF MarkGone, shell, told, Holding
<1>12. CASE MarkReview(p)
  <2>1. intent' \in Intents
    BY <1>12 DEF MarkReview, Reasons, Intents
  <2> QED
    BY <1>12, <2>1, GoesFields DEF MarkReview, shell, told, Holding
<1> QED
  BY <1>3, <1>4, <1>5, <1>6, <1>7, <1>8, <1>9, <1>10, <1>11, <1>12 DEF Turn

LEMMA ConsumeTypes ==
  ASSUME TypeInv, NEW p \in Processes, Consume(p) \/ ConsumeMarks(p) \/ ConsumeAnswers(p)
  PROVE  TypeInv'
<1> USE TypeParts DEF TypeInv
<1> SUFFICES /\ inbox' \in {"none", "pending", "consumed"} /\ handed' \in 0 .. 2
             /\ answers' \subseteq Final
             /\ UNCHANGED <<intent, file, exit, owner, worker, busy, launches>>
             /\ main' \in [Processes -> Calls]
             /\ \A q \in Processes \ {p} : main'[q] = main[q]
             /\ main'[p].at \in Holding => main'[p].save.job \in Final
  BY TypeWhole, InHandStep
<1>1. CASE Consume(p)
  BY <1>1, TakesFields DEF Consume, Consumable, shell, told, Locked
<1>2. CASE ConsumeMarks(p)
  <2>1. main[p].save.job \in Final
    BY <1>2 DEF ConsumeMarks, At, InHand, Holding
  <2> QED
    BY <1>2, <2>1, GoesFields DEF ConsumeMarks, shell, told, Locked
<1>3. CASE ConsumeAnswers(p)
  <2>1. main[p].save.job \in Final
    BY <1>3 DEF ConsumeAnswers, At, InHand, Holding
  <2> QED
    BY <1>3, <2>1, IdlesFields, IdleTyped DEF ConsumeAnswers, disk, shell, Holding
<1> QED
  BY <1>1, <1>2, <1>3

\* What a death in the middle of a put leaves of the job.
LEMMA CrashFile ==
  ASSUME TypeOK, NEW p \in Processes, Crash(p)
  PROVE  \/ file' = file
         \/ file' = [NoJob EXCEPT !.job = "pending"]
         \/ \E new \in {main[p].save, owner[p].save} : new \in Job /\ file' = Half(file, new)
BY TypeParts DEF Crash, Calls, Owners

LEMMA CrashTypes ==
  ASSUME TypeInv, NEW p \in Processes, Crash(p)
  PROVE  TypeInv'
<1> USE TypeParts DEF TypeInv
<1>1. file' \in Job
  BY CrashFile, KnownJobs, HalfFields
<1>2. /\ main' \in [Processes -> Calls] /\ main'[p] = Idle
      /\ \A q \in Processes \ {p} : main'[q] = main[q]
  BY IdlesFields DEF Crash
<1>3. owner' \in [Processes -> Owners]
  BY OwnerGoneFields DEF Crash
<1>4. worker' \in Shells
  BY LeavesTyped DEF Crash
<1>5. exit' \in Codes
  BY DEF Crash, Codes
<1>6. TypeOK'
  BY <1>1, <1>2, <1>3, <1>4, <1>5, TypeWhole DEF Crash, told
<1> QED
  BY <1>2, <1>6, IdleTyped, InHandStep DEF Holding

LEMMA Typed == Spec => []TypeInv
<1>1. TypeInv /\ [Next]_vars => TypeInv'
  <2> SUFFICES ASSUME TypeInv, [Next]_vars PROVE TypeInv'
    OBVIOUS
  <2>1. CASE UNCHANGED vars
    BY <2>1 DEF vars, disk, shell, told, TypeInv, TypeOK, InHand
  <2>2. CASE Next
    BY <2>2, ShellTypes, OwnerTypes, StartTypes, TurnTypes, ConsumeTypes, CrashTypes DEF Next, Call
  <2> QED
    BY <2>1, <2>2
<1> QED
  BY <1>1, TypeInit, PTL DEF Spec

\* The types of the state, for every environment.
THEOREM BridgeTypes == Spec => []TypeOK
<1>1. TypeInv => TypeOK
  BY DEF TypeInv
<1> QED
  BY <1>1, Typed, PTL

-----------------------------------------------------------------------------
(* What a step of one process does not touch.                               *)

LEMMA TurnMain ==
  ASSUME TypeInv, NEW p \in Processes, Turn(p)
  PROVE  /\ \A q \in Processes \ {p} : main'[q] = main[q] /\ owner'[q] = owner[q]
         /\ main'[p].at \in Locked => main[p].at \in Locked \/ Free
         /\ main'[p].at \notin {"preparing", "prepared", "unlinked", "consumed"}
         /\ owner'[p] = owner[p] \/ owner'[p] = Away
<1> USE TypeParts DEF TypeInv
<1>1. CASE Reconcile(p)
  <2>1. Merge(file, Reconciled) \in Job
    BY ReconciledTyped, MergeTyped
  <2> QED
    BY <1>1, <2>1, TakesFields DEF Reconcile, Locked
<1>2. CASE ReconcileFinalizes(p)
  <2>1. main[p].save \in Job /\ main[p].save.step \in Stages /\ file' = main[p].save
    BY <1>2, JobFields DEF ReconcileFinalizes, Calls
  <2>2. Merge(file', [main[p].save EXCEPT !.job = main[p].save.step]) \in Job
    BY <2>1, JobChanged, MergeTyped
  <2> QED
    BY <1>2, <2>2, TakesFields DEF ReconcileFinalizes, At, Locked
<1>3. ASSUME NEW from \in Locked, NEW to \in {"looking", "marking"}, MainWrites(p, from, to)
      PROVE  /\ \A q \in Processes \ {p} : main'[q] = main[q] /\ owner'[q] = owner[q]
             /\ main'[p].at \in Locked => main[p].at \in Locked \/ Free
             /\ main'[p].at \notin {"preparing", "prepared", "unlinked", "consumed"}
             /\ owner'[p] = owner[p] \/ owner'[p] = Away
  BY <1>3, GoesFields DEF MainWrites, At, Locked
<1>4. CASE LooksTerminal(p)
  BY <1>4, TakesFields DEF LooksTerminal, Looks, At, Locked
<1>5. CASE Answer(p) \/ LooksReviewed(p)
  BY <1>5, LeavesFields, IdleTyped DEF Answer, LooksReviewed, Locked
<1>6. CASE Observe(p)
  <2> DEFINE s == IF WorkerOutcome = "running" THEN "none" ELSE WorkerOutcome
  <2>1. main' = [main EXCEPT ![p].at = "waiting", ![p].seen = s] /\ UNCHANGED owner
    BY <1>6 DEF Observe
  <2> HIDE DEF s
  <2> QED
    BY <2>1 DEF Calls, Locked
<1>7. CASE Bury(p)
  <2>1. Merge(file, [file EXCEPT !.job = "failed", !.step = "failed"]) \in Job
    BY BegunTyped, MergeTyped
  <2> QED
    BY <1>7, <2>1, TakesFields DEF Bury, Overdue, LooksOn, Looking, Looks, At, Locked
<1>8. CASE MarkGone(p) \/ MarkReview(p)
  BY <1>8, GoesFields DEF MarkGone, MarkReview, Locked
<1>9. "finalizing" \in Locked /\ "burying" \in Locked
  BY DEF Locked
<1> QED
  BY <1>1, <1>2, <1>3, <1>4, <1>5, <1>6, <1>7, <1>8, <1>9 DEF Turn

LEMMA StartMain ==
  ASSUME TypeInv, NEW p \in Processes,
         Run(p) \/ EnsureJob(p) \/ Dispatch(p) \/ Wait(p) \/ TimesOut(p)
  PROVE  /\ \A q \in Processes \ {p} : main'[q] = main[q] /\ owner'[q] = owner[q]
         /\ main'[p].at \in Locked => main[p].at \in Locked \/ Free
         /\ main'[p].at \notin {"unlinked", "consumed"}
         /\ main'[p].save \in {main[p].save, NoJob}
<1> USE TypeParts DEF TypeInv
<1>1. CASE Run(p)
  <2>1. CASE Goes(p, "preparing")
    BY <1>1, <2>1, GoesFields DEF Run, Locked
  <2>2. CASE Goes(p, "waiting")
    BY <1>1, <2>2, GoesFields DEF Run, Locked
  <2> QED
    BY <1>1, <2>1, <2>2 DEF Run
<1>2. CASE EnsureJob(p)
  BY <1>2, GoesFields DEF EnsureJob, At, Locked
<1>3. CASE Dispatch(p)
  BY <1>3, GoesFields, OwnerGoesFields DEF Dispatch, Locked, Places, Awaits
<1>4. CASE Wait(p)
  BY <1>4, GoesFields DEF Wait, Locked
<1>5. CASE TimesOut(p)
  BY <1>5, LeavesFields, IdleTyped DEF TimesOut, Locked
<1> QED
  BY <1>1, <1>2, <1>3, <1>4, <1>5

LEMMA OwnerMain ==
  ASSUME TypeInv, NEW p \in Processes, Owner(p)
  PROVE  /\ UNCHANGED <<intent, inbox, main, told>>
         /\ \A q \in Processes \ {p} : owner'[q] = owner[q]
<1> USE TypeParts DEF TypeInv
<1>1. UNCHANGED <<intent, inbox, main, told>>
  BY DEF Owner, OwnerBegins, OwnerNotes, OwnerReaps, OwnerRecords, OwnerFinalizes, Launch,
         LaunchFails, OwnerWrites, disk, shell, told
<1>2. \A q \in Processes \ {p} : owner'[q] = owner[q]
  BY DEF Owner, OwnerBegins, OwnerNotes, OwnerReaps, OwnerRecords, OwnerFinalizes, Launch,
         LaunchFails, OwnerWrites, OwnerGoes
<1> QED
  BY <1>1, <1>2

LEMMA CrashMain ==
  ASSUME TypeInv, NEW p \in Processes, Crash(p)
  PROVE  /\ main'[p] = Idle /\ owner'[p] = Away
         /\ \A q \in Processes \ {p} : main'[q] = main[q] /\ owner'[q] = owner[q]
BY TypeParts, IdlesFields, OwnerGoneFields DEF Crash, TypeInv

-----------------------------------------------------------------------------
(* The event is handed out once: the lock has one holder, and after the      *)
(* item is marked, nobody is on the way to hand it out but the one who       *)
(* marked it.                                                               *)

OneHolder == \A p, q \in Processes : main[p].at \in Locked /\ main[q].at \in Locked => p = q

HandInv ==
  /\ OneHolder
  /\ handed \in {0, 1}
  /\ handed = 1 => inbox = "consumed"
  /\ \A p \in Processes :
       /\ main[p].at = "consumed" => inbox = "consumed"
       /\ main[p].at \in {"unlinked", "consumed"} => handed = 0

LEMMA OneHolderStep ==
  ASSUME OneHolder, NEW p \in Processes, \A q \in Processes \ {p} : main'[q] = main[q],
         main'[p].at \in Locked => main[p].at \in Locked \/ Free
  PROVE  OneHolder'
BY DEF OneHolder, Free

\* A step of p that is not one of consume.
LEMMA HandedElsewhere ==
  ASSUME HandInv, NEW p \in Processes, \A q \in Processes \ {p} : main'[q] = main[q],
         main'[p].at \in Locked => main[p].at \in Locked \/ Free,
         main'[p].at \notin {"unlinked", "consumed"},
         inbox' = inbox \/ inbox # "consumed", handed' = handed,
         inbox' # inbox => main[p].at \in Locked
  PROVE  HandInv'
<1>1. OneHolder'
  BY OneHolderStep DEF HandInv
<1> QED
  BY <1>1 DEF HandInv

LEMMA ConsumeHands ==
  ASSUME TypeInv, HandInv, NEW p \in Processes,
         Consume(p) \/ ConsumeMarks(p) \/ ConsumeAnswers(p)
  PROVE  HandInv'
<1> USE TypeParts DEF TypeInv
<1>1. CASE Consume(p)
  <2>1. /\ main'[p].at = "unlinked" /\ \A q \in Processes \ {p} : main'[q] = main[q]
        /\ Free /\ inbox # "consumed" /\ inbox' = "none" /\ handed' = handed
    BY <1>1, TakesFields DEF Consume, Consumable, told, Locked
  <2>2. OneHolder'
    BY <2>1, OneHolderStep DEF HandInv
  <2> QED
    BY <2>1, <2>2 DEF HandInv, Free, Locked
<1>2. CASE ConsumeMarks(p)
  <2>1. /\ main'[p].at = "consumed" /\ \A q \in Processes \ {p} : main'[q] = main[q]
        /\ main[p].at = "unlinked" /\ inbox' = "consumed" /\ handed' = handed
    BY <1>2, GoesFields DEF ConsumeMarks, At, told, Locked
  <2>2. OneHolder'
    BY <2>1, OneHolderStep DEF HandInv, Locked
  <2> QED
    BY <2>1, <2>2 DEF HandInv
<1>3. CASE ConsumeAnswers(p)
  <2>1. /\ main'[p].at = "idle" /\ \A q \in Processes \ {p} : main'[q] = main[q]
        /\ main[p].at = "consumed" /\ inbox' = inbox /\ handed' = handed + 1
    BY <1>3, IdlesFields, IdleTyped DEF ConsumeAnswers, At, disk
  <2>2. OneHolder'
    BY <2>1, OneHolderStep DEF HandInv, Locked
  <2>3. \A q \in Processes \ {p} : main[q].at \notin Locked
    BY <2>1 DEF HandInv, OneHolder, Locked
  <2> QED
    BY <2>1, <2>2, <2>3 DEF HandInv, Locked
<1> QED
  BY <1>1, <1>2, <1>3

LEMMA HandNext ==
  ASSUME TypeInv, HandInv, [Next]_vars
  PROVE  HandInv'
<1>1. CASE Shell \/ UNCHANGED vars
  BY <1>1 DEF vars, Shell, CommandEnds, ShellExits, ShellKilled, ChildrenEnd, disk, told,
              HandInv, OneHolder
<1>2. ASSUME NEW p \in Processes, Owner(p)
      PROVE  HandInv'
  BY <1>2, OwnerMain DEF told, HandInv, OneHolder
<1>3. ASSUME NEW p \in Processes, Crash(p)
      PROVE  HandInv'
  <2>1. UNCHANGED <<inbox, handed>>
    BY <1>3 DEF Crash, told
  <2> QED
    BY <1>3, <2>1, CrashMain, IdleTyped, HandedElsewhere DEF Locked
<1>4. ASSUME NEW p \in Processes,
             Run(p) \/ EnsureJob(p) \/ Dispatch(p) \/ Wait(p) \/ TimesOut(p)
      PROVE  HandInv'
  <2>1. UNCHANGED <<inbox, handed>>
    BY <1>4 DEF Run, EnsureJob, Dispatch, Wait, TimesOut, disk, told
  <2> QED
    BY <1>4, <2>1, StartMain, HandedElsewhere
<1>5. ASSUME NEW p \in Processes, Turn(p)
      PROVE  HandInv'
  <2>1. CASE Answer(p)
    <3>1. inbox' # inbox => inbox = "none" /\ main[p].at \in Locked
      BY <2>1 DEF Answer, At, Locked
    <3> QED
      BY <1>5, <2>1, <3>1, TurnMain, HandedElsewhere DEF Answer
  <2>2. CASE ~Answer(p)
    <3>1. UNCHANGED <<inbox, handed>>
      BY <1>5, <2>2 DEF Turn, Reconcile, ReconcileFinalizes, MainWrites, LooksTerminal,
         LooksReviewed, Observe, Bury, MarkGone, MarkReview, disk, told
    <3> QED
      BY <1>5, <3>1, TurnMain, HandedElsewhere
  <2> QED
    BY <2>1, <2>2
<1> QED
  BY <1>1, <1>2, <1>3, <1>4, <1>5, ConsumeHands DEF Next, Call

LEMMA Handed == Spec => []HandInv
<1>1. Init => HandInv
  <2> SUFFICES ASSUME Init PROVE HandInv
    OBVIOUS
  <2>1. \A p \in Processes : main[p].at = "idle"
    BY IdleTyped DEF Init
  <2> QED
    BY <2>1 DEF Init, HandInv, OneHolder, Locked
<1> QED
  BY <1>1, HandNext, Typed, PTL DEF Spec

\* consume_terminal_event gives the event to the parent at most once, though
\* a process may die after each of its writes.
THEOREM EventIsHandedOnce == Spec => []HandedOnce
<1>1. HandInv => HandedOnce
  BY DEF HandInv, HandedOnce
<1> QED
  BY <1>1, Handed, PTL

-----------------------------------------------------------------------------
(* The command is launched once: the dispatch is written down before it is   *)
(* made, only the call that bound the attempt makes it, and what it leaves   *)
(* behind is the only coroutine there will ever be.                          *)

LaunchInv ==
  /\ launches \in {0, 1}
  /\ intent.state # "dispatched" => launches = 0 /\ \A p \in Processes : owner[p].at = "none"
  /\ \A p \in Processes :
       /\ main[p].at \in {"preparing", "prepared"} => intent.state = "pending"
       /\ owner[p].at \in {"ready", "beginning", "launching"} => launches = 0
  /\ \A p, q \in Processes : owner[p].at # "none" /\ owner[q].at # "none" => p = q

\* A step of p that dispatches nothing and launches nothing.
LEMMA NothingLaunched ==
  ASSUME LaunchInv, NEW p \in Processes,
         \A q \in Processes \ {p} : main'[q] = main[q] /\ owner'[q] = owner[q],
         main'[p].at \in {"preparing", "prepared"} =>
           main[p].at \in {"preparing", "prepared"} /\ intent'.state = intent.state,
         owner'[p] = owner[p] \/ owner'[p].at = "none",
         intent'.state = intent.state, launches' = launches
  PROVE  LaunchInv'
BY DEF LaunchInv

LEMMA StartLaunches ==
  ASSUME TypeInv, OneHolder, LaunchInv, NEW p \in Processes,
         Run(p) \/ EnsureJob(p) \/ Dispatch(p) \/ Wait(p) \/ TimesOut(p)
  PROVE  LaunchInv'
<1> USE TypeParts DEF TypeInv
<1>0. \A q \in Processes \ {p} : main'[q] = main[q] /\ owner'[q] = owner[q]
  BY StartMain
<1>1. CASE Run(p)
  <2>1. UNCHANGED <<owner, launches>>
    BY <1>1 DEF Run, shell
  <2>2. CASE Goes(p, "preparing") /\ intent.state = "missing" /\ intent' = [intent EXCEPT !.state = "pending"]
    <3>1. main'[p].at = "preparing" /\ intent'.state = "pending"
      BY <2>2, GoesFields DEF Intents, Locked
    <3>2. \A q \in Processes \ {p} : main'[q].at \notin {"preparing", "prepared"}
      BY <1>0, <2>2 DEF LaunchInv
    <3> QED
      BY <2>1, <2>2, <3>1, <3>2 DEF LaunchInv
  <2>3. CASE Goes(p, "waiting") /\ UNCHANGED intent
    BY <1>0, <2>1, <2>3, GoesFields, NothingLaunched
  <2> QED
    BY <1>1, <2>2, <2>3 DEF Run
<1>2. CASE EnsureJob(p)
  BY <1>0, <1>2, GoesFields, NothingLaunched DEF EnsureJob, At, shell, Locked
<1>3. CASE Dispatch(p)
  <2>1. /\ main'[p].at = "waiting" /\ owner'[p].at = "ready" /\ UNCHANGED launches
        /\ main[p].at = "prepared" /\ intent'.state = "dispatched"
    BY <1>3, GoesFields, OwnerGoesFields DEF Dispatch, At, shell, Intents, Places, Awaits
  <2>2. launches = 0 /\ \A q \in Processes : owner[q].at = "none"
    BY <2>1 DEF LaunchInv
  <2>3. \A q \in Processes \ {p} : main[q].at \notin {"preparing", "prepared"}
    BY <2>1 DEF OneHolder, Locked
  <2> QED
    BY <1>0, <2>1, <2>2, <2>3 DEF LaunchInv
<1>4. CASE Wait(p)
  BY <1>0, <1>4, GoesFields, NothingLaunched DEF Wait, disk, shell
<1>5. CASE TimesOut(p)
  BY <1>0, <1>5, LeavesFields, IdleTyped, NothingLaunched DEF TimesOut, disk, Away
<1> QED
  BY <1>1, <1>2, <1>3, <1>4, <1>5

LEMMA OwnerLaunches ==
  ASSUME TypeInv, LaunchInv, NEW p \in Processes, Owner(p)
  PROVE  LaunchInv'
<1> USE TypeParts DEF TypeInv
<1>1. owner[p].at # "none"
  BY DEF Owner, OwnerBegins, OwnerNotes, OwnerReaps, OwnerRecords, OwnerFinalizes, Launch,
         LaunchFails, OwnerWrites, OwnerAt
<1>2. /\ UNCHANGED <<intent, main>> /\ intent.state = "dispatched"
      /\ \A q \in Processes \ {p} : owner'[q] = owner[q] /\ owner[q].at = "none"
  BY <1>1, OwnerMain DEF LaunchInv
<1> SUFFICES /\ launches' \in {0, 1}
             /\ owner'[p].at \in {"ready", "beginning", "launching"} => launches' = 0
  BY <1>2 DEF LaunchInv
<1>3. CASE OwnerBegins(p)
  BY <1>3, OwnerGoneFields DEF OwnerBegins, OwnerAt, shell, LaunchInv
<1>4. CASE Launch(p)
  BY <1>4, OwnerGoesFields DEF Launch, OwnerAt, Places, Awaits, LaunchInv
<1>5. CASE LaunchFails(p)
  BY <1>5, OwnerGoneFields DEF LaunchFails, shell, LaunchInv
<1>6. CASE OwnerWrites(p, "beginning", "launching")
  BY <1>6, OwnerGoesFields DEF OwnerWrites, OwnerAt, shell, LaunchInv
<1>7. CASE OwnerNotes(p) \/ OwnerRecords(p) \/ OwnerFinalizes(p)
  BY <1>7 DEF OwnerNotes, OwnerRecords, OwnerFinalizes, shell, LaunchInv
<1>8. CASE OwnerReaps(p)
  BY <1>8, OwnerGoesFields DEF OwnerReaps, LaunchInv, Places, Awaits
<1>9. CASE OwnerWrites(p, "noting", "waiting") \/ OwnerWrites(p, "closing", "none")
  BY <1>9, OwnerGoesFields DEF OwnerWrites, shell, LaunchInv, Places, Awaits
<1> QED
  BY <1>3, <1>4, <1>5, <1>6, <1>7, <1>8, <1>9 DEF Owner

LEMMA LaunchNext ==
  ASSUME TypeInv, OneHolder, LaunchInv, [Next]_vars
  PROVE  LaunchInv'
<1> USE TypeParts DEF TypeInv
<1>1. CASE Shell \/ UNCHANGED vars
  BY <1>1 DEF vars, Shell, CommandEnds, ShellExits, ShellKilled, ChildrenEnd, disk, LaunchInv
<1>2. ASSUME NEW p \in Processes, Crash(p)
      PROVE  LaunchInv'
  BY <1>2, CrashMain, IdleTyped, NothingLaunched DEF Crash, Away
<1>3. ASSUME NEW p \in Processes, Turn(p)
      PROVE  LaunchInv'
  <2>1. launches' = launches /\ intent'.state = intent.state
    BY <1>3 DEF Turn, Reconcile, ReconcileFinalizes, MainWrites, LooksTerminal, Answer,
       LooksReviewed, Observe, Bury, MarkGone, MarkReview, disk, shell, Intents
  <2> QED
    BY <1>3, <2>1, TurnMain, NothingLaunched DEF Away
<1>4. ASSUME NEW p \in Processes, Consume(p) \/ ConsumeMarks(p) \/ ConsumeAnswers(p)
      PROVE  LaunchInv'
  <2>1. UNCHANGED <<intent, owner, launches>>
    BY <1>4 DEF Consume, ConsumeMarks, ConsumeAnswers, disk, shell
  <2>2. main'[p].at \notin {"preparing", "prepared"} /\ \A q \in Processes \ {p} : main'[q] = main[q]
    BY <1>4, TakesFields, GoesFields, IdlesFields, IdleTyped
       DEF Consume, ConsumeMarks, ConsumeAnswers, Locked
  <2> QED
    BY <2>1, <2>2, NothingLaunched
<1> QED
  BY <1>1, <1>2, <1>3, <1>4, StartLaunches, OwnerLaunches DEF Next, Call

LEMMA Launched == Spec => []LaunchInv
<1>1. Init => LaunchInv
  <2> SUFFICES ASSUME Init PROVE LaunchInv
    OBVIOUS
  <2>1. \A p \in Processes : main[p].at = "idle" /\ owner[p].at = "none"
    BY IdleTyped DEF Init, Away
  <2> QED
    BY <2>1 DEF Init, LaunchInv
<1>2. HandInv => OneHolder
  BY DEF HandInv
<1> QED
  BY <1>1, <1>2, LaunchNext, Typed, Handed, PTL DEF Spec

\* run_attempt launches the command at most once, whoever calls, dies and
\* calls again.
THEOREM CommandIsLaunchedOnce == Spec => []LaunchedOnce
<1>1. LaunchInv => LaunchedOnce
  BY DEF LaunchInv, LaunchedOnce
<1> QED
  BY <1>1, Launched, PTL

-----------------------------------------------------------------------------
(* What is known of the shell.  The exit status its parent collects is the   *)
(* one the command had, unless somebody kills the shell between its last two *)
(* steps while the parent is there; and nobody dies with an emptied exit     *)
(* code file in hand.                                                       *)

Attributable ==
  /\ ~({"kill_attached", "kill_late"} \subseteq Events)
  /\ "emptied" \notin Events

Reaped == {"reaped", "recording", "closing"}
Holds  == {"started", "noting", "waiting"}

ShellInv ==
  /\ launches = 0 <=> worker.at = "none"
  /\ worker.at \in {"none", "alive"} => exit = "none"
  /\ worker.at = "wrote" => exit = worker.code /\ exit # "none"
  /\ worker.at = "over" => worker.code # "none" /\ (exit = "none" => worker.code = "other")
  /\ worker.at = "over" /\ worker.parent # NoOne => exit \in {"none", worker.code}
  /\ \A p \in Processes :
       /\ owner[p].at \in Holds => worker.at # "none" /\ worker.parent = p
       /\ owner[p].at \in Reaped =>
            worker.at = "over" /\ worker.parent = NoOne /\ exit \in {"none", worker.code}
       /\ owner[p].at \in {"recording", "closing"} => exit = worker.code

\* Later the shell has come further, and what it wrote stands.
Later ==
  /\ worker.at # "none" => worker'.at # "none"
  /\ worker.at \in {"wrote", "over"} => worker'.at \in {"wrote", "over"}
  /\ \/ exit' = exit
     \/ exit = "none" /\ (exit' # "zero" \/ worker.at \notin {"wrote", "over"})

LEMMA LeavesEffects ==
  ASSUME TypeOK, NEW p \in Processes, NEW kills \in BOOLEAN, LeavesShell(p, kills)
  PROVE  \/ worker' = worker /\ worker.parent # p
         \/ /\ worker.parent = p /\ worker'.parent = NoOne
            /\ worker'.at = worker.at /\ worker'.code = worker.code /\ ~kills
         \/ /\ worker.parent = p /\ worker'.parent = NoOne /\ kills
            /\ worker'.at = "over"
            /\ worker'.code = (IF worker.at = "alive" THEN "other" ELSE worker.code)
<1>1. worker \in Shells
  BY TypeParts
<1>2. CASE worker.parent # p
  BY <1>1, <1>2 DEF LeavesShell
<1>3. CASE worker.parent = p
  <2> DEFINE a == IF kills THEN "over" ELSE worker.at
             c == IF kills /\ worker.at = "alive" THEN "other" ELSE worker.code
  <2>1. worker' = [worker EXCEPT !.parent = NoOne, !.at = a, !.code = c]
    BY <1>3 DEF LeavesShell
  <2>2. worker'.parent = NoOne /\ worker'.at = a /\ worker'.code = c
    <3> HIDE DEF a, c
    <3> QED
      BY <1>1, <2>1 DEF Shells
  <2> QED
    BY <1>3, <2>2
<1> QED
  BY <1>2, <1>3

\* The end of a call, or of its process.
LEMMA ShellLeaves ==
  ASSUME TypeOK, ShellInv, NEW p \in Processes, NEW kills \in BOOLEAN, LeavesShell(p, kills),
         kills => owner[p].at = "started", owner'[p] = Away,
         \A q \in Processes \ {p} : owner'[q] = owner[q],
         UNCHANGED <<exit, launches>>
  PROVE  ShellInv' /\ Later
<1>1. Away.at = "none" /\ NoOne \notin Processes
  BY BridgeAssumption DEF Away
<1>2. CASE worker' = worker
  BY <1>1, <1>2 DEF ShellInv, Later, Holds, Reaped
<1>3. CASE /\ worker.parent = p /\ worker'.parent = NoOne
           /\ worker'.at = worker.at /\ worker'.code = worker.code
  BY <1>1, <1>3 DEF ShellInv, Later, Holds, Reaped
<1>4. CASE /\ worker.parent = p /\ worker'.parent = NoOne /\ kills
           /\ worker'.at = "over"
           /\ worker'.code = (IF worker.at = "alive" THEN "other" ELSE worker.code)
  <2>1. worker.at \in {"alive", "wrote", "over"}
    BY <1>4, TypeParts DEF ShellInv, Holds, Shells
  <2> QED
    BY <1>1, <1>4, <2>1 DEF ShellInv, Later, Holds, Reaped
<1> QED
  BY <1>2, <1>3, <1>4, LeavesEffects

LEMMA ShellShell ==
  ASSUME Attributable, TypeInv, ShellInv, Shell
  PROVE  ShellInv' /\ Later
<1> USE TypeParts DEF TypeInv
<1>0. UNCHANGED <<owner, launches>> /\ NoOne \notin Processes /\ worker \in Shells
  BY BridgeAssumption DEF Shell, CommandEnds, ShellExits, ShellKilled, ChildrenEnd, disk
<1>1. CASE CommandEnds
  <2>1. PICK code \in {"zero", "other"} : exit' = code /\ worker' = [worker EXCEPT !.at = "wrote", !.code = code]
    BY <1>1 DEF CommandEnds
  <2>2. worker'.at = "wrote" /\ worker'.code = code /\ worker'.parent = worker.parent /\ worker.at = "alive"
    BY <1>0, <1>1, <2>1 DEF CommandEnds, Shells
  <2> QED
    BY <1>0, <2>1, <2>2 DEF ShellInv, Later, Holds, Reaped
<1>2. CASE ShellExits
  <2>1. /\ worker'.at = "over" /\ worker'.code = worker.code /\ worker'.parent = worker.parent
        /\ worker.at = "wrote" /\ UNCHANGED exit
    BY <1>0, <1>2 DEF ShellExits, Shells, disk
  <2> QED
    BY <1>0, <2>1 DEF ShellInv, Later, Holds, Reaped
<1>3. CASE ShellKilled
  <2>1. /\ worker'.at = "over" /\ worker'.code = "other" /\ worker'.parent = worker.parent
        /\ UNCHANGED exit
    BY <1>0, <1>3 DEF ShellKilled, Shells, disk
  <2>2. worker.at = "alive" \/ (worker.at = "wrote" /\ worker.parent = NoOne)
    BY <1>3 DEF ShellKilled, Attributable
  <2> QED
    BY <1>0, <2>1, <2>2 DEF ShellInv, Later, Holds, Reaped
<1>4. CASE ChildrenEnd
  BY <1>0, <1>4 DEF ChildrenEnd, disk, ShellInv, Later
<1> QED
  BY <1>1, <1>2, <1>3, <1>4 DEF Shell

LEMMA ShellOwner ==
  ASSUME TypeInv, LaunchInv, ShellInv, NEW p \in Processes, Owner(p)
  PROVE  ShellInv' /\ Later
<1> USE TypeParts DEF TypeInv
<1>0. /\ \A q \in Processes \ {p} : owner'[q] = owner[q] /\ owner[q].at = "none"
      /\ NoOne \notin Processes /\ worker \in Shells
  <2>1. owner[p].at # "none"
    BY DEF Owner, OwnerBegins, OwnerNotes, OwnerReaps, OwnerRecords, OwnerFinalizes, Launch,
           LaunchFails, OwnerWrites, OwnerAt
  <2> QED
    BY <2>1, OwnerMain, BridgeAssumption DEF LaunchInv
<1>1. CASE OwnerBegins(p)
  <2>1. owner'[p].at \notin Holds \cup Reaped /\ UNCHANGED <<exit, worker, launches>>
    BY <1>1, OwnerGoneFields DEF OwnerBegins, disk, shell, Holds, Reaped
  <2> QED
    BY <1>0, <2>1 DEF ShellInv, Later, Holds, Reaped
<1>2. CASE OwnerNotes(p)
  <2>1. owner[p].at = "started" /\ owner'[p].at = "noting" /\ UNCHANGED <<exit, worker, launches>>
    BY <1>2 DEF OwnerNotes, OwnerAt, disk, shell
  <2> QED
    BY <1>0, <2>1 DEF ShellInv, Later, Holds, Reaped
<1>3. CASE OwnerReaps(p)
  <2>1. /\ owner'[p].at = "reaped" /\ worker'.parent = NoOne /\ worker'.at = "over"
        /\ worker.at = "over" /\ worker'.code = worker.code /\ worker.parent = p
        /\ UNCHANGED <<exit, launches>>
    BY <1>0, <1>3, OwnerGoesFields DEF OwnerReaps, disk, Shells, Places, Awaits
  <2> QED
    BY <1>0, <2>1 DEF ShellInv, Later, Holds, Reaped
<1>4. CASE OwnerRecords(p)
  <2>1. /\ owner[p].at = "reaped" /\ owner'[p].at = "recording" /\ exit' = worker.code
        /\ UNCHANGED <<worker, launches>>
    BY <1>4 DEF OwnerRecords, OwnerAt, shell
  <2> QED
    BY <1>0, <2>1 DEF ShellInv, Later, Holds, Reaped
<1>5. CASE OwnerFinalizes(p)
  <2>1. owner[p].at = "recording" /\ owner'[p].at = "closing" /\ UNCHANGED <<exit, worker, launches>>
    BY <1>5 DEF OwnerFinalizes, OwnerAt, shell
  <2> QED
    BY <1>0, <2>1 DEF ShellInv, Later, Holds, Reaped
<1>6. CASE Launch(p)
  <2>1. /\ owner'[p].at = "started" /\ launches = 0 /\ launches' = 1 /\ UNCHANGED exit
        /\ worker'.at = "alive" /\ worker'.parent = p
    BY <1>6, OwnerGoesFields DEF Launch, OwnerAt, disk, LaunchInv, Places, Awaits
  <2> QED
    BY <1>0, <2>1 DEF ShellInv, Later, Holds, Reaped
<1>7. CASE LaunchFails(p)
  <2>1. owner'[p].at = "none" /\ UNCHANGED <<exit, worker, launches>>
    BY <1>7, OwnerGoneFields DEF LaunchFails, disk, shell
  <2> QED
    BY <1>0, <2>1 DEF ShellInv, Later, Holds, Reaped
<1>8. CASE OwnerWrites(p, "beginning", "launching") \/ OwnerWrites(p, "closing", "none")
  <2>1. owner'[p].at \notin Holds \cup Reaped /\ UNCHANGED <<exit, worker, launches>>
    BY <1>8, OwnerGoesFields DEF OwnerWrites, shell, Places, Awaits, Holds, Reaped
  <2> QED
    BY <1>0, <2>1 DEF ShellInv, Later, Holds, Reaped
<1>9. CASE OwnerWrites(p, "noting", "waiting")
  <2>1. owner[p].at = "noting" /\ owner'[p].at = "waiting" /\ UNCHANGED <<exit, worker, launches>>
    BY <1>9, OwnerGoesFields DEF OwnerWrites, OwnerAt, shell, Places, Awaits
  <2> QED
    BY <1>0, <2>1 DEF ShellInv, Later, Holds, Reaped
<1> QED
  BY <1>1, <1>2, <1>3, <1>4, <1>5, <1>6, <1>7, <1>8, <1>9 DEF Owner

LEMMA ShellNext ==
  ASSUME Attributable, TypeInv, LaunchInv, ShellInv, [Next]_vars
  PROVE  ShellInv' /\ Later
<1> USE TypeParts DEF TypeInv
<1>1. CASE UNCHANGED vars
  BY <1>1 DEF vars, ShellInv, Later
<1>2. ASSUME NEW p \in Processes, Crash(p)
      PROVE  ShellInv' /\ Later
  <2>1. UNCHANGED <<exit, launches>> /\ LeavesShell(p, FALSE)
    BY <1>2 DEF Crash, Attributable
  <2> QED
    BY <1>2, <2>1, CrashMain, ShellLeaves
<1>3. ASSUME NEW p \in Processes, Leaves(p), UNCHANGED <<exit, launches>>
      PROVE  ShellInv' /\ Later
  <2> DEFINE kills == owner[p].at = "started"
  <2>1. LeavesShell(p, kills)
    BY <1>3 DEF Leaves
  <2>2. kills \in BOOLEAN /\ (kills => owner[p].at = "started")
    BY Zenon
  <2> HIDE DEF kills
  <2> QED
    BY <1>3, <2>1, <2>2, LeavesFields, ShellLeaves
<1>4. ASSUME NEW p \in Processes, Call(p)
      PROVE  ShellInv' /\ Later
  <2>1. UNCHANGED <<exit, launches>>
    BY <1>4 DEF Call, Run, EnsureJob, Dispatch, Wait, TimesOut, Turn, Reconcile,
       ReconcileFinalizes, MainWrites, LooksTerminal, Answer, LooksReviewed, Observe, Bury,
       MarkGone, MarkReview, Consume, ConsumeMarks, ConsumeAnswers, disk, shell
  <2>2. CASE Leaves(p)
    BY <1>3, <2>1, <2>2
  <2>3. CASE Dispatch(p)
    <3>1. /\ owner'[p].at = "ready" /\ UNCHANGED worker
          /\ \A q \in Processes \ {p} : owner'[q] = owner[q]
      BY <2>3, OwnerGoesFields DEF Dispatch, shell, Places, Awaits
    <3> QED
      BY <2>1, <3>1 DEF ShellInv, Later, Holds, Reaped
  <2>4. CASE ~Leaves(p) /\ ~Dispatch(p)
    <3>1. UNCHANGED <<owner, worker>>
      BY <1>4, <2>4 DEF Call, Run, EnsureJob, Wait, TimesOut, Turn, Reconcile,
         ReconcileFinalizes, MainWrites, LooksTerminal, Answer, LooksReviewed, Observe, Bury,
         MarkGone, MarkReview, Consume, ConsumeMarks, ConsumeAnswers, disk, shell
    <3> QED
      BY <2>1, <3>1 DEF ShellInv, Later
  <2> QED
    BY <2>2, <2>3, <2>4
<1> QED
  BY <1>1, <1>2, <1>4, ShellShell, ShellOwner DEF Next

LEMMA ShellInit == Init => ShellInv
<1> SUFFICES ASSUME Init PROVE ShellInv
  OBVIOUS
<1>1. \A p \in Processes : owner[p].at = "none"
  BY DEF Init, Away
<1> QED
  BY <1>1 DEF Init, ShellInv, Holds, Reaped

-----------------------------------------------------------------------------
(* Every copy of the job, on file or in the hands of a process that has      *)
(* merged it and not yet written it, says of the command only what is so and *)
(* stays so.                                                                *)

True(state, e, at) ==
  /\ state = "completed" => e = "zero"
  /\ state = "failed" => e # "zero" /\ at \in {"wrote", "over"}

Fits(job, e, at) ==
  /\ True(job.job, e, at) /\ True(job.step, e, at)
  /\ job.code # "none" => job.code = e
  /\ job.pid => at # "none"

TruthInv ==
  /\ Fits(file, exit, worker.at)
  /\ \A p \in Processes : Fits(main[p].save, exit, worker.at) /\ Fits(owner[p].save, exit, worker.at)
  /\ \A state \in answers : True(state, exit, worker.at)

LEMMA TrueLater ==
  ASSUME NEW state, True(state, exit, worker.at), Later
  PROVE  True(state, exit', worker'.at)
BY DEF True, Later

LEMMA FitsLater ==
  ASSUME NEW job, Fits(job, exit, worker.at), Later
  PROVE  Fits(job, exit', worker'.at)
<1>1. True(job.job, exit', worker'.at) /\ True(job.step, exit', worker'.at)
  BY TrueLater DEF Fits
<1>2. job.code # "none" => job.code = exit'
  BY DEF Fits, Later
<1>3. job.pid => worker'.at # "none"
  BY DEF Fits, Later
<1> QED
  BY <1>1, <1>2, <1>3 DEF Fits

\* A job put together from fitting ones fits.
LEMMA FitsMix ==
  ASSUME NEW e, NEW at, NEW job, NEW one, NEW two, Fits(one, e, at), Fits(two, e, at),
         job.job \in {one.job, two.job, one.step, "none", "pending", "running"},
         \/ job.step = one.step /\ job.pid = one.pid /\ job.code = one.code
         \/ job.step = two.step /\ job.pid = two.pid /\ job.code = two.code
  PROVE  Fits(job, e, at)
BY DEF Fits, True

LEMMA FitsMerge ==
  ASSUME NEW e, NEW at, NEW old \in Job, NEW new \in Job, Fits(old, e, at), Fits(new, e, at)
  PROVE  Fits(Merge(old, new), e, at)
BY MergeFields, FitsMix

LEMMA FitsHalf ==
  ASSUME NEW e, NEW at, NEW old \in Job, NEW new \in Job, Fits(old, e, at), Fits(new, e, at)
  PROVE  Fits(Half(old, new), e, at)
BY HalfFields, FitsMix

LEMMA FitsBlank ==
  ASSUME NEW e, NEW at
  PROVE  /\ Fits(NoJob, e, at) /\ Fits(Fresh, e, at)
         /\ Fits([NoJob EXCEPT !.job = "pending"], e, at)
         /\ at # "none" => Fits(Noted, e, at)
BY DEF Fits, True, NoJob, Fresh, Noted

\* One step, by what it does to the copies of the job.
LEMMA TruthStep ==
  ASSUME TypeOK, TruthInv, NEW p \in Processes, Later,
         \A q \in Processes \ {p} : main'[q] = main[q] /\ owner'[q] = owner[q],
         file' = file \/ Fits(file', exit', worker'.at),
         main'[p].save = main[p].save \/ Fits(main'[p].save, exit', worker'.at),
         owner'[p].save = owner[p].save \/ Fits(owner'[p].save, exit', worker'.at),
         \A state \in answers' : state \in answers \/ True(state, exit', worker'.at)
  PROVE  TruthInv'
<1>1. Fits(file', exit', worker'.at)
  BY FitsLater DEF TruthInv
<1>2. \A q \in Processes : Fits(main'[q].save, exit', worker'.at) /\ Fits(owner'[q].save, exit', worker'.at)
  <2> TAKE q \in Processes
  <2>1. Fits(main[q].save, exit', worker'.at) /\ Fits(owner[q].save, exit', worker'.at)
    BY FitsLater DEF TruthInv
  <2>2. CASE q = p
    BY <2>1, <2>2
  <2>3. CASE q # p
    BY <2>1, <2>3
  <2> QED
    BY <2>2, <2>3
<1>3. \A state \in answers' : True(state, exit', worker'.at)
  BY TrueLater DEF TruthInv
<1> QED
  BY <1>1, <1>2, <1>3 DEF TruthInv

LEMMA OutcomeFits ==
  ASSUME TypeOK, worker.at = "over", worker.code # "none"
  PROVE  /\ Fits(Outcome, worker.code, "over")
         /\ Fits([Outcome EXCEPT !.job = StateOf(worker.code)], worker.code, "over")
<1>1. worker.code \in {"zero", "other"}
  BY TypeParts DEF Shells, Codes
<1> QED
  BY <1>1 DEF Outcome, Noted, Fits, True, StateOf

LEMMA TruthOwner ==
  ASSUME TypeInv, LaunchInv, ShellInv, TruthInv, NEW p \in Processes, Owner(p), Later
  PROVE  TruthInv'
<1> USE TypeParts DEF TypeInv
<1>0. /\ UNCHANGED main /\ answers' = answers
      /\ \A q \in Processes \ {p} : owner'[q] = owner[q]
  BY OwnerMain DEF told
<1>1. /\ owner[p].save \in Job /\ file \in Job
      /\ Fits(owner[p].save, exit, worker.at) /\ Fits(file, exit, worker.at)
  BY DEF Owners, TruthInv
<1> SUFFICES /\ file' = file \/ Fits(file', exit', worker'.at)
             /\ owner'[p].save = owner[p].save \/ Fits(owner'[p].save, exit', worker'.at)
  BY <1>0, TruthStep
<1>2. CASE OwnerBegins(p)
  <2> DEFINE begun == [file EXCEPT !.job = "running", !.step = "running"]
  <2>1. Fits(begun, exit, worker.at) /\ begun \in Job
    BY <1>1, BegunTyped DEF Fits, True, Job
  <2> HIDE DEF begun
  <2>2. Fits(Merge(file, begun), exit, worker.at)
    BY <1>1, <2>1, FitsMerge
  <2>3. Fits(NoJob, exit, worker.at)
    BY FitsBlank
  <2>4. UNCHANGED <<file, exit, worker>> /\ owner'[p].save \in {NoJob, Merge(file, begun)}
    BY <1>2, OwnerGoneFields DEF OwnerBegins, disk, shell, begun
  <2> QED
    BY <2>2, <2>3, <2>4
<1>3. CASE OwnerNotes(p)
  <2>1. UNCHANGED <<file, exit, worker>> /\ owner'[p].save = Merge(file, Noted) /\ worker.at # "none"
    BY <1>3 DEF OwnerNotes, OwnerAt, disk, shell, ShellInv, Holds
  <2>2. Fits(Merge(file, Noted), exit, worker.at)
    BY <1>1, <2>1, FitsBlank, FitsMerge, KnownJobs
  <2> QED
    BY <2>1, <2>2
<1>4. CASE OwnerReaps(p) \/ Launch(p) \/ LaunchFails(p)
  BY <1>4, OwnerGoesFields, OwnerGoneFields, FitsBlank
     DEF OwnerReaps, Launch, LaunchFails, disk, Places, Awaits
<1>5. CASE OwnerRecords(p)
  <2>1. /\ UNCHANGED <<file, worker>> /\ owner'[p].save = Merge(file, Outcome)
        /\ exit' = worker.code /\ worker.at = "over" /\ worker.code # "none"
    BY <1>5 DEF OwnerRecords, OwnerAt, shell, ShellInv, Reaped
  <2>2. Fits(file, exit', worker'.at)
    BY <1>1, FitsLater
  <2>3. Fits(Outcome, exit', worker'.at) /\ Outcome \in Job
    BY <2>1, OutcomeFits, OutcomeTyped
  <2> QED
    BY <1>1, <2>1, <2>2, <2>3, FitsMerge
<1>6. CASE OwnerFinalizes(p)
  <2> DEFINE out == [Outcome EXCEPT !.job = StateOf(worker.code)]
  <2>1. /\ UNCHANGED <<exit, worker>> /\ file' = owner[p].save
        /\ owner'[p].save = Merge(file', out)
        /\ exit = worker.code /\ worker.at = "over" /\ worker.code # "none"
    BY <1>6 DEF OwnerFinalizes, OwnerAt, shell, ShellInv, Reaped
  <2>2. Fits(out, exit, worker.at) /\ out \in Job
    BY <2>1, OutcomeFits, OutcomeTyped
  <2> HIDE DEF out
  <2>3. Fits(Merge(file', out), exit, worker.at)
    BY <1>1, <2>1, <2>2, FitsMerge
  <2> QED
    BY <1>1, <2>1, <2>3
<1>7. ASSUME NEW from, NEW to \in Places, OwnerWrites(p, from, to)
      PROVE  /\ file' = file \/ Fits(file', exit', worker'.at)
             /\ owner'[p].save = owner[p].save \/ Fits(owner'[p].save, exit', worker'.at)
  BY <1>1, <1>7, OwnerGoesFields DEF OwnerWrites, shell
<1>8. "launching" \in Places /\ "waiting" \in Places /\ "none" \in Places
  BY DEF Places, Awaits
<1> QED
  BY <1>2, <1>3, <1>4, <1>5, <1>6, <1>7, <1>8 DEF Owner

LEMMA BuryFits ==
  ASSUME TypeInv, ShellInv, Fits(file, exit, worker.at), Vanished
  PROVE  Fits([file EXCEPT !.job = "failed", !.step = "failed"], exit, worker.at)
<1> USE TypeParts DEF TypeInv
<1>1. file.pid /\ ~PidAlive /\ exit = "none" /\ file.code = "none"
  BY DEF Vanished, WorkerOutcome, Confirmed
<1>2. worker.at # "none"
  BY <1>1 DEF Fits
<1>3. worker.at = "over"
  BY <1>1, <1>2 DEF PidAlive, Shells
<1> DEFINE gone == [file EXCEPT !.job = "failed", !.step = "failed"]
<1>4. gone.job = "failed" /\ gone.step = "failed" /\ gone.code = "none"
  BY <1>1 DEF Job
<1> HIDE DEF gone
<1>5. Fits(gone, exit, worker.at)
  BY <1>1, <1>3, <1>4 DEF Fits, True
<1> QED
  BY <1>5 DEF gone

LEMMA ReconciledFits ==
  ASSUME TypeInv, ShellInv, Fits(file, exit, worker.at), Reconcilable
  PROVE  Fits(Reconciled, exit, worker.at)
<1> USE TypeParts DEF TypeInv
<1>1. exit \in {"zero", "other"} /\ worker.at \in {"wrote", "over"}
  BY DEF Reconcilable, Codes, ShellInv, Shells
<1>2. /\ Reconciled.job = file.job /\ Reconciled.step = StateOf(exit)
      /\ Reconciled.pid = file.pid /\ Reconciled.code = exit
  BY DEF Reconciled, Job
<1> QED
  BY <1>1, <1>2 DEF Fits, True, StateOf

LEMMA TruthTurn ==
  ASSUME TypeInv, ShellInv, TruthInv, NEW p \in Processes, Turn(p), Later
  PROVE  TruthInv'
<1> USE TypeParts DEF TypeInv
<1>0. \A q \in Processes \ {p} : main'[q] = main[q] /\ owner'[q] = owner[q]
  BY TurnMain
<1>1. /\ main[p].save \in Job /\ file \in Job
      /\ Fits(main[p].save, exit, worker.at) /\ Fits(file, exit, worker.at)
  BY DEF Calls, TruthInv
<1>2. owner'[p].save = owner[p].save \/ Fits(owner'[p].save, exit', worker'.at)
  BY TurnMain, FitsBlank DEF Away
<1>3. UNCHANGED exit
  BY DEF Turn, Reconcile, ReconcileFinalizes, MainWrites, LooksTerminal, Answer, LooksReviewed,
         Observe, Bury, MarkGone, MarkReview, disk
<1> SUFFICES /\ file' = file \/ Fits(file', exit, worker.at)
             /\ main'[p].save = main[p].save \/ Fits(main'[p].save, exit, worker.at)
             /\ \A state \in answers' : state \in answers \/ True(state, exit, worker.at)
  <2>1. file' = file \/ Fits(file', exit', worker'.at)
    BY FitsLater
  <2>2. main'[p].save = main[p].save \/ Fits(main'[p].save, exit', worker'.at)
    BY FitsLater
  <2>3. \A state \in answers' : state \in answers \/ True(state, exit', worker'.at)
    BY TrueLater
  <2> QED
    BY <1>0, <1>2, <2>1, <2>2, <2>3, TruthStep
<1>4. CASE Reconcile(p)
  <2>1. Merge(file, Reconciled) \in Job /\ Fits(Merge(file, Reconciled), exit, worker.at)
    BY <1>1, <1>4, ReconciledTyped, MergeTyped, ReconciledFits, FitsMerge DEF Reconcile
  <2> QED
    BY <1>4, <2>1, TakesFields DEF Reconcile, disk, told, Locked
<1>5. CASE ReconcileFinalizes(p)
  <2> DEFINE over == [main[p].save EXCEPT !.job = main[p].save.step]
  <2>1. over \in Job /\ Fits(over, exit, worker.at)
    <3>1. main[p].save.step \in Stages
      BY <1>1, JobFields
    <3>2. over \in Job /\ over.job = main[p].save.step /\ over.step = main[p].save.step
          /\ over.pid = main[p].save.pid /\ over.code = main[p].save.code
      BY <1>1, <3>1, JobChanged
    <3> HIDE DEF over
    <3> QED
      BY <1>1, <3>2, FitsMix
  <2> HIDE DEF over
  <2>2. file' = main[p].save
    BY <1>5 DEF ReconcileFinalizes
  <2>3. Merge(file', over) \in Job /\ Fits(Merge(file', over), exit, worker.at)
    BY <1>1, <2>1, <2>2, MergeTyped, FitsMerge
  <2>4. main'[p].save = Merge(file', over)
    BY <1>5, <2>3, TakesFields DEF ReconcileFinalizes, Locked, over
  <2> QED
    BY <1>1, <1>5, <2>2, <2>3, <2>4 DEF ReconcileFinalizes, told
<1>6. ASSUME NEW from, NEW to \in {"looking", "marking"}, MainWrites(p, from, to)
      PROVE  /\ file' = file \/ Fits(file', exit, worker.at)
             /\ main'[p].save = main[p].save \/ Fits(main'[p].save, exit, worker.at)
             /\ \A state \in answers' : state \in answers \/ True(state, exit, worker.at)
  BY <1>1, <1>6, GoesFields DEF MainWrites, told, Locked
<1>7. CASE LooksTerminal(p)
  BY <1>1, <1>7, TakesFields DEF LooksTerminal, told, Locked
<1>8. CASE Answer(p)
  <2>1. main'[p].save = NoJob /\ UNCHANGED file /\ answers' = answers \cup {main[p].save.job}
    BY <1>8, LeavesFields, IdleTyped DEF Answer
  <2> QED
    BY <1>1, <2>1, FitsBlank DEF Fits
<1>9. CASE LooksReviewed(p)
  BY <1>9, LeavesFields, IdleTyped, FitsBlank DEF LooksReviewed, disk, told
<1>10. CASE Observe(p)
  <2> DEFINE s == IF WorkerOutcome = "running" THEN "none" ELSE WorkerOutcome
  <2>1. main' = [main EXCEPT ![p].at = "waiting", ![p].seen = s]
    BY <1>10 DEF Observe
  <2> HIDE DEF s
  <2>2. main'[p].save = main[p].save
    BY <2>1 DEF Calls
  <2> QED
    BY <1>10, <2>2 DEF Observe, disk, told
<1>11. CASE Bury(p)
  <2> DEFINE gone == [file EXCEPT !.job = "failed", !.step = "failed"]
  <2>1. gone \in Job /\ Fits(gone, exit, worker.at)
    BY <1>1, <1>11, BegunTyped, BuryFits DEF Bury
  <2>2. Takes(p, "burying", Merge(file, gone)) /\ UNCHANGED <<file, answers>>
    BY <1>11 DEF Bury, disk, told
  <2> HIDE DEF gone
  <2>3. Merge(file, gone) \in Job /\ Fits(Merge(file, gone), exit, worker.at)
    BY <1>1, <2>1, MergeTyped, FitsMerge
  <2> QED
    BY <2>2, <2>3, TakesFields DEF Locked
<1>12. CASE MarkGone(p) \/ MarkReview(p)
  BY <1>12, GoesFields DEF MarkGone, MarkReview, told
<1> QED
  BY <1>4, <1>5, <1>6, <1>7, <1>8, <1>9, <1>10, <1>11, <1>12 DEF Turn

LEMMA TruthNext ==
  ASSUME Attributable, TypeInv, LaunchInv, ShellInv, TruthInv, [Next]_vars, Later
  PROVE  TruthInv'
<1> USE TypeParts DEF TypeInv
<1>1. CASE Shell \/ UNCHANGED vars
  <2>1. UNCHANGED <<file, main, owner, answers>>
    BY <1>1 DEF vars, Shell, CommandEnds, ShellExits, ShellKilled, ChildrenEnd, disk, told
  <2>2. Fits(file', exit', worker'.at)
    BY <2>1, FitsLater DEF TruthInv
  <2>3. \A p \in Processes : Fits(main'[p].save, exit', worker'.at) /\ Fits(owner'[p].save, exit', worker'.at)
    BY <2>1, FitsLater DEF TruthInv
  <2>4. \A state \in answers' : True(state, exit', worker'.at)
    BY <2>1, TrueLater DEF TruthInv
  <2> QED
    BY <2>2, <2>3, <2>4 DEF TruthInv
<1>2. ASSUME NEW p \in Processes, Crash(p)
      PROVE  TruthInv'
  <2>1. /\ main'[p].save = NoJob /\ owner'[p].save = NoJob /\ UNCHANGED <<exit, answers>>
        /\ \A q \in Processes \ {p} : main'[q] = main[q] /\ owner'[q] = owner[q]
    BY <1>2, CrashMain, IdleTyped DEF Crash, told, Away, Attributable
  <2>2. Fits(file', exit, worker.at)
    <3>1. /\ Fits(file, exit, worker.at) /\ file \in Job
          /\ Fits(main[p].save, exit, worker.at) /\ Fits(owner[p].save, exit, worker.at)
      BY DEF TruthInv
    <3>2. CASE file' = file \/ file' = [NoJob EXCEPT !.job = "pending"]
      BY <3>1, <3>2, FitsBlank
    <3>3. CASE \E new \in {main[p].save, owner[p].save} : new \in Job /\ file' = Half(file, new)
      BY <3>1, <3>3, FitsHalf
    <3> QED
      BY <1>2, <3>2, <3>3, CrashFile
  <2>3. Fits(file', exit', worker'.at) /\ Fits(NoJob, exit', worker'.at)
    BY <2>2, FitsLater, FitsBlank
  <2> QED
    BY <2>1, <2>3, TruthStep
<1>3. ASSUME NEW p \in Processes,
             Run(p) \/ EnsureJob(p) \/ Dispatch(p) \/ Wait(p) \/ TimesOut(p)
      PROVE  TruthInv'
  <2>1. \A q \in Processes \ {p} : main'[q] = main[q] /\ owner'[q] = owner[q]
    BY <1>3, StartMain
  <2>2. main'[p].save = main[p].save \/ Fits(main'[p].save, exit', worker'.at)
    BY <1>3, StartMain, FitsBlank
  <2>3. owner'[p].save = owner[p].save \/ Fits(owner'[p].save, exit', worker'.at)
    <3>1. CASE Run(p) \/ EnsureJob(p) \/ Wait(p)
      BY <3>1 DEF Run, EnsureJob, Wait
    <3>2. CASE Dispatch(p)
      BY <3>2, OwnerGoesFields DEF Dispatch, Places, Awaits
    <3>3. CASE TimesOut(p)
      BY <3>3, LeavesFields, FitsBlank DEF TimesOut, Away
    <3> QED
      BY <1>3, <3>1, <3>2, <3>3
  <2>4. answers' = answers /\ (file' = file \/ file' = Fresh)
    BY <1>3 DEF Run, EnsureJob, Dispatch, Wait, TimesOut, disk, told
  <2> QED
    BY <2>1, <2>2, <2>3, <2>4, FitsBlank, TruthStep
<1>4. ASSUME NEW p \in Processes, Consume(p) \/ ConsumeMarks(p) \/ ConsumeAnswers(p)
      PROVE  TruthInv'
  <2>1. UNCHANGED <<file, owner>>
    BY <1>4 DEF Consume, ConsumeMarks, ConsumeAnswers, disk
  <2>2. /\ main'[p].save \in {main[p].save, file, NoJob}
        /\ \A q \in Processes \ {p} : main'[q] = main[q]
    BY <1>4, TakesFields, GoesFields, IdlesFields, IdleTyped
       DEF Consume, ConsumeMarks, ConsumeAnswers, Locked
  <2>3. Fits(file, exit', worker'.at) /\ Fits(NoJob, exit', worker'.at)
    BY FitsLater, FitsBlank DEF TruthInv
  <2>4. \A state \in answers' : state \in answers \/ True(state, exit', worker'.at)
    <3>1. True(main[p].save.job, exit, worker.at)
      BY DEF TruthInv, Fits
    <3>2. True(main[p].save.job, exit', worker'.at)
      BY <3>1, TrueLater
    <3>3. answers' \subseteq answers \cup {main[p].save.job}
      BY <1>4 DEF Consume, ConsumeMarks, ConsumeAnswers, told
    <3> QED
      BY <3>2, <3>3
  <2> QED
    BY <2>1, <2>2, <2>3, <2>4, TruthStep
<1> QED
  BY <1>1, <1>2, <1>3, <1>4, TruthOwner, TruthTurn DEF Next, Call

LEMMA TruthInit == Init => TruthInv
<1> SUFFICES ASSUME Init PROVE TruthInv
  OBVIOUS
<1>1. /\ file = NoJob /\ answers = {}
      /\ \A p \in Processes : main[p].save = NoJob /\ owner[p].save = NoJob
  BY IdleTyped DEF Init, Away
<1> QED
  BY <1>1, FitsBlank DEF TruthInv

LEMMA Truthful == ASSUME Attributable PROVE Spec => [](ShellInv /\ TruthInv)
<1>1. TypeInv /\ LaunchInv /\ ShellInv /\ TruthInv /\ [Next]_vars => (ShellInv /\ TruthInv)'
  BY ShellNext, TruthNext
<1> QED
  BY <1>1, ShellInit, TruthInit, Typed, Launched, PTL DEF Spec

\* Whatever final state a call has answered with is what became of the
\* command, and stays it, though coroutines write stale copies of the job
\* without the lock; but for a shell that is killed between its last two
\* steps under the eyes of the process that dispatched it.
THEOREM AnswersStayTrue ==
  ASSUME Attributable
  PROVE  Spec => []AnswersAreTrue
<1>1. TypeInv /\ TruthInv => AnswersAreTrue
  <2> SUFFICES ASSUME TypeInv, TruthInv, NEW state \in answers
               PROVE  state = (IF exit = "zero" THEN "completed" ELSE "failed")
    BY DEF AnswersAreTrue
  <2>1. state \in {"completed", "failed"} /\ True(state, exit, worker.at)
    BY TypeParts DEF TypeInv, TruthInv, Final
  <2> QED
    BY <2>1 DEF True
<1> QED
  BY <1>1, Typed, Truthful, PTL

-----------------------------------------------------------------------------
(* A command its shell has left at work is never taken for over: without an  *)
(* exit status nothing confirms, and while the command is at work there is   *)
(* none.                                                                    *)

Detached == "kill_attached" \notin Events /\ "emptied" \notin Events

QuietInv ==
  /\ busy = "command" =>
       /\ exit = "none" /\ worker.at \in {"alive", "over"}
       /\ worker.at = "over" =>
            worker.parent = NoOne /\ \A p \in Processes : owner[p].at \notin Reaped
  /\ intent.quiet = "confirmed" => busy # "command" /\ launches # 0

\* The end of a call, or of its process.
LEMMA QuietLeaves ==
  ASSUME TypeOK, ShellInv, QuietInv, NEW p \in Processes, NEW kills \in BOOLEAN,
         LeavesShell(p, kills), owner'[p] = Away,
         \A q \in Processes \ {p} : owner'[q] = owner[q],
         UNCHANGED <<exit, busy, launches>>,
         intent'.quiet = "confirmed" => intent.quiet = "confirmed"
  PROVE  QuietInv'
<1>1. Away.at = "none" /\ NoOne \notin Processes
  BY BridgeAssumption DEF Away
<1>2. CASE worker' = worker
  BY <1>1, <1>2 DEF QuietInv, Reaped
<1>3. CASE /\ worker.parent = p /\ worker'.parent = NoOne
           /\ worker'.at = worker.at
  BY <1>1, <1>3 DEF QuietInv, Reaped
<1>4. CASE /\ worker.parent = p /\ worker'.parent = NoOne
           /\ worker'.at = "over"
  <2>1. busy = "command" => \A q \in Processes : owner[q].at \notin Reaped
    BY <1>1, <1>4 DEF ShellInv
  <2> QED
    BY <1>1, <1>4, <2>1 DEF QuietInv, Reaped
<1> QED
  BY <1>2, <1>3, <1>4, LeavesEffects

LEMMA QuietShell ==
  ASSUME Detached, TypeInv, ShellInv, QuietInv, Shell
  PROVE  QuietInv'
<1> USE TypeParts DEF TypeInv
<1>0. UNCHANGED <<owner, launches, intent>> /\ worker \in Shells
  BY DEF Shell, CommandEnds, ShellExits, ShellKilled, ChildrenEnd, disk
<1>1. CASE CommandEnds \/ ChildrenEnd
  BY <1>0, <1>1 DEF CommandEnds, ChildrenEnd, QuietInv
<1>2. CASE ShellExits
  BY <1>0, <1>2 DEF ShellExits, QuietInv, disk
<1>3. CASE ShellKilled
  <2>1. /\ worker'.at = "over" /\ worker'.parent = worker.parent /\ worker.parent = NoOne
        /\ worker.at \in {"alive", "wrote"} /\ UNCHANGED <<exit, busy>>
    BY <1>0, <1>3 DEF ShellKilled, Shells, disk, Detached
  <2>2. \A p \in Processes : owner[p].at \notin Reaped
    BY <2>1 DEF ShellInv
  <2> QED
    BY <1>0, <2>1, <2>2 DEF QuietInv
<1> QED
  BY <1>1, <1>2, <1>3 DEF Shell

LEMMA QuietOwner ==
  ASSUME TypeInv, LaunchInv, ShellInv, QuietInv, NEW p \in Processes, Owner(p)
  PROVE  QuietInv'
<1> USE TypeParts DEF TypeInv
<1>0. /\ \A q \in Processes \ {p} : owner'[q] = owner[q]
      /\ UNCHANGED intent /\ worker \in Shells
  BY OwnerMain
<1>1. CASE Launch(p)
  <2>1. /\ worker'.at = "alive" /\ busy' = "command" /\ launches = 0 /\ UNCHANGED exit
    BY <1>1 DEF Launch, OwnerAt, LaunchInv, disk
  <2>2. exit = "none" /\ intent.quiet # "confirmed"
    BY <2>1 DEF ShellInv, QuietInv
  <2> QED
    BY <1>0, <2>1, <2>2 DEF QuietInv
<1>2. CASE OwnerReaps(p)
  <2>1. worker.at = "over" /\ worker.parent # NoOne /\ UNCHANGED <<busy, launches>>
    BY <1>2, BridgeAssumption DEF OwnerReaps
  <2> QED
    BY <1>0, <2>1 DEF QuietInv
<1>3. CASE owner[p].at \in Reaped /\ UNCHANGED <<busy, launches>>
  <2>1. busy # "command"
    BY <1>3 DEF QuietInv, ShellInv
  <2> QED
    BY <1>0, <1>3, <2>1 DEF QuietInv
<1>4. CASE /\ UNCHANGED <<exit, worker, busy, launches>>
           /\ owner'[p].at \notin Reaped
  BY <1>0, <1>4 DEF QuietInv
<1>5. CASE OwnerBegins(p) \/ OwnerNotes(p) \/ LaunchFails(p)
  <2>1. UNCHANGED <<exit, worker, busy, launches>> /\ owner'[p].at \notin Reaped
    BY <1>5, OwnerGoneFields DEF OwnerBegins, OwnerNotes, LaunchFails, disk, shell, Reaped
  <2> QED
    BY <1>4, <2>1
<1>6. CASE OwnerRecords(p) \/ OwnerFinalizes(p) \/ OwnerWrites(p, "closing", "none")
  <2>1. owner[p].at \in Reaped /\ UNCHANGED <<busy, launches>>
    BY <1>6 DEF OwnerRecords, OwnerFinalizes, OwnerWrites, OwnerAt, shell, Reaped
  <2> QED
    BY <1>3, <2>1
<1>7. CASE OwnerWrites(p, "beginning", "launching") \/ OwnerWrites(p, "noting", "waiting")
  <2>1. UNCHANGED <<exit, worker, busy, launches>> /\ owner'[p].at \notin Reaped
    BY <1>7, OwnerGoesFields DEF OwnerWrites, shell, Reaped, Places, Awaits
  <2> QED
    BY <1>4, <2>1
<1> QED
  BY <1>1, <1>2, <1>5, <1>6, <1>7 DEF Owner

LEMMA QuietCall ==
  ASSUME TypeInv, ShellInv, TruthInv, QuietInv, NEW p \in Processes, Call(p)
  PROVE  QuietInv'
<1> USE TypeParts DEF TypeInv
<1>1. UNCHANGED <<exit, busy, launches>>
  BY DEF Call, Run, EnsureJob, Dispatch, Wait, TimesOut, Turn, Reconcile,
     ReconcileFinalizes, MainWrites, LooksTerminal, Answer, LooksReviewed, Observe, Bury,
     MarkGone, MarkReview, Consume, ConsumeMarks, ConsumeAnswers, disk, shell
<1>2. CASE LooksTerminal(p)
  <2>1. UNCHANGED <<owner, worker>>
    BY <1>2 DEF LooksTerminal, shell
  <2>2. CASE Confirmed
    <3>1. exit # "none"
      BY <2>2 DEF Confirmed, TruthInv, Fits
    <3>2. busy # "command" /\ launches # 0
      BY <3>1 DEF QuietInv, ShellInv
    <3> QED
      BY <1>1, <2>1, <3>2 DEF QuietInv
  <2>3. CASE ~Confirmed
    <3>1. intent'.quiet = intent.quiet
      BY <1>2, <2>3 DEF LooksTerminal, Intents
    <3> QED
      BY <1>1, <2>1, <3>1 DEF QuietInv
  <2> QED
    BY <2>2, <2>3
<1>3. CASE ~LooksTerminal(p)
  <2>1. intent'.quiet = "confirmed" => intent.quiet = "confirmed"
    BY <1>3 DEF Call, Run, EnsureJob, Dispatch, Wait, TimesOut, Turn, Reconcile,
       ReconcileFinalizes, MainWrites, Answer, LooksReviewed, Observe, Bury,
       MarkGone, MarkReview, Consume, ConsumeMarks, ConsumeAnswers, disk, shell, Intents
  <2>2. CASE Leaves(p)
    <3> DEFINE kills == owner[p].at = "started"
    <3>1. LeavesShell(p, kills)
      BY <2>2 DEF Leaves
    <3>2. kills \in BOOLEAN
      BY Zenon
    <3> HIDE DEF kills
    <3> QED
      BY <1>1, <2>1, <2>2, <3>1, <3>2, LeavesFields, QuietLeaves
  <2>3. CASE Dispatch(p)
    <3>1. /\ owner'[p].at = "ready" /\ UNCHANGED worker
          /\ \A q \in Processes \ {p} : owner'[q] = owner[q]
      BY <2>3, OwnerGoesFields DEF Dispatch, shell, Places, Awaits
    <3> QED
      BY <1>1, <2>1, <3>1 DEF QuietInv, Reaped
  <2>4. CASE ~Leaves(p) /\ ~Dispatch(p)
    <3>1. UNCHANGED <<owner, worker>>
      BY <1>3, <2>4 DEF Call, Run, EnsureJob, Wait, TimesOut, Turn, Reconcile,
         ReconcileFinalizes, MainWrites, Answer, LooksReviewed, Observe, Bury,
         MarkGone, MarkReview, Consume, ConsumeMarks, ConsumeAnswers, disk, shell
    <3> QED
      BY <1>1, <2>1, <3>1 DEF QuietInv
  <2> QED
    BY <2>2, <2>3, <2>4
<1> QED
  BY <1>2, <1>3

LEMMA QuietNext ==
  ASSUME Detached, TypeInv, LaunchInv, ShellInv, TruthInv, QuietInv, [Next]_vars
  PROVE  QuietInv'
<1>1. CASE UNCHANGED vars
  BY <1>1 DEF vars, QuietInv
<1>2. ASSUME NEW p \in Processes, Crash(p)
      PROVE  QuietInv'
  <2>1. UNCHANGED <<exit, busy, launches, intent>> /\ LeavesShell(p, FALSE)
    BY <1>2 DEF Crash, Detached
  <2> QED
    BY <1>2, <2>1, CrashMain, QuietLeaves DEF TypeInv
<1> QED
  BY <1>1, <1>2, QuietShell, QuietOwner, QuietCall DEF Next

\* execution_quiescence says confirmed only when the command, that is all its
\* shell waits for, is over, whoever kills the shell or dies; but for a shell
\* that is killed while the process that dispatched it is there to collect an
\* exit status for it.  Of children in the background it says nothing.
THEOREM ConfirmedMeansOver ==
  ASSUME Detached
  PROVE  Spec => []QuiescenceIsProven
<1>1. Attributable
  BY DEF Detached, Attributable
<1>2. Init => QuietInv
  BY DEF Init, QuietInv
<1>3. QuietInv => QuiescenceIsProven
  BY DEF QuietInv, QuiescenceIsProven
<1> QED
  BY <1>1, <1>2, <1>3, QuietNext, Typed, Launched, Truthful, PTL DEF Spec

=============================================================================
