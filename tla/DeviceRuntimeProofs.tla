------------------------ MODULE DeviceRuntimeProofs ------------------------
(***************************************************************************)
(* Theorems about DeviceRuntime, for any devices, adapters, bounds and       *)
(* faults.                                                                   *)
(*                                                                         *)
(* The invariant of TaskKernelProofs is kept by the coordinator's            *)
(* transactions.  On top of it, Bearings says to which episode every run,     *)
(* request and answer belongs; Granted what a device that may act has been    *)
(* granted; Once what has become of the external operation at every point of   *)
(* a run; and Truth how the journal, the requests on their way and the rows of  *)
(* the coordinator relate.                                                   *)
(***************************************************************************)
EXTENDS DeviceRuntime, TaskKernelTheorems

-----------------------------------------------------------------------------
(* Types.                                                                   *)

Ops     == {"claim", "start", "dispatch", "observe", "complete", "release", "report",
            "renew", "unknown"}
Natives == Outcomes \cup {"none", "running"}
Numbers == 0 .. MaxEpisodes
Asking  == {"claiming", "starting", "dispatching", "observing", "completing", "releasing",
            "reporting"}

Runs      == [run : 0 .. MaxRuns, pc : Points, episode : Numbers, revision : Nat, sent : Nat,
              deadline : Nat, open : BOOLEAN, renewing : BOOLEAN, asked : Nat,
              challenge : Challenges \cup {0}]
Records   == [phase : Phases, observed : BOOLEAN, result : Natives]
Messages  == [op : Ops, device : Devices, run : Nat, episode : Numbers, revision : Nat,
              challenge : Challenges \cup {0}, result : Natives]
Replies   == [op : Ops, device : Devices, ok : BOOLEAN, episode : Numbers, window : Nat]
Questions == [state : {"none", "pending", "accepted"}, episode : Numbers, revision : Nat,
              fence : Nat, expires : Nat]

Types ==
  /\ task.host = FALSE
  /\ worker \in [Devices -> Runs]
  /\ journal \in [Effects -> Records]
  /\ native \in [Effects -> Natives]
  /\ runs \in [Effects -> Nat]
  /\ net \subseteq Messages /\ answers \subseteq Replies
  /\ challenge \in [Challenges -> Questions]

LEMMA WaitsAre ==
  /\ DOMAIN Waits = Asking
  /\ Waits["claiming"] = "claim" /\ Waits["starting"] = "start"
  /\ Waits["dispatching"] = "dispatch" /\ Waits["observing"] = "observe"
  /\ Waits["completing"] = "complete" /\ Waits["releasing"] = "release"
  /\ Waits["reporting"] = "report"
BY DEF Waits, Asking

LEMMA PointsAre ==
  Points = Asking \cup {"idle", "leased", "permitted", "native", "observed", "reconciling"}
BY WaitsAre DEF Points, Works

\* What a device waits for, point by point.
LEMMA AwaitsWhat ==
  ASSUME NEW d, NEW op
  PROVE  Awaits(d, op) <=>
           \/ op = "renew" /\ worker[d].renewing
           \/ op = "claim" /\ worker[d].pc = "claiming"
           \/ op = "start" /\ worker[d].pc = "starting"
           \/ op = "dispatch" /\ worker[d].pc = "dispatching"
           \/ op = "observe" /\ worker[d].pc = "observing"
           \/ op = "complete" /\ worker[d].pc = "completing"
           \/ op = "release" /\ worker[d].pc = "releasing"
           \/ op = "report" /\ worker[d].pc = "reporting"
BY WaitsAre DEF Awaits, Asking

LEMMA WorkerFields ==
  ASSUME Types, NEW d \in Devices
  PROVE  /\ worker[d] \in Runs
         /\ worker[d].run \in 0 .. MaxRuns /\ worker[d].pc \in Points
         /\ worker[d].episode \in Numbers /\ worker[d].revision \in Nat
         /\ worker[d].sent \in Nat /\ worker[d].deadline \in Nat /\ worker[d].open \in BOOLEAN
         /\ worker[d].renewing \in BOOLEAN /\ worker[d].asked \in Nat
         /\ worker[d].challenge \in Challenges \cup {0}
<1>1. worker[d] \in Runs
  BY DEF Types
<1> QED
  BY <1>1 DEF Runs

LEMMA EpisodesAre ==
  /\ Effects = Episodes /\ Numbers = Episodes \cup {0} /\ 0 \notin Episodes
  /\ Episodes \subseteq Nat /\ MaxEpisodes \in Nat /\ MaxRuns \in Nat /\ Ttl \in Nat /\ Ttl > 0
BY KernelAssumption, DeviceAssumption DEF Episodes, Numbers

LEMMA RequestTyped ==
  ASSUME Types, NEW d \in Devices, NEW op \in Ops
  PROVE  Request(d, op) \in Messages
<1> DEFINE result == IF worker[d].episode = 0 THEN "none" ELSE native[worker[d].episode]
<1>1. result \in Natives
  BY WorkerFields, EpisodesAre DEF Types, Natives
<1>2. worker[d].run \in Nat /\ worker[d].episode \in Numbers /\ worker[d].revision \in Nat
      /\ worker[d].challenge \in Challenges \cup {0}
  BY WorkerFields, EpisodesAre
<1>3. Request(d, op) = [op |-> op, device |-> d, run |-> worker[d].run,
        episode |-> worker[d].episode, revision |-> worker[d].revision,
        challenge |-> worker[d].challenge, result |-> result]
  BY DEF Request
<1> HIDE DEF result
<1> QED
  BY <1>1, <1>2, <1>3 DEF Messages

LEMMA SendTyped ==
  ASSUME Types, NEW d \in Devices, NEW op \in Ops, Send(d, op)
  PROVE  net' \subseteq Messages
BY RequestTyped DEF Types, Send

LEMMA MessageFields ==
  ASSUME Types, NEW r \in net
  PROVE  /\ r.op \in Ops /\ r.device \in Devices /\ r.run \in Nat /\ r.episode \in Numbers
         /\ r.revision \in Nat /\ r.challenge \in Challenges \cup {0} /\ r.result \in Natives
<1>1. r \in Messages
  BY DEF Types
<1> QED
  BY <1>1 DEF Messages

LEMMA ReplyFields ==
  ASSUME Types, NEW a \in answers
  PROVE  /\ a.op \in Ops /\ a.device \in Devices /\ a.ok \in BOOLEAN
         /\ a.episode \in Numbers /\ a.window \in Nat
<1>1. a \in Replies
  BY DEF Types
<1> QED
  BY <1>1 DEF Replies

LEMMA QuestionFields ==
  ASSUME Types, NEW c \in Challenges
  PROVE  /\ challenge[c].state \in {"none", "pending", "accepted"}
         /\ challenge[c].episode \in Numbers /\ challenge[c].expires \in Nat
<1>1. challenge[c] \in Questions
  BY DEF Types
<1> QED
  BY <1>1 DEF Questions

LEMMA RecordFields ==
  ASSUME Types, NEW p \in Episodes
  PROVE  /\ journal[p] \in Records
         /\ journal[p].phase \in Phases /\ journal[p].observed \in BOOLEAN
         /\ journal[p].result \in Natives /\ native[p] \in Natives /\ runs[p] \in Nat
<1>1. journal[p] \in Records
  BY EpisodesAre DEF Types
<1> QED
  BY <1>1, EpisodesAre DEF Types, Records

LEMMA IdleFields ==
  ASSUME NEW n \in 0 .. MaxRuns
  PROVE  /\ Idle(n) \in Runs
         /\ Idle(n).run = n /\ Idle(n).pc = "idle" /\ Idle(n).episode = 0 /\ Idle(n).sent = 0
         /\ Idle(n).deadline = 0 /\ Idle(n).open = FALSE /\ Idle(n).renewing = FALSE
         /\ Idle(n).asked = 0 /\ Idle(n).challenge = 0
<1>1. "idle" \in Points /\ 0 \in Numbers /\ 0 \in Nat
  BY PointsAre, EpisodesAre
<1> QED
  BY <1>1 DEF Idle, Runs

\* The run of d is over, the others are as they were.
RunOver(d) ==
  /\ worker' \in [Devices -> Runs]
  /\ worker'[d].run = worker[d].run /\ worker'[d].pc = "idle" /\ worker'[d].episode = 0
  /\ worker'[d].sent = 0 /\ worker'[d].asked = 0
  /\ worker'[d].open = FALSE /\ worker'[d].renewing = FALSE
  /\ \A x \in Devices \ {d} : worker'[x] = worker[x]

LEMMA StopsFields ==
  ASSUME Types, NEW d \in Devices, Stops(d)
  PROVE  RunOver(d)
<1>1. worker' = [worker EXCEPT ![d] = Idle(worker[d].run)]
  BY DEF Stops
<1>2. Idle(worker[d].run) \in Runs /\ worker[d].run \in 0 .. MaxRuns
  BY WorkerFields, IdleFields
<1> QED
  BY <1>1, <1>2, IdleFields DEF RunOver, Types

\* The run of d goes on, with its episode.
Stays(d) ==
  /\ worker' \in [Devices -> Runs]
  /\ worker'[d].run = worker[d].run /\ worker'[d].episode = worker[d].episode
  /\ worker'[d].challenge = worker[d].challenge
  /\ \A x \in Devices \ {d} : worker'[x] = worker[x]

\* ... and with its lease as it was.
Keeps(d) ==
  /\ Stays(d)
  /\ worker'[d].sent = worker[d].sent /\ worker'[d].deadline = worker[d].deadline
  /\ worker'[d].open = worker[d].open /\ worker'[d].renewing = worker[d].renewing
  /\ worker'[d].asked = worker[d].asked

LEMMA GoesFields ==
  ASSUME Types, NEW d \in Devices, NEW pc \in Points, Goes(d, pc)
  PROVE  Keeps(d) /\ worker'[d].pc = pc
BY DEF Types, Goes, Runs, Keeps, Stays

\* What d asks of the coordinator.
Asks(d, ops) ==
  /\ net \subseteq net'
  /\ \A m \in net' \ net :
       /\ m.op \in ops /\ m.device = d /\ m.run = worker[d].run
       /\ m.episode = worker[d].episode /\ m.challenge = worker[d].challenge
       /\ m.result = IF worker[d].episode = 0 THEN "none" ELSE native[worker[d].episode]

LEMMA SendAsks ==
  ASSUME NEW d, NEW op, NEW ops, op \in ops, Send(d, op)
  PROVE  Asks(d, ops)
BY DEF Send, Request, Asks

LEMMA NothingAsked ==
  ASSUME NEW d, NEW ops, net' = net
  PROVE  Asks(d, ops)
BY DEF Asks

LEMMA JournalsFields ==
  ASSUME Types, NEW p \in Episodes, NEW to \in Phases, Journals(p, to)
  PROVE  /\ journal' \in [Effects -> Records]
         /\ journal'[p].phase = to /\ journal'[p].observed = journal[p].observed
         /\ journal'[p].result = journal[p].result
         /\ \A q \in Episodes \ {p} : journal'[q] = journal[q]
BY EpisodesAre DEF Types, Journals, Records

\* What the lease authority of d holds after an answer.
LeaseAfter(d, w, sent, window) ==
  /\ w \in Runs
  /\ w.pc = worker[d].pc /\ w.run = worker[d].run /\ w.episode = worker[d].episode
  /\ w.sent = worker[d].sent /\ w.renewing = worker[d].renewing
  /\ w.asked = worker[d].asked /\ w.challenge = worker[d].challenge
  /\ w.open => /\ worker[d].open /\ w.deadline = sent + window
               /\ clock < sent + window /\ clock < worker[d].deadline

LEMMA RenewedFields ==
  ASSUME Types, NEW d \in Devices, NEW sent \in Nat, NEW window \in Nat
  PROVE  LeaseAfter(d, Renewed(d, sent, window), sent, window)
<1>1. worker[d] \in Runs /\ sent + window \in Nat
  BY WorkerFields
<1> QED
  BY <1>1 DEF Renewed, Current, Runs, LeaseAfter

-----------------------------------------------------------------------------
(* Whose is what.                                                           *)

\* The episode p was claimed by d.
Theirs(p, d) == p \in Episodes /\ episode[p].state # "none" /\ episode[p].device = d

OwnEffects == \A e \in Effects : effect[e].episode \in {0, e}

Unleased    == {"idle", "claiming"}
Reconciling == {"reconciling", "reporting"}

\* A run has an episode exactly after its claim was answered, and a lease only then.
AtBearings(d) ==
  /\ worker[d].pc \in Unleased <=> worker[d].episode = 0
  /\ worker[d].episode # 0 => Theirs(worker[d].episode, d)
  /\ worker[d].open => worker[d].pc \notin Unleased \cup Reconciling
  /\ worker[d].renewing => worker[d].pc \in Renews
  /\ worker[d].sent <= clock /\ worker[d].asked <= clock
  /\ worker[d].pc \in {"leased", "releasing"} \cup Reconciling => d \in Prepared
  /\ worker[d].pc \in Reconciling =>
       /\ worker[d].challenge \in Challenges
       /\ challenge[worker[d].challenge].state # "none"
       /\ challenge[worker[d].challenge].episode = worker[d].episode

AboutEpisode(c) == challenge[c].state # "none" => challenge[c].episode \in Episodes

\* A request is about the episode of the run that sent it.
Sent(r) ==
  /\ r.run <= worker[r.device].run
  /\ r.op = "claim" <=> r.episode = 0
  /\ r.episode # 0 => Theirs(r.episode, r.device)
  /\ r.run = worker[r.device].run /\ worker[r.device].pc = "claiming" => r.op = "claim"
  /\ r.run = worker[r.device].run /\ worker[r.device].episode # 0 /\ r.op # "claim" =>
       r.episode = worker[r.device].episode
  /\ r.op = "report" =>
       /\ r.challenge \in Challenges
       /\ challenge[r.challenge].state # "none"
       /\ challenge[r.challenge].episode = r.episode

\* An answer is awaited, and a new lease is of an episode nobody has asked about yet.
Due(a) ==
  /\ Awaits(a.device, a.op)
  /\ a.op = "claim" /\ a.ok =>
       /\ Theirs(a.episode, a.device)
       /\ \A r \in net : r.episode # a.episode

Bearings ==
  /\ \A d \in Devices : AtBearings(d)
  /\ \A c \in Challenges : AboutEpisode(c)
  /\ \A r \in net : Sent(r)
  /\ \A a \in answers : Due(a)

Basics == Inv /\ Types /\ OwnEffects /\ Bearings

-----------------------------------------------------------------------------
(* Bearings, by the kind of step.                                           *)

\* An answer that is still there is still awaited.
StillAwaited(d) ==
  /\ answers' \subseteq answers
  /\ \A a \in answers' : a.device = d => Awaits(d, a.op)'

LEMMA BearingsGoOn ==
  ASSUME Types, Bearings, NEW d \in Devices, Stays(d), worker[d].episode # 0, AtBearings(d)',
         UNCHANGED <<kernelVars, challenge>>, StillAwaited(d),
         Asks(d, Ops \ {"claim"}),
         worker[d].pc \notin Reconciling => Asks(d, Ops \ {"report"})
  PROVE  Bearings'
<1>1. ASSUME NEW x \in Devices PROVE AtBearings(x)'
  <2>1. CASE x = d
    BY <2>1
  <2>2. CASE x # d
    BY <2>2 DEF Bearings, AtBearings, Theirs, Stays, kernelVars
  <2> QED
    BY <2>1, <2>2
<1>2. ASSUME NEW c \in Challenges PROVE AboutEpisode(c)'
  BY DEF Bearings, AboutEpisode
<1>3. Theirs(worker[d].episode, d) /\ worker'[d].pc # "claiming" /\ worker[d].run \in Nat
  BY WorkerFields, EpisodesAre DEF Bearings, AtBearings, Unleased, Stays
<1>4. ASSUME NEW m \in net' \ net PROVE Sent(m)' /\ Theirs(m.episode, d)
  <2>1. /\ m.op # "claim" /\ m.device = d /\ m.run = worker[d].run
        /\ m.episode = worker[d].episode /\ m.challenge = worker[d].challenge
        /\ m.op = "report" => worker[d].pc \in Reconciling
    BY DEF Asks
  <2> QED
    BY <2>1, <1>3 DEF Sent, Stays, Bearings, AtBearings, Theirs, kernelVars
<1>5. ASSUME NEW m \in net PROVE Sent(m)'
  <2>1. Sent(m) /\ m.device \in Devices
    BY MessageFields DEF Bearings
  <2>2. CASE m.device = d
    BY <2>1, <2>2, <1>3 DEF Sent, Stays, Theirs, kernelVars
  <2>3. CASE m.device # d
    BY <2>1, <2>3 DEF Sent, Stays, Theirs, kernelVars
  <2> QED
    BY <2>2, <2>3
<1>6. ASSUME NEW a \in answers' PROVE Due(a)'
  <2>1. a \in answers /\ Due(a) /\ a.device \in Devices
    BY ReplyFields DEF StillAwaited, Bearings
  <2>2. CASE a.device = d
    <3>1. Awaits(d, a.op)'
      BY <2>2 DEF StillAwaited
    <3>2. a.op # "claim"
      BY <3>1, <1>3, WaitsAre DEF Awaits, Asking
    <3> QED
      BY <3>1, <3>2, <2>2 DEF Due
  <2>3. CASE a.device # d
    <3>1. Awaits(a.device, a.op)'
      BY <2>1, <2>3 DEF Due, Awaits, Stays
    <3>2. ASSUME a.op = "claim", a.ok, NEW m \in net' PROVE m.episode # a.episode
      BY <2>1, <2>3, <3>2, <1>4 DEF Due, Theirs
    <3> QED
      BY <2>1, <3>1, <3>2 DEF Due, Theirs, kernelVars
  <2> QED
    BY <2>2, <2>3
<1> QED
  BY <1>1, <1>2, <1>4, <1>5, <1>6 DEF Bearings

LEMMA BearingsOver ==
  ASSUME TypeOK, Types, Bearings, NEW d \in Devices, RunOver(d),
         UNCHANGED <<kernelVars, challenge>>,
         Asks(d, {"release", "unknown"}), worker[d].episode = 0 => net' = net,
         answers' \subseteq answers, \A a \in answers' : a.device # d
  PROVE  Bearings'
<1>1. ASSUME NEW x \in Devices PROVE AtBearings(x)'
  <2>1. CASE x = d
    <3>1. clock \in Nat /\ clock' = clock
      BY DEF kernelVars, TypeOK
    <3> QED
      BY <2>1, <3>1 DEF RunOver, AtBearings, Unleased, Reconciling
  <2>2. CASE x # d
    BY <2>2 DEF Bearings, AtBearings, Theirs, RunOver, kernelVars
  <2> QED
    BY <2>1, <2>2
<1>2. ASSUME NEW c \in Challenges PROVE AboutEpisode(c)'
  BY DEF Bearings, AboutEpisode
<1>3. worker[d].run \in Nat /\ (worker[d].episode # 0 => Theirs(worker[d].episode, d))
  BY WorkerFields, EpisodesAre DEF Bearings, AtBearings
<1>4. ASSUME NEW m \in net' \ net PROVE Sent(m)' /\ Theirs(m.episode, d)
  <2>1. /\ m.op \in {"release", "unknown"} /\ m.device = d /\ m.run = worker[d].run
        /\ m.episode = worker[d].episode /\ m.episode # 0
    BY DEF Asks
  <2> QED
    BY <2>1, <1>3 DEF Sent, RunOver, Bearings, AtBearings, Theirs, kernelVars
<1>5. ASSUME NEW m \in net PROVE Sent(m)'
  <2>1. Sent(m) /\ m.device \in Devices
    BY MessageFields DEF Bearings
  <2>2. CASE m.device = d
    BY <2>1, <2>2, <1>3 DEF Sent, RunOver, Theirs, kernelVars
  <2>3. CASE m.device # d
    BY <2>1, <2>3 DEF Sent, RunOver, Theirs, kernelVars
  <2> QED
    BY <2>2, <2>3
<1>6. ASSUME NEW a \in answers' PROVE Due(a)'
  <2>1. a \in answers /\ Due(a) /\ a.device \in Devices /\ a.device # d
    BY ReplyFields DEF Bearings
  <2>2. Awaits(a.device, a.op)'
    BY <2>1 DEF Due, Awaits, RunOver
  <2>3. ASSUME a.op = "claim", a.ok, NEW m \in net' PROVE m.episode # a.episode
    BY <2>1, <2>3, <1>4 DEF Due, Theirs
  <2> QED
    BY <2>1, <2>2, <2>3 DEF Due, Theirs, kernelVars
<1> QED
  BY <1>1, <1>2, <1>4, <1>5, <1>6 DEF Bearings

-----------------------------------------------------------------------------
(* The steps of a device are of two kinds: its run quits or goes on.  What    *)
(* begins a run comes after them.                                            *)

\* Requests that end an episode, and where a run is that has made one.
Ending  == {"complete", "release", "unknown"}
Closing == {"completing", "releasing"}

Quits(d) ==
  /\ RunOver(d)
  /\ Asks(d, {"release", "unknown"})
  /\ worker[d].episode = 0 => net' = net
  /\ answers' \subseteq answers /\ \A a \in answers' : a.device # d
  /\ UNCHANGED <<kernelVars, native, runs, operatorVars>>

GoesOn(d) ==
  /\ Stays(d) /\ worker[d].episode # 0 /\ AtBearings(d)'
  /\ StillAwaited(d)
  /\ \/ Asks(d, Ops \ ({"claim"} \cup Ending))
     \/ worker'[d].pc \in Closing /\ Asks(d, {"complete", "release"})
  /\ worker[d].pc \notin Reconciling => Asks(d, Ops \ {"report"})
  /\ UNCHANGED <<kernelVars, operatorVars>>

LEMMA AsksMore ==
  ASSUME NEW d, NEW few, NEW many, few \subseteq many, Asks(d, few)
  PROVE  Asks(d, many)
BY DEF Asks

LEMMA LeavesOver ==
  ASSUME Types, NEW d \in Devices, Leaves(d)
  PROVE  RunOver(d) /\ answers' \subseteq answers /\ \A a \in answers' : a.device # d
BY StopsFields DEF Leaves

LEMMA QuitsSilently ==
  ASSUME Types, NEW d \in Devices, Leaves(d), UNCHANGED <<kernelVars, native, runs, net, operatorVars>>
  PROVE  Quits(d)
BY LeavesOver, NothingAsked DEF Quits

LEMMA QuitsAsking ==
  ASSUME Types, NEW d \in Devices, Leaves(d), NEW op \in {"release", "unknown"}, Send(d, op),
         worker[d].episode # 0, UNCHANGED <<kernelVars, native, runs, operatorVars>>
  PROVE  Quits(d)
BY LeavesOver, SendAsks DEF Quits

LEMMA HasEpisode ==
  ASSUME Basics, NEW d \in Devices, worker[d].pc \notin Unleased
  PROVE  worker[d].episode \in Episodes /\ worker[d].episode # 0 /\ Theirs(worker[d].episode, d)
BY EpisodesAre DEF Basics, Bearings, AtBearings, Theirs

LEMMA AnswersAwaited ==
  ASSUME Basics, NEW a \in answers
  PROVE  Awaits(a.device, a.op) /\ a.device \in Devices
BY ReplyFields DEF Basics, Bearings, Due

\* While no answer to an earlier request is left, one that is there is to a renewal.
OnlyRenewals(d) == \A a \in answers' : a \in answers /\ (a.device = d => a.op = "renew")

LEMMA GoesOnBearings ==
  ASSUME Basics, NEW d \in Devices, NEW pc \in Points \ Unleased, Goes(d, pc),
         worker[d].pc \notin Unleased,
         pc \in {"leased", "releasing"} => d \in Prepared,
         pc \in Reconciling <=> worker[d].pc \in Reconciling,
         worker[d].renewing => pc \in Renews,
         OnlyRenewals(d), UNCHANGED <<kernelVars, operatorVars>>
  PROVE  Keeps(d) /\ worker'[d].pc = pc /\ worker[d].episode # 0 /\ AtBearings(d)' /\ StillAwaited(d)
<1>1. Keeps(d) /\ worker'[d].pc = pc
  BY GoesFields DEF Basics
<1>2. worker[d].episode # 0 /\ Theirs(worker[d].episode, d)
  BY HasEpisode
<1>3. AtBearings(d)'
  BY <1>1, <1>2 DEF Keeps, Stays, Basics, Bearings, AtBearings, Theirs, kernelVars, operatorVars
<1>4. StillAwaited(d)
  BY <1>1, AnswersAwaited, WaitsAre DEF StillAwaited, OnlyRenewals, Awaits, Keeps, Asking
<1> QED
  BY <1>1, <1>2, <1>3, <1>4

LEMMA NoOtherAnswer ==
  ASSUME Basics, NEW d \in Devices, worker[d].pc \notin Asking, answers' = answers
  PROVE  OnlyRenewals(d)
BY AnswersAwaited, WaitsAre DEF Awaits, OnlyRenewals

LEMMA OneAnswerRead ==
  ASSUME Basics, NEW d \in Devices, NEW pc \in Asking, worker[d].pc = pc,
         answers' = Dropped(d, Waits[pc])
  PROVE  OnlyRenewals(d)
BY AnswersAwaited, WaitsAre DEF Awaits, OnlyRenewals, Dropped, Answered

LEMMA AsksAny ==
  ASSUME NEW d, Asks(d, Ops \ ({"claim"} \cup Ending)) \/ Asks(d, {"complete", "release"})
  PROVE  Asks(d, Ops \ {"claim"})
BY DEF Asks, Ops, Ending

LEMMA GoesOnQuietly ==
  ASSUME NEW d, Keeps(d), worker[d].episode # 0, AtBearings(d)', StillAwaited(d), net' = net,
         UNCHANGED <<kernelVars, operatorVars>>
  PROVE  GoesOn(d)
BY NothingAsked DEF GoesOn, Keeps

LEMMA GoesOnAsking ==
  ASSUME NEW d, Keeps(d), worker[d].episode # 0, AtBearings(d)', StillAwaited(d),
         NEW op \in {"dispatch", "observe", "renew"}, Send(d, op),
         UNCHANGED <<kernelVars, operatorVars>>
  PROVE  GoesOn(d)
<1>1. Asks(d, Ops \ ({"claim"} \cup Ending)) /\ Asks(d, Ops \ {"report"})
  BY SendAsks DEF Ops, Ending
<1> QED
  BY <1>1 DEF GoesOn, Keeps

LEMMA ReadGood ==
  ASSUME Basics, NEW d, NEW op, Read(d, op, TRUE)
  PROVE  Awaits(d, op) /\ \E a \in answers : a.device = d /\ a.op = op /\ a.ok
<1>1. PICK a \in Answered(d, op) : a.ok = TRUE
  BY DEF Read
<1>2. a \in answers /\ a.device = d /\ a.op = op
  BY <1>1 DEF Answered
<1> QED
  BY <1>1, <1>2, AnswersAwaited

LEMMA DispatchMoves ==
  ASSUME Basics, NEW d \in Devices, Dispatch(d)
  PROVE  Keeps(d) /\ worker'[d].pc = "dispatching" /\ GoesOn(d)
<1>1. OnlyRenewals(d)
  BY NoOtherAnswer DEF Dispatch, At, Asking
<1>2. Keeps(d) /\ worker'[d].pc = "dispatching" /\ worker[d].episode # 0 /\ AtBearings(d)' /\ StillAwaited(d)
  BY <1>1, GoesOnBearings, PointsAre DEF Dispatch, At, Asking, Unleased, Reconciling, Renews, operatorVars
<1> QED
  BY <1>2, GoesOnAsking DEF Dispatch

LEMMA PermittedMoves ==
  ASSUME Basics, NEW d \in Devices, Permitted(d)
  PROVE  /\ Keeps(d) /\ worker[d].pc = "dispatching" /\ worker'[d].pc = "permitted" /\ GoesOn(d)
         /\ \E a \in answers : a.device = d /\ a.op = "dispatch" /\ a.ok
<1>1. worker[d].pc = "dispatching" /\ \E a \in answers : a.device = d /\ a.op = "dispatch" /\ a.ok
  <2>1. Awaits(d, "dispatch") /\ \E a \in answers : a.device = d /\ a.op = "dispatch" /\ a.ok
    BY ReadGood DEF Permitted
  <2> QED
    BY <2>1, AwaitsWhat
<1>2. OnlyRenewals(d)
  BY <1>1, OneAnswerRead, WaitsAre DEF Permitted, Asking
<1>3. Keeps(d) /\ worker'[d].pc = "permitted" /\ worker[d].episode # 0 /\ AtBearings(d)' /\ StillAwaited(d)
  BY <1>1, <1>2, GoesOnBearings, PointsAre DEF Permitted, Asking, Unleased, Reconciling, Renews, operatorVars
<1> QED
  BY <1>1, <1>3, GoesOnQuietly DEF Permitted

LEMMA BeginMoves ==
  ASSUME Basics, NEW d \in Devices, Begin(d)
  PROVE  Keeps(d) /\ worker'[d].pc = "native" /\ GoesOn(d)
<1>1. OnlyRenewals(d)
  BY NoOtherAnswer DEF Begin, At, Asking, wireVars
<1>2. Keeps(d) /\ worker'[d].pc = "native" /\ worker[d].episode # 0 /\ AtBearings(d)' /\ StillAwaited(d)
  BY <1>1, GoesOnBearings, PointsAre DEF Begin, At, Asking, Unleased, Reconciling, Renews, operatorVars
<1> QED
  BY <1>2, GoesOnQuietly DEF Begin, wireVars

LEMMA ObserveMoves ==
  ASSUME Basics, NEW d \in Devices, Observe(d), Current(d)
  PROVE  Keeps(d) /\ worker'[d].pc = "observing" /\ GoesOn(d)
<1>1. OnlyRenewals(d)
  BY NoOtherAnswer DEF Observe, At, Asking
<1>2. Keeps(d) /\ worker'[d].pc = "observing" /\ worker[d].episode # 0 /\ AtBearings(d)' /\ StillAwaited(d)
  BY <1>1, GoesOnBearings, PointsAre DEF Observe, At, Asking, Unleased, Reconciling, Renews, operatorVars
<1> QED
  BY <1>2, GoesOnAsking DEF Observe

LEMMA ObserveLate ==
  ASSUME Basics, NEW d \in Devices, Observe(d), ~Current(d)
  PROVE  Quits(d)
BY QuitsAsking, HasEpisode DEF Observe, At, Unleased, Basics

LEMMA ObservedMoves ==
  ASSUME Basics, NEW d \in Devices, Observed(d)
  PROVE  Keeps(d) /\ worker[d].pc = "observing" /\ worker'[d].pc = "observed" /\ GoesOn(d)
<1>1. worker[d].pc = "observing"
  <2>1. Awaits(d, "observe")
    BY ReadGood DEF Observed
  <2> QED
    BY <2>1, AwaitsWhat
<1>2. OnlyRenewals(d)
  BY <1>1, OneAnswerRead, WaitsAre DEF Observed, Asking
<1>3. Keeps(d) /\ worker'[d].pc = "observed" /\ worker[d].episode # 0 /\ AtBearings(d)' /\ StillAwaited(d)
  BY <1>1, <1>2, GoesOnBearings, PointsAre DEF Observed, Asking, Unleased, Reconciling, Renews, operatorVars
<1> QED
  BY <1>1, <1>3, GoesOnQuietly DEF Observed

LEMMA CompleteMoves ==
  ASSUME Basics, NEW d \in Devices, Complete(d)
  PROVE  Keeps(d) /\ worker'[d].pc = "completing" /\ GoesOn(d) /\ Asks(d, {"complete"})
<1>1. OnlyRenewals(d)
  BY NoOtherAnswer DEF Complete, At, Asking
<1>2. Keeps(d) /\ worker'[d].pc = "completing" /\ worker[d].episode # 0 /\ AtBearings(d)' /\ StillAwaited(d)
  BY <1>1, GoesOnBearings, PointsAre DEF Complete, At, Asking, Unleased, Reconciling, Renews, operatorVars
<1>3. Asks(d, {"complete"}) /\ Asks(d, {"complete", "release"}) /\ Asks(d, Ops \ {"report"})
  BY SendAsks DEF Complete, Ops
<1> QED
  BY <1>2, <1>3 DEF Complete, GoesOn, Keeps, Closing

LEMMA GivesBackMoves ==
  ASSUME Basics, NEW d \in Devices, GivesBack(d)
  PROVE  /\ Keeps(d) /\ worker[d].pc = "dispatching" /\ worker'[d].pc = "releasing" /\ GoesOn(d)
         /\ Asks(d, {"release"})
<1>1. worker[d].pc = "dispatching"
  BY AwaitsWhat DEF GivesBack, Failing
<1>2. OnlyRenewals(d)
  BY <1>1, OneAnswerRead, WaitsAre DEF GivesBack, Asking
<1>3. Keeps(d) /\ worker'[d].pc = "releasing" /\ worker[d].episode # 0 /\ AtBearings(d)' /\ StillAwaited(d)
  BY <1>1, <1>2, GoesOnBearings, PointsAre DEF GivesBack, Asking, Unleased, Reconciling, Renews, operatorVars
<1>4. Asks(d, {"release"}) /\ Asks(d, {"complete", "release"}) /\ Asks(d, Ops \ {"report"})
  BY SendAsks DEF GivesBack, Ops
<1> QED
  BY <1>1, <1>3, <1>4 DEF GivesBack, GoesOn, Keeps, Closing

LEMMA ReportMoves ==
  ASSUME Basics, NEW d \in Devices, Report(d)
  PROVE  Keeps(d) /\ worker'[d].pc = "reporting" /\ GoesOn(d) /\ Asks(d, {"report"})
<1>1. OnlyRenewals(d)
  BY NoOtherAnswer DEF Report, At, Asking
<1>2. ~worker[d].renewing
  BY DEF Report, At, Renews, Basics, Bearings, AtBearings
<1>3. Keeps(d) /\ worker'[d].pc = "reporting" /\ worker[d].episode # 0 /\ AtBearings(d)' /\ StillAwaited(d)
  BY <1>1, <1>2, GoesOnBearings, PointsAre DEF Report, At, Asking, Unleased, Reconciling, Renews, operatorVars
<1>4. Asks(d, {"report"}) /\ Asks(d, Ops \ ({"claim"} \cup Ending))
  BY SendAsks DEF Report, Ops, Ending
<1> QED
  BY <1>3, <1>4 DEF Report, GoesOn, Keeps, At, Reconciling

\* The answer to a start: the lease counts from the request, or the run quits.
LEMMA StartedMoves ==
  ASSUME Basics, NEW d \in Devices, Started(d)
  PROVE  \E a \in answers :
           /\ a.device = d /\ a.op = "start" /\ a.ok /\ worker[d].pc = "starting"
           /\ \/ /\ GoesOn(d) /\ worker'[d].pc = "dispatching"
                 /\ worker[d].open /\ worker'[d].open /\ ~worker'[d].renewing
                 /\ worker'[d].sent = worker[d].sent /\ worker'[d].asked = worker[d].asked
                 /\ worker'[d].deadline = worker[d].sent + a.window
                 /\ clock < worker[d].deadline /\ clock < worker[d].sent + a.window
                 /\ Asks(d, {"dispatch"}) /\ UNCHANGED <<journal, native, runs>>
              \/ Quits(d) /\ UNCHANGED journal
<1>1. PICK a \in Answered(d, "start") :
        /\ a.ok /\ answers' = Dropped(d, "start")
        /\ LET w == Renewed(d, worker[d].sent, a.window) IN
             IF w.open
             THEN worker' = [worker EXCEPT ![d] = [w EXCEPT !.pc = "dispatching"]] /\ Send(d, "dispatch")
             ELSE Stops(d) /\ Send(d, "unknown")
        /\ UNCHANGED <<kernelVars, journal, native, runs, operatorVars>>
  BY DEF Started
<1>2. a \in answers /\ a.device = d /\ a.op = "start" /\ a.window \in Nat /\ Awaits(d, "start")
  BY AnswersAwaited, ReplyFields DEF Answered, Basics
<1>3. worker[d].pc = "starting" /\ ~worker[d].renewing
  <2>1. worker[d].pc = "starting"
    BY <1>2, AwaitsWhat
  <2> QED
    BY <2>1 DEF Basics, Bearings, AtBearings, Renews
<1>4. worker[d].episode # 0 /\ Theirs(worker[d].episode, d)
  BY <1>3, HasEpisode DEF Unleased
<1> DEFINE w == Renewed(d, worker[d].sent, a.window)
<1>5. LeaseAfter(d, w, worker[d].sent, a.window)
  <2>1. Types /\ worker[d].sent \in Nat
    BY WorkerFields DEF Basics
  <2> QED
    BY <1>2, <2>1, RenewedFields, Zenon
<1>6. CASE w.open
  <2>1. worker' = [worker EXCEPT ![d] = [w EXCEPT !.pc = "dispatching"]] /\ Send(d, "dispatch")
    BY <1>1, <1>6
  <2> HIDE DEF w
  <2>2. /\ Stays(d) /\ worker'[d].pc = "dispatching" /\ worker'[d].open
        /\ worker'[d].renewing = worker[d].renewing
        /\ worker'[d].sent = worker[d].sent /\ worker'[d].asked = worker[d].asked
        /\ worker'[d].deadline = w.deadline
    BY <2>1, <1>5, <1>6, PointsAre DEF LeaseAfter, Stays, Runs, Asking, Basics, Types
  <2>3. OnlyRenewals(d)
    BY <1>1, <1>3, OneAnswerRead, WaitsAre DEF Asking
  <2>4. AtBearings(d)'
    BY <2>2, <1>1, <1>3, <1>4 DEF Stays, Basics, Bearings, AtBearings, Theirs, kernelVars, Unleased, Reconciling
  <2>5. StillAwaited(d)
    BY <2>2, <2>3, AnswersAwaited, WaitsAre DEF StillAwaited, OnlyRenewals, Awaits, Asking
  <2>6. Asks(d, {"dispatch"}) /\ Asks(d, Ops \ ({"claim"} \cup Ending)) /\ Asks(d, Ops \ {"report"})
    BY <2>1, SendAsks DEF Ops, Ending
  <2>7. GoesOn(d)
    BY <1>1, <1>4, <2>2, <2>4, <2>5, <2>6 DEF GoesOn
  <2> QED
    BY <1>1, <1>2, <1>3, <1>5, <1>6, <2>2, <2>6, <2>7 DEF LeaseAfter
<1>7. CASE ~w.open
  <2>1. Stops(d) /\ Send(d, "unknown")
    BY <1>1, <1>7
  <2>2. \A x \in answers' : x \in answers /\ x.device # d
    BY <1>1, <1>3, AnswersAwaited, AwaitsWhat DEF Dropped, Answered
  <2>3. RunOver(d) /\ Asks(d, {"release", "unknown"})
    BY <2>1, StopsFields, SendAsks DEF Basics
  <2>4. Quits(d)
    BY <1>1, <1>4, <2>2, <2>3 DEF Quits
  <2> QED
    BY <1>1, <1>2, <1>3, <2>4
<1> QED
  BY <1>6, <1>7

LEMMA RenewSentMoves ==
  ASSUME Basics, NEW d \in Devices, RenewSent(d)
  PROVE  /\ GoesOn(d) /\ worker'[d].pc = worker[d].pc
         /\ worker'[d].open = worker[d].open /\ worker'[d].deadline = worker[d].deadline
         /\ worker'[d].sent = worker[d].sent /\ worker'[d].asked = clock /\ ~worker[d].renewing
         /\ Asks(d, {"renew"})
<1>1. clock \in Nat /\ worker[d].pc \notin Unleased \cup Reconciling
  BY DEF RenewSent, Renews, Unleased, Reconciling, Basics, Inv, TypeOK
<1>2. worker[d].episode # 0 /\ Theirs(worker[d].episode, d)
  BY <1>1, HasEpisode
<1>3. /\ Stays(d) /\ worker'[d].pc = worker[d].pc
      /\ worker'[d].open = worker[d].open /\ worker'[d].deadline = worker[d].deadline
      /\ worker'[d].sent = worker[d].sent /\ worker'[d].asked = clock
      /\ worker'[d].renewing = TRUE
  BY <1>1 DEF RenewSent, Stays, Runs, Basics, Types
<1>4. AtBearings(d)'
  BY <1>1, <1>2, <1>3 DEF RenewSent, Stays, Basics, Bearings, AtBearings, Theirs, kernelVars, operatorVars
<1>5. StillAwaited(d)
  BY <1>3, AnswersAwaited DEF RenewSent, StillAwaited, Awaits
<1>6. Asks(d, {"renew"}) /\ Asks(d, Ops \ ({"claim"} \cup Ending)) /\ Asks(d, Ops \ {"report"})
  BY SendAsks DEF RenewSent, Ops, Ending
<1> QED
  BY <1>2, <1>3, <1>4, <1>5, <1>6 DEF RenewSent, GoesOn

LEMMA RenewAnsweredMoves ==
  ASSUME Basics, NEW d \in Devices, RenewAnswered(d)
  PROVE  /\ GoesOn(d) /\ worker'[d].pc = worker[d].pc /\ net' = net
         /\ worker'[d].sent = worker[d].sent /\ ~worker'[d].renewing
         /\ worker'[d].open =>
              /\ worker[d].open
              /\ \E a \in answers :
                   /\ a.device = d /\ a.op = "renew" /\ a.ok
                   /\ worker'[d].deadline = worker[d].asked + a.window
                   /\ clock < worker[d].asked + a.window /\ clock < worker[d].deadline
<1> DEFINE Moved ==
      /\ Stays(d) /\ worker'[d].pc = worker[d].pc
      /\ worker'[d].sent = worker[d].sent /\ ~worker'[d].renewing /\ worker'[d].asked = 0
      /\ worker'[d].open =>
           /\ worker[d].open
           /\ \E a \in answers :
                /\ a.device = d /\ a.op = "renew" /\ a.ok
                /\ worker'[d].deadline = worker[d].asked + a.window
                /\ clock < worker[d].asked + a.window /\ clock < worker[d].deadline
<1>1. worker \in [Devices -> Runs] /\ worker[d] \in Runs /\ worker[d].asked \in Nat /\ clock \in Nat
  BY WorkerFields DEF Basics, Types, Inv, TypeOK
<1>2. worker[d].renewing /\ Moved
  <2>1. CASE \E a \in Answered(d, "renew") :
               a.ok /\ worker' = [worker EXCEPT ![d] =
                 [Renewed(d, worker[d].asked, a.window) EXCEPT !.renewing = FALSE, !.asked = 0]]
    <3>1. PICK a \in Answered(d, "renew") :
               a.ok /\ worker' = [worker EXCEPT ![d] =
                 [Renewed(d, worker[d].asked, a.window) EXCEPT !.renewing = FALSE, !.asked = 0]]
      BY <2>1
    <3>2. a \in answers /\ a.device = d /\ a.op = "renew" /\ a.window \in Nat /\ Awaits(d, "renew")
      BY AnswersAwaited, ReplyFields DEF Answered, Basics
    <3>3. worker[d].renewing
      BY <3>2, AwaitsWhat
    <3> DEFINE w == Renewed(d, worker[d].asked, a.window)
    <3>4. LeaseAfter(d, w, worker[d].asked, a.window)
      <4>1. Types
        BY DEF Basics
      <4> QED
        BY <1>1, <3>2, <4>1, RenewedFields, Zenon
    <3>5. worker' = [worker EXCEPT ![d] = [w EXCEPT !.renewing = FALSE, !.asked = 0]]
      BY <3>1
    <3> HIDE DEF w
    <3>6. Stays(d) /\ worker'[d].pc = worker[d].pc /\ worker'[d].open = w.open
          /\ worker'[d].sent = worker[d].sent /\ ~worker'[d].renewing /\ worker'[d].asked = 0
          /\ worker'[d].deadline = w.deadline
      BY <1>1, <3>4, <3>5 DEF LeaseAfter, Stays, Runs
    <3> QED
      BY <3>1, <3>2, <3>3, <3>4, <3>6 DEF LeaseAfter
  <2>2. CASE /\ Failing(d, "renew")
             /\ worker' = [worker EXCEPT ![d] = [@ EXCEPT !.open = FALSE, !.renewing = FALSE, !.asked = 0]]
    <3>1. worker[d].renewing
      BY <2>2, AwaitsWhat DEF Failing
    <3>2. /\ Stays(d) /\ worker'[d].pc = worker[d].pc /\ worker'[d].open = FALSE
          /\ worker'[d].sent = worker[d].sent /\ worker'[d].renewing = FALSE /\ worker'[d].asked = 0
      BY <1>1, <2>2 DEF Stays, Runs
    <3> QED
      BY <3>1, <3>2
  <2> QED
    BY <2>1, <2>2 DEF RenewAnswered
<1> HIDE DEF Moved
<1>3. worker[d].pc \notin Unleased \cup Reconciling
  BY <1>2 DEF Basics, Bearings, AtBearings, Renews, Unleased, Reconciling
<1>4. worker[d].episode # 0 /\ Theirs(worker[d].episode, d)
  BY <1>3, HasEpisode
<1>5. AtBearings(d)'
  <2>1. /\ worker'[d].episode = worker[d].episode /\ worker'[d].challenge = worker[d].challenge
        /\ worker'[d].pc = worker[d].pc /\ worker'[d].sent = worker[d].sent
        /\ ~worker'[d].renewing /\ worker'[d].asked = 0
        /\ worker'[d].open => worker[d].open
    BY <1>2 DEF Moved, Stays
  <2>2. UNCHANGED <<episode, clock, challenge>>
    BY DEF RenewAnswered, kernelVars, operatorVars
  <2>3. AtBearings(d)
    BY DEF Basics, Bearings
  <2> QED
    BY <1>1, <1>3, <1>4, <2>1, <2>2, <2>3 DEF AtBearings, Theirs
<1>6. StillAwaited(d)
  <2>1. ASSUME NEW x \in answers', x.device = d
        PROVE  worker[d].pc \in DOMAIN Waits /\ x.op = Waits[worker[d].pc]
    <3>1. x \in answers /\ x.op # "renew"
      BY <2>1 DEF RenewAnswered, Dropped, Answered
    <3> QED
      BY <2>1, <3>1, AnswersAwaited DEF Awaits
  <2> QED
    BY <1>2, <2>1 DEF Moved, RenewAnswered, StillAwaited, Awaits, Dropped, Answered
<1>7. GoesOn(d)
  BY <1>2, <1>4, <1>5, <1>6, NothingAsked DEF Moved, RenewAnswered, GoesOn
<1> QED
  BY <1>2, <1>7 DEF Moved, RenewAnswered

-----------------------------------------------------------------------------
(* Runs that quit, and runs that begin.                                     *)

LEMMA SilentQuits ==
  ASSUME Basics, NEW d \in Devices,
         \/ NoLease(d) \/ Completed(d) \/ GivenBack(d) \/ Crash(d) \/ Reported(d) \/ ReportFails(d)
  PROVE  Quits(d) /\ net' = net
BY QuitsSilently DEF Basics, NoLease, Completed, GivenBack, Crash, Reported, ReportFails

LEMMA PrepareFailsQuits ==
  ASSUME Basics, NEW d \in Devices, PrepareFails(d)
  PROVE  Quits(d) /\ worker[d].pc = "leased" /\ Asks(d, {"release"}) /\ UNCHANGED journal
BY QuitsAsking, HasEpisode, SendAsks DEF Basics, PrepareFails, At, Unleased

LEMMA UnprovenQuits ==
  ASSUME Basics, NEW d \in Devices, Unproven(d)
  PROVE  Quits(d) /\ worker[d].pc \notin Unleased /\ Asks(d, {"unknown"})
<1>1. worker[d].pc \notin Unleased
  BY AwaitsWhat DEF Unproven, Failing, At, Unleased
<1> QED
  BY <1>1, QuitsAsking, HasEpisode, SendAsks DEF Basics, Unproven

\* d begins a run.
Begins(d) ==
  /\ worker[d].pc = "idle"
  /\ worker' \in [Devices -> Runs]
  /\ worker'[d].run = worker[d].run + 1
  /\ \A x \in Devices \ {d} : worker'[x] = worker[x]
  /\ AtBearings(d)'
  /\ ~worker'[d].open
  /\ net \subseteq net'
  /\ \A m \in net' \ net : /\ m.op = "claim" /\ m.device = d /\ m.run = worker'[d].run
                           /\ m.episode = 0
  /\ UNCHANGED <<kernelVars, native, runs, answers, operatorVars>>

LEMMA RunBegins ==
  ASSUME Basics, NEW d \in Devices, Run(d)
  PROVE  Begins(d) /\ worker'[d].pc = "claiming" /\ net' \subseteq Messages /\ UNCHANGED journal
<1> DEFINE run == worker[d].run + 1
           w == [Idle(run) EXCEPT !.pc = "claiming", !.revision = task.revision, !.sent = clock]
           m == [Request(d, "claim") EXCEPT !.run = run, !.revision = task.revision]
<1>1. /\ worker[d].pc = "idle" /\ worker' = [worker EXCEPT ![d] = w] /\ net' = net \cup {m}
      /\ run \in 0 .. MaxRuns /\ run \in Nat /\ worker[d].episode = 0
  BY WorkerFields, EpisodesAre DEF Run, At, Basics, Bearings, AtBearings, Unleased
<1>2. clock \in Nat /\ task.revision \in Nat
  BY DEF Basics, Inv, TypeOK, Task
<1>3. /\ w \in Runs /\ w.run = run /\ w.pc = "claiming" /\ w.episode = 0 /\ w.sent = clock
      /\ w.open = FALSE /\ w.renewing = FALSE /\ w.asked = 0
  <2>1. Idle(run) \in Runs /\ "claiming" \in Points
    BY <1>1, IdleFields, PointsAre DEF Asking
  <2>2. /\ Idle(run).run = run /\ Idle(run).episode = 0 /\ Idle(run).open = FALSE
        /\ Idle(run).renewing = FALSE /\ Idle(run).asked = 0
    BY <1>1, IdleFields
  <2> HIDE DEF run
  <2> QED
    BY <1>2, <2>1, <2>2 DEF Runs
<1>4. m \in Messages /\ m.op = "claim" /\ m.device = d /\ m.run = run /\ m.episode = 0
  <2>1. Request(d, "claim") \in Messages
    BY RequestTyped DEF Basics, Ops
  <2>2. Request(d, "claim").op = "claim" /\ Request(d, "claim").device = d /\ Request(d, "claim").episode = 0
    BY <1>1 DEF Request
  <2>3. run \in Nat
    BY <1>1
  <2> HIDE DEF run
  <2> DEFINE old == Request(d, "claim")
  <2>4. old \in Messages /\ old.op = "claim" /\ old.device = d /\ old.episode = 0
    BY <2>1, <2>2
  <2>5. m = [old EXCEPT !.run = run, !.revision = task.revision]
    OBVIOUS
  <2> HIDE DEF old, m
  <2> QED
    BY <1>2, <2>3, <2>4, <2>5 DEF Messages
<1> HIDE DEF w, m
<1>5. worker' \in [Devices -> Runs] /\ worker'[d] = w /\ \A x \in Devices \ {d} : worker'[x] = worker[x]
  BY <1>1, <1>3 DEF Basics, Types
<1>6. AtBearings(d)'
  <2>1. clock' = clock
    BY DEF Run, kernelVars
  <2> QED
    BY <1>2, <1>3, <1>5, <2>1 DEF AtBearings, Unleased, Reconciling, Renews
<1> QED
  BY <1>1, <1>3, <1>4, <1>5, <1>6 DEF Run, Begins, Basics, Types

LEMMA FetchBegins ==
  ASSUME Basics, NEW d \in Devices, NEW c \in Challenges, Fetch(d, c)
  PROVE  Begins(d) /\ worker'[d].pc \in {"idle", "reconciling"} /\ net' = net
<1> DEFINE p == challenge[c].episode
           run == worker[d].run + 1
           w == [Idle(run) EXCEPT !.pc = "reconciling", !.episode = p, !.challenge = c,
                                  !.deadline = challenge[c].expires]
<1>1. worker[d].pc = "idle" /\ run \in 0 .. MaxRuns /\ d \in Prepared /\ clock \in Nat
  BY WorkerFields, EpisodesAre DEF Fetch, At, Basics, Inv, TypeOK
<1>2. Idle(run) \in Runs /\ Idle(run).run = run /\ Idle(run).pc = "idle"
      /\ Idle(run).episode = 0 /\ Idle(run).open = FALSE /\ Idle(run).renewing = FALSE
      /\ Idle(run).asked = 0 /\ Idle(run).sent = 0
  BY <1>1, IdleFields
<1>3. CASE worker' = [worker EXCEPT ![d] = Idle(run)]
  <2> HIDE DEF run
  <2>1. /\ worker' \in [Devices -> Runs] /\ worker'[d] = Idle(run)
        /\ \A x \in Devices \ {d} : worker'[x] = worker[x]
    BY <1>2, <1>3 DEF Basics, Types
  <2>2. AtBearings(d)'
    BY <1>1, <1>2, <2>1 DEF Fetch, AtBearings, Unleased, Reconciling, kernelVars
  <2>3. run = worker[d].run + 1
    BY DEF run
  <2> QED
    BY <1>1, <1>2, <2>1, <2>2, <2>3 DEF Fetch, Begins, wireVars
<1>4. CASE challenge[c].state = "pending" /\ worker' = [worker EXCEPT ![d] = w]
  <2>1. p \in Numbers /\ p # 0 /\ p \in Episodes /\ challenge[c].expires \in Nat
    BY QuestionFields, EpisodesAre DEF Fetch, Basics
  <2>2. Theirs(p, d)
    <3>1. Reconcilable(d, p)
      BY <1>4 DEF Fetch, ChallengeCurrent
    <3>2. effect[p].episode \in {0, p}
      BY <2>1, EpisodesAre DEF Basics, OwnEffects
    <3> QED
      BY <2>1, <3>1, <3>2 DEF Reconcilable, Theirs
  <2>3. "reconciling" \in Points
    BY PointsAre
  <2> HIDE DEF run, p
  <2>4. /\ w \in Runs /\ w.run = run /\ w.pc = "reconciling" /\ w.episode = p /\ w.sent = 0
        /\ w.open = FALSE /\ w.renewing = FALSE /\ w.asked = 0 /\ w.challenge = c
    BY <1>2, <2>1, <2>3 DEF Runs
  <2> HIDE DEF w
  <2>5. /\ worker' \in [Devices -> Runs] /\ worker'[d] = w
        /\ \A x \in Devices \ {d} : worker'[x] = worker[x]
    BY <1>4, <2>4 DEF Basics, Types
  <2>6. challenge[c].state # "none" /\ challenge[c].episode = p
    BY <1>4 DEF p
  <2>7. UNCHANGED <<episode, clock, challenge>>
    BY DEF Fetch, kernelVars, operatorVars
  <2>8. AtBearings(d)'
    BY <1>1, <2>1, <2>2, <2>4, <2>5, <2>6, <2>7 DEF AtBearings, Theirs, Unleased, Reconciling
  <2>9. run = worker[d].run + 1
    BY DEF run
  <2> QED
    BY <1>1, <2>4, <2>5, <2>8, <2>9 DEF Fetch, Begins, wireVars
<1> QED
  BY <1>3, <1>4, Zenon DEF Fetch

\* The answer to a claim: the run takes the lease of a, or quits.
TakesLease(d, a) ==
  /\ worker[d].pc = "claiming" /\ worker[d].episode = 0
  /\ worker' \in [Devices -> Runs]
  /\ worker'[d].run = worker[d].run /\ worker'[d].episode = a.episode /\ worker'[d].open
  /\ worker'[d].pc = IF d \in Prepared THEN "leased" ELSE "starting"
  /\ worker'[d].deadline = worker[d].sent + a.window /\ clock < worker[d].sent + a.window
  /\ worker'[d].sent = clock /\ ~worker'[d].renewing
  /\ \A x \in Devices \ {d} : worker'[x] = worker[x]
  /\ AtBearings(d)'
  /\ net \subseteq net' /\ net' \subseteq Messages
  /\ \A m \in net' \ net : /\ m.op = "start" /\ m.device = d /\ m.run = worker[d].run
                           /\ m.episode = a.episode
  /\ \A x \in answers' : x \in answers /\ x.device # d
  /\ UNCHANGED <<kernelVars, journal, native, runs, operatorVars>>

LEMMA GotLeaseMoves ==
  ASSUME Basics, NEW d \in Devices, GotLease(d)
  PROVE  \E a \in answers :
           /\ a.device = d /\ a.op = "claim" /\ a.ok
           /\ \/ TakesLease(d, a)
              \/ Quits(d) /\ net' = net /\ UNCHANGED journal
<1>1. PICK a \in Answered(d, "claim") :
        LET deadline == worker[d].sent + a.window IN
        /\ a.ok
        /\ answers' = Dropped(d, "claim")
        /\ IF clock >= deadline THEN Stops(d) /\ UNCHANGED net
           ELSE LET next == IF d \in Prepared THEN "leased" ELSE "starting" IN
                /\ worker' = [worker EXCEPT ![d] =
                     [@ EXCEPT !.pc = next, !.episode = a.episode, !.deadline = deadline,
                               !.open = TRUE, !.sent = clock]]
                /\ net' = IF d \in Prepared THEN net
                          ELSE net \cup {[Request(d, "start") EXCEPT !.episode = a.episode]}
        /\ UNCHANGED <<kernelVars, journal, native, runs, operatorVars>>
  BY DEF GotLease
<1>2. a \in answers /\ a.device = d /\ a.op = "claim" /\ a.window \in Nat /\ Awaits(d, "claim") /\ Due(a)
      /\ a.episode \in Numbers
  BY AnswersAwaited, ReplyFields DEF Answered, Basics, Bearings
<1>3. worker[d].pc = "claiming" /\ ~worker[d].renewing /\ worker[d].episode = 0
  <2>1. worker[d].pc = "claiming"
    BY <1>2, AwaitsWhat
  <2> QED
    BY <2>1 DEF Basics, Bearings, AtBearings, Renews, Unleased
<1>4. Theirs(a.episode, d) /\ a.episode # 0
  BY <1>1, <1>2, EpisodesAre DEF Due, Theirs
<1>5. \A x \in answers' : x \in answers /\ x.device # d
  BY <1>1, <1>3, AnswersAwaited, AwaitsWhat DEF Dropped, Answered
<1>6. CASE clock >= worker[d].sent + a.window
  <2>1. Stops(d) /\ net' = net
    BY <1>1, <1>6
  <2>2. RunOver(d) /\ Asks(d, {"release", "unknown"})
    BY <2>1, StopsFields, NothingAsked DEF Basics
  <2> QED
    BY <1>1, <1>2, <1>5, <2>1, <2>2 DEF Quits
<1>7. CASE ~(clock >= worker[d].sent + a.window)
  <2> DEFINE next == IF d \in Prepared THEN "leased" ELSE "starting"
             deadline == worker[d].sent + a.window
             m == [Request(d, "start") EXCEPT !.episode = a.episode]
  <2>1. /\ worker' = [worker EXCEPT ![d] =
             [@ EXCEPT !.pc = next, !.episode = a.episode, !.deadline = deadline,
                       !.open = TRUE, !.sent = clock]]
        /\ net' = IF d \in Prepared THEN net ELSE net \cup {m}
    BY <1>1, <1>7
  <2>2. deadline \in Nat /\ clock \in Nat /\ next \in Points /\ worker[d].sent \in Nat
    BY <1>2, WorkerFields, PointsAre DEF Basics, Inv, TypeOK, Asking
  <2>3. clock < deadline
    BY <1>2, <1>7, <2>2
  <2> HIDE DEF deadline
  <2>4. m \in Messages /\ m.op = "start" /\ m.device = d /\ m.run = worker[d].run /\ m.episode = a.episode
    <3> DEFINE old == Request(d, "start")
    <3>1. old \in Messages
      BY RequestTyped DEF Basics, Ops
    <3>2. old.op = "start" /\ old.device = d /\ old.run = worker[d].run
      BY DEF Request
    <3>3. m = [old EXCEPT !.episode = a.episode]
      OBVIOUS
    <3> HIDE DEF old, m
    <3> QED
      BY <1>2, <3>1, <3>2, <3>3 DEF Messages
  <2> HIDE DEF m
  <2>5. /\ net \subseteq net' /\ net' \subseteq Messages
        /\ \A x \in net' \ net : /\ x.op = "start" /\ x.device = d /\ x.run = worker[d].run
                                 /\ x.episode = a.episode
    BY <2>1, <2>4 DEF Basics, Types
  <2>6. /\ worker' \in [Devices -> Runs]
        /\ worker'[d].run = worker[d].run /\ worker'[d].episode = a.episode /\ worker'[d].open = TRUE
        /\ worker'[d].pc = next /\ worker'[d].deadline = deadline /\ worker'[d].sent = clock
        /\ worker'[d].renewing = worker[d].renewing /\ worker'[d].asked = worker[d].asked
        /\ \A x \in Devices \ {d} : worker'[x] = worker[x]
    <3>1. worker \in [Devices -> Runs] /\ worker[d] \in Runs
      BY WorkerFields DEF Basics, Types
    <3> HIDE DEF next
    <3> QED
      BY <1>2, <2>1, <2>2, <3>1 DEF Runs
  <2>7. UNCHANGED <<episode, clock, challenge>> /\ AtBearings(d)
    BY <1>1 DEF kernelVars, operatorVars, Basics, Bearings
  <2>8. AtBearings(d)'
    BY <1>3, <1>4, <2>2, <2>6, <2>7 DEF AtBearings, Theirs, Unleased, Reconciling, Renews
  <2>9. TakesLease(d, a)
    BY <1>1, <1>3, <1>5, <2>3, <2>5, <2>6, <2>8 DEF TakesLease, deadline
  <2> QED
    BY <1>1, <1>2, <2>9
<1> QED
  BY <1>6, <1>7

LEMMA BearingsTaken ==
  ASSUME Basics, NEW d \in Devices, NEW a \in answers, a.device = d, a.op = "claim", a.ok,
         TakesLease(d, a)
  PROVE  Bearings'
<1>0. Due(a) /\ Theirs(a.episode, d) /\ (\A r \in net : r.episode # a.episode) /\ a.episode # 0
      /\ worker[d].run \in Nat
  BY WorkerFields, EpisodesAre DEF Basics, Bearings, Due, Theirs
<1>1. ASSUME NEW x \in Devices PROVE AtBearings(x)'
  <2>1. CASE x = d
    BY <2>1 DEF TakesLease
  <2>2. CASE x # d
    BY <2>2 DEF Basics, Bearings, AtBearings, Theirs, TakesLease, kernelVars, operatorVars
  <2> QED
    BY <2>1, <2>2
<1>2. ASSUME NEW c \in Challenges PROVE AboutEpisode(c)'
  BY DEF Basics, Bearings, AboutEpisode, TakesLease, operatorVars
<1>3. UNCHANGED <<episode, challenge>> /\ worker'[d].pc # "claiming"
  BY DEF TakesLease, kernelVars, operatorVars
<1>4. ASSUME NEW m \in net' \ net PROVE Sent(m)'
  <2>1. /\ m.op = "start" /\ m.device = d /\ m.run = worker[d].run /\ m.episode = a.episode
        /\ worker'[d].run = worker[d].run /\ worker'[d].episode = a.episode
    BY DEF TakesLease
  <2> QED
    BY <2>1, <1>0, <1>3 DEF Sent, Theirs
<1>5. ASSUME NEW m \in net PROVE Sent(m)'
  <2>1. Sent(m) /\ m.device \in Devices
    BY MessageFields DEF Basics, Bearings
  <2>2. CASE m.device = d
    <3>1. worker'[d].run = worker[d].run /\ worker[d].pc = "claiming"
      BY DEF TakesLease
    <3> QED
      BY <1>3, <2>1, <2>2, <3>1 DEF Sent, Theirs
  <2>3. CASE m.device # d
    <3>1. worker'[m.device] = worker[m.device]
      BY <2>1, <2>3 DEF TakesLease
    <3> QED
      BY <1>3, <2>1, <3>1 DEF Sent, Theirs
  <2> QED
    BY <2>2, <2>3
<1>6. ASSUME NEW x \in answers' PROVE Due(x)'
  <2>1. x \in answers /\ Due(x) /\ x.device \in Devices /\ x.device # d
    BY ReplyFields DEF TakesLease, Basics, Bearings
  <2>2. worker'[x.device] = worker[x.device]
    BY <2>1 DEF TakesLease
  <2>3. Awaits(x.device, x.op)'
    BY <2>1, <2>2 DEF Due, Awaits
  <2>4. ASSUME x.op = "claim", x.ok, NEW m \in net' PROVE m.episode # x.episode
    <3>1. m \in net \/ m.episode = a.episode
      BY DEF TakesLease
    <3> QED
      BY <1>0, <2>1, <2>4, <3>1 DEF Due, Theirs
  <2> QED
    BY <1>3, <2>1, <2>3, <2>4 DEF Due, Theirs
<1> QED
  BY <1>1, <1>2, <1>4, <1>5, <1>6 DEF Bearings

LEMMA BearingsBegun ==
  ASSUME Basics, NEW d \in Devices, Begins(d)
  PROVE  Bearings'
<1>0. worker[d].run \in Nat /\ UNCHANGED <<episode, clock, challenge, answers>> /\ worker[d].pc = "idle"
      /\ worker'[d].run = worker[d].run + 1
  BY WorkerFields, EpisodesAre DEF Basics, Begins, kernelVars, operatorVars
<1>1. ASSUME NEW x \in Devices PROVE AtBearings(x)'
  <2>1. CASE x = d
    BY <2>1 DEF Begins
  <2>2. CASE x # d
    <3>1. worker'[x] = worker[x] /\ AtBearings(x)
      BY <2>2 DEF Begins, Basics, Bearings
    <3> QED
      BY <1>0, <3>1 DEF AtBearings, Theirs
  <2> QED
    BY <2>1, <2>2
<1>2. ASSUME NEW c \in Challenges PROVE AboutEpisode(c)'
  BY <1>0 DEF Basics, Bearings, AboutEpisode
<1>4. ASSUME NEW m \in net' \ net PROVE Sent(m)' /\ m.episode = 0
  <2>1. m.op = "claim" /\ m.device = d /\ m.run = worker'[d].run /\ m.episode = 0
    BY DEF Begins
  <2> QED
    BY <2>1, <1>0 DEF Sent
<1>5. ASSUME NEW m \in net PROVE Sent(m)'
  <2>1. Sent(m) /\ m.device \in Devices /\ m.run \in Nat
    BY MessageFields DEF Basics, Bearings
  <2>2. CASE m.device = d
    BY <1>0, <2>1, <2>2 DEF Sent, Theirs
  <2>3. CASE m.device # d
    <3>1. worker'[m.device] = worker[m.device]
      BY <2>1, <2>3 DEF Begins
    <3> QED
      BY <1>0, <2>1, <3>1 DEF Sent, Theirs
  <2> QED
    BY <2>2, <2>3
<1>6. ASSUME NEW x \in answers' PROVE Due(x)'
  <2>1. x \in answers /\ Due(x) /\ Awaits(x.device, x.op) /\ x.device \in Devices
    BY <1>0, AnswersAwaited DEF Basics, Bearings
  <2>2. x.device # d
    <3>1. ~worker[d].renewing
      BY <1>0 DEF Basics, Bearings, AtBearings, Renews
    <3> QED
      BY <1>0, <2>1, <3>1, AwaitsWhat
  <2>3. worker'[x.device] = worker[x.device]
    BY <2>1, <2>2 DEF Begins
  <2>4. Awaits(x.device, x.op)'
    BY <2>1, <2>3 DEF Awaits
  <2>5. ASSUME x.op = "claim", x.ok, NEW m \in net' PROVE m.episode # x.episode
    BY <1>4, <2>1, <2>5, EpisodesAre DEF Due, Theirs
  <2> QED
    BY <1>0, <2>1, <2>4, <2>5 DEF Due, Theirs
<1> QED
  BY <1>1, <1>2, <1>4, <1>5, <1>6 DEF Bearings

-----------------------------------------------------------------------------
(* The rows of the coordinator: nothing that was settled or recorded goes,    *)
(* only a claim begins an episode, and only what is active is cancelled or      *)
(* opened.                                                                   *)

Settled == {"released", "expired", "done", "failed", "cancelled"}
Open    == {"dispatched", "unknown"}

RowsGrow ==
  \A p \in Episodes :
    /\ episode[p].state # "none" =>
         episode'[p].state # "none" /\ episode'[p].device = episode[p].device
    /\ episode[p].state \in Settled => episode'[p].state = episode[p].state
    /\ effect[p].state # "none" =>
         effect'[p].state # "none" /\ effect'[p].manifest = effect[p].manifest
    /\ effect[p].state = "confirmed" => effect'[p].state = "confirmed"
    /\ episode'[p].state # "none" => episode[p].state # "none" \/ task'.active = p
    /\ episode'[p].state = "cancelled" => episode[p].state = "cancelled" \/ p = task.active
    /\ effect'[p].state \in Open => effect[p].state \in Open \/ p = task.active

KernelKept == Inv' /\ RowsGrow /\ OwnEffects' /\ task'.host = FALSE

LEMMA EpisodeFields ==
  ASSUME TypeOK, NEW p \in Episodes
  PROVE  /\ episode[p] \in Episode /\ episode[p].state \in EpisodeStates
         /\ episode[p].until \in Nat /\ episode[p].fence \in Nat
BY DEF TypeOK, Episode

LEMMA EffectFields ==
  ASSUME TypeOK, NEW p \in Episodes
  PROVE  /\ effect[p] \in Effect /\ effect[p].state \in {"none", "dispatched", "confirmed", "unknown"}
         /\ effect[p].episode \in 0 .. MaxEpisodes
         /\ effect[p].manifest \in BOOLEAN /\ effect[p].observed \in BOOLEAN
BY EpisodesAre DEF TypeOK, Effect

\* An episode has its own effect, or none.
LEMMA OwnEffect ==
  ASSUME Inv, OwnEffects, NEW p \in Episodes
  PROVE  /\ EffectsOf(p) = IF effect[p].state = "none" THEN {} ELSE {p}
         /\ effect[p].state = "none" <=> effect[p].episode = 0
         /\ effect[p].state # "none" => effect[p].episode = p
BY EpisodesAre DEF Inv, Accounted, NoneIsNowhere, OwnEffects, EffectsOf

LEMMA KernelUnchanged ==
  ASSUME Basics, UNCHANGED kernelVars
  PROVE  KernelKept
<1>1. Inv'
  BY UnchangedInv DEF kernelVars, Basics, Inv, TypeOK
<1> QED
  BY <1>1 DEF KernelKept, RowsGrow, OwnEffects, Basics, Types, kernelVars

LEMMA RowsUnchanged ==
  ASSUME Basics, UNCHANGED <<task, episode, effect>>, clock' \in Nat
  PROVE  KernelKept
<1>1. Inv'
  BY UnchangedInv DEF Basics
<1> QED
  BY <1>1 DEF KernelKept, RowsGrow, OwnEffects, Basics, Types

LEMMA TaskFields ==
  ASSUME TypeOK
  PROVE  /\ task \in Task /\ task.revision \in Nat /\ task.fence \in Nat
         /\ task.active \in 0 .. MaxEpisodes /\ task.dirty \in BOOLEAN
         /\ task.status \in Terminal \cup {"waiting", "running", "stale"}
BY DEF TypeOK, Task

LEMMA ClaimKept ==
  ASSUME Basics, NEW d \in Devices, NEW p \in Episodes, clock' = clock, Claim(d, p, Ttl, Ttl, clock)
  PROVE  KernelKept
<1>1. Inv'
  BY ClaimInv, EpisodesAre DEF Basics, Inv, TypeOK
<1>2. task'.host = task.host
  BY TaskFields DEF Claim, Saved, Basics, Inv, Task
<1>3. RowsGrow
  <2>1. task'.active = p
    BY TaskFields DEF Claim, Saved, Basics, Inv, Task
  <2> QED
    BY <2>1, EpisodeFields, EpisodesAre DEF Claim, Admitted, RowsGrow, Settled, Basics, Inv, TypeOK, Episode
<1> QED
  BY <1>1, <1>2, <1>3 DEF KernelKept, OwnEffects, Basics, Types, Claim

LEMMA StartKept ==
  ASSUME Basics, NEW d \in Devices, NEW p \in Episodes, clock' = clock, Start(d, p, clock)
  PROVE  KernelKept
<1>1. Inv'
  BY StartInv DEF Basics, Inv, TypeOK
<1>2. task'.host = task.host
  BY TaskFields DEF Start, Saved, Basics, Inv, Task
<1>3. RowsGrow
  BY EpisodeFields, EpisodesAre DEF Start, RowsGrow, Settled, Basics, Inv, TypeOK, Episode
<1> QED
  BY <1>1, <1>2, <1>3 DEF KernelKept, OwnEffects, Basics, Types, Start

LEMMA ReleaseKept ==
  ASSUME Basics, NEW d \in Devices, NEW p \in Episodes, clock' = clock, ReleaseUnstarted(d, p, clock)
  PROVE  KernelKept
<1>1. Inv'
  BY ReleaseUnstartedInv DEF Basics, Inv, TypeOK
<1>2. task'.host = task.host
  BY TaskFields DEF ReleaseUnstarted, Waiting, Saved, Basics, Inv, Task
<1>3. RowsGrow
  BY EpisodeFields, EpisodesAre DEF ReleaseUnstarted, Ended, RowsGrow, Settled, Basics, Inv, TypeOK, Episode
<1> QED
  BY <1>1, <1>2, <1>3 DEF KernelKept, OwnEffects, Basics, Types, ReleaseUnstarted

LEMMA LostFields ==
  ASSUME Inv, OwnEffects, NEW p \in Episodes, effect' = Lost(p)
  PROVE  \A e \in Episodes :
           /\ effect'[e].episode = effect[e].episode
           /\ effect'[e].manifest = effect[e].manifest /\ effect'[e].observed = effect[e].observed
           /\ effect'[e].state = IF e = p /\ effect[e].state = "dispatched" THEN "unknown" ELSE effect[e].state
<1> SUFFICES ASSUME NEW e \in Episodes
             PROVE  /\ effect'[e].episode = effect[e].episode
                    /\ effect'[e].manifest = effect[e].manifest /\ effect'[e].observed = effect[e].observed
                    /\ effect'[e].state = IF e = p /\ effect[e].state = "dispatched" THEN "unknown" ELSE effect[e].state
  OBVIOUS
<1>1. effect[e] \in Effect /\ p # 0
  BY EffectFields, EpisodesAre DEF Inv
<1>2. effect'[e] = IF effect[e].episode = p /\ effect[e].state = "dispatched"
                   THEN [effect[e] EXCEPT !.state = "unknown"] ELSE effect[e]
  BY EpisodesAre DEF Lost
<1>3. effect[e].state = "dispatched" => effect[e].episode = e
  BY OwnEffect
<1> QED
  BY <1>1, <1>2, <1>3 DEF Effect

LEMMA UnknownKept ==
  ASSUME Basics, NEW d \in Devices, NEW p \in Episodes, clock' = clock, MarkUnknown(d, p, clock)
  PROVE  KernelKept
<1>1. Inv'
  BY MarkUnknownInv DEF Basics, Inv, TypeOK
<1>2. task'.host = task.host
  BY TaskFields DEF MarkUnknown, Stale, Saved, Basics, Inv, Task
<1>3. /\ \A e \in Episodes :
           /\ effect'[e].episode = effect[e].episode /\ effect'[e].manifest = effect[e].manifest
           /\ effect'[e].state = IF e = p /\ effect[e].state = "dispatched" THEN "unknown" ELSE effect[e].state
  BY LostFields DEF MarkUnknown, Basics
<1>4. /\ task.active = p /\ episode[p].state = "running"
      /\ \A q \in Episodes : /\ episode'[q].device = episode[q].device
                            /\ episode'[q].state = IF q = p THEN "unknown" ELSE episode[q].state
  BY EpisodeFields DEF MarkUnknown, Lease, Basics, Inv, TypeOK, Episode
<1>5. RowsGrow
  BY <1>3, <1>4 DEF RowsGrow, Settled, Open
<1> QED
  BY <1>1, <1>2, <1>3, <1>5, EpisodesAre DEF KernelKept, OwnEffects, Basics, Types

LEMMA ObservationKept ==
  ASSUME Basics, NEW d \in Devices, NEW p \in Episodes, clock' = clock,
         RecordEffectObservation(d, p, p, clock)
  PROVE  KernelKept
<1>1. Inv'
  BY RecordEffectObservationInv, EpisodesAre DEF Basics, Inv, TypeOK
<1>2. /\ \A e \in Episodes : /\ effect'[e].episode = effect[e].episode
                             /\ effect'[e].manifest = effect[e].manifest
                             /\ effect'[e].state = effect[e].state
      /\ UNCHANGED <<task, episode>>
  BY EffectFields, EpisodesAre DEF RecordEffectObservation, Basics, Inv, TypeOK, Effect
<1> QED
  BY <1>1, <1>2, EpisodesAre DEF KernelKept, RowsGrow, OwnEffects, Basics, Types

\* Who presents a lease is a device, and the lease of an episode.
LEMMA HeldFields ==
  ASSUME Basics, NEW r \in net, r.op # "claim"
  PROVE  r.device \in Devices /\ r.episode \in Episodes /\ episode[r.episode].device = r.device
BY MessageFields DEF Basics, Bearings, Sent, Theirs

LEMMA ActiveFields ==
  ASSUME Inv, NEW p \in Episodes, task.active = p
  PROVE  /\ p # 0 /\ episode[p].state \in Live /\ task.status \notin Terminal
         /\ \A q \in Episodes : q > p => episode[q].state = "none"
BY EpisodesAre DEF Inv, Accounted, ActiveIsNewest, LiveIsActive

\* The active episode ends with an outcome and its effect is confirmed.
LEMMA OutcomeKept ==
  ASSUME Basics, NEW p \in Episodes, task.active = p, NEW outcome \in Outcomes, clock' = clock,
         episode' \in [Episodes -> Episode], effect' \in [Effects -> Effect], task' \in Task,
         task'.status = outcome, task'.active = 0, task'.host = task.host,
         effect[p].state # "none",
         \A q \in Episodes : /\ episode'[q].state = IF q = p THEN outcome ELSE episode[q].state
                             /\ episode'[q].device = episode[q].device
                             /\ effect'[q].state = IF q = p THEN "confirmed" ELSE effect[q].state
                             /\ effect'[q].episode = effect[q].episode
                             /\ effect'[q].manifest = effect[q].manifest
  PROVE  KernelKept
<1>1. /\ p # 0 /\ episode[p].state \in Live /\ task.status \notin Terminal
      /\ \A q \in Episodes : q > p => episode[q].state = "none"
  BY ActiveFields DEF Basics
<1>2. TypeOK'
  BY DEF TypeOK, Basics, Inv
<1>3. /\ \A q \in Episodes : /\ episode'[q].state = IF q = p THEN outcome ELSE episode[q].state
                             /\ episode'[q].state = "none" <=> episode[q].state = "none"
      /\ outcome \in {"done", "failed"}
  BY <1>1 DEF Live, Outcomes
<1>4. OwnEffects' /\ \A e \in Effects : /\ e \in Episodes /\ effect[e].episode \in {0, e}
                                        /\ effect'[e].state = IF e = p THEN "confirmed" ELSE effect[e].state
                                        /\ effect'[e].episode = effect[e].episode
  BY EpisodesAre DEF OwnEffects, Basics
<1>5. Ordered' /\ Accounted'
  <2>1. Ordered /\ Accounted
    BY DEF Basics, Inv
  <2>2. Ordered'
    BY <1>3, <2>1, KeepsOrder
  <2>3. LiveIsActive'
    BY <1>3, <2>1 DEF LiveIsActive, Accounted, Live
  <2>4. ActiveIsNewest'
    BY DEF ActiveIsNewest
  <2>5. UntouchedHasNone'
    BY <1>3, <1>4, <2>1 DEF UntouchedHasNone, Accounted, Untouched
  <2>6. OutcomeIsSettled'
    BY <1>1, <1>3, <1>4, <2>1 DEF OutcomeIsSettled, Accounted, Outcomes
  <2>7. CancelledTogether'
    BY <1>1, <1>3, <2>1 DEF CancelledTogether, Accounted, Terminal
  <2>8. NoneIsNowhere'
    BY <1>4, <2>1 DEF NoneIsNowhere, Accounted
  <2>9. OpenIsActive'
    BY <1>1, <1>4, <2>1 DEF OpenIsActive, Accounted, Terminal
  <2>10. Proven'
    BY <1>1, <1>3, EpisodesAre DEF Proven
  <2> QED
    BY <2>2, <2>3, <2>4, <2>5, <2>6, <2>7, <2>8, <2>9, <2>10 DEF Accounted
<1>6. RowsGrow
  BY <1>1, <1>3 DEF RowsGrow, Settled, Live
<1> QED
  BY <1>2, <1>4, <1>5, <1>6 DEF KernelKept, Inv, Basics, Types

LEMMA FinishedTask ==
  ASSUME Basics, NEW outcome \in Outcomes, task' = Finished(outcome) \/ task' = Reconciled(outcome)
  PROVE  /\ task' \in Task /\ task'.status = outcome /\ task'.active = 0 /\ task'.host = task.host
<1>1. task \in Task /\ outcome \in Terminal \cup {"waiting", "running", "stale"} /\ 0 \in 0 .. MaxEpisodes
  BY EpisodesAre DEF Basics, Inv, TypeOK, Outcomes, Terminal
<1>2. task.revision + 1 \in Nat /\ FALSE \in BOOLEAN
  BY TaskFields DEF Basics, Inv
<1> QED
  BY <1>1, <1>2 DEF Finished, Reconciled, Saved, Task

LEMMA CompleteKept ==
  ASSUME Basics, NEW r \in net, HandleComplete(r), r.result \in Outcomes, clock' = clock
  PROVE  KernelKept
<1> DEFINE p == r.episode
<1>1. CASE Refuse(r)
  BY <1>1, RowsUnchanged DEF Refuse, Basics, Inv, TypeOK
<1>2. CASE /\ Held(r) /\ episode[p].state = "running"
           /\ effect[p].state = "dispatched" /\ effect[p].observed
           /\ effect' = [effect EXCEPT ![p].state = "confirmed"]
           /\ episode' = Ended(p, r.result)
           /\ task' = Finished(r.result)
  <2>1. p \in Episodes /\ task.active = p
    BY <1>2, HeldFields DEF HandleComplete, Held, Lease
  <2>2. /\ episode[p] \in Episode /\ effect[p] \in Effect /\ r.result \in EpisodeStates
        /\ episode \in [Episodes -> Episode] /\ effect \in [Episodes -> Effect]
    BY <2>1, EpisodesAre, EpisodeFields, EffectFields DEF Basics, Inv, TypeOK, Outcomes, EpisodeStates, Terminal
  <2>3. /\ episode' \in [Episodes -> Episode]
        /\ \A q \in Episodes : /\ episode'[q].state = IF q = p THEN r.result ELSE episode[q].state
                               /\ episode'[q].device = episode[q].device
    BY <1>2, <2>1, <2>2 DEF Ended, Episode
  <2>4. /\ effect' \in [Episodes -> Effect]
        /\ \A q \in Episodes : /\ effect'[q].state = IF q = p THEN "confirmed" ELSE effect[q].state
                               /\ effect'[q].episode = effect[q].episode
                               /\ effect'[q].manifest = effect[q].manifest
    BY <1>2, <2>1, <2>2 DEF Effect
  <2> QED
    <3>1. /\ task' \in Task /\ task'.status = r.result /\ task'.active = 0 /\ task'.host = task.host
      BY <1>2, FinishedTask
    <3>2. effect' \in [Effects -> Effect] /\ effect[p].state # "none"
      BY <1>2, <2>1, <2>4, EpisodesAre
    <3> HIDE DEF p
    <3> QED
      BY <2>1, <2>3, <2>4, <3>1, <3>2, OutcomeKept
<1> QED
  BY <1>1, <1>2 DEF HandleComplete

LEMMA ReconcilableFields ==
  ASSUME Basics, NEW d, NEW p \in Episodes, Reconcilable(d, p)
  PROVE  /\ task.active = p /\ episode[p].state = "unknown" /\ episode[p].device = d
         /\ task.status = "stale" /\ effect[p].state = "unknown" /\ effect[p].manifest
<1>1. effect[p].episode \in {0, p}
  BY EpisodesAre DEF Basics, OwnEffects
<1> QED
  BY <1>1 DEF Reconcilable

\* What a report is about, when it is accepted.
LEMMA ReportFields ==
  ASSUME Basics, NEW r \in net, r.op = "report"
  PROVE  /\ r.challenge \in Challenges /\ challenge[r.challenge].state # "none"
         /\ challenge[r.challenge].episode = r.episode
         /\ r.episode \in Episodes /\ r.device \in Devices
BY HeldFields DEF Basics, Bearings, Sent

LEMMA ReportKept ==
  ASSUME Basics, NEW r \in net, HandleReport(r), r.result \in Outcomes, clock' = clock
  PROVE  KernelKept
<1> DEFINE p == challenge[r.challenge].episode
<1>1. CASE UNCHANGED <<task, episode, effect>>
  BY <1>1, RowsUnchanged DEF Basics, Inv, TypeOK
<1>2. CASE /\ ChallengeCurrent(r.challenge, r.device)
           /\ effect' = [effect EXCEPT ![p] = [@ EXCEPT !.observed = TRUE, !.state = "confirmed"]]
           /\ episode' = [episode EXCEPT ![p] = [@ EXCEPT !.state = r.result, !.until = 0]]
           /\ task' = Reconciled(r.result)
  <2>1. p \in Episodes /\ task.active = p /\ effect[p].state = "unknown"
    BY <1>2, ReportFields, ReconcilableFields DEF HandleReport, ChallengeCurrent
  <2>2. /\ episode[p] \in Episode /\ effect[p] \in Effect /\ r.result \in EpisodeStates
        /\ episode \in [Episodes -> Episode] /\ effect \in [Episodes -> Effect]
    BY <2>1, EpisodesAre, EpisodeFields, EffectFields DEF Basics, Inv, TypeOK, Outcomes, EpisodeStates, Terminal
  <2> HIDE DEF p
  <2>3. /\ episode' \in [Episodes -> Episode]
        /\ \A q \in Episodes : /\ episode'[q].state = IF q = p THEN r.result ELSE episode[q].state
                               /\ episode'[q].device = episode[q].device
    BY <1>2, <2>1, <2>2 DEF Episode
  <2>4. /\ effect' \in [Episodes -> Effect]
        /\ \A q \in Episodes : /\ effect'[q].state = IF q = p THEN "confirmed" ELSE effect[q].state
                               /\ effect'[q].episode = effect[q].episode
                               /\ effect'[q].manifest = effect[q].manifest
    BY <1>2, <2>1, <2>2 DEF Effect
  <2> QED
    <3>1. /\ task' \in Task /\ task'.status = r.result /\ task'.active = 0 /\ task'.host = task.host
      BY <1>2, FinishedTask
    <3>2. effect' \in [Effects -> Effect] /\ effect[p].state # "none"
      BY <1>2, <2>1, <2>4, EpisodesAre
    <3> HIDE DEF p
    <3> QED
      BY <2>1, <2>3, <2>4, <3>1, <3>2, OutcomeKept
<1> QED
  BY <1>1, <1>2 DEF HandleReport, Refuse

LEMMA RenewKept ==
  ASSUME Basics, NEW r \in net, HandleRenew(r), clock' = clock
  PROVE  KernelKept
<1> DEFINE p == r.episode
           until == IF clock + Ttl > episode[p].until THEN clock + Ttl ELSE episode[p].until
<1>1. CASE Refuse(r)
  BY <1>1, RowsUnchanged DEF Refuse, Basics, Inv, TypeOK
<1>2. CASE Held(r) /\ episode' = [episode EXCEPT ![p].until = until] /\ UNCHANGED <<task, effect>>
  <2>1. p \in Episodes /\ r.device \in Devices /\ clock \in Nat /\ episode[p] \in Episode
    BY HeldFields, EpisodeFields DEF HandleRenew, Basics, Inv, TypeOK
  <2>2. Inv'
    <3>1. CASE clock + Ttl > episode[p].until
      <4>1. Renew(r.device, p, Ttl, clock)
        BY <1>2, <3>1 DEF Renew, Held, Basics, Types
      <4> QED
        BY <2>1, <4>1, RenewInv, EpisodesAre DEF Basics
    <3>2. CASE ~(clock + Ttl > episode[p].until)
      <4>1. episode' = episode
        BY <1>2, <2>1, <3>2 DEF Basics, Inv, TypeOK, Episode
      <4> QED
        BY <1>2, <2>1, <4>1, UnchangedInv DEF Basics
    <3> QED
      BY <3>1, <3>2
  <2> HIDE DEF until, p
  <2>3. \A q \in Episodes : /\ episode'[q].state = episode[q].state
                            /\ episode'[q].device = episode[q].device
    BY <1>2, <2>1, EpisodeFields DEF Basics, Inv, TypeOK, Episode
  <2> QED
    BY <1>2, <2>2, <2>3 DEF KernelKept, RowsGrow, OwnEffects, Basics, Types
<1> QED
  BY <1>1, <1>2 DEF HandleRenew

\* The manifest is recorded and, of a prepared device, the episode begins.
LEMMA DispatchKept ==
  ASSUME Basics, NEW r \in net, HandleDispatch(r), clock' = clock
  PROVE  KernelKept
<1> DEFINE p == r.episode
<1>1. CASE Refuse(r)
  BY <1>1, RowsUnchanged DEF Refuse, Basics, Inv, TypeOK
<1>2. CASE /\ Held(r) /\ effect[p].state = "none"
           /\ effect' = [effect EXCEPT ![p] = Dispatched(p, r.device \in Prepared)]
           /\ IF episode[p].state = "leased"
              THEN episode' = [episode EXCEPT ![p].state = "running"] /\ task' = Saved(task)
              ELSE UNCHANGED <<task, episode>>
  <2>1. /\ p \in Episodes /\ r.device \in Devices /\ task.active = p /\ p # 0
        /\ episode[p].state \in {"leased", "running"} /\ episode[p] \in Episode
        /\ task.status \notin Terminal /\ effect[p].episode = 0
    BY <1>2, HeldFields, EpisodesAre, EpisodeFields, OwnEffect DEF HandleDispatch, Held, Lease, Basics, Inv
  <2> HIDE DEF p
  <2>2. task' \in Task /\ task'.active = task.active /\ task'.status = task.status /\ task'.host = task.host
    BY <1>2, TaskFields DEF Saved, Basics, Inv, Task
  <2>3. /\ episode' \in [Episodes -> Episode]
        /\ \A q \in Episodes : /\ episode'[q].state = IF q = p THEN "running" ELSE episode[q].state
                               /\ episode'[q].device = episode[q].device
    BY <1>2, <2>1 DEF Episode, Basics, Inv, TypeOK, EpisodeStates, Terminal
  <2>4. /\ effect' \in [Effects -> Effect]
        /\ \A q \in Effects : /\ effect'[q].state = IF q = p THEN "dispatched" ELSE effect[q].state
                              /\ effect'[q].episode = IF q = p THEN p ELSE effect[q].episode
                              /\ q # p => effect'[q] = effect[q]
    <3>1. Dispatched(p, r.device \in Prepared) \in Effect
      BY <2>1, EpisodesAre DEF Dispatched, Effect, Numbers
    <3> QED
      BY <1>2, <2>1, <3>1, EpisodesAre DEF Dispatched, Basics, Inv, TypeOK
  <2>5. TypeOK'
    BY <2>2, <2>3, <2>4 DEF TypeOK, Basics, Inv
  <2>6. Ordered'
    <3>1. \A q \in Episodes : episode'[q].state = "none" <=> episode[q].state = "none"
      BY <2>1, <2>3
    <3> QED
      BY <3>1, KeepsOrder DEF Basics, Inv
  <2>7. Accounted'
    <3>0. Accounted
      BY DEF Basics, Inv
    <3>1. LiveIsActive'
      BY <2>1, <2>2, <2>3, <3>0 DEF LiveIsActive, Accounted, Live
    <3>2. ActiveIsNewest'
      BY <2>1, <2>2, <2>3, <3>0 DEF ActiveIsNewest, Accounted, Live
    <3>3. UntouchedHasNone'
      BY <2>1, <2>3, <2>4, <3>0 DEF UntouchedHasNone, Accounted, Untouched
    <3>4. OutcomeIsSettled'
      BY <2>1, <2>3, <2>4, <3>0 DEF OutcomeIsSettled, Accounted, Outcomes
    <3>5. CancelledTogether'
      BY <2>1, <2>2, <2>3, <3>0 DEF CancelledTogether, Accounted
    <3>6. NoneIsNowhere'
      BY <2>1, <2>4, <3>0 DEF NoneIsNowhere, Accounted
    <3>7. OpenIsActive'
      BY <2>1, <2>2, <2>4, <3>0 DEF OpenIsActive, Accounted
    <3>8. Proven'
      BY <2>1, <2>2 DEF Proven, Outcomes, Terminal
    <3> QED
      BY <3>1, <3>2, <3>3, <3>4, <3>5, <3>6, <3>7, <3>8 DEF Accounted
  <2>8. RowsGrow
    BY <1>2, <2>1, <2>3, <2>4, EpisodesAre DEF RowsGrow, Settled
  <2>9. OwnEffects'
    BY <2>4 DEF OwnEffects, Basics
  <2> QED
    BY <2>2, <2>5, <2>6, <2>7, <2>8, <2>9 DEF KernelKept, Inv, Basics, Types
<1> QED
  BY <1>1, <1>2 DEF HandleDispatch

LEMMA CancelKept ==
  ASSUME Basics, Cancel, clock' = clock
  PROVE  /\ KernelKept
         /\ task.status \notin Terminal /\ task'.status = "cancelled" /\ task'.active = 0
         /\ \A p \in Episodes :
              /\ episode'[p].state = IF p = task.active THEN "cancelled" ELSE episode[p].state
              /\ episode'[p].device = episode[p].device
              /\ effect'[p].manifest = effect[p].manifest
              /\ effect'[p].state = IF p = task.active /\ effect[p].state = "dispatched"
                                    THEN "unknown" ELSE effect[p].state
<1>1. Inv'
  BY CancelInv DEF Basics, Inv, TypeOK
<1>2. task'.host = task.host /\ task'.status = "cancelled" /\ task'.active = 0
  BY TaskFields DEF Cancel, Saved, Basics, Inv, Task
<1>3. CASE task.active = 0
  <2>1. UNCHANGED <<episode, effect>> /\ 0 \notin Episodes /\ task.status \notin Terminal
    BY <1>3, EpisodesAre DEF Cancel
  <2> QED
    BY <1>1, <1>2, <1>3, <2>1 DEF KernelKept, RowsGrow, OwnEffects, Basics, Types
<1>4. CASE task.active # 0
  <2> DEFINE p == task.active
  <2>1. p \in Episodes /\ task.status \notin Terminal /\ episode[p].state \in Live
    BY <1>4, ActiveIsEpisode, ActiveFields DEF Basics
  <2>2. effect' = Lost(p) /\ episode' = [episode EXCEPT ![p] = [@ EXCEPT !.state = "cancelled", !.until = 0]]
    BY <1>4 DEF Cancel
  <2> HIDE DEF p
  <2>3. \A q \in Episodes :
             /\ effect'[q].episode = effect[q].episode /\ effect'[q].manifest = effect[q].manifest
             /\ effect'[q].state = IF q = p /\ effect[q].state = "dispatched" THEN "unknown" ELSE effect[q].state
    BY <2>1, <2>2, LostFields DEF Basics
  <2>4. \A q \in Episodes : /\ episode'[q].state = IF q = p THEN "cancelled" ELSE episode[q].state
                            /\ episode'[q].device = episode[q].device
    BY <2>1, <2>2, EpisodeFields DEF Basics, Inv, TypeOK, Episode
  <2>5. RowsGrow
    BY <2>1, <2>3, <2>4 DEF RowsGrow, Settled, Open, Live, p
  <2>6. OwnEffects'
    BY <2>3, EpisodesAre DEF OwnEffects, Basics
  <2> QED
    BY <1>1, <1>2, <2>1, <2>3, <2>4, <2>5, <2>6 DEF KernelKept, Basics, Types, p
<1> QED
  BY <1>3, <1>4

LEMMA ResumeKept ==
  ASSUME Basics, Resume, clock' = clock
  PROVE  KernelKept
<1>1. Inv'
  BY ResumeInv DEF Basics, Inv, TypeOK
<1>2. task'.host = task.host
  BY TaskFields DEF Resume, Saved, Basics, Inv, Task
<1> QED
  BY <1>1, <1>2 DEF Resume, KernelKept, RowsGrow, OwnEffects, Basics, Types

LEMMA RecoverKept ==
  ASSUME Basics, RecoverExpired(clock), clock' = clock
  PROVE  KernelKept
<1> DEFINE p == task.active
<1>1. Inv'
  BY RecoverInv DEF Basics, Inv, TypeOK
<1>2. task'.host = task.host
  BY TaskFields DEF RecoverExpired, Waiting, Stale, Saved, Basics, Inv, Task
<1>3. p \in Episodes /\ episode[p].state \in {"leased", "running"}
  BY ActiveIsEpisode DEF RecoverExpired, Basics
<1>4. \A q \in Episodes :
        /\ episode'[q].state = "none" <=> episode[q].state = "none"
        /\ q # p => episode'[q].state = episode[q].state
        /\ episode'[p].state # "cancelled"
        /\ episode'[q].device = episode[q].device
  BY <1>3, EpisodeFields DEF RecoverExpired, Ended, Basics, Inv, TypeOK, Episode
<1>5. \A q \in Episodes :
             /\ effect'[q].episode = effect[q].episode /\ effect'[q].manifest = effect[q].manifest
             /\ \/ effect'[q].state = effect[q].state
                \/ effect[q].state = "dispatched" /\ effect'[q].state = "unknown"
  <2>1. CASE effect' = Lost(p)
    BY <1>3, <2>1, LostFields DEF Basics
  <2>2. CASE effect' = effect
    BY <2>2
  <2> QED
    BY <2>1, <2>2 DEF RecoverExpired
<1>6. RowsGrow
  BY <1>3, <1>4, <1>5 DEF RowsGrow, Settled, Open
<1>7. OwnEffects'
  BY <1>5, EpisodesAre DEF OwnEffects, Basics
<1> QED
  BY <1>1, <1>2, <1>6, <1>7 DEF KernelKept, Basics, Types

-----------------------------------------------------------------------------
(* The coordinator, the operator and time keep the bearings.                *)

\* A request for an outcome names one.
Backed(r) == r.op \in {"complete", "report"} => r.result \in Outcomes

LEMMA HandleKept ==
  ASSUME Basics, NEW r \in net, Backed(r), Handle(r)
  PROVE  KernelKept
<1>0. clock' = clock /\ clock' \in Nat
  BY DEF Handle, Basics, Inv, TypeOK
<1>1. CASE UNCHANGED <<task, episode, effect>>
  BY <1>0, <1>1, RowsUnchanged
<1>2. CASE HandleClaim(r) /\ ~UNCHANGED <<task, episode, effect>>
  <2>1. r.device \in Devices
    BY MessageFields DEF Basics
  <2>2. PICK p \in Episodes : Claim(r.device, p, Ttl, Ttl, clock)
    BY <1>2 DEF HandleClaim, Refuse
  <2> QED
    BY <1>0, <2>1, <2>2, ClaimKept
<1>3. CASE HandleStart(r) /\ ~UNCHANGED <<task, episode, effect>>
  BY <1>0, <1>3, StartKept, HeldFields DEF HandleStart, Refuse
<1>4. CASE HandleRenew(r)
  BY <1>0, <1>4, RenewKept
<1>5. CASE HandleDispatch(r)
  BY <1>0, <1>5, DispatchKept
<1>6. CASE HandleObserve(r) /\ ~UNCHANGED <<task, episode, effect>>
  BY <1>0, <1>6, ObservationKept, HeldFields DEF HandleObserve, Refuse
<1>7. CASE HandleComplete(r)
  BY <1>0, <1>7, CompleteKept DEF Backed, HandleComplete
<1>8. CASE HandleRelease(r) /\ ~UNCHANGED <<task, episode, effect>>
  BY <1>0, <1>8, ReleaseKept, HeldFields DEF HandleRelease, Refuse
<1>9. CASE HandleUnknown(r) /\ ~UNCHANGED <<task, episode, effect>>
  BY <1>0, <1>9, UnknownKept, HeldFields DEF HandleUnknown, Refuse
<1>10. CASE HandleReport(r)
  BY <1>0, <1>10, ReportKept DEF Backed, HandleReport
<1> QED
  BY <1>1, <1>2, <1>3, <1>4, <1>5, <1>6, <1>7, <1>8, <1>9, <1>10 DEF Handle

\* What an answer adds.
Adds(r, ok, p, window) ==
  \A a \in answers' : \/ a \in answers
                      \/ /\ a \in Replies /\ Awaited(r)
                         /\ a.op = r.op /\ a.device = r.device /\ a.ok = ok
                         /\ a.episode = p /\ a.window = window

LEMMA AnswerAdds ==
  ASSUME Types, NEW r \in net, NEW ok \in BOOLEAN, NEW p \in Numbers, NEW window \in Nat,
         Answer(r, ok, p, window)
  PROVE  Adds(r, ok, p, window)
<1> DEFINE a == [op |-> r.op, device |-> r.device, ok |-> ok, episode |-> p, window |-> window]
<1>1. /\ a \in Replies
      /\ a.op = r.op /\ a.device = r.device /\ a.ok = ok /\ a.episode = p /\ a.window = window
  BY MessageFields DEF Replies
<1>2. answers' = IF Awaited(r) THEN answers \cup {a} ELSE answers
  BY DEF Answer
<1> HIDE DEF a
<1> QED
  BY <1>1, <1>2 DEF Adds

\* What a good answer to the request r stands for.
Granting(r, p, window) ==
  /\ p \in Episodes
  /\ r.op = "claim" => /\ episode[p].state = "none" /\ episode'[p].state = "leased"
                       /\ episode'[p].device = r.device
  /\ r.op # "claim" => p = r.episode
  /\ r.op \in {"claim", "start", "renew"} =>
       /\ task'.active = p /\ episode'[p].state \in {"leased", "running"}
       /\ episode'[p].until = clock + window
  /\ r.op = "dispatch" => effect'[p].state # "none"
  /\ r.op = "release" => episode'[p].state = "released"
  /\ r.op = "complete" => effect'[p].state = "confirmed"
  /\ r.op = "report" => \/ effect'[p].state = "confirmed"
                        \/ challenge[r.challenge].state = "accepted" /\ UNCHANGED effect

GrantSent(r) ==
  \E p \in Numbers, window \in Nat : Adds(r, TRUE, p, window) /\ Granting(r, p, window)

RefusalSent(r) == Adds(r, FALSE, 0, 0) /\ UNCHANGED <<task, episode, effect, challenge>>

LEMMA RefuseAnswers ==
  ASSUME Basics, NEW r \in net, Refuse(r)
  PROVE  RefusalSent(r)
<1>1. 0 \in Numbers /\ 0 \in Nat /\ FALSE \in BOOLEAN
  BY EpisodesAre
<1>2. Answer(r, FALSE, 0, 0) /\ UNCHANGED <<task, episode, effect, challenge>>
  BY DEF Refuse
<1> QED
  BY <1>1, <1>2, AnswerAdds DEF Basics, RefusalSent

LEMMA GrantAnswers ==
  ASSUME Basics, NEW r \in net, NEW p \in Episodes, NEW window \in Nat,
         Answer(r, TRUE, p, window), Granting(r, p, window)
  PROVE  GrantSent(r)
<1>1. p \in Numbers /\ TRUE \in BOOLEAN
  BY EpisodesAre
<1>2. Adds(r, TRUE, p, window)
  BY <1>1, AnswerAdds DEF Basics
<1> QED
  BY <1>1, <1>2 DEF GrantSent

LEMMA ClaimAnswers ==
  ASSUME Basics, NEW r \in net, HandleClaim(r)
  PROVE  (GrantSent(r) /\ UNCHANGED challenge) \/ RefusalSent(r)
<1>1. CASE Refuse(r)
  BY <1>1, RefuseAnswers
<1>2. CASE ~Refuse(r)
  <2>1. PICK p \in Episodes : Claim(r.device, p, Ttl, Ttl, clock) /\ Answer(r, TRUE, p, Ttl)
    BY <1>2 DEF HandleClaim
  <2>2. Granting(r, p, Ttl)
    BY <2>1, TaskFields DEF HandleClaim, Granting, Claim, Saved, Basics, Inv, Task
  <2> QED
    BY <1>2, <2>1, <2>2, GrantAnswers, EpisodesAre DEF HandleClaim
<1> QED
  BY <1>1, <1>2

LEMMA StartAnswers ==
  ASSUME Basics, NEW r \in net, HandleStart(r)
  PROVE  (GrantSent(r) /\ UNCHANGED challenge) \/ RefusalSent(r)
<1>1. CASE Refuse(r)
  BY <1>1, RefuseAnswers
<1>2. CASE ~Refuse(r)
  <2> DEFINE p == r.episode
             window == episode[p].until - clock
  <2>1. /\ Held(r) /\ Start(r.device, p, clock) /\ Answer(r, TRUE, p, window) /\ UNCHANGED challenge
        /\ r.op = "start"
    BY <1>2 DEF HandleStart
  <2>2. p \in Episodes /\ episode[p] \in Episode /\ episode \in [Episodes -> Episode]
        /\ episode[p].until \in Nat /\ clock \in Nat /\ episode[p].until > clock
    BY <2>1, HeldFields, EpisodeFields DEF Held, Lease, Basics, Inv, TypeOK
  <2>3. window \in Nat /\ episode[p].until = clock + window
    BY <2>2
  <2> HIDE DEF window, p
  <2>4. episode'[p].state = "running" /\ episode'[p].until = episode[p].until /\ task.active = p
    BY <2>1, <2>2 DEF Start, Lease, Episode
  <2>5. task'.active = task.active
    BY <2>1, TaskFields DEF Start, Saved, Basics, Inv, Task
  <2>6. Granting(r, p, window)
    BY <2>1, <2>2, <2>3, <2>4, <2>5 DEF Granting, p
  <2> QED
    BY <2>1, <2>2, <2>3, <2>6, GrantAnswers
<1> QED
  BY <1>1, <1>2

LEMMA RenewAnswers ==
  ASSUME Basics, NEW r \in net, HandleRenew(r)
  PROVE  (GrantSent(r) /\ UNCHANGED challenge) \/ RefusalSent(r)
<1>1. CASE Refuse(r)
  BY <1>1, RefuseAnswers
<1>2. CASE ~Refuse(r)
  <2> DEFINE p == r.episode
             until == IF clock + Ttl > episode[p].until THEN clock + Ttl ELSE episode[p].until
             window == until - clock
  <2>1. /\ Held(r) /\ episode' = [episode EXCEPT ![p].until = until]
        /\ Answer(r, TRUE, p, window) /\ UNCHANGED <<task, effect, challenge>>
        /\ r.op = "renew"
    BY <1>2 DEF HandleRenew
  <2>2. p \in Episodes /\ episode[p] \in Episode /\ episode \in [Episodes -> Episode]
        /\ episode[p].until \in Nat /\ clock \in Nat /\ episode[p].until > clock /\ Ttl \in Nat
    BY <2>1, HeldFields, EpisodeFields, EpisodesAre DEF Held, Lease, Basics, Inv, TypeOK
  <2>3. window \in Nat /\ until = clock + window
    BY <2>2
  <2> HIDE DEF window, until, p
  <2>4. /\ episode'[p].state \in {"leased", "running"} /\ episode'[p].until = until /\ task.active = p
    BY <2>1, <2>2 DEF Held, Lease, Episode, p
  <2>6. Granting(r, p, window)
    BY <2>1, <2>2, <2>3, <2>4 DEF Granting, p
  <2> QED
    BY <2>1, <2>2, <2>3, <2>6, GrantAnswers
<1> QED
  BY <1>1, <1>2

LEMMA OtherAnswers ==
  ASSUME Basics, NEW r \in net,
         HandleDispatch(r) \/ HandleObserve(r) \/ HandleComplete(r) \/ HandleRelease(r)
  PROVE  (GrantSent(r) /\ UNCHANGED challenge) \/ RefusalSent(r)
<1>1. CASE Refuse(r)
  BY <1>1, RefuseAnswers
<1>2. CASE ~Refuse(r)
  <2> DEFINE p == r.episode
  <2>1. /\ Answer(r, TRUE, p, 0) /\ UNCHANGED challenge
        /\ r.op \in {"dispatch", "observe", "complete", "release"}
    BY <1>2 DEF HandleDispatch, HandleObserve, HandleComplete, HandleRelease
  <2>2. p \in Episodes /\ 0 \in Nat /\ episode \in [Episodes -> Episode] /\ effect \in [Episodes -> Effect]
        /\ episode[p] \in Episode /\ effect[p] \in Effect
    BY <2>1, HeldFields, EpisodesAre DEF Basics, Inv, TypeOK
  <2> HIDE DEF p
  <2>3. r.op = "dispatch" => effect'[p].state # "none"
    <3>1. r.op = "dispatch" => effect' = [effect EXCEPT ![p] = Dispatched(p, r.device \in Prepared)]
      BY <1>2 DEF HandleDispatch, HandleObserve, HandleComplete, HandleRelease, p
    <3> QED
      BY <2>2, <3>1 DEF Dispatched
  <2>4. r.op = "complete" => effect'[p].state = "confirmed"
    <3>1. r.op = "complete" => effect' = [effect EXCEPT ![p].state = "confirmed"]
      BY <1>2 DEF HandleDispatch, HandleObserve, HandleComplete, HandleRelease, p
    <3> QED
      BY <2>2, <3>1 DEF Effect
  <2>5. r.op = "release" => episode'[p].state = "released"
    <3>1. r.op = "release" => episode' = Ended(p, "released")
      BY <1>2 DEF HandleDispatch, HandleObserve, HandleComplete, HandleRelease, ReleaseUnstarted, p
    <3> QED
      BY <2>2, <3>1 DEF Episode, Ended
  <2>6. Granting(r, p, 0)
    BY <2>1, <2>2, <2>3, <2>4, <2>5 DEF Granting, p
  <2> QED
    BY <2>1, <2>2, <2>6, GrantAnswers DEF p
<1> QED
  BY <1>1, <1>2

LEMMA ReportAnswers ==
  ASSUME Basics, NEW r \in net, HandleReport(r)
  PROVE  GrantSent(r) \/ RefusalSent(r)
<1>1. CASE Refuse(r)
  BY <1>1, RefuseAnswers
<1>2. CASE ~Refuse(r)
  <2> DEFINE p == challenge[r.challenge].episode
  <2>1. r.op = "report" /\ Answer(r, TRUE, p, 0)
    BY <1>2 DEF HandleReport
  <2>2. p = r.episode /\ p \in Episodes /\ 0 \in Nat
    BY <2>1, ReportFields
  <2>3. \/ challenge[r.challenge].state = "accepted" /\ UNCHANGED effect
        \/ effect' = [effect EXCEPT ![p] = [@ EXCEPT !.observed = TRUE, !.state = "confirmed"]]
    BY <1>2 DEF HandleReport
  <2> HIDE DEF p
  <2>4. \/ challenge[r.challenge].state = "accepted" /\ UNCHANGED effect
        \/ effect'[p].state = "confirmed"
    <3>1. effect[p] \in Effect /\ effect \in [Episodes -> Effect]
      BY <2>2, EffectFields, EpisodesAre DEF Basics, Inv, TypeOK
    <3>2. CASE effect' = [effect EXCEPT ![p] = [@ EXCEPT !.observed = TRUE, !.state = "confirmed"]]
      BY <2>2, <3>1, <3>2 DEF Effect
    <3> QED
      BY <2>3, <3>2
  <2>5. Granting(r, p, 0)
    BY <2>1, <2>2, <2>4 DEF Granting
  <2> QED
    BY <2>1, <2>2, <2>5, GrantAnswers
<1> QED
  BY <1>1, <1>2

\* A request is answered with what was granted, refused, or not answered.
LEMMA HandleAnswers ==
  ASSUME Basics, NEW r \in net, Handle(r)
  PROVE  \/ GrantSent(r) \/ RefusalSent(r)
         \/ (answers' = answers /\ UNCHANGED challenge /\ r.op = "unknown")
BY ClaimAnswers, StartAnswers, RenewAnswers, OtherAnswers, ReportAnswers, RefuseAnswers
   DEF Handle, HandleUnknown

\* What is asked of the coordinator stays what it was, and an accepted answer stays so.
LEMMA HandleQuestions ==
  ASSUME Basics, NEW r \in net, Handle(r)
  PROVE  /\ challenge' \in [Challenges -> Questions]
         /\ \A c \in Challenges :
              /\ challenge'[c].episode = challenge[c].episode
              /\ challenge[c].state = "none" <=> challenge'[c].state = "none"
              /\ challenge'[c].state = "accepted" =>
                   \/ challenge[c].state = "accepted"
                   \/ r.op = "report" /\ effect'[challenge[c].episode].state = "confirmed"
<1>1. CASE UNCHANGED challenge
  BY <1>1 DEF Basics, Types
<1>2. CASE r.op = "report" /\ ~UNCHANGED challenge
  <2> DEFINE c == r.challenge
             p == challenge[c].episode
  <2>1. /\ challenge[c].state = "pending" /\ challenge' = [challenge EXCEPT ![c].state = "accepted"]
        /\ effect' = [effect EXCEPT ![p] = [@ EXCEPT !.observed = TRUE, !.state = "confirmed"]]
    BY <1>2 DEF Handle, HandleClaim, HandleStart, HandleRenew, HandleDispatch, HandleObserve,
      HandleComplete, HandleRelease, HandleUnknown, HandleReport, Refuse
  <2>2. c \in Challenges /\ p \in Episodes /\ challenge[c] \in Questions
        /\ challenge \in [Challenges -> Questions]
    BY <1>2, ReportFields DEF Basics, Types
  <2>3. effect'[p].state = "confirmed"
    <3>1. effect[p] \in Effect /\ effect \in [Episodes -> Effect]
      BY <2>2, EffectFields, EpisodesAre DEF Basics, Inv, TypeOK
    <3> HIDE DEF p
    <3> QED
      BY <2>1, <2>2, <3>1 DEF Effect
  <2> HIDE DEF c
  <2>4. /\ challenge' \in [Challenges -> Questions]
        /\ \A x \in Challenges : /\ challenge'[x].episode = challenge[x].episode
                                 /\ challenge'[x].state = IF x = c THEN "accepted" ELSE challenge[x].state
    BY <2>1, <2>2 DEF Questions
  <2> QED
    BY <1>2, <2>1, <2>3, <2>4
<1> QED
  BY <1>1, <1>2 DEF Handle, HandleClaim, HandleStart, HandleRenew, HandleDispatch, HandleObserve,
    HandleComplete, HandleRelease, HandleUnknown, HandleReport, Refuse

LEMMA BearingsRows ==
  ASSUME Basics, RowsGrow, UNCHANGED worker, clock' \in Nat, clock' >= clock, net' \subseteq net,
         \A c \in Challenges : AboutEpisode(c)',
         \A c \in Challenges : challenge[c].state # "none" =>
           challenge'[c].state # "none" /\ challenge'[c].episode = challenge[c].episode,
         \A a \in answers' : a \in answers \/ Due(a)'
  PROVE  Bearings'
<1>0. \A p, d : Theirs(p, d) => Theirs(p, d)'
  BY DEF Theirs, RowsGrow
<1>1. ASSUME NEW d \in Devices PROVE AtBearings(d)'
  <2>1. AtBearings(d) /\ worker[d].sent \in Nat /\ worker[d].asked \in Nat /\ clock \in Nat
    BY WorkerFields DEF Basics, Bearings, Inv, TypeOK
  <2>2. worker[d].sent <= clock' /\ worker[d].asked <= clock'
    BY <2>1 DEF AtBearings
  <2>3. worker'[d] = worker[d] /\ (Theirs(worker[d].episode, d) => Theirs(worker[d].episode, d)')
    BY <1>0
  <2> QED
    BY <2>1, <2>2, <2>3 DEF AtBearings
<1>2. ASSUME NEW r \in net' PROVE Sent(r)'
  <2>1. Sent(r) /\ r \in net /\ (Theirs(r.episode, r.device) => Theirs(r.episode, r.device)')
    BY <1>0 DEF Basics, Bearings
  <2> QED
    BY <2>1 DEF Sent
<1>3. ASSUME NEW a \in answers' PROVE Due(a)'
  <2>1. CASE a \in answers
    <3>1. Due(a) /\ (Theirs(a.episode, a.device) => Theirs(a.episode, a.device)')
      BY <1>0, <2>1 DEF Basics, Bearings
    <3>2. Awaits(a.device, a.op) <=> Awaits(a.device, a.op)'
      BY DEF Awaits
    <3> QED
      BY <3>1, <3>2 DEF Due
  <2> QED
    BY <2>1
<1> QED
  BY <1>1, <1>2, <1>3 DEF Bearings

\* What every step of the coordinator, the operator and time leaves alone.
LEMMA RowsBasics ==
  ASSUME Basics, KernelKept, UNCHANGED deviceVars, clock' >= clock, net' \subseteq net,
         answers' \subseteq Replies, challenge' \in [Challenges -> Questions],
         \A c \in Challenges : AboutEpisode(c)',
         \A c \in Challenges : challenge[c].state # "none" =>
           challenge'[c].state # "none" /\ challenge'[c].episode = challenge[c].episode,
         \A a \in answers' : a \in answers \/ Due(a)'
  PROVE  Basics'
<1>1. clock' \in Nat /\ RowsGrow /\ UNCHANGED worker
  BY DEF KernelKept, Inv, TypeOK, deviceVars
<1>2. Bearings'
  BY <1>1, BearingsRows
<1>3. Types'
  BY DEF Types, Basics, KernelKept, deviceVars
<1> QED
  BY <1>2, <1>3 DEF Basics, KernelKept

LEMMA HandleBasics ==
  ASSUME Basics, NEW r \in net, Backed(r), Handle(r)
  PROVE  Basics'
<1>1. KernelKept
  BY HandleKept
<1>2. /\ UNCHANGED deviceVars /\ clock' = clock /\ clock \in Nat /\ net' = net \ {r}
  BY DEF Handle, Handled, Basics, Inv, TypeOK
<1>3. ASSUME NEW a \in answers' PROVE a \in Replies /\ (a \in answers \/ Due(a)')
  <2>1. ASSUME a \notin answers, Awaited(r), a.op = r.op, a.device = r.device,
               a.op = "claim" /\ a.ok => /\ a.episode \in Episodes /\ episode[a.episode].state = "none"
                                         /\ episode'[a.episode].state # "none"
                                         /\ episode'[a.episode].device = a.device
        PROVE  Due(a)'
    <3>1. Awaits(a.device, a.op)'
      BY <1>2, <2>1 DEF Awaited, Awaits, deviceVars
    <3>2. ASSUME a.op = "claim", a.ok, NEW m \in net PROVE m.episode # a.episode
      BY <2>1, <3>2, EpisodesAre DEF Basics, Bearings, Sent, Theirs
    <3> QED
      BY <1>2, <2>1, <3>1, <3>2 DEF Due, Theirs
  <2>2. CASE GrantSent(r)
    <3>1. PICK p \in Numbers, window \in Nat : Adds(r, TRUE, p, window) /\ Granting(r, p, window)
      BY <2>2 DEF GrantSent
    <3>2. \/ a \in answers
          \/ a \in Replies /\ Awaited(r) /\ a.op = r.op /\ a.device = r.device /\ a.episode = p
      BY <3>1 DEF Adds
    <3> QED
      BY <2>1, <3>1, <3>2 DEF Granting, Basics, Types
  <2>3. CASE RefusalSent(r)
    BY <2>1, <2>3 DEF RefusalSent, Adds, Basics, Types
  <2>4. CASE answers' = answers
    BY <2>4 DEF Basics, Types
  <2> QED
    BY <2>2, <2>3, <2>4, HandleAnswers
<1>4. ASSUME NEW c \in Challenges
      PROVE  /\ AboutEpisode(c)'
             /\ challenge[c].state # "none" =>
                  challenge'[c].state # "none" /\ challenge'[c].episode = challenge[c].episode
  BY HandleQuestions DEF AboutEpisode, Basics, Bearings
<1>5. challenge' \in [Challenges -> Questions]
  BY HandleQuestions
<1>6. clock' >= clock /\ net' \subseteq net /\ answers' \subseteq Replies
  BY <1>2, <1>3
<1> QED
  BY <1>1, <1>2, <1>3, <1>4, <1>5, <1>6, RowsBasics

LEMMA OperatorBasics ==
  ASSUME Basics, UNCHANGED <<deviceVars, wireVars>>, KernelKept, clock' >= clock,
         \A c \in Challenges :
           \/ challenge'[c] = challenge[c]
           \/ /\ challenge[c].state = "none" /\ challenge'[c].state = "pending"
              /\ challenge'[c].episode \in Episodes,
         challenge' \in [Challenges -> Questions]
  PROVE  Basics'
<1>1. ASSUME NEW c \in Challenges
      PROVE  /\ AboutEpisode(c)'
             /\ challenge[c].state # "none" =>
                  challenge'[c].state # "none" /\ challenge'[c].episode = challenge[c].episode
  BY DEF AboutEpisode, Basics, Bearings
<1>2. net' = net /\ answers' = answers /\ answers \subseteq Replies
  BY DEF wireVars, Basics, Types
<1>3. net' \subseteq net /\ answers' \subseteq Replies /\ \A a \in answers' : a \in answers \/ Due(a)'
  BY <1>2
<1> QED
  BY <1>1, <1>3, RowsBasics

\* The steps of the operator and of time, one by one.
LEMMA OthersKept ==
  ASSUME Basics,
         \/ Tick \/ Recover \/ CancelTask \/ ResumeTask \/ Assign
         \/ \E d \in Devices : Revoke(d)
  PROVE  KernelKept /\ UNCHANGED <<deviceVars, wireVars, challenge>> /\ clock' >= clock
<1>0. clock \in Nat
  BY DEF Basics, Inv, TypeOK
<1>1. CASE Tick
  <2>1. UNCHANGED <<task, episode, effect>> /\ clock' \in Nat /\ clock' >= clock
    BY <1>0, <1>1 DEF Tick
  <2> QED
    BY <1>1, <2>1, RowsUnchanged DEF Tick, operatorVars
<1>2. CASE Recover
  BY <1>0, <1>2, RecoverKept DEF Recover, operatorVars
<1>3. CASE CancelTask
  BY <1>0, <1>3, CancelKept DEF CancelTask, operatorVars
<1>4. CASE ResumeTask
  BY <1>0, <1>4, ResumeKept DEF ResumeTask
<1>5. CASE Assign \/ \E d \in Devices : Revoke(d)
  <2>1. UNCHANGED <<kernelVars, deviceVars, wireVars, challenge>>
    BY <1>5 DEF Assign, Revoke
  <2> QED
    BY <1>0, <2>1, KernelUnchanged DEF kernelVars
<1> QED
  BY <1>1, <1>2, <1>3, <1>4, <1>5

LEMMA RequestFields ==
  ASSUME Basics, NEW c \in Challenges, NEW d \in Prepared, RequestReconciliation(c, d)
  PROVE  /\ UNCHANGED <<kernelVars, deviceVars, wireVars, assigned, revoked>>
         /\ challenge' \in [Challenges -> Questions]
         /\ \A x \in Challenges \ {c} : challenge'[x] = challenge[x]
         /\ challenge[c].state = "none" /\ challenge'[c].state = "pending"
         /\ challenge'[c].episode \in Episodes
<1>1. /\ UNCHANGED <<kernelVars, deviceVars, wireVars, assigned, revoked>>
      /\ challenge[c].state = "none" /\ Reconcilable(d, task.active)
      /\ challenge' = [challenge EXCEPT ![c] =
           [state |-> "pending", episode |-> task.active, revision |-> task.revision,
            fence |-> task.fence, expires |-> clock + ChallengeTime]]
  BY DEF RequestReconciliation
<1>2. task.active \in Episodes /\ task.revision \in Nat /\ task.fence \in Nat
      /\ clock + ChallengeTime \in Nat
  BY <1>1, TaskFields, ActiveIsEpisode, DeviceAssumption DEF Reconcilable, Basics, Inv, TypeOK
<1>3. [state |-> "pending", episode |-> task.active, revision |-> task.revision,
       fence |-> task.fence, expires |-> clock + ChallengeTime] \in Questions
  BY <1>2, EpisodesAre DEF Questions
<1> QED
  BY <1>1, <1>2, <1>3 DEF Basics, Types

LEMMA OthersBasics ==
  ASSUME Basics,
         \/ Tick \/ Recover \/ CancelTask \/ ResumeTask \/ Assign
         \/ \E d \in Devices : Revoke(d)
         \/ \E d \in Prepared, c \in Challenges : RequestReconciliation(c, d)
  PROVE  Basics'
<1>1. CASE \E d \in Prepared, c \in Challenges : RequestReconciliation(c, d)
  <2>1. PICK d \in Prepared, c \in Challenges : RequestReconciliation(c, d)
    BY <1>1
  <2>2. KernelKept /\ clock' >= clock /\ UNCHANGED <<deviceVars, wireVars>>
    BY <2>1, RequestFields, KernelUnchanged DEF kernelVars, Basics, Inv, TypeOK
  <2>3. /\ challenge' \in [Challenges -> Questions]
        /\ \A x \in Challenges :
             \/ challenge'[x] = challenge[x]
             \/ /\ challenge[x].state = "none" /\ challenge'[x].state = "pending"
                /\ challenge'[x].episode \in Episodes
    BY <2>1, RequestFields
  <2> QED
    BY <2>2, <2>3, OperatorBasics
<1>2. CASE \/ Tick \/ Recover \/ CancelTask \/ ResumeTask \/ Assign
           \/ \E d \in Devices : Revoke(d)
  <2>1. KernelKept /\ UNCHANGED <<deviceVars, wireVars, challenge>> /\ clock' >= clock
    BY <1>2, OthersKept
  <2>2. /\ challenge' \in [Challenges -> Questions]
        /\ \A x \in Challenges :
             \/ challenge'[x] = challenge[x]
             \/ /\ challenge[x].state = "none" /\ challenge'[x].state = "pending"
                /\ challenge'[x].episode \in Episodes
    BY <2>1 DEF Basics, Types
  <2> QED
    BY <2>1, <2>2, OperatorBasics
<1> QED
  BY <1>1, <1>2

-----------------------------------------------------------------------------
(* The steps of a device keep the bearings.                                 *)

LEMMA DeviceMoves ==
  ASSUME Basics, NEW d \in Devices, Device(d)
  PROVE  \/ Quits(d) \/ GoesOn(d) \/ Begins(d)
         \/ \E a \in answers : a.device = d /\ a.op = "claim" /\ a.ok /\ TakesLease(d, a)
<1>1. CASE Observe(d)
  BY <1>1, ObserveMoves, ObserveLate
<1>2. CASE Started(d)
  BY <1>2, StartedMoves
<1>3. CASE \E c \in Challenges : Fetch(d, c)
  BY <1>3, FetchBegins
<1>4. CASE GotLease(d)
  BY <1>4, GotLeaseMoves
<1>5. CASE Run(d)
  BY <1>5, RunBegins
<1>6. CASE \/ NoLease(d) \/ PrepareFails(d) \/ Completed(d) \/ GivenBack(d) \/ Unproven(d)
           \/ Reported(d) \/ ReportFails(d)
  BY <1>6, SilentQuits, PrepareFailsQuits, UnprovenQuits
<1>7. CASE \/ Dispatch(d) \/ Permitted(d) \/ Begin(d) \/ Observed(d) \/ Complete(d) \/ GivesBack(d)
           \/ RenewSent(d) \/ RenewAnswered(d) \/ Report(d)
  BY <1>7, DispatchMoves, PermittedMoves, BeginMoves, ObservedMoves, CompleteMoves, GivesBackMoves,
     RenewSentMoves, RenewAnsweredMoves, ReportMoves
<1> QED
  BY <1>1, <1>2, <1>3, <1>4, <1>5, <1>6, <1>7 DEF Device

LEMMA DeviceAsks ==
  ASSUME Basics, NEW d \in Devices, Device(d)
  PROVE  net' \subseteq Messages
<1>1. CASE net' = net
  BY <1>1 DEF Basics, Types
<1>2. CASE \E op \in Ops : Send(d, op)
  BY <1>2, SendTyped DEF Basics
<1>3. CASE Run(d)
  BY <1>3, RunBegins
<1>4. CASE GotLease(d)
  BY <1>1, <1>4, GotLeaseMoves DEF TakesLease
<1>5. CASE \E c \in Challenges : Fetch(d, c)
  BY <1>1, <1>5, FetchBegins
<1>6. /\ {"unknown", "dispatch", "release", "observe", "complete", "renew", "report"} \subseteq Ops
  BY DEF Ops
<1>7. CASE Started(d) \/ Observe(d)
  BY <1>2, <1>6, <1>7 DEF Started, Observe
<1> QED
  BY <1>1, <1>2, <1>3, <1>4, <1>5, <1>6, <1>7 DEF Device, NoLease, PrepareFails, Dispatch, Permitted,
    Begin, Observed, Complete, Completed, GivesBack, GivenBack, Unproven, RenewSent, RenewAnswered,
    Report, Reported, ReportFails, wireVars

\* How the journal of the episode p may change.
Writes(p, phases) ==
  /\ journal' \in [Effects -> Records]
  /\ \A q \in Episodes \ {p} : journal'[q] = journal[q]
  /\ journal'[p].phase \in phases
  /\ journal'[p].observed = journal[p].observed
  /\ journal'[p].result = journal[p].result

LEMMA JournalsWrites ==
  ASSUME Types, NEW p \in Episodes, NEW to \in Phases, Journals(p, to)
  PROVE  Writes(p, {to})
BY JournalsFields DEF Writes

LEMMA PhasesAre ==
  Phases = {"none", "dispatching", "dispatched", "observed", "verified", "completed", "released",
            "unknown"}
BY DEF Phases

\* A device that reads an answer to a request about its episode has one.
LEMMA ReadHasEpisode ==
  ASSUME Basics, NEW d \in Devices, NEW op \in {"start", "dispatch", "observe", "complete", "release", "report"},
         Awaits(d, op)
  PROVE  worker[d].episode \in Episodes /\ worker[d].pc \notin Unleased
<1>1. worker[d].pc \notin Unleased
  BY AwaitsWhat DEF Unleased
<1> QED
  BY <1>1, HasEpisode

\* Of an operation of an effect, what can become of it in a step of a device.
LEMMA BeginWrites ==
  ASSUME Basics, NEW d \in Devices, Begin(d)
  PROVE  /\ worker[d].episode \in Episodes
         /\ native' \in [Effects -> Natives] /\ runs' \in [Effects -> Nat]
         /\ native'[worker[d].episode] = "running"
         /\ runs'[worker[d].episode] = runs[worker[d].episode] + 1
         /\ \A q \in Episodes \ {worker[d].episode} : native'[q] = native[q] /\ runs'[q] = runs[q]
<1>1. worker[d].episode \in Episodes
  BY HasEpisode DEF Begin, At, Unleased
<1>2. runs[worker[d].episode] + 1 \in Nat
  BY <1>1, RecordFields DEF Basics
<1> QED
  BY <1>1, <1>2, EpisodesAre DEF Begin, Basics, Types, Natives

LEMMA ObserveWrites ==
  ASSUME Basics, NEW d \in Devices, Observe(d)
  PROVE  /\ worker[d].episode \in Episodes /\ native[worker[d].episode] \in Outcomes
         /\ worker[d].pc = "native"
         /\ IF d \in Prepared
            THEN /\ journal' \in [Effects -> Records]
                 /\ \A q \in Episodes \ {worker[d].episode} : journal'[q] = journal[q]
                 /\ journal'[worker[d].episode].phase \in {"observed", "unknown"}
                 /\ journal'[worker[d].episode].observed
                 /\ journal'[worker[d].episode].result = journal[worker[d].episode].result
            ELSE journal' = journal
<1> DEFINE p == worker[d].episode
           phase == IF Current(d) THEN "observed" ELSE "unknown"
<1>1. p \in Episodes
  BY HasEpisode DEF Observe, At, Unleased
<1>2. native[p] \in Outcomes /\ worker[d].pc = "native"
  BY DEF Observe, At
<1>3. phase \in {"observed", "unknown"} /\ phase \in Phases
  BY DEF Phases
<1>4. IF d \in Prepared
      THEN journal' = [journal EXCEPT ![p] = [@ EXCEPT !.observed = TRUE, !.phase = phase]]
      ELSE journal' = journal
  BY DEF Observe
<1>5. journal \in [Episodes -> Records] /\ journal[p] \in Records
  BY <1>1, EpisodesAre, RecordFields DEF Basics, Types
<1> HIDE DEF p, phase
<1>6. CASE d \in Prepared
  <2>1. /\ journal' \in [Episodes -> Records]
        /\ \A q \in Episodes \ {p} : journal'[q] = journal[q]
        /\ journal'[p].phase = phase /\ journal'[p].observed = TRUE
        /\ journal'[p].result = journal[p].result
    <3> DEFINE row == [journal[p] EXCEPT !.observed = TRUE, !.phase = phase]
    <3>1. row \in Records /\ row.phase = phase /\ row.observed = TRUE /\ row.result = journal[p].result
      BY <1>3, <1>5 DEF Records
    <3>2. journal' = [journal EXCEPT ![p] = row]
      BY <1>4, <1>6
    <3> HIDE DEF row
    <3> QED
      BY <1>1, <1>5, <3>1, <3>2
  <2> QED
    BY <1>1, <1>2, <1>3, <1>6, <2>1, EpisodesAre DEF p
<1>7. CASE d \notin Prepared
  BY <1>1, <1>2, <1>4, <1>7 DEF p
<1> QED
  BY <1>6, <1>7

LEMMA CompleteWrites ==
  ASSUME Basics, NEW d \in Devices, Complete(d)
  PROVE  /\ worker[d].episode \in Episodes /\ worker[d].pc = "observed"
         /\ IF d \in Prepared
            THEN /\ journal' \in [Effects -> Records]
                 /\ \A q \in Episodes \ {worker[d].episode} : journal'[q] = journal[q]
                 /\ journal'[worker[d].episode].phase = "verified"
                 /\ journal'[worker[d].episode].observed = journal[worker[d].episode].observed
                 /\ journal'[worker[d].episode].result = native[worker[d].episode]
            ELSE journal' = journal
<1> DEFINE p == worker[d].episode
<1>1. p \in Episodes
  BY HasEpisode DEF Complete, At, Unleased
<1>2. native[p] \in Natives /\ worker[d].pc = "observed" /\ "verified" \in Phases
  BY <1>1, RecordFields DEF Complete, At, Phases, Basics
<1>4. IF d \in Prepared
      THEN journal' = [journal EXCEPT ![p] = [@ EXCEPT !.phase = "verified", !.result = native[p]]]
      ELSE journal' = journal
  BY DEF Complete
<1>5. journal \in [Episodes -> Records] /\ journal[p] \in Records
  BY <1>1, EpisodesAre, RecordFields DEF Basics, Types
<1> HIDE DEF p
<1>6. CASE d \in Prepared
  <2>1. /\ journal' \in [Episodes -> Records]
        /\ \A q \in Episodes \ {p} : journal'[q] = journal[q]
        /\ journal'[p].phase = "verified" /\ journal'[p].observed = journal[p].observed
        /\ journal'[p].result = native[p]
    <3> DEFINE row == [journal[p] EXCEPT !.phase = "verified", !.result = native[p]]
    <3>1. row \in Records /\ row.phase = "verified" /\ row.observed = journal[p].observed /\ row.result = native[p]
      BY <1>2, <1>5 DEF Records
    <3>2. journal' = [journal EXCEPT ![p] = row]
      BY <1>4, <1>6
    <3> HIDE DEF row
    <3> QED
      BY <1>1, <1>5, <3>1, <3>2
  <2> QED
    BY <1>1, <1>2, <1>6, <2>1, EpisodesAre DEF p
<1>7. CASE d \notin Prepared
  BY <1>1, <1>2, <1>4, <1>7 DEF p
<1> QED
  BY <1>6, <1>7

LEMMA ReportWrites ==
  ASSUME Basics, NEW d \in Devices, Report(d)
  PROVE  /\ worker[d].episode \in Episodes /\ worker[d].pc = "reconciling" /\ d \in Prepared
         /\ journal[worker[d].episode].observed
         /\ journal' \in [Effects -> Records]
         /\ \A q \in Episodes \ {worker[d].episode} : journal'[q] = journal[q]
         /\ journal'[worker[d].episode].phase = journal[worker[d].episode].phase
         /\ journal'[worker[d].episode].observed = journal[worker[d].episode].observed
         /\ journal'[worker[d].episode].result = native[worker[d].episode]
<1> DEFINE p == worker[d].episode
<1>1. p \in Episodes /\ worker[d].pc = "reconciling" /\ journal[p].observed
  BY HasEpisode DEF Report, At, Unleased
<1>2. native[p] \in Natives /\ d \in Prepared
  BY <1>1, RecordFields DEF Basics, Bearings, AtBearings, Reconciling
<1>3. journal' = [journal EXCEPT ![p].result = native[p]]
  BY DEF Report
<1>4. journal \in [Episodes -> Records] /\ journal[p] \in Records
  BY <1>1, EpisodesAre, RecordFields DEF Basics, Types
<1> HIDE DEF p
<1>5. /\ journal' \in [Episodes -> Records]
      /\ \A q \in Episodes \ {p} : journal'[q] = journal[q]
      /\ journal'[p].phase = journal[p].phase /\ journal'[p].observed = journal[p].observed
      /\ journal'[p].result = native[p]
  BY <1>1, <1>2, <1>3, <1>4 DEF Records
<1> QED
  BY <1>1, <1>2, <1>5, EpisodesAre DEF p

\* The journal in the steps that only note how far the episode has come.
LEMMA DispatchWrites ==
  ASSUME Basics, NEW d \in Devices, Dispatch(d)
  PROVE  worker[d].episode \in Episodes /\ Writes(worker[d].episode, {"dispatching"})
<1>1. worker[d].episode \in Episodes
  BY HasEpisode DEF Dispatch, At, Unleased
<1> QED
  BY <1>1, JournalsWrites, PhasesAre DEF Dispatch, Basics

LEMMA PermittedWrites ==
  ASSUME Basics, NEW d \in Devices, Permitted(d)
  PROVE  /\ worker[d].episode \in Episodes
         /\ IF d \in Prepared THEN Writes(worker[d].episode, {"dispatched"}) ELSE journal' = journal
<1>1. worker[d].episode \in Episodes
  BY ReadGood, ReadHasEpisode DEF Permitted
<1> QED
  BY <1>1, JournalsWrites, PhasesAre DEF Permitted, Basics

LEMMA CompletedWrites ==
  ASSUME Basics, NEW d \in Devices, Completed(d)
  PROVE  /\ worker[d].episode \in Episodes /\ Read(d, "complete", TRUE)
         /\ IF d \in Prepared THEN Writes(worker[d].episode, {"completed"}) ELSE journal' = journal
<1>1. worker[d].episode \in Episodes
  BY ReadGood, ReadHasEpisode DEF Completed
<1> QED
  BY <1>1, JournalsWrites, PhasesAre DEF Completed, Basics

LEMMA GivesBackWrites ==
  ASSUME Basics, NEW d \in Devices, GivesBack(d)
  PROVE  worker[d].episode \in Episodes /\ Writes(worker[d].episode, {"unknown"})
<1>1. worker[d].episode \in Episodes
  BY ReadHasEpisode DEF GivesBack, Failing
<1> QED
  BY <1>1, JournalsWrites, PhasesAre DEF GivesBack, Basics

LEMMA GivenBackWrites ==
  ASSUME Basics, NEW d \in Devices, GivenBack(d)
  PROVE  /\ worker[d].episode \in Episodes /\ Read(d, "release", TRUE)
         /\ worker[d].pc = "releasing" /\ Writes(worker[d].episode, {"released"})
<1>1. worker[d].episode \in Episodes /\ Awaits(d, "release")
  BY ReadGood, ReadHasEpisode DEF GivenBack
<1>2. worker[d].pc = "releasing"
  BY <1>1, AwaitsWhat
<1> QED
  BY <1>1, <1>2, JournalsWrites, PhasesAre DEF GivenBack, Basics

LEMMA UnprovenWrites ==
  ASSUME Basics, NEW d \in Devices, Unproven(d)
  PROVE  /\ worker[d].episode \in Episodes
         /\ IF d \in Prepared THEN Writes(worker[d].episode, {"unknown"}) ELSE journal' = journal
<1>1. worker[d].episode \in Episodes
  BY UnprovenQuits, HasEpisode
<1> QED
  BY <1>1, JournalsWrites, PhasesAre DEF Unproven, Basics

LEMMA ReportedWrites ==
  ASSUME Basics, NEW d \in Devices, Reported(d)
  PROVE  /\ worker[d].episode \in Episodes /\ Read(d, "report", TRUE)
         /\ Writes(worker[d].episode, {"completed"})
<1>1. worker[d].episode \in Episodes
  BY ReadGood, ReadHasEpisode DEF Reported
<1>2. Journals(worker[d].episode, "completed")
  BY DEF Reported, Acknowledge, Journals
<1> QED
  BY <1>1, <1>2, JournalsWrites, PhasesAre DEF Reported, Basics

LEMMA FetchWrites ==
  ASSUME Basics, NEW d \in Devices, NEW c \in Challenges, Fetch(d, c)
  PROVE  /\ challenge[c].episode \in Episodes
         /\ \/ challenge[c].state = "accepted" /\ Writes(challenge[c].episode, {"completed"})
            \/ journal' = journal
<1>1. challenge[c].episode \in Episodes
  BY QuestionFields, EpisodesAre DEF Fetch, Basics
<1>2. \/ challenge[c].state = "accepted" /\ Journals(challenge[c].episode, "completed")
      \/ journal' = journal
  BY DEF Fetch, Acknowledge, Journals
<1> QED
  BY <1>1, <1>2, JournalsWrites, PhasesAre DEF Basics

LEMMA DeviceWrites ==
  ASSUME Basics, NEW d \in Devices, Device(d)
  PROVE  /\ journal' \in [Effects -> Records]
         /\ native' \in [Effects -> Natives] /\ runs' \in [Effects -> Nat]
         /\ UNCHANGED <<native, runs>> \/ Begin(d)
<1>1. UNCHANGED <<native, runs>> \/ Begin(d)
  BY DEF Device, Run, GotLease, NoLease, Started, PrepareFails, Dispatch, Permitted,
    Observe, Observed, Complete, Completed, GivesBack, GivenBack, Unproven, RenewSent, RenewAnswered,
    Report, Reported, ReportFails, Fetch
<1>2. native' \in [Effects -> Natives] /\ runs' \in [Effects -> Nat]
  BY <1>1, BeginWrites DEF Basics, Types
<1>3. journal' \in [Effects -> Records]
  <2>1. CASE journal' = journal
    BY <2>1 DEF Basics, Types
  <2>2. CASE \/ Dispatch(d) \/ Permitted(d) \/ Observe(d) \/ Complete(d) \/ Completed(d)
    BY <2>1, <2>2, DispatchWrites, PermittedWrites, ObserveWrites, CompleteWrites, CompletedWrites DEF Writes
  <2>3. CASE \/ GivesBack(d) \/ GivenBack(d) \/ Unproven(d) \/ Report(d) \/ Reported(d)
    BY <2>1, <2>3, GivesBackWrites, GivenBackWrites, UnprovenWrites, ReportWrites, ReportedWrites DEF Writes
  <2>4. CASE \E c \in Challenges : Fetch(d, c)
    BY <2>1, <2>4, FetchWrites DEF Writes
  <2> QED
    BY <2>1, <2>2, <2>3, <2>4
       DEF Device, Run, GotLease, NoLease, Started, PrepareFails, Begin, Observed,
           RenewSent, RenewAnswered, ReportFails
<1> QED
  BY <1>1, <1>2, <1>3

LEMMA QuitsBearings ==
  ASSUME Basics, NEW d \in Devices, Quits(d)
  PROVE  Bearings' /\ worker' \in [Devices -> Runs] /\ answers' \subseteq answers
         /\ UNCHANGED <<kernelVars, challenge>>
BY BearingsOver DEF Quits, RunOver, operatorVars, Basics, Inv

LEMMA GoesOnKeepsBearings ==
  ASSUME Basics, NEW d \in Devices, GoesOn(d)
  PROVE  Bearings' /\ worker' \in [Devices -> Runs] /\ answers' \subseteq answers
         /\ UNCHANGED <<kernelVars, challenge>>
<1>1. Asks(d, Ops \ {"claim"})
  BY AsksAny DEF GoesOn
<1> QED
  BY <1>1, BearingsGoOn DEF GoesOn, Stays, StillAwaited, operatorVars, Basics

LEMMA DeviceBasics ==
  ASSUME Basics, NEW d \in Devices, Device(d)
  PROVE  Basics'
<1>1. /\ Bearings' /\ worker' \in [Devices -> Runs] /\ answers' \subseteq answers
      /\ UNCHANGED <<kernelVars, challenge>>
  <2>1. CASE Quits(d)
    BY <2>1, QuitsBearings
  <2>2. CASE GoesOn(d)
    BY <2>2, GoesOnKeepsBearings
  <2>3. CASE Begins(d)
    BY <2>3, BearingsBegun DEF Begins, operatorVars
  <2>4. CASE \E a \in answers : a.device = d /\ a.op = "claim" /\ a.ok /\ TakesLease(d, a)
    BY <2>4, BearingsTaken DEF TakesLease, operatorVars
  <2> QED
    BY <2>1, <2>2, <2>3, <2>4, DeviceMoves
<1>2. KernelKept
  BY <1>1, KernelUnchanged
<1>3. Types'
  BY <1>1, <1>2, DeviceAsks, DeviceWrites DEF Types, KernelKept, Basics
<1> QED
  BY <1>1, <1>2, <1>3 DEF Basics, KernelKept

LEMMA CrashBasics ==
  ASSUME Basics, NEW d \in Devices, Crash(d)
  PROVE  Basics'
<1>1. Quits(d) /\ net' = net
  BY SilentQuits
<1>2. /\ Bearings' /\ worker' \in [Devices -> Runs] /\ answers' \subseteq answers
      /\ UNCHANGED <<kernelVars, challenge, journal, native, runs, net>>
  BY <1>1, QuitsBearings DEF Crash
<1>3. KernelKept
  BY <1>2, KernelUnchanged
<1> QED
  BY <1>2, <1>3 DEF Basics, KernelKept, Types

LEMMA NativeEndsBasics ==
  ASSUME Basics, NEW p \in Episodes, NativeEnds(p)
  PROVE  /\ Basics'
         /\ native[p] = "running" /\ native'[p] \in Outcomes
         /\ \A q \in Episodes \ {p} : native'[q] = native[q]
         /\ UNCHANGED <<kernelVars, worker, journal, runs, wireVars, operatorVars>>
<1>1. PICK outcome \in Outcomes : native' = [native EXCEPT ![p] = outcome]
  BY DEF NativeEnds
<1>2. UNCHANGED <<kernelVars, worker, journal, runs, wireVars, operatorVars>> /\ native[p] = "running"
  BY DEF NativeEnds
<1>3. /\ native' \in [Effects -> Natives]
      /\ native'[p] \in Outcomes
      /\ \A q \in Episodes \ {p} : native'[q] = native[q]
  BY <1>1, EpisodesAre DEF Basics, Types, Natives
<1>4. KernelKept
  BY <1>2, KernelUnchanged
<1>5. Types'
  BY <1>2, <1>3, <1>4 DEF Types, KernelKept, Basics, wireVars, operatorVars
<1>6. Bearings'
  <2>1. UNCHANGED <<worker, net, answers, challenge>> /\ RowsGrow /\ clock' \in Nat /\ clock' >= clock
    BY <1>2, <1>4 DEF wireVars, operatorVars, kernelVars, KernelKept, Basics, Inv, TypeOK
  <2>2. \A c \in Challenges : AboutEpisode(c)'
    BY <2>1 DEF Basics, Bearings, AboutEpisode
  <2> QED
    BY <2>1, <2>2, BearingsRows
<1> QED
  BY <1>2, <1>3, <1>4, <1>5, <1>6 DEF Basics, KernelKept

\* Basics is kept, provided the outcomes asked for are outcomes.
LEMMA BasicsStep ==
  ASSUME Basics, \A r \in net : Backed(r), [Next]_vars
  PROVE  Basics'
<1>1. CASE UNCHANGED vars
  <2>1. KernelKept /\ UNCHANGED <<deviceVars, wireVars, challenge>> /\ clock' >= clock
    BY <1>1, KernelUnchanged DEF vars, kernelVars, operatorVars, Basics, Inv, TypeOK
  <2>2. challenge' \in [Challenges -> Questions] /\ \A x \in Challenges : challenge'[x] = challenge[x]
    BY <2>1 DEF Basics, Types
  <2> QED
    BY <2>1, <2>2, OperatorBasics
<1>2. CASE \E r \in net : Handle(r)
  BY <1>2, HandleBasics
<1>3. CASE \E p \in Episodes : NativeEnds(p)
  BY <1>3, NativeEndsBasics
<1>4. CASE \E d \in Devices : Device(d)
  BY <1>4, DeviceBasics
<1>5. CASE \E d \in Devices : Crash(d)
  BY <1>5, CrashBasics
<1> QED
  BY <1>1, <1>2, <1>3, <1>4, <1>5, OthersBasics DEF Next, Operator

LEMMA BasicsInit == Init => Basics
<1> SUFFICES ASSUME Init PROVE Basics
  OBVIOUS
<1>1. Inv
  BY InitInv DEF Init
<1>2. Idle(0) \in Runs /\ Idle(0).pc = "idle" /\ Idle(0).episode = 0 /\ Idle(0).sent = 0
      /\ Idle(0).open = FALSE /\ Idle(0).renewing = FALSE /\ Idle(0).asked = 0
  <2>1. 0 \in 0 .. MaxRuns
    BY EpisodesAre
  <2> QED
    BY <2>1, IdleFields
<1>3. NoRecord \in Records /\ NoChallenge \in Questions /\ NoChallenge.state = "none"
  BY EpisodesAre DEF NoRecord, Records, Phases, Natives, NoChallenge, Questions
<1>4. Types
  <2>1. task.host = FALSE
    <3>1. task.host \in BOOLEAN /\ ~task.host
      BY DEF Init, KernelInit
    <3> QED
      BY <3>1
  <2>2. worker \in [Devices -> Runs] /\ journal \in [Effects -> Records]
        /\ challenge \in [Challenges -> Questions]
    BY <1>2, <1>3 DEF Init
  <2>3. native \in [Effects -> Natives] /\ runs \in [Effects -> Nat]
    BY DEF Init, Natives
  <2> QED
    BY <2>1, <2>2, <2>3 DEF Init, Types
<1>5. OwnEffects
  BY DEF Init, KernelInit, OwnEffects, NoEffect
<1>6. Bearings
  <2>1. ASSUME NEW d \in Devices PROVE AtBearings(d)
    BY <1>2 DEF Init, KernelInit, AtBearings, Unleased, Reconciling
  <2>2. ASSUME NEW c \in Challenges PROVE AboutEpisode(c)
    BY <1>3 DEF Init, AboutEpisode
  <2> QED
    BY <2>1, <2>2 DEF Init, Bearings
<1> QED
  BY <1>1, <1>4, <1>5, <1>6 DEF Basics

-----------------------------------------------------------------------------
(* Once: what has become of the external operation of an episode, at every    *)
(* point of the run that has the episode and wherever its result is used.      *)

Before == {"starting", "leased", "dispatching", "permitted", "releasing"}
After  == {"observing", "observed", "completing"}

\* Every begin was counted, had been dispatched, and was the first.
BegunOnce(p) ==
  /\ runs[p] = IF native[p] = "none" THEN 0 ELSE 1
  /\ native[p] # "none" => effect[p].state # "none"

\* The journal observes what is over.
Noted(p) ==
  /\ journal[p].observed => native[p] \in Outcomes
  /\ journal[p].result \in Outcomes \cup {"none"}

AtOperation(d) ==
  /\ worker[d].pc \in Before => native[worker[d].episode] = "none"
  /\ worker[d].pc = "permitted" => effect[worker[d].episode].state # "none"
  /\ worker[d].pc \in After => native[worker[d].episode] \in Outcomes

TrueResult(r) ==
  r.op \in {"complete", "report"} => r.result \in Outcomes /\ r.result = native[r.episode]

Permits(a) ==
  a.ok => /\ a.op = "claim" => native[a.episode] = "none"
          /\ a.op = "dispatch" => effect[worker[a.device].episode].state # "none"

\* Behind an episode there is only what nobody dispatched or was confirmed.
ClosedBehind ==
  \A p \in Episodes : \A q \in Episodes :
    q < p /\ episode[p].state # "none" => effect[q].state \notin Open

Once ==
  /\ \A p \in Episodes : BegunOnce(p) /\ Noted(p)
  /\ \A d \in Devices : AtOperation(d)
  /\ \A r \in net : TrueResult(r)
  /\ \A a \in answers : Permits(a)
  /\ ClosedBehind

LEMMA OnceInit == Init => Once
BY EpisodesAre, IdleFields DEF Init, KernelInit, Once, BegunOnce, Noted, NoRecord, AtOperation,
   Idle, Before, After, ClosedBehind, Unused

LEMMA ClosedStays ==
  ASSUME Basics, KernelKept, ClosedBehind
  PROVE  ClosedBehind'
<1> SUFFICES ASSUME NEW p \in Episodes, NEW q \in Episodes, q < p, episode'[p].state # "none",
                    effect'[q].state \in Open
             PROVE  FALSE
  BY DEF ClosedBehind
<1>1. CASE episode[p].state # "none"
  <2>1. q = task.active
    BY <1>1 DEF KernelKept, RowsGrow, ClosedBehind
  <2> QED
    BY <1>1, <2>1, ActiveFields DEF Basics
<1>2. CASE episode[p].state = "none"
  <2>1. task'.active = p /\ p # 0
    BY <1>2, EpisodesAre DEF KernelKept, RowsGrow
  <2>2. Inv' /\ OwnEffects'
    BY DEF KernelKept
  <2>3. episode'[p].state \in Live /\ task'.status \notin Terminal
    BY <2>1, <2>2 DEF Inv, Accounted, ActiveIsNewest, LiveIsActive
  <2>4. effect'[q].episode = q /\ q # p /\ q \in Effects
    <3>1. q \in Nat /\ p \in Nat /\ q \in Effects
      BY EpisodesAre
    <3>2. effect'[q].state # "none"
      BY DEF Open
    <3>3. effect'[q].episode # 0 /\ effect'[q].episode \in {0, q}
      BY <2>2, <3>1, <3>2 DEF Inv, Accounted, NoneIsNowhere, OwnEffects
    <3> QED
      BY <3>1, <3>3
  <2> QED
    BY <2>1, <2>2, <2>3, <2>4 DEF Inv, Accounted, OpenIsActive, Open, Terminal
<1> QED
  BY <1>1, <1>2

\* Whoever has an episode has it alone.
LEMMA OwnEpisode ==
  ASSUME Basics, NEW d \in Devices, NEW x \in Devices, x # d, worker[d].episode # 0
  PROVE  worker[x].episode # worker[d].episode
BY DEF Basics, Bearings, AtBearings, Theirs

LEMMA BeforeHasEpisode ==
  ASSUME Basics, NEW d \in Devices, worker[d].pc \in Before \cup After
  PROVE  worker[d].episode \in Episodes /\ Theirs(worker[d].episode, d)
BY HasEpisode DEF Before, After, Unleased

LEMMA OnceRows ==
  ASSUME Basics, Once, KernelKept, UNCHANGED deviceVars, net' \subseteq net,
         \A a \in answers' : a \in answers \/ Permits(a)'
  PROVE  Once'
<1>1. UNCHANGED <<worker, journal, native, runs>> /\ RowsGrow
  BY DEF deviceVars, KernelKept
<1>2. ASSUME NEW p \in Episodes PROVE (BegunOnce(p) /\ Noted(p))'
  BY <1>1 DEF Once, BegunOnce, Noted, RowsGrow
<1>3. ASSUME NEW d \in Devices PROVE AtOperation(d)'
  <2>1. AtOperation(d) /\ (worker[d].pc = "permitted" => worker[d].episode \in Episodes)
    BY BeforeHasEpisode DEF Once, Before
  <2> QED
    BY <1>1, <2>1 DEF AtOperation, RowsGrow
<1>4. ASSUME NEW r \in net' PROVE TrueResult(r)'
  BY <1>1 DEF Once, TrueResult
<1>5. ASSUME NEW a \in answers' PROVE Permits(a)'
  <2>1. CASE a \in answers
    <3>1. Permits(a) /\ (a.op = "dispatch" => worker[a.device].episode \in Episodes)
      <4>1. Awaits(a.device, a.op) /\ a.device \in Devices
        BY <2>1, AnswersAwaited
      <4> QED
        BY <2>1, <4>1, ReadHasEpisode DEF Once
    <3> QED
      BY <1>1, <3>1 DEF Permits, RowsGrow
  <2> QED
    BY <2>1
<1>6. ClosedBehind'
  BY ClosedStays DEF Once
<1> QED
  BY <1>2, <1>3, <1>4, <1>5, <1>6 DEF Once

\* Who asked and awaits the answer has the episode it asked about.
LEMMA AwaitedEpisode ==
  ASSUME Basics, NEW r \in net, Awaited(r), r.op # "claim"
  PROVE  worker[r.device].episode = r.episode /\ r.device \in Devices
<1>1. r.device \in Devices /\ worker[r.device].run = r.run /\ Awaits(r.device, r.op) /\ Sent(r)
  BY MessageFields DEF Awaited, Basics, Bearings
<1>2. worker[r.device].pc \notin Unleased
  BY <1>1, AwaitsWhat DEF Basics, Bearings, AtBearings, Renews, Unleased
<1> QED
  BY <1>1, <1>2, HasEpisode DEF Sent

LEMMA HandleOnce ==
  ASSUME Basics, Once, NEW r \in net, Handle(r)
  PROVE  Once'
<1>1. KernelKept
  BY HandleKept DEF Once, TrueResult, Backed
<1>2. UNCHANGED deviceVars /\ net' \subseteq net
  BY DEF Handle, Handled
<1>3. ASSUME NEW a \in answers' PROVE a \in answers \/ Permits(a)'
  <2>1. CASE GrantSent(r)
    <3>1. PICK p \in Numbers, window \in Nat : Adds(r, TRUE, p, window) /\ Granting(r, p, window)
      BY <2>1 DEF GrantSent
    <3>2. ASSUME a \notin answers PROVE Permits(a)'
      <4>1. Awaited(r) /\ a.op = r.op /\ a.device = r.device /\ a.episode = p
        BY <3>1, <3>2 DEF Adds
      <4>2. a.op = "claim" => native'[p] = "none"
        <5>1. ASSUME r.op = "claim" PROVE native[p] = "none"
          <6>1. p \in Episodes /\ episode[p].state = "none"
            BY <3>1, <5>1 DEF Granting
          <6>2. effect[p].state = "none"
            BY <6>1, OwnEffect, EpisodesAre DEF Basics, Inv, Accounted, UntouchedHasNone, Untouched
          <6> QED
            BY <6>1, <6>2 DEF Once, BegunOnce
        <5> QED
          BY <1>2, <4>1, <5>1 DEF deviceVars
      <4>3. a.op = "dispatch" => effect'[worker'[a.device].episode].state # "none"
        <5>1. a.op = "dispatch" => worker[a.device].episode = p
          BY <3>1, <4>1, AwaitedEpisode DEF Granting
        <5> QED
          BY <1>2, <3>1, <4>1, <5>1 DEF Granting, deviceVars
      <4> QED
        BY <4>1, <4>2, <4>3 DEF Permits
    <3> QED
      BY <3>2
  <2>2. CASE RefusalSent(r)
    BY <2>2 DEF RefusalSent, Adds, Permits
  <2>3. CASE answers' = answers
    BY <2>3
  <2> QED
    BY <2>1, <2>2, <2>3, HandleAnswers
<1> QED
  BY <1>1, <1>2, <1>3, OnceRows

LEMMA OthersOnce ==
  ASSUME Basics, Once,
         \/ Tick \/ Recover \/ CancelTask \/ ResumeTask \/ Assign
         \/ \E d \in Devices : Revoke(d)
         \/ \E d \in Prepared, c \in Challenges : RequestReconciliation(c, d)
  PROVE  Once'
<1>1. KernelKept /\ UNCHANGED <<deviceVars, wireVars>>
  BY OthersKept, RequestFields, KernelUnchanged
<1> QED
  BY <1>1, OnceRows DEF wireVars

LEMMA NativeEndsOnce ==
  ASSUME Basics, Once, NEW p \in Episodes, NativeEnds(p)
  PROVE  Once'
<1>1. /\ native[p] = "running" /\ native'[p] \in Outcomes
      /\ \A q \in Episodes \ {p} : native'[q] = native[q]
      /\ UNCHANGED <<worker, journal, runs, net, answers, effect, episode>>
  BY NativeEndsBasics DEF wireVars, kernelVars
<1>2. ASSUME NEW q \in Episodes PROVE (BegunOnce(q) /\ Noted(q))'
  BY <1>1 DEF Once, BegunOnce, Noted, Outcomes
<1>3. ASSUME NEW d \in Devices PROVE AtOperation(d)'
  <2>1. AtOperation(d) /\ (worker[d].pc \in Before \cup After => worker[d].episode \in Episodes)
    BY BeforeHasEpisode DEF Once
  <2> QED
    BY <1>1, <2>1 DEF AtOperation, Before, After, Outcomes
<1>4. ASSUME NEW r \in net' PROVE TrueResult(r)'
  <2>1. TrueResult(r) /\ (r.op \in {"complete", "report"} => r.episode \in Episodes)
    BY <1>1, HeldFields DEF Once
  <2> QED
    BY <1>1, <2>1 DEF TrueResult, Outcomes
<1>5. ASSUME NEW a \in answers' PROVE Permits(a)'
  <2>1. Permits(a) /\ (a.op = "claim" /\ a.ok => a.episode \in Episodes)
    BY <1>1 DEF Once, Basics, Bearings, Due, Theirs
  <2> QED
    BY <1>1, <2>1 DEF Permits
<1> QED
  BY <1>1, <1>2, <1>3, <1>4, <1>5 DEF Once, ClosedBehind

\* What the journal notes in a step of a device has been.
LEMMA DeviceNotes ==
  ASSUME Basics, Once, NEW d \in Devices, Device(d), UNCHANGED native, NEW q \in Episodes
  PROVE  Noted(q)'
<1>0. Noted(q) /\ worker[d].episode \in Numbers
  BY WorkerFields DEF Once, Basics
<1> DEFINE Kept == journal'[q].observed = journal[q].observed /\ journal'[q].result = journal[q].result
<1>1. CASE Kept
  BY <1>0, <1>1 DEF Noted
<1>2. ASSUME NEW p \in Episodes, NEW phases, Writes(p, phases) PROVE Kept
  BY <1>2 DEF Writes
<1>3. CASE journal' = journal
  BY <1>1, <1>3
<1>4. CASE Observe(d)
  <2>1. /\ native[worker[d].episode] \in Outcomes
        /\ q # worker[d].episode => journal'[q] = journal[q]
        /\ Kept \/ journal'[q].result = journal[q].result
    BY <1>4, ObserveWrites
  <2> QED
    BY <1>0, <1>1, <2>1 DEF Noted
<1>5. CASE Complete(d)
  <2>1. AtOperation(d) /\ worker[d].pc = "observed"
    BY <1>5, CompleteWrites DEF Once
  <2>2. /\ native[worker[d].episode] \in Outcomes
        /\ q # worker[d].episode => journal'[q] = journal[q]
    BY <1>3, <1>5, <2>1, CompleteWrites DEF AtOperation, After
  <2>3. CASE q = worker[d].episode /\ d \in Prepared
    BY <1>0, <1>5, <2>2, <2>3, CompleteWrites DEF Noted
  <2>4. CASE q # worker[d].episode \/ d \notin Prepared
    BY <1>3, <1>1, <1>5, <2>2, <2>4, CompleteWrites
  <2> QED
    BY <2>3, <2>4
<1>6. CASE Report(d)
  <2>1. /\ worker[d].episode \in Episodes /\ journal[worker[d].episode].observed
        /\ q # worker[d].episode => journal'[q] = journal[q]
        /\ journal'[worker[d].episode].observed = journal[worker[d].episode].observed
        /\ journal'[worker[d].episode].result = native[worker[d].episode]
    BY <1>6, ReportWrites
  <2>2. native[worker[d].episode] \in Outcomes
    BY <2>1 DEF Once, Noted
  <2> QED
    BY <1>0, <2>1, <2>2 DEF Noted
<1>7. CASE \/ Dispatch(d) \/ Permitted(d) \/ Completed(d) \/ GivesBack(d) \/ GivenBack(d)
           \/ Unproven(d) \/ Reported(d)
  BY <1>1, <1>2, <1>3, <1>7, DispatchWrites, PermittedWrites, CompletedWrites, GivesBackWrites,
     GivenBackWrites, UnprovenWrites, ReportedWrites
<1>8. CASE \E c \in Challenges : Fetch(d, c)
  BY <1>1, <1>2, <1>3, <1>8, FetchWrites
<1> QED
  BY <1>3, <1>4, <1>5, <1>6, <1>7, <1>8
     DEF Device, Run, GotLease, NoLease, Started, PrepareFails, Begin, Observed,
         RenewSent, RenewAnswered, ReportFails

\* A step of a device that leaves the operations alone.
LEMMA OnceDevice ==
  ASSUME Basics, Once, NEW d \in Devices, UNCHANGED <<kernelVars, native, runs>>,
         \A x \in Devices \ {d} : worker'[x] = worker[x],
         \A q \in Episodes : Noted(q)', AtOperation(d)',
         \A m \in net' \ net : TrueResult(m),
         \A a \in answers' : /\ a \in answers
                             /\ a.device = d => worker'[d].episode = worker[d].episode
  PROVE  Once'
<1>1. UNCHANGED <<native, runs, effect, episode>>
  BY DEF kernelVars
<1>3. ASSUME NEW q \in Episodes PROVE (BegunOnce(q) /\ Noted(q))'
  BY <1>1 DEF Once, BegunOnce
<1>4. ASSUME NEW x \in Devices PROVE AtOperation(x)'
  <2>1. CASE x # d
    BY <1>1, <2>1 DEF Once, AtOperation
  <2> QED
    BY <2>1
<1>5. ASSUME NEW r \in net' PROVE TrueResult(r)'
  BY <1>1 DEF Once, TrueResult
<1>6. ASSUME NEW a \in answers' PROVE Permits(a)'
  <2>1. a \in answers /\ a.device \in Devices /\ Permits(a)
    BY AnswersAwaited DEF Once
  <2>2. worker'[a.device].episode = worker[a.device].episode
    BY <2>1
  <2> QED
    BY <1>1, <2>1, <2>2 DEF Permits
<1> QED
  BY <1>1, <1>3, <1>4, <1>5, <1>6 DEF Once, ClosedBehind

LEMMA OnceQuits ==
  ASSUME Basics, Once, NEW d \in Devices, Quits(d), \A q \in Episodes : Noted(q)'
  PROVE  Once'
<1>1. AtOperation(d)' /\ \A x \in Devices \ {d} : worker'[x] = worker[x]
  BY DEF AtOperation, Quits, RunOver, Before, After
<1>2. UNCHANGED <<kernelVars, native, runs>> /\ \A m \in net' \ net : TrueResult(m)
  BY DEF Quits, Asks, TrueResult
<1>3. \A a \in answers' : a \in answers /\ a.device # d
  BY DEF Quits
<1> QED
  BY <1>1, <1>2, <1>3, OnceDevice

LEMMA OnceGoesOn ==
  ASSUME Basics, Once, NEW d \in Devices, GoesOn(d), UNCHANGED <<native, runs>>,
         \A q \in Episodes : Noted(q)', AtOperation(d)',
         \/ native[worker[d].episode] \in Outcomes
         \/ Asks(d, Ops \ {"complete", "report"})
  PROVE  Once'
<1>1. UNCHANGED kernelVars /\ \A x \in Devices \ {d} : worker'[x] = worker[x]
  BY DEF GoesOn, Stays
<1>2. ASSUME NEW m \in net' \ net PROVE TrueResult(m)
  <2>1. /\ m.episode = worker[d].episode /\ worker[d].episode # 0
        /\ m.result = IF worker[d].episode = 0 THEN "none" ELSE native[worker[d].episode]
    BY DEF GoesOn, Asks
  <2>2. m.op \in {"complete", "report"} => native[worker[d].episode] \in Outcomes
    BY DEF Asks
  <2> QED
    BY <2>1, <2>2 DEF TrueResult
<1>3. \A a \in answers' : a \in answers
  BY DEF GoesOn, StillAwaited
<1> QED
  BY <1>1, <1>2, <1>3, OnceDevice DEF GoesOn, Stays

LEMMA OnceBegins ==
  ASSUME Basics, Once, NEW d \in Devices, Begins(d), worker'[d].pc \in Unleased \cup {"reconciling"},
         \A q \in Episodes : Noted(q)'
  PROVE  Once'
<1>1. AtOperation(d)' /\ \A x \in Devices \ {d} : worker'[x] = worker[x]
  BY DEF AtOperation, Begins, Before, After, Unleased
<1>2. UNCHANGED <<kernelVars, native, runs>> /\ \A m \in net' \ net : TrueResult(m)
  BY DEF Begins, TrueResult
<1>3. ASSUME NEW a \in answers' PROVE a \in answers /\ a.device # d
  <2>1. a \in answers /\ Awaits(a.device, a.op) /\ worker[d].pc = "idle" /\ ~worker[d].renewing
    BY AnswersAwaited DEF Begins, Basics, Bearings, AtBearings, Renews
  <2> QED
    BY <2>1, AwaitsWhat
<1> QED
  BY <1>1, <1>2, <1>3, OnceDevice

LEMMA OnceTakes ==
  ASSUME Basics, Once, NEW d \in Devices, NEW a \in answers, a.op = "claim", a.ok, TakesLease(d, a)
  PROVE  Once'
<1>1. native[a.episode] = "none"
  BY DEF Once, Permits
<1>2. AtOperation(d)' /\ \A x \in Devices \ {d} : worker'[x] = worker[x]
  BY <1>1 DEF AtOperation, TakesLease, Before, After
<1>3. UNCHANGED <<kernelVars, native, runs>> /\ \A m \in net' \ net : TrueResult(m)
  BY DEF TakesLease, TrueResult
<1>4. \A x \in answers' : x \in answers /\ x.device # d
  BY DEF TakesLease
<1>5. \A q \in Episodes : Noted(q)'
  BY DEF Once, Noted, TakesLease
<1> QED
  BY <1>2, <1>3, <1>4, <1>5, OnceDevice

\* The begin itself: nobody else has the episode and no result of it is known.
LEMMA BeginOnce ==
  ASSUME Basics, Once, NEW d \in Devices, Begin(d)
  PROVE  Once'
<1> DEFINE p == worker[d].episode
<1>1. /\ worker[d].pc = "permitted" /\ worker'[d].pc = "native" /\ worker'[d].episode = p
      /\ \A x \in Devices \ {d} : worker'[x] = worker[x]
      /\ UNCHANGED <<journal, net, answers, effect, episode>>
  BY BeginMoves DEF Begin, At, Keeps, Stays, wireVars, kernelVars
<1>2. p \in Episodes /\ Theirs(p, d) /\ native[p] = "none" /\ effect[p].state # "none" /\ runs[p] = 0
  BY <1>1, BeforeHasEpisode DEF Once, AtOperation, Before, BegunOnce
<1>3. /\ native'[p] = "running" /\ runs'[p] = runs[p] + 1
      /\ \A q \in Episodes \ {p} : native'[q] = native[q] /\ runs'[q] = runs[q]
  BY BeginWrites
<1>4. ASSUME NEW q \in Episodes PROVE (BegunOnce(q) /\ Noted(q))'
  BY <1>1, <1>2, <1>3 DEF Once, BegunOnce, Noted, Outcomes
<1>5. ASSUME NEW x \in Devices PROVE AtOperation(x)'
  <2>1. CASE x = d
    BY <1>1, <2>1 DEF AtOperation, Before, After
  <2>2. CASE x # d
    <3>1. AtOperation(x) /\ worker'[x] = worker[x] /\ worker[x].episode # p
      BY <1>1, <1>2, <2>2, OwnEpisode, EpisodesAre DEF Once
    <3>2. worker[x].pc \in Before \cup After => worker[x].episode \in Episodes
      BY BeforeHasEpisode
    <3> QED
      BY <1>1, <1>3, <3>1, <3>2 DEF AtOperation, Before
  <2> QED
    BY <2>1, <2>2
<1>6. ASSUME NEW r \in net' PROVE TrueResult(r)'
  <2>1. TrueResult(r) /\ (r.op \in {"complete", "report"} => r.episode \in Episodes)
    BY <1>1, HeldFields DEF Once
  <2> QED
    BY <1>2, <1>3, <2>1 DEF TrueResult, Outcomes
<1>7. ASSUME NEW a \in answers' PROVE Permits(a)'
  <2>1. a \in answers /\ Permits(a) /\ a.device \in Devices /\ Awaits(a.device, a.op) /\ Due(a)
    BY <1>1, AnswersAwaited DEF Once, Basics, Bearings
  <2>2. a.op = "claim" /\ a.ok => a.episode \in Episodes \ {p}
    <3>1. a.op = "claim" => a.device # d
      BY <1>1, <2>1, AwaitsWhat
    <3> QED
      BY <1>2, <2>1, <3>1 DEF Due, Theirs
  <2>3. worker'[a.device].episode = worker[a.device].episode
    BY <1>1, <2>1
  <2> QED
    BY <1>1, <1>3, <2>1, <2>2, <2>3 DEF Permits
<1> QED
  BY <1>1, <1>4, <1>5, <1>6, <1>7 DEF Once, ClosedBehind

LEMMA GoesOnOnce ==
  ASSUME Basics, Once, NEW d \in Devices,
         \/ Dispatch(d) \/ Permitted(d) \/ Observed(d) \/ GivesBack(d)
         \/ RenewSent(d) \/ RenewAnswered(d) \/ (Observe(d) /\ Current(d)),
         UNCHANGED <<native, runs>>, \A q \in Episodes : Noted(q)'
  PROVE  Once'
<1>1. AtOperation(d)
  BY DEF Once
<1>2. GoesOn(d) /\ worker'[d].episode = worker[d].episode /\ UNCHANGED effect
  <2>1. GoesOn(d)
    BY DispatchMoves, PermittedMoves, ObservedMoves, GivesBackMoves, RenewSentMoves,
       RenewAnsweredMoves, ObserveMoves
  <2> QED
    BY <2>1 DEF GoesOn, Stays, kernelVars
<1>3. AtOperation(d)'
  <2>1. CASE Dispatch(d)
    <3>1. worker[d].pc = "leased" /\ worker'[d].pc = "dispatching"
      BY <2>1, DispatchMoves DEF Dispatch, At
    <3> QED
      BY <1>1, <1>2, <3>1 DEF AtOperation, Before, After
  <2>2. CASE Permitted(d)
    <3>1. /\ worker[d].pc = "dispatching" /\ worker'[d].pc = "permitted"
          /\ \E a \in answers : a.device = d /\ a.op = "dispatch" /\ a.ok
      BY <2>2, PermittedMoves
    <3>2. effect[worker[d].episode].state # "none"
      BY <3>1 DEF Once, Permits
    <3> QED
      BY <1>1, <1>2, <3>1, <3>2 DEF AtOperation, Before, After
  <2>3. CASE Observed(d)
    <3>1. worker[d].pc = "observing" /\ worker'[d].pc = "observed"
      BY <2>3, ObservedMoves
    <3> QED
      BY <1>1, <1>2, <3>1 DEF AtOperation, Before, After
  <2>4. CASE GivesBack(d)
    <3>1. worker[d].pc = "dispatching" /\ worker'[d].pc = "releasing"
      BY <2>4, GivesBackMoves
    <3> QED
      BY <1>1, <1>2, <3>1 DEF AtOperation, Before, After
  <2>5. CASE RenewSent(d) \/ RenewAnswered(d)
    <3>1. worker'[d].pc = worker[d].pc
      BY <2>5, RenewSentMoves, RenewAnsweredMoves
    <3> QED
      BY <1>1, <1>2, <3>1 DEF AtOperation
  <2>6. CASE Observe(d) /\ Current(d)
    <3>1. worker'[d].pc = "observing" /\ native[worker[d].episode] \in Outcomes
      BY <2>6, ObserveMoves, ObserveWrites
    <3> QED
      BY <1>1, <1>2, <3>1 DEF AtOperation, Before, After
  <2> QED
    BY <2>1, <2>2, <2>3, <2>4, <2>5, <2>6
<1>4. Asks(d, Ops \ {"complete", "report"})
  <2>1. {"dispatch", "release", "renew", "observe"} \subseteq Ops \ {"complete", "report"}
    BY DEF Ops
  <2>2. \/ net' = net
        \/ \E op \in {"dispatch", "release", "renew", "observe"} : Send(d, op)
    BY DEF Dispatch, Permitted, Observed, GivesBack, RenewSent, RenewAnswered, Observe
  <2> QED
    BY <2>1, <2>2, SendAsks, NothingAsked
<1> QED
  BY <1>2, <1>3, <1>4, OnceGoesOn

LEMMA DeviceOnce ==
  ASSUME Basics, Once, NEW d \in Devices, Device(d)
  PROVE  Once'
<1>1. CASE Begin(d)
  BY <1>1, BeginOnce
<1>2. CASE ~Begin(d)
  <2>1. UNCHANGED <<native, runs>> /\ \A q \in Episodes : Noted(q)'
    BY <1>2, DeviceWrites, DeviceNotes
  <2>2. CASE Quits(d)
    BY <2>1, <2>2, OnceQuits
  <2>3. CASE Run(d) \/ \E c \in Challenges : Fetch(d, c)
    <3>1. Begins(d) /\ worker'[d].pc \in Unleased \cup {"reconciling"}
      BY <2>3, RunBegins, FetchBegins DEF Unleased
    <3> QED
      BY <2>1, <3>1, OnceBegins
  <2>4. CASE GotLease(d)
    BY <2>2, <2>4, GotLeaseMoves, OnceTakes
  <2>5. CASE \/ NoLease(d) \/ PrepareFails(d) \/ Completed(d) \/ GivenBack(d) \/ Unproven(d)
             \/ Reported(d) \/ ReportFails(d)
    BY <2>2, <2>5, SilentQuits, PrepareFailsQuits, UnprovenQuits
  <2>6. CASE Observe(d)
    <3>1. CASE Current(d)
      BY <2>1, <2>6, <3>1, GoesOnOnce
    <3>2. CASE ~Current(d)
      BY <2>2, <2>6, <3>2, ObserveLate
    <3> QED
      BY <3>1, <3>2
  <2>7. CASE \/ Dispatch(d) \/ Permitted(d) \/ Observed(d) \/ GivesBack(d)
             \/ RenewSent(d) \/ RenewAnswered(d)
    BY <2>1, <2>7, GoesOnOnce
  <2>8. CASE Started(d) /\ ~Quits(d)
    <3>1. /\ GoesOn(d) /\ worker[d].pc = "starting" /\ worker'[d].pc = "dispatching"
          /\ Asks(d, {"dispatch"})
      BY <2>8, StartedMoves
    <3>2. AtOperation(d)' /\ Asks(d, Ops \ {"complete", "report"})
      BY <2>1, <3>1, AsksMore DEF Once, AtOperation, Before, After, GoesOn, Stays, Ops
    <3> QED
      BY <2>1, <3>1, <3>2, OnceGoesOn
  <2>9. CASE Complete(d)
    <3>1. GoesOn(d) /\ worker[d].pc = "observed" /\ worker'[d].pc = "completing"
      BY <2>9, CompleteMoves, CompleteWrites
    <3>2. AtOperation(d)' /\ native[worker[d].episode] \in Outcomes
      BY <2>1, <3>1 DEF Once, AtOperation, Before, After, GoesOn, Stays
    <3> QED
      BY <2>1, <3>1, <3>2, OnceGoesOn
  <2>10. CASE Report(d)
    <3>1. GoesOn(d) /\ worker'[d].pc = "reporting"
      BY <2>10, ReportMoves
    <3>2. AtOperation(d)' /\ native[worker[d].episode] \in Outcomes
      BY <2>10, <3>1, ReportWrites DEF Once, Noted, AtOperation, Before, After
    <3> QED
      BY <2>1, <3>1, <3>2, OnceGoesOn
  <2> QED
    BY <1>2, <2>2, <2>3, <2>4, <2>5, <2>6, <2>7, <2>8, <2>9, <2>10 DEF Device
<1> QED
  BY <1>1, <1>2

LEMMA CrashOnce ==
  ASSUME Basics, Once, NEW d \in Devices, Crash(d)
  PROVE  Once'
<1>1. Quits(d) /\ UNCHANGED <<journal, native>>
  BY SilentQuits DEF Crash
<1>2. \A q \in Episodes : Noted(q)'
  BY <1>1 DEF Once, Noted
<1> QED
  BY <1>1, <1>2, OnceQuits

LEMMA OnceStep ==
  ASSUME Basics, Once, [Next]_vars
  PROVE  Once'
<1>1. CASE UNCHANGED vars
  <2>1. KernelKept /\ UNCHANGED deviceVars /\ net' \subseteq net /\ answers' = answers
    BY <1>1, KernelUnchanged DEF vars, wireVars
  <2> QED
    BY <2>1, OnceRows
<1>2. CASE \E r \in net : Handle(r)
  BY <1>2, HandleOnce
<1>3. CASE \E p \in Episodes : NativeEnds(p)
  BY <1>3, NativeEndsOnce
<1>4. CASE \E d \in Devices : Device(d)
  BY <1>4, DeviceOnce
<1>5. CASE \E d \in Devices : Crash(d)
  BY <1>5, CrashOnce
<1> QED
  BY <1>1, <1>2, <1>3, <1>4, <1>5, OthersOnce DEF Next, Operator

LEMMA KnownInit == Init => Basics /\ Once
BY BasicsInit, OnceInit

LEMMA KnownStep == Basics /\ Once /\ [Next]_vars => (Basics /\ Once)'
<1> SUFFICES ASSUME Basics, Once, [Next]_vars PROVE Basics' /\ Once'
  OBVIOUS
<1>1. \A r \in net : Backed(r)
  BY DEF Once, TrueResult, Backed
<1> QED
  BY <1>1, BasicsStep, OnceStep

LEMMA Known == Spec => [](Basics /\ Once)
BY KnownInit, KnownStep, PTL DEF Spec

(* Every row, journal, run, request and answer is what the program could have  *)
(* written, whatever is lost or late.                                          *)
THEOREM DeviceTypesHold == Spec => []DeviceTypeOK
<1>1. Basics /\ Once => DeviceTypeOK
  <2> SUFFICES ASSUME Basics, Once PROVE DeviceTypeOK
    OBVIOUS
  <2>1. Types
    BY DEF Basics
  <2>2. \A d \in Devices : /\ worker[d].pc \in Points /\ worker[d].run \in 0 .. MaxRuns
                           /\ worker[d].episode \in 0 .. MaxEpisodes
    BY <2>1, WorkerFields DEF Numbers
  <2>3. journal \in [Effects -> [phase : Phases, observed : BOOLEAN, result : Outcomes \cup {"none"}]]
    <3>1. \A e \in Effects : journal[e] \in [phase : Phases, observed : BOOLEAN, result : Outcomes \cup {"none"}]
      <4> TAKE e \in Effects
      <4>1. journal[e] \in Records /\ journal[e].result \in Outcomes \cup {"none"}
        BY <2>1, EpisodesAre DEF Types, Once, Noted
      <4> QED
        BY <4>1 DEF Records
    <3> QED
      BY <2>1, <3>1 DEF Types
  <2>4. native \in [Effects -> Outcomes \cup {"none", "running"}]
    BY <2>1 DEF Types, Natives
  <2> QED
    BY <2>2, <2>3, <2>4 DEF DeviceTypeOK
<1> QED
  BY <1>1, Known, PTL

(* However requests and answers are late, lost or refused, devices crash and    *)
(* tasks are resumed, the external operation of an effect begins at most once,  *)
(* and that of a later episode only after the earlier outcome was accepted.     *)
THEOREM OperationsBeginOnce == Spec => []NativeOnce
<1>1. Basics /\ Once => NativeOnce
  <2> SUFFICES ASSUME Basics, Once, NEW p \in Episodes
               PROVE  /\ runs[p] <= 1
                      /\ \A q \in 1 .. p - 1 : native[p] # "none" /\ native[q] # "none" => effect[q].state = "confirmed"
    BY DEF NativeOnce
  <2>1. runs[p] <= 1
    BY DEF Once, BegunOnce
  <2>2. ASSUME NEW q \in 1 .. p - 1, native[p] # "none", native[q] # "none" PROVE effect[q].state = "confirmed"
    <3>1. q \in Episodes /\ q < p
      BY EpisodesAre DEF Episodes
    <3>2. effect[p].state # "none" /\ effect[q].state # "none"
      BY <2>2, <3>1 DEF Once, BegunOnce
    <3>3. episode[p].state # "none"
      BY <3>2, OwnEffect, EpisodesAre DEF Basics, Inv, Accounted, UntouchedHasNone, Untouched
    <3>4. effect[q].state \notin Open
      BY <3>1, <3>3 DEF Once, ClosedBehind
    <3> QED
      BY <3>1, <3>2, <3>4, EffectFields DEF Open, Basics, Inv
  <2> QED
    BY <2>1, <2>2
<1> QED
  BY <1>1, Known, PTL

-----------------------------------------------------------------------------
(* Granted: what a device may still do, the coordinator still grants.         *)

\* Until then the coordinator gives the episode p to nobody else.
Grant(p, until) ==
  /\ p \in Episodes
  /\ \/ task.active = p /\ episode[p].state \in {"leased", "running"} /\ episode[p].until >= until
     \/ episode[p].state = "cancelled"

HoldsGrant(d) ==
  /\ Working(d) => Grant(worker[d].episode, worker[d].deadline)
  /\ worker[d].pc = "starting" \/ worker[d].renewing => worker[d].open

\* From when the time in the answer a counts, and what it is about.
Since(a)   == IF a.op = "renew" THEN worker[a.device].asked ELSE worker[a.device].sent
Subject(a) == IF a.op = "claim" THEN a.episode ELSE worker[a.device].episode
Leasing    == {"claim", "start", "renew"}

InTime(a) ==
  /\ a.ok /\ a.op \in Leasing /\ worker[a.device].pc \notin Closing
  /\ clock < Since(a) + a.window
  => Grant(Subject(a), Since(a) + a.window)

\* A device that asked to end its episode does not go on with it.
StopsFirst(r) ==
  /\ r.op \in Ending /\ r.episode = worker[r.device].episode /\ worker[r.device].open
  => worker[r.device].pc \in Closing

OneCancelled ==
  \A p, q \in Episodes : episode[p].state = "cancelled" /\ episode[q].state = "cancelled" => p = q

Granted ==
  /\ \A d \in Devices : HoldsGrant(d)
  /\ \A a \in answers : InTime(a)
  /\ \A r \in net : StopsFirst(r)
  /\ OneCancelled

LEMMA GrantedInit == Init => Granted
BY IdleFields, EpisodesAre DEF Init, KernelInit, Granted, HoldsGrant, Working, Current, OneCancelled, Idle, Unused

LEMMA OneCancelledStays ==
  ASSUME Basics, KernelKept, OneCancelled
  PROVE  OneCancelled'
<1> SUFFICES ASSUME NEW p \in Episodes, NEW q \in Episodes,
                    episode'[p].state = "cancelled", episode'[q].state = "cancelled", p # q
             PROVE  FALSE
  BY DEF OneCancelled
<1>1. ASSUME NEW x \in Episodes, NEW y \in Episodes, x # y,
             episode'[x].state = "cancelled", episode'[y].state = "cancelled"
      PROVE  episode[x].state = "cancelled"
  <2>1. episode[x].state = "cancelled" \/ x = task.active
    BY <1>1 DEF KernelKept, RowsGrow
  <2>2. episode[y].state = "cancelled" \/ y = task.active
    BY <1>1 DEF KernelKept, RowsGrow
  <2>3. CASE x = task.active
    <3>1. episode[y].state = "cancelled" /\ task.status \notin Terminal
      BY <1>1, <2>2, <2>3, ActiveFields DEF Basics
    <3> QED
      BY <3>1 DEF Basics, Inv, Accounted, CancelledTogether, Terminal
  <2> QED
    BY <2>1, <2>3
<1> QED
  BY <1>1 DEF OneCancelled

\* A step that leaves alone what is granted, save the episodes that it ends.
GrantsStay(ended) ==
  \A p \in Episodes \ ended, until \in Nat :
    until > clock /\ Grant(p, until) => Grant(p, until)'

\* ... which is so if it leaves the active episode alone while its lease is good.
LEMMA ActiveStays ==
  ASSUME Basics, KernelKept, NEW ended,
         \A p \in Episodes \ ended :
           /\ task.active = p /\ episode[p].state \in {"leased", "running"} /\ episode[p].until > clock
           => \/ episode'[p].state = "cancelled"
              \/ /\ task'.active = p /\ episode'[p].state \in {"leased", "running"}
                 /\ episode'[p].until >= episode[p].until
  PROVE  GrantsStay(ended)
<1> SUFFICES ASSUME NEW p \in Episodes \ ended, NEW until \in Nat, until > clock, Grant(p, until)
             PROVE  Grant(p, until)'
  BY DEF GrantsStay
<1>1. CASE episode[p].state = "cancelled"
  BY <1>1 DEF KernelKept, RowsGrow, Settled, Grant
<1>2. CASE task.active = p /\ episode[p].state \in {"leased", "running"} /\ episode[p].until >= until
  <2>1. /\ episode[p].until \in Nat /\ clock \in Nat /\ episode'[p].until \in Nat
    BY EpisodeFields DEF Basics, Inv, KernelKept, TypeOK, Episode
  <2> QED
    BY <1>2, <2>1 DEF Grant
<1> QED
  BY <1>1, <1>2 DEF Grant

LEMMA SameRowsStay ==
  ASSUME Basics, NEW ended, UNCHANGED <<task, episode>>
  PROVE  GrantsStay(ended)
BY DEF GrantsStay, Grant

EndedBy(r) == IF r.op \in Ending THEN {r.episode} ELSE {}

LEMMA HandleGrants ==
  ASSUME Basics, NEW r \in net, Handle(r), KernelKept
  PROVE  GrantsStay(EndedBy(r))
<1>0. clock \in Nat
  BY DEF Basics, Inv, TypeOK
<1>1. CASE UNCHANGED <<task, episode>>
  BY <1>1, SameRowsStay
<1>2. ASSUME NEW p \in Episodes \ EndedBy(r), ~UNCHANGED <<task, episode>>,
             task.active = p, episode[p].state \in {"leased", "running"}, episode[p].until > clock
      PROVE  /\ task'.active = p /\ episode'[p].state \in {"leased", "running"}
             /\ episode'[p].until >= episode[p].until
  <2>0. /\ episode[p].until \in Nat /\ p # 0 /\ episode \in [Episodes -> Episode] /\ episode[p] \in Episode
        /\ task \in Task
    BY EpisodeFields, EpisodesAre DEF Basics, Inv, TypeOK
  <2>1. CASE HandleClaim(r)
    <3>1. Admitted(clock)
      BY <1>2, <2>1 DEF HandleClaim, Refuse
    <3> QED
      BY <1>0, <1>2, <2>0, <3>1 DEF Admitted
  <2>2. CASE HandleStart(r)
    <3>1. Start(r.device, r.episode, clock) /\ Held(r) /\ r.episode \in Episodes
      BY <1>2, <2>2, HeldFields DEF HandleStart, Refuse
    <3>2. r.episode = p
      BY <1>2, <3>1 DEF Held, Lease
    <3> QED
      BY <1>2, <2>0, <3>1, <3>2 DEF Start, Saved, Task, Episode
  <2>3. CASE HandleRenew(r)
    <3> DEFINE until == IF clock + Ttl > episode[r.episode].until
                        THEN clock + Ttl ELSE episode[r.episode].until
    <3>1. /\ Held(r) /\ episode' = [episode EXCEPT ![r.episode].until = until]
          /\ task' = task
      BY <1>2, <2>3 DEF HandleRenew, Refuse
    <3>2. r.episode = p
      BY <1>2, <3>1 DEF Held, Lease
    <3>3. until \in Nat /\ until >= episode[p].until
      BY <1>0, <2>0, <3>2, EpisodesAre
    <3> HIDE DEF until
    <3> QED
      BY <1>2, <2>0, <3>1, <3>2, <3>3 DEF Episode
  <2>4. CASE HandleDispatch(r)
    <3>1. /\ Held(r) /\ episode' = [episode EXCEPT ![r.episode].state = "running"] /\ task' = Saved(task)
      BY <1>2, <2>4 DEF HandleDispatch, Refuse
    <3>2. r.episode = p
      BY <1>2, <3>1 DEF Held, Lease
    <3> QED
      BY <1>2, <2>0, <3>1, <3>2 DEF Saved, Task, Episode
  <2>5. CASE HandleObserve(r)
    BY <1>2, <2>5 DEF HandleObserve, Refuse, RecordEffectObservation
  <2>6. CASE HandleComplete(r) \/ HandleRelease(r) \/ HandleUnknown(r)
    <3>1. Held(r) /\ r.op \in Ending
      BY <1>2, <2>6 DEF HandleComplete, HandleRelease, HandleUnknown, Refuse, Ending
    <3> QED
      BY <1>2, <3>1 DEF Held, Lease, EndedBy
  <2>7. CASE HandleReport(r)
    <3>1. r.op = "report" /\ ChallengeCurrent(r.challenge, r.device)
      BY <1>2, <2>7 DEF HandleReport, Refuse
    <3> QED
      BY <1>2, <3>1 DEF ChallengeCurrent, Reconcilable
  <2> QED
    BY <2>1, <2>2, <2>3, <2>4, <2>5, <2>6, <2>7 DEF Handle
<1> QED
  BY <1>1, <1>2, ActiveStays

LEMMA OthersGrants ==
  ASSUME Basics, KernelKept,
         \/ Tick \/ Recover \/ CancelTask \/ ResumeTask \/ Assign
         \/ \E d \in Devices : Revoke(d)
         \/ \E d \in Prepared, c \in Challenges : RequestReconciliation(c, d)
  PROVE  GrantsStay({})
<1>1. CASE UNCHANGED <<task, episode>>
  BY <1>1, SameRowsStay
<1>2. ASSUME NEW p \in Episodes, ~UNCHANGED <<task, episode>>,
             task.active = p, episode[p].state \in {"leased", "running"}, episode[p].until > clock
      PROVE  episode'[p].state = "cancelled"
  <2>0. episode[p].until \in Nat /\ clock \in Nat /\ task.status \notin Terminal
    BY <1>2, EpisodeFields, ActiveFields DEF Basics, Inv, TypeOK
  <2>1. CASE Recover
    BY <1>2, <2>0, <2>1 DEF Recover, RecoverExpired
  <2>2. CASE CancelTask
    BY <1>2, <2>2, CancelKept DEF CancelTask
  <2>3. CASE ResumeTask
    BY <2>0, <2>3 DEF ResumeTask, Resume, Outcomes, Terminal
  <2> QED
    BY <1>2, <2>1, <2>2, <2>3 DEF Tick, Assign, Revoke, RequestReconciliation, kernelVars
<1> QED
  BY <1>1, <1>2, ActiveStays

LEMMA SinceTyped ==
  ASSUME Basics, NEW a \in answers
  PROVE  Since(a) \in Nat /\ a.window \in Nat /\ a.device \in Devices /\ Since(a) + a.window \in Nat
BY ReplyFields, WorkerFields DEF Basics, Since

LEMMA GrantedRows ==
  ASSUME Basics, Granted, KernelKept, UNCHANGED worker, clock' >= clock, net' \subseteq net,
         NEW ended, GrantsStay(ended),
         \A p \in ended : \E r \in net : r.op \in Ending /\ r.episode = p,
         \A a \in answers' : a \in answers \/ InTime(a)'
  PROVE  Granted'
<1>0. clock \in Nat /\ clock' \in Nat
  BY DEF Basics, KernelKept, Inv, TypeOK
<1>1. ASSUME NEW d \in Devices, worker[d].open, worker[d].pc \notin Closing,
             worker[d].episode \in ended
      PROVE  FALSE
  <2>1. PICK r \in net : r.op \in Ending /\ r.episode = worker[d].episode
    BY <1>1
  <2>2. worker[d].episode # 0 /\ Theirs(worker[d].episode, d)
    BY <1>1, HasEpisode DEF Basics, Bearings, AtBearings
  <2>3. r.device = d
    BY <2>1, <2>2 DEF Basics, Bearings, Sent, Theirs
  <2> QED
    BY <1>1, <2>1, <2>3 DEF Granted, StopsFirst
<1>2. ASSUME NEW d \in Devices PROVE HoldsGrant(d)'
  <2>1. HoldsGrant(d) /\ worker[d].deadline \in Nat
    BY WorkerFields DEF Granted, Basics
  <2>2. ASSUME Working(d)' PROVE Grant(worker[d].episode, worker[d].deadline)'
    <3>1. worker[d].open /\ clock < worker[d].deadline /\ worker[d].pc \notin Closing
      BY <1>0, <2>1, <2>2 DEF Working, Current, Closing
    <3>2. Grant(worker[d].episode, worker[d].deadline)
      BY <2>1, <3>1 DEF HoldsGrant, Working, Current, Closing
    <3>3. worker[d].episode \in Episodes \ ended
      BY <1>1, <3>1, <3>2 DEF Grant
    <3> QED
      BY <1>0, <2>1, <3>1, <3>2, <3>3 DEF GrantsStay
  <2>3. worker'[d].episode = worker[d].episode /\ worker'[d].deadline = worker[d].deadline
    OBVIOUS
  <2> QED
    BY <2>1, <2>2, <2>3 DEF HoldsGrant, Grant
<1>3. ASSUME NEW a \in answers PROVE InTime(a)'
  <2> DEFINE until == Since(a) + a.window
  <2>1. InTime(a) /\ until \in Nat /\ a.device \in Devices /\ HoldsGrant(a.device)
    BY SinceTyped DEF Granted
  <2>2. Since(a)' = Since(a) /\ Subject(a)' = Subject(a)
    BY DEF Since, Subject
  <2>3. ASSUME a.ok, a.op \in Leasing, worker[a.device].pc \notin Closing, clock' < until,
               NEW u \in Nat, u = until, NEW p, p = Subject(a)
        PROVE  Grant(p, u)'
    <3>1. clock < until
      BY <1>0, <2>1, <2>3
    <3>2. Grant(Subject(a), until)
      BY <2>1, <2>3, <3>1 DEF InTime
    <3>3. Subject(a) \in Episodes \ ended
      <4>1. CASE a.op = "claim"
        <5>1. \A r \in net : r.episode # a.episode
          BY <2>3, <4>1 DEF Basics, Bearings, Due
        <5> QED
          BY <3>2, <4>1, <5>1 DEF Subject, Grant
      <4>2. CASE a.op # "claim"
        <5>1. worker[a.device].open
          BY <2>1, <2>3, <4>2, AnswersAwaited, AwaitsWhat DEF HoldsGrant, Leasing
        <5> QED
          BY <1>1, <2>1, <2>3, <3>2, <4>2, <5>1 DEF Subject, Grant
      <4> QED
        BY <4>1, <4>2
    <3> QED
      BY <2>1, <2>3, <3>1, <3>2, <3>3 DEF GrantsStay
  <2>4. ASSUME a.ok, a.op \in Leasing, worker[a.device].pc \notin Closing, clock' < until
        PROVE  Grant(Subject(a), until)'
    BY <2>1, <2>2, <2>3, <2>4 DEF Grant
  <2> QED
    BY <2>2, <2>4 DEF InTime, Grant
<1>4. ASSUME NEW r \in net' PROVE StopsFirst(r)'
  BY DEF Granted, StopsFirst
<1>5. OneCancelled'
  BY OneCancelledStays DEF Granted
<1> QED
  BY <1>2, <1>3, <1>4, <1>5 DEF Granted

LEMMA HandleGranted ==
  ASSUME Basics, Once, Granted, NEW r \in net, Handle(r)
  PROVE  Granted'
<1>1. KernelKept
  BY HandleKept DEF Once, TrueResult, Backed
<1>2. UNCHANGED worker /\ net' \subseteq net /\ clock' = clock /\ clock \in Nat
  BY DEF Handle, Handled, deviceVars, Basics, Inv, TypeOK
<1>3. GrantsStay(EndedBy(r))
  BY <1>1, HandleGrants
<1>4. \A p \in EndedBy(r) : \E m \in net : m.op \in Ending /\ m.episode = p
  BY DEF EndedBy
<1>5. ASSUME NEW a \in answers' PROVE a \in answers \/ InTime(a)'
  <2>1. CASE GrantSent(r)
    <3>1. PICK p \in Numbers, window \in Nat : Adds(r, TRUE, p, window) /\ Granting(r, p, window)
      BY <2>1 DEF GrantSent
    <3>2. ASSUME a \notin answers PROVE InTime(a)'
      <4>1. Awaited(r) /\ a.op = r.op /\ a.device = r.device /\ a.episode = p /\ a.window = window
        BY <3>1, <3>2 DEF Adds
      <4>2. r.device \in Devices
        BY MessageFields DEF Basics
      <4>3. /\ worker[r.device].sent \in Nat /\ worker[r.device].asked \in Nat
            /\ worker[r.device].sent <= clock /\ worker[r.device].asked <= clock
        BY <4>2, WorkerFields DEF Basics, Bearings, AtBearings
      <4>4. Since(a)' = Since(a) /\ Since(a) \in Nat /\ Since(a) <= clock
        BY <1>2, <4>1, <4>3 DEF Since
      <4>5. ASSUME r.op \in Leasing PROVE Subject(a)' = p /\ p \in Episodes
        <5>1. r.op # "claim" => worker[r.device].episode = p
          BY <3>1, <4>1, AwaitedEpisode DEF Granting
        <5> QED
          BY <1>2, <3>1, <4>1, <5>1 DEF Subject, Granting
      <4>6. ASSUME r.op \in Leasing
            PROVE  /\ task'.active = p /\ episode'[p].state \in {"leased", "running"}
                   /\ episode'[p].until >= Since(a) + a.window
        <5>1. /\ task'.active = p /\ episode'[p].state \in {"leased", "running"}
              /\ episode'[p].until = clock + window
          BY <3>1, <4>6 DEF Granting, Leasing
        <5> QED
          BY <1>2, <4>1, <4>4, <5>1
      <4> QED
        BY <4>1, <4>4, <4>5, <4>6 DEF InTime, Grant
    <3> QED
      BY <3>2
  <2>2. CASE RefusalSent(r)
    BY <2>2 DEF RefusalSent, Adds, InTime
  <2>3. CASE answers' = answers
    BY <2>3
  <2> QED
    BY <2>1, <2>2, <2>3, HandleAnswers
<1>6. clock' >= clock
  BY <1>2
<1> QED
  BY <1>1, <1>2, <1>3, <1>4, <1>5, <1>6, GrantedRows

LEMMA OthersGranted ==
  ASSUME Basics, Granted,
         \/ Tick \/ Recover \/ CancelTask \/ ResumeTask \/ Assign
         \/ \E d \in Devices : Revoke(d)
         \/ \E d \in Prepared, c \in Challenges : RequestReconciliation(c, d)
  PROVE  Granted'
<1>1. KernelKept /\ UNCHANGED <<deviceVars, wireVars>> /\ clock' >= clock
  BY OthersKept, RequestFields, KernelUnchanged DEF kernelVars, Basics, Inv, TypeOK
<1>2. GrantsStay({})
  BY <1>1, OthersGrants
<1>3. UNCHANGED worker /\ net' \subseteq net /\ answers' = answers
  BY <1>1 DEF deviceVars, wireVars
<1> QED
  BY <1>1, <1>2, <1>3, GrantedRows

\* A step of a device changes what it holds, and nothing that is granted.
LEMMA GrantedDevice ==
  ASSUME Basics, Granted, NEW d \in Devices, UNCHANGED kernelVars,
         \A x \in Devices \ {d} : worker'[x] = worker[x],
         HoldsGrant(d)',
         \A a \in answers' : a \in answers /\ (a.device = d => InTime(a)'),
         \A r \in net' : \/ r \in net /\ r.device # d
                         \/ r.device = d /\ StopsFirst(r)'
  PROVE  Granted'
<1>1. UNCHANGED <<task, episode, clock>>
  BY DEF kernelVars
<1>2. ASSUME NEW x \in Devices PROVE HoldsGrant(x)'
  <2>1. CASE x # d
    <3>1. worker'[x] = worker[x] /\ HoldsGrant(x)
      BY <2>1 DEF Granted
    <3> QED
      BY <1>1, <3>1 DEF HoldsGrant, Working, Current, Grant
  <2> QED
    BY <2>1
<1>3. ASSUME NEW a \in answers' PROVE InTime(a)'
  <2>1. CASE a.device # d
    <3>1. InTime(a) /\ worker'[a.device] = worker[a.device]
      BY <2>1, AnswersAwaited DEF Granted
    <3> QED
      BY <1>1, <3>1 DEF InTime, Since, Subject, Grant
  <2> QED
    BY <2>1
<1>4. ASSUME NEW r \in net' PROVE StopsFirst(r)'
  <2>1. CASE r \in net /\ r.device # d
    <3>1. StopsFirst(r) /\ worker'[r.device] = worker[r.device]
      BY <2>1, MessageFields DEF Granted, Basics
    <3> QED
      BY <3>1 DEF StopsFirst
  <2> QED
    BY <2>1
<1>5. OneCancelled'
  BY <1>1 DEF Granted, OneCancelled
<1> QED
  BY <1>2, <1>3, <1>4, <1>5 DEF Granted

LEMMA GrantedQuits ==
  ASSUME Basics, Granted, NEW d \in Devices, Quits(d)
  PROVE  Granted'
<1>1. /\ worker'[d].pc = "idle" /\ ~worker'[d].open /\ ~worker'[d].renewing
      /\ \A x \in Devices \ {d} : worker'[x] = worker[x] /\ UNCHANGED kernelVars
  BY DEF Quits, RunOver
<1>2. HoldsGrant(d)' /\ \A a \in answers' : a \in answers /\ a.device # d
  BY <1>1 DEF HoldsGrant, Working, Current, Quits
<1>3. ASSUME NEW r \in net'
      PROVE  (r \in net /\ r.device # d) \/ (r.device = d /\ StopsFirst(r)')
  BY <1>1 DEF Quits, Asks, StopsFirst
<1> QED
  BY <1>1, <1>2, <1>3, GrantedDevice DEF Quits

LEMMA GrantedBegins ==
  ASSUME Basics, Granted, NEW d \in Devices, Begins(d), worker'[d].pc \in Unleased \cup {"reconciling"}
  PROVE  Granted'
<1>1. ~worker'[d].open /\ AtBearings(d)' /\ UNCHANGED kernelVars
  BY DEF Begins
<1>2. ~worker'[d].renewing
  BY <1>1 DEF AtBearings, Renews, Unleased
<1>3. HoldsGrant(d)'
  BY <1>1, <1>2 DEF HoldsGrant, Working, Current, Unleased
<1>4. ASSUME NEW a \in answers' PROVE a \in answers /\ a.device # d
  <2>1. a \in answers /\ Awaits(a.device, a.op) /\ worker[d].pc = "idle" /\ ~worker[d].renewing
    BY AnswersAwaited DEF Begins, Basics, Bearings, AtBearings, Renews
  <2> QED
    BY <2>1, AwaitsWhat
<1>5. ASSUME NEW r \in net'
      PROVE  (r \in net /\ r.device # d) \/ (r.device = d /\ StopsFirst(r)')
  BY <1>1 DEF Begins, StopsFirst
<1> QED
  BY <1>1, <1>3, <1>4, <1>5, GrantedDevice DEF Begins

LEMMA GrantedTakes ==
  ASSUME Basics, Granted, NEW d \in Devices, NEW a \in answers, a.device = d, a.op = "claim", a.ok,
         TakesLease(d, a)
  PROVE  Granted'
<1>1. /\ UNCHANGED kernelVars /\ worker[d].pc = "claiming"
      /\ worker'[d].episode = a.episode /\ worker'[d].open /\ ~worker'[d].renewing
      /\ worker'[d].deadline = worker[d].sent + a.window /\ clock < worker[d].sent + a.window
  BY DEF TakesLease
<1>2. Grant(a.episode, worker[d].sent + a.window)
  BY <1>1 DEF Granted, InTime, Since, Subject, Closing, Leasing
<1>3. HoldsGrant(d)'
  BY <1>1, <1>2 DEF HoldsGrant, Grant, kernelVars
<1>4. \A x \in answers' : x \in answers /\ x.device # d
  BY DEF TakesLease
<1>5. ASSUME NEW r \in net'
      PROVE  (r \in net /\ r.device # d) \/ (r.device = d /\ StopsFirst(r)')
  <2>1. CASE r \in net
    <3>1. r.episode # a.episode
      BY <2>1 DEF Basics, Bearings, Due
    <3> QED
      BY <1>1, <2>1, <3>1 DEF StopsFirst
  <2>2. CASE r \notin net
    BY <2>2 DEF TakesLease, StopsFirst, Ending
  <2> QED
    BY <2>1, <2>2
<1> QED
  BY <1>1, <1>3, <1>4, <1>5, GrantedDevice DEF TakesLease

\* A run that goes on, and was not closing.
LEMMA GoesOnStops ==
  ASSUME Basics, Granted, NEW d \in Devices, GoesOn(d), worker[d].pc \notin Closing,
         worker'[d].open => worker[d].open, NEW r \in net'
  PROVE  (r \in net /\ r.device # d) \/ (r.device = d /\ StopsFirst(r)')
<1>1. CASE r \in net
  BY <1>1 DEF Granted, StopsFirst, GoesOn, Stays
<1>2. CASE r \notin net
  BY <1>2 DEF GoesOn, Asks, StopsFirst
<1> QED
  BY <1>1, <1>2

LEMMA GrantedKeeps ==
  ASSUME Basics, Granted, NEW d \in Devices, GoesOn(d), Keeps(d), worker[d].pc \notin Closing,
         worker'[d].pc # "starting"
  PROVE  Granted'
<1>1. /\ worker'[d].open = worker[d].open /\ worker'[d].deadline = worker[d].deadline
      /\ worker'[d].sent = worker[d].sent /\ worker'[d].asked = worker[d].asked
      /\ worker'[d].renewing = worker[d].renewing /\ worker'[d].episode = worker[d].episode
      /\ \A x \in Devices \ {d} : worker'[x] = worker[x]
      /\ UNCHANGED <<task, episode, clock>> /\ UNCHANGED kernelVars
  BY DEF Keeps, Stays, GoesOn, kernelVars
<1>2. HoldsGrant(d)'
  <2>1. HoldsGrant(d)
    BY DEF Granted
  <2> QED
    BY <1>1, <2>1 DEF HoldsGrant, Working, Current, Grant, Closing
<1>3. ASSUME NEW a \in answers' PROVE a \in answers /\ (a.device = d => InTime(a)')
  <2>1. a \in answers /\ InTime(a)
    BY DEF GoesOn, StillAwaited, Granted
  <2> QED
    BY <1>1, <2>1 DEF InTime, Since, Subject, Grant
<1>4. \A r \in net' : (r \in net /\ r.device # d) \/ (r.device = d /\ StopsFirst(r)')
  BY <1>1, GoesOnStops
<1> QED
  BY <1>1, <1>2, <1>3, <1>4, GrantedDevice

LEMMA StartedGranted ==
  ASSUME Basics, Granted, NEW d \in Devices, Started(d)
  PROVE  Granted'
<1>1. PICK a \in answers :
        /\ a.device = d /\ a.op = "start" /\ a.ok /\ worker[d].pc = "starting"
        /\ \/ /\ GoesOn(d) /\ worker'[d].pc = "dispatching"
              /\ worker[d].open /\ worker'[d].open /\ ~worker'[d].renewing
              /\ worker'[d].deadline = worker[d].sent + a.window
              /\ clock < worker[d].sent + a.window
           \/ Quits(d)
  BY StartedMoves
<1>2. CASE Quits(d)
  BY <1>2, GrantedQuits
<1>3. CASE ~Quits(d)
  <2>1. /\ UNCHANGED kernelVars /\ UNCHANGED <<task, episode, clock>>
        /\ worker'[d].episode = worker[d].episode /\ worker[d].pc \notin Closing
        /\ \A x \in Devices \ {d} : worker'[x] = worker[x]
        /\ GoesOn(d)
    BY <1>1, <1>3 DEF GoesOn, Stays, kernelVars, Closing
  <2>2. Grant(worker[d].episode, worker[d].sent + a.window)
    BY <1>1, <1>3, <2>1 DEF Granted, InTime, Since, Subject, Leasing
  <2>3. HoldsGrant(d)'
    BY <1>1, <1>3, <2>1, <2>2 DEF HoldsGrant, Grant
  <2>4. ASSUME NEW x \in answers' PROVE x \in answers /\ (x.device = d => InTime(x)')
    <3>1. x \in answers /\ (x.device = d => Awaits(d, x.op)')
      BY <2>1 DEF GoesOn, StillAwaited
    <3>2. x.device = d => x.op = "dispatch"
      BY <1>1, <1>3, <3>1, WaitsAre DEF Awaits
    <3> QED
      BY <3>1, <3>2 DEF InTime, Leasing
  <2>5. \A r \in net' : (r \in net /\ r.device # d) \/ (r.device = d /\ StopsFirst(r)')
    BY <1>1, <1>3, <2>1, GoesOnStops
  <2> QED
    BY <2>1, <2>3, <2>4, <2>5, GrantedDevice
<1> QED
  BY <1>2, <1>3

LEMMA RenewSentGranted ==
  ASSUME Basics, Granted, NEW d \in Devices, RenewSent(d)
  PROVE  Granted'
<1>1. /\ GoesOn(d) /\ worker'[d].pc = worker[d].pc
      /\ worker'[d].open = worker[d].open /\ worker'[d].deadline = worker[d].deadline
      /\ worker'[d].sent = worker[d].sent /\ ~worker[d].renewing /\ worker[d].open
      /\ Asks(d, {"renew"})
  BY RenewSentMoves DEF RenewSent, Current
<1>2. /\ UNCHANGED kernelVars /\ UNCHANGED <<task, episode, clock>>
      /\ worker'[d].episode = worker[d].episode
      /\ \A x \in Devices \ {d} : worker'[x] = worker[x]
  BY <1>1 DEF GoesOn, Stays, kernelVars
<1>3. HoldsGrant(d)'
  BY <1>1, <1>2 DEF Granted, HoldsGrant, Working, Current, Grant
<1>4. ASSUME NEW a \in answers' PROVE a \in answers /\ (a.device = d => InTime(a)')
  <2>1. a \in answers /\ InTime(a) /\ Awaits(a.device, a.op)
    BY <1>1, AnswersAwaited DEF GoesOn, StillAwaited, Granted
  <2>2. a.device = d => a.op # "renew"
    BY <1>1, <2>1, AwaitsWhat
  <2> QED
    BY <1>1, <1>2, <2>1, <2>2 DEF InTime, Since, Subject, Grant
<1>5. ASSUME NEW r \in net'
      PROVE  (r \in net /\ r.device # d) \/ (r.device = d /\ StopsFirst(r)')
  <2>1. CASE r \in net
    BY <1>1, <1>2, <2>1 DEF Granted, StopsFirst
  <2>2. CASE r \notin net
    BY <1>1, <2>2 DEF Asks, StopsFirst, Ending
  <2> QED
    BY <2>1, <2>2
<1> QED
  BY <1>2, <1>3, <1>4, <1>5, GrantedDevice

LEMMA RenewAnsweredGranted ==
  ASSUME Basics, Granted, NEW d \in Devices, RenewAnswered(d)
  PROVE  Granted'
<1>1. /\ GoesOn(d) /\ worker'[d].pc = worker[d].pc /\ net' = net
      /\ worker'[d].sent = worker[d].sent /\ ~worker'[d].renewing
      /\ worker'[d].open =>
           /\ worker[d].open
           /\ \E a \in answers :
                /\ a.device = d /\ a.op = "renew" /\ a.ok
                /\ worker'[d].deadline = worker[d].asked + a.window
                /\ clock < worker[d].asked + a.window /\ clock < worker[d].deadline
  BY RenewAnsweredMoves
<1>2. /\ UNCHANGED kernelVars /\ UNCHANGED <<task, episode, clock>>
      /\ worker'[d].episode = worker[d].episode
      /\ \A x \in Devices \ {d} : worker'[x] = worker[x]
  BY <1>1 DEF GoesOn, Stays, kernelVars
<1>3. worker[d].pc \in Renews
  <2>1. Awaits(d, "renew")
    BY AnswersAwaited DEF RenewAnswered, Failing, Answered
  <2>2. worker[d].renewing
    BY <2>1, AwaitsWhat
  <2> QED
    BY <2>2 DEF Basics, Bearings, AtBearings
<1>4. HoldsGrant(d)'
  <2>1. worker'[d].pc # "starting"
    BY <1>1, <1>3 DEF Renews
  <2>2. ASSUME Working(d)' PROVE Grant(worker[d].episode, worker'[d].deadline)
    <3>1. worker'[d].open /\ worker[d].pc \notin Closing
      BY <1>1, <2>2 DEF Working, Current, Closing
    <3>2. PICK a \in answers :
            /\ a.device = d /\ a.op = "renew" /\ a.ok
            /\ worker'[d].deadline = worker[d].asked + a.window
            /\ clock < worker[d].asked + a.window
      BY <1>1, <3>1
    <3> QED
      BY <3>1, <3>2 DEF Granted, InTime, Since, Subject, Leasing
  <2> QED
    BY <1>1, <1>2, <2>1, <2>2 DEF HoldsGrant, Grant
<1>5. ASSUME NEW a \in answers' PROVE a \in answers /\ (a.device = d => InTime(a)')
  <2>1. a \in answers /\ (a.device = d => Awaits(d, a.op)')
    BY <1>1 DEF GoesOn, StillAwaited
  <2>2. a.device = d => a.op \notin Leasing
    BY <1>1, <1>3, <2>1, WaitsAre DEF Awaits, Renews, Leasing, Asking
  <2> QED
    BY <2>1, <2>2 DEF InTime
<1>6. ASSUME NEW r \in net'
      PROVE  (r \in net /\ r.device # d) \/ (r.device = d /\ StopsFirst(r)')
  BY <1>1, <1>2 DEF Granted, StopsFirst
<1> QED
  BY <1>2, <1>4, <1>5, <1>6, GrantedDevice

LEMMA DeviceGranted ==
  ASSUME Basics, Granted, NEW d \in Devices, Device(d)
  PROVE  Granted'
<1>1. CASE Quits(d)
  BY <1>1, GrantedQuits
<1>2. CASE Run(d) \/ \E c \in Challenges : Fetch(d, c)
  <2>1. Begins(d) /\ worker'[d].pc \in Unleased \cup {"reconciling"}
    BY <1>2, RunBegins, FetchBegins DEF Unleased
  <2> QED
    BY <2>1, GrantedBegins
<1>3. CASE GotLease(d)
  BY <1>1, <1>3, GotLeaseMoves, GrantedTakes
<1>4. CASE Started(d)
  BY <1>4, StartedGranted
<1>5. CASE RenewSent(d) \/ RenewAnswered(d)
  BY <1>5, RenewSentGranted, RenewAnsweredGranted
<1>6. CASE \/ Dispatch(d) \/ Permitted(d) \/ Begin(d) \/ Observed(d) \/ Complete(d) \/ GivesBack(d)
           \/ Report(d) \/ (Observe(d) /\ Current(d))
  <2>1. GoesOn(d) /\ Keeps(d) /\ worker'[d].pc # "starting"
    BY <1>6, DispatchMoves, PermittedMoves, BeginMoves, ObservedMoves, CompleteMoves, GivesBackMoves,
       ReportMoves, ObserveMoves
  <2>2. worker[d].pc \notin Closing
    BY <1>6, PermittedMoves, ObservedMoves, GivesBackMoves
       DEF Dispatch, Begin, Complete, Report, Observe, At, Closing
  <2> QED
    BY <2>1, <2>2, GrantedKeeps
<1>7. CASE Observe(d) /\ ~Current(d)
  BY <1>1, <1>7, ObserveLate
<1>8. CASE \/ NoLease(d) \/ PrepareFails(d) \/ Completed(d) \/ GivenBack(d) \/ Unproven(d)
           \/ Reported(d) \/ ReportFails(d)
  BY <1>1, <1>8, SilentQuits, PrepareFailsQuits, UnprovenQuits
<1> QED
  BY <1>2, <1>3, <1>4, <1>5, <1>6, <1>7, <1>8 DEF Device

LEMMA GrantedStep ==
  ASSUME Basics, Once, Granted, [Next]_vars
  PROVE  Granted'
<1>1. CASE UNCHANGED vars
  <2>1. KernelKept /\ UNCHANGED worker /\ clock' >= clock /\ net' \subseteq net /\ answers' = answers
    BY <1>1, KernelUnchanged DEF vars, wireVars, deviceVars, kernelVars, Basics, Inv, TypeOK
  <2>2. GrantsStay({})
    BY <1>1, SameRowsStay DEF vars, kernelVars
  <2> QED
    BY <2>1, <2>2, GrantedRows
<1>2. CASE \E r \in net : Handle(r)
  BY <1>2, HandleGranted
<1>3. CASE \E p \in Episodes : NativeEnds(p)
  <2>1. KernelKept /\ UNCHANGED worker /\ clock' >= clock /\ net' \subseteq net /\ answers' = answers
    BY <1>3, KernelUnchanged DEF NativeEnds, wireVars, kernelVars, Basics, Inv, TypeOK
  <2>2. GrantsStay({})
    BY <1>3, SameRowsStay DEF NativeEnds, kernelVars
  <2> QED
    BY <2>1, <2>2, GrantedRows
<1>4. CASE \E d \in Devices : Device(d)
  BY <1>4, DeviceGranted
<1>5. CASE \E d \in Devices : Crash(d)
  BY <1>5, SilentQuits, GrantedQuits
<1> QED
  BY <1>1, <1>2, <1>3, <1>4, <1>5, OthersGranted DEF Next, Operator

LEMMA GrantedHolds == Spec => [](Basics /\ Once /\ Granted)
<1>1. Init => Basics /\ Once /\ Granted
  BY KnownInit, GrantedInit
<1>2. Basics /\ Once /\ Granted /\ [Next]_vars => (Basics /\ Once /\ Granted)'
  BY KnownStep, GrantedStep
<1> QED
  BY <1>1, <1>2, PTL DEF Spec

(* While the lease authority of a device says that it may go on, the           *)
(* coordinator has given the task to no other one, whatever requests and        *)
(* answers are late and whoever renews, cancels, recovers or claims.            *)
THEOREM OneDeviceActs == Spec => []SoleAuthority
<1>1. Basics /\ Granted => SoleAuthority
  <2> SUFFICES ASSUME Basics, Granted, NEW d1 \in Devices, NEW d2 \in Devices, Working(d1), Working(d2)
               PROVE  d1 = d2
    BY DEF SoleAuthority
  <2> DEFINE p == worker[d1].episode
             q == worker[d2].episode
  <2>1. Grant(p, worker[d1].deadline) /\ Grant(q, worker[d2].deadline)
    BY DEF Granted, HoldsGrant
  <2>2. Theirs(p, d1) /\ Theirs(q, d2)
    BY <2>1, EpisodesAre DEF Basics, Bearings, AtBearings, Grant
  <2>3. p = q
    <3>1. CASE episode[p].state = "cancelled" /\ episode[q].state = "cancelled"
      BY <2>1, <3>1 DEF Granted, OneCancelled, Grant
    <3>2. CASE task.active = p \/ task.active = q
      BY <2>1, <3>2, ActiveFields DEF Grant, Basics, Inv, Accounted, CancelledTogether, Terminal
    <3> QED
      BY <2>1, <3>1, <3>2 DEF Grant
  <2> QED
    BY <2>2, <2>3 DEF Theirs
<1> QED
  BY <1>1, GrantedHolds, PTL

-----------------------------------------------------------------------------
(* Truth: how the journal of a prepared device, the requests and answers on    *)
(* their way and the rows of the coordinator relate.                           *)

TrueRecord(p) ==
  /\ journal[p].phase = "released" => episode[p].state = "released" /\ native[p] = "none"
  /\ journal[p].phase = "completed" => effect[p].state = "confirmed"
  /\ effect[p].manifest =>
       effect[p].state # "none" /\ episode[p].device \in Prepared /\ journal[p].phase # "none"
  /\ native[p] # "none" /\ episode[p].device \in Prepared =>
       journal[p].phase \notin {"none", "dispatching", "released"}
  /\ effect[p].manifest /\ effect[p].state = "confirmed" =>
       /\ journal[p].observed /\ journal[p].result = native[p]
       /\ native[p] = episode[p].state

\* What the device has on disk at every point of its run.
OnDisk(d) ==
  /\ worker[d].pc = "starting" => d \notin Prepared
  /\ d \in Prepared /\ worker[d].pc = "permitted" => journal[worker[d].episode].phase = "dispatched"
  /\ d \in Prepared /\ worker[d].pc \in After => journal[worker[d].episode].observed

\* ... and behind every request it sent.
Backs(r) ==
  r.device \in Prepared =>
    /\ r.op = "dispatch" => journal[r.episode].phase # "none"
    /\ r.op \in {"complete", "report"} =>
         journal[r.episode].observed /\ journal[r.episode].result = native[r.episode]

\* What a good answer says is so, and remains so.
Confirms(a) ==
  a.ok => /\ a.op = "release" => episode[worker[a.device].episode].state = "released"
          /\ a.op \in {"complete", "report"} => effect[worker[a.device].episode].state = "confirmed"

Accepted(c) == challenge[c].state = "accepted" => effect[challenge[c].episode].state = "confirmed"

Truth ==
  /\ \A p \in Episodes : TrueRecord(p)
  /\ \A d \in Devices : OnDisk(d)
  /\ \A r \in net : Backs(r)
  /\ \A a \in answers : Confirms(a)
  /\ \A c \in Challenges : Accepted(c)

LEMMA TruthInit == Init => Truth
BY EpisodesAre, IdleFields DEF Init, KernelInit, Truth, TrueRecord, NoRecord, OnDisk, Idle, After,
   NoEffect, Accepted, NoChallenge

\* What a dispatch records and an outcome confirms has its proof on the device.
HasProof(p) ==
  /\ effect'[p].manifest /\ ~effect[p].manifest =>
       /\ effect'[p].state # "none" /\ episode[p].state # "none"
       /\ episode[p].device \in Prepared /\ journal[p].phase # "none"
  /\ effect'[p].manifest /\ effect'[p].state = "confirmed" /\ effect[p].state # "confirmed" =>
       journal[p].observed /\ journal[p].result = native[p] /\ native[p] = episode'[p].state

LEMMA TruthRows ==
  ASSUME Basics, Once, Truth, RowsGrow, UNCHANGED deviceVars, net' \subseteq net,
         \A p \in Episodes : HasProof(p),
         \A c \in Challenges : Accepted(c)',
         \A a \in answers' : a \in answers \/ Confirms(a)'
  PROVE  Truth'
<1>1. UNCHANGED <<worker, journal, native>>
  BY DEF deviceVars
<1>2. ASSUME NEW p \in Episodes PROVE TrueRecord(p)'
  <2>1. /\ TrueRecord(p) /\ BegunOnce(p) /\ Noted(p) /\ HasProof(p)
        /\ effect[p].state # "none" => episode[p].state # "none"
    BY OwnEffect, EpisodesAre DEF Truth, Once, Basics, Inv, Accounted, UntouchedHasNone, Untouched
  <2>2. /\ episode[p].state # "none" =>
             episode'[p].state # "none" /\ episode'[p].device = episode[p].device
        /\ episode[p].state \in Settled => episode'[p].state = episode[p].state
        /\ effect[p].state # "none" =>
             effect'[p].state # "none" /\ effect'[p].manifest = effect[p].manifest
        /\ effect[p].state = "confirmed" => effect'[p].state = "confirmed"
    BY DEF RowsGrow
  <2>3. journal'[p] = journal[p] /\ native'[p] = native[p]
    BY <1>1
  <2>4. journal'[p].phase = "released" => episode'[p].state = "released" /\ native'[p] = "none"
    BY <2>1, <2>2, <2>3 DEF TrueRecord, Settled
  <2>5. journal'[p].phase = "completed" => effect'[p].state = "confirmed"
    BY <2>1, <2>2, <2>3 DEF TrueRecord
  <2>6. /\ native'[p] # "none" => episode'[p].device = episode[p].device
        /\ effect[p].manifest => episode'[p].device = episode[p].device /\ effect'[p].manifest
    BY <2>1, <2>2, <2>3 DEF BegunOnce, TrueRecord
  <2>7. native'[p] # "none" /\ episode'[p].device \in Prepared =>
          journal'[p].phase \notin {"none", "dispatching", "released"}
    BY <2>1, <2>3, <2>6 DEF TrueRecord
  <2>8. ASSUME effect'[p].manifest
        PROVE  /\ effect'[p].state # "none" /\ episode'[p].device \in Prepared
               /\ journal'[p].phase # "none"
    <3>1. CASE effect[p].manifest
      BY <2>1, <2>2, <2>3, <2>6, <3>1 DEF TrueRecord
    <3>2. CASE ~effect[p].manifest
      <4>1. /\ effect'[p].state # "none" /\ episode[p].device \in Prepared /\ journal[p].phase # "none"
            /\ episode[p].state # "none"
        BY <2>1, <2>8, <3>2 DEF HasProof
      <4> QED
        BY <2>2, <2>3, <4>1
    <3> QED
      BY <3>1, <3>2
  <2>9. ASSUME effect'[p].manifest, effect'[p].state = "confirmed"
        PROVE  /\ journal'[p].observed /\ journal'[p].result = native'[p]
               /\ native'[p] = episode'[p].state
    <3>1. CASE effect[p].state = "confirmed"
      <4>1. effect[p].manifest
        BY <2>2, <2>9, <3>1
      <4>2. journal[p].observed /\ journal[p].result = native[p] /\ native[p] = episode[p].state
        BY <2>1, <3>1, <4>1 DEF TrueRecord
      <4>3. episode[p].state \in Settled
        BY <2>1, <4>2 DEF Noted, Outcomes, Settled
      <4> QED
        BY <2>2, <2>3, <4>2, <4>3
    <3>2. CASE effect[p].state # "confirmed"
      BY <2>1, <2>3, <2>9, <3>2 DEF HasProof
    <3> QED
      BY <3>1, <3>2
  <2> QED
    BY <2>4, <2>5, <2>7, <2>8, <2>9 DEF TrueRecord
<1>3. ASSUME NEW d \in Devices PROVE OnDisk(d)'
  BY <1>1 DEF Truth, OnDisk
<1>4. ASSUME NEW r \in net' PROVE Backs(r)'
  BY <1>1 DEF Truth, Backs
<1>5. ASSUME NEW a \in answers' PROVE Confirms(a)'
  <2>1. CASE a \in answers
    <3>1. Confirms(a) /\ (a.op \in {"release", "complete", "report"} => worker[a.device].episode \in Episodes)
      <4>1. Awaits(a.device, a.op) /\ a.device \in Devices
        BY <2>1, AnswersAwaited
      <4> QED
        BY <2>1, <4>1, ReadHasEpisode DEF Truth
    <3> QED
      BY <1>1, <3>1 DEF Confirms, RowsGrow, Settled
  <2> QED
    BY <2>1
<1> QED
  BY <1>2, <1>3, <1>4, <1>5 DEF Truth

\* A manifest is recorded by the dispatch of a prepared device, and an outcome by
\* its completion or report.
RecordsBy(r, p) ==
  /\ effect'[p].manifest /\ ~effect[p].manifest =>
       r.op = "dispatch" /\ p = r.episode /\ r.device \in Prepared /\ effect'[p].state # "none"
  /\ effect'[p].state = "confirmed" /\ effect[p].state # "confirmed" =>
       /\ r.op \in {"complete", "report"} /\ p = r.episode
       /\ episode'[p].state = r.result

LEMMA HandleRecords ==
  ASSUME Basics, NEW r \in net, Handle(r), NEW p \in Episodes
  PROVE  RecordsBy(r, p)
<1>0. /\ episode \in [Episodes -> Episode] /\ effect \in [Episodes -> Effect]
      /\ effect[p] \in Effect /\ episode[p] \in Episode
  BY EpisodesAre DEF Basics, Inv, TypeOK
<1>1. CASE UNCHANGED effect
  BY <1>1 DEF RecordsBy
<1>2. CASE HandleClaim(r) \/ HandleStart(r) \/ HandleRenew(r) \/ HandleRelease(r)
  BY <1>1, <1>2 DEF HandleClaim, Claim, HandleStart, Start, HandleRenew, HandleRelease,
     ReleaseUnstarted, Refuse
<1>3. CASE HandleDispatch(r)
  <2>1. CASE effect' = [effect EXCEPT ![r.episode] = Dispatched(r.episode, r.device \in Prepared)]
    <3>1. p # r.episode => effect'[p] = effect[p]
      BY <1>0, <2>1
    <3>2. p = r.episode => effect'[p] = Dispatched(r.episode, r.device \in Prepared)
      BY <1>0, <2>1
    <3>3. /\ Dispatched(r.episode, r.device \in Prepared).state = "dispatched"
          /\ Dispatched(r.episode, r.device \in Prepared).manifest = (r.device \in Prepared)
      BY DEF Dispatched
    <3>4. r.op = "dispatch"
      BY <1>3 DEF HandleDispatch
    <3>5. CASE p = r.episode
      <4>1. effect'[p].state = "dispatched" /\ effect'[p].manifest = (r.device \in Prepared)
        BY <3>2, <3>3, <3>5
      <4>2. effect'[p].manifest => r.device \in Prepared
        BY <4>1
      <4> QED
        BY <3>4, <3>5, <4>1, <4>2 DEF RecordsBy
    <3> QED
      BY <3>1, <3>5 DEF RecordsBy
  <2> QED
    BY <1>1, <1>3, <2>1 DEF HandleDispatch, Refuse
<1>4. CASE HandleObserve(r)
  <2>1. CASE effect' = [effect EXCEPT ![r.episode].observed = TRUE]
    <3>1. effect'[p].manifest = effect[p].manifest /\ effect'[p].state = effect[p].state
      BY <1>0, <2>1 DEF Effect
    <3> QED
      BY <3>1 DEF RecordsBy
  <2> QED
    BY <1>1, <1>4, <2>1 DEF HandleObserve, RecordEffectObservation, Refuse
<1>5. CASE HandleUnknown(r)
  <2>1. CASE effect' = Lost(r.episode)
    <3>1. r.episode \in Episodes
      BY <1>5, HeldFields DEF HandleUnknown
    <3>2. effect'[p].manifest = effect[p].manifest
          /\ effect'[p].state \in {effect[p].state, "unknown"}
      BY <2>1, <3>1, LostFields DEF Basics
    <3> QED
      BY <3>2 DEF RecordsBy
  <2> QED
    BY <1>1, <1>5, <2>1 DEF HandleUnknown, MarkUnknown, Refuse
<1>6. CASE HandleComplete(r)
  <2>1. CASE effect' = [effect EXCEPT ![r.episode].state = "confirmed"] /\ episode' = Ended(r.episode, r.result)
    <3>1. /\ effect'[p].manifest = effect[p].manifest
          /\ p # r.episode => effect'[p].state = effect[p].state
          /\ p = r.episode => episode'[p].state = r.result
      BY <1>0, <2>1 DEF Effect, Ended, Episode
    <3> QED
      BY <1>6, <3>1 DEF RecordsBy, HandleComplete
  <2> QED
    BY <1>1, <1>6, <2>1 DEF HandleComplete, Refuse
<1>7. CASE HandleReport(r)
  <2> DEFINE e == challenge[r.challenge].episode
  <2>1. e = r.episode /\ r.op = "report"
    BY <1>7, ReportFields DEF HandleReport
  <2>2. CASE /\ effect' = [effect EXCEPT ![e] = [@ EXCEPT !.observed = TRUE, !.state = "confirmed"]]
             /\ episode' = [episode EXCEPT ![e] = [@ EXCEPT !.state = r.result, !.until = 0]]
    <3> HIDE DEF e
    <3>1. /\ effect'[p].manifest = effect[p].manifest
          /\ p # e => effect'[p].state = effect[p].state
      BY <1>0, <2>2 DEF Effect
    <3>2. p = e => episode'[p].state = r.result
      BY <1>0, <2>2 DEF Episode
    <3> QED
      BY <2>1, <3>1, <3>2 DEF RecordsBy
  <2> QED
    BY <1>1, <1>7, <2>2 DEF HandleReport, Refuse
<1> QED
  BY <1>2, <1>3, <1>4, <1>5, <1>6, <1>7 DEF Handle

LEMMA HandleTruth ==
  ASSUME Basics, Once, Truth, NEW r \in net, Handle(r)
  PROVE  Truth'
<1>1. RowsGrow
  BY HandleKept DEF Once, TrueResult, Backed, KernelKept
<1>2. UNCHANGED deviceVars /\ net' \subseteq net
  BY DEF Handle, Handled
<1>3. ASSUME NEW p \in Episodes PROVE HasProof(p)
  <2>1. RecordsBy(r, p) /\ TrueRecord(p) /\ Backs(r) /\ TrueResult(r)
    BY HandleRecords DEF Truth, Once
  <2>2. effect[p].state # "none" => effect'[p].manifest = effect[p].manifest
    BY <1>1 DEF RowsGrow
  <2>3. r.op # "claim" /\ p = r.episode => episode[p].state # "none" /\ episode[p].device = r.device
    BY HeldFields, EpisodesAre DEF Basics, Bearings, Sent, Theirs
  <2>4. ASSUME effect'[p].manifest, ~effect[p].manifest
        PROVE  /\ effect'[p].state # "none" /\ episode[p].state # "none"
               /\ episode[p].device \in Prepared /\ journal[p].phase # "none"
    <3>1. r.op = "dispatch" /\ p = r.episode /\ r.device \in Prepared /\ effect'[p].state # "none"
      BY <2>1, <2>4 DEF RecordsBy
    <3> QED
      BY <2>1, <2>3, <3>1 DEF Backs
  <2>5. ASSUME effect'[p].manifest, effect'[p].state = "confirmed", effect[p].state # "confirmed"
        PROVE  journal[p].observed /\ journal[p].result = native[p] /\ native[p] = episode'[p].state
    <3>1. r.op \in {"complete", "report"} /\ p = r.episode /\ episode'[p].state = r.result
      BY <2>1, <2>5 DEF RecordsBy
    <3>2. effect[p].manifest
      BY <2>1, <2>5, <3>1 DEF RecordsBy
    <3>3. r.device \in Prepared
      BY <2>1, <2>3, <3>1, <3>2 DEF TrueRecord
    <3> QED
      BY <2>1, <3>1, <3>3 DEF Backs, TrueResult
  <2> QED
    BY <2>4, <2>5 DEF HasProof
<1>4. ASSUME NEW c \in Challenges PROVE Accepted(c)'
  <2>1. /\ Accepted(c) /\ AboutEpisode(c)
        /\ challenge'[c].episode = challenge[c].episode
        /\ challenge'[c].state = "accepted" =>
             \/ challenge[c].state = "accepted"
             \/ effect'[challenge[c].episode].state = "confirmed"
    BY HandleQuestions DEF Truth, Basics, Bearings
  <2> QED
    BY <1>1, <2>1 DEF Accepted, AboutEpisode, RowsGrow
<1>5. ASSUME NEW a \in answers' PROVE a \in answers \/ Confirms(a)'
  <2>1. CASE GrantSent(r)
    <3>1. PICK p \in Numbers, window \in Nat : Adds(r, TRUE, p, window) /\ Granting(r, p, window)
      BY <2>1 DEF GrantSent
    <3>2. ASSUME a \notin answers PROVE Confirms(a)'
      <4>1. Awaited(r) /\ a.op = r.op /\ a.device = r.device
        BY <3>1, <3>2 DEF Adds
      <4>2. a.op # "claim" => worker'[a.device].episode = p
        BY <1>2, <3>1, <4>1, AwaitedEpisode DEF Granting, deviceVars
      <4>3. r.op = "report" => effect'[p].state = "confirmed"
        <5>1. ASSUME r.op = "report" PROVE effect'[p].state = "confirmed"
          <6>1. /\ r.challenge \in Challenges /\ challenge[r.challenge].episode = p
                /\ Accepted(r.challenge)
            BY <3>1, <5>1, ReportFields DEF Granting, Truth
          <6> QED
            BY <3>1, <5>1, <6>1 DEF Granting, Accepted
        <5> QED
          BY <5>1
      <4> QED
        BY <3>1, <4>1, <4>2, <4>3 DEF Confirms, Granting
    <3> QED
      BY <3>2
  <2>2. CASE RefusalSent(r)
    BY <2>2 DEF RefusalSent, Adds, Confirms
  <2>3. CASE answers' = answers
    BY <2>3
  <2> QED
    BY <2>1, <2>2, <2>3, HandleAnswers
<1> QED
  BY <1>1, <1>2, <1>3, <1>4, <1>5, TruthRows

\* The operator, the service and time confirm nothing.
LEMMA OthersTruth ==
  ASSUME Basics, Once, Truth,
         \/ Tick \/ Recover \/ CancelTask \/ ResumeTask \/ Assign
         \/ \E d \in Devices : Revoke(d)
         \/ \E d \in Prepared, c \in Challenges : RequestReconciliation(c, d)
  PROVE  Truth'
<1>1. KernelKept /\ UNCHANGED <<deviceVars, wireVars>>
  BY OthersKept, RequestFields, KernelUnchanged
<1>2. \A p \in Episodes :
        /\ effect'[p].manifest = effect[p].manifest
        /\ effect'[p].state \in {effect[p].state, "unknown"}
  <2>1. CASE UNCHANGED effect
    BY <2>1
  <2>2. CASE Recover
    <3>1. task.active \in Episodes /\ (effect' = effect \/ effect' = Lost(task.active))
      BY <2>2, ActiveIsEpisode DEF Recover, RecoverExpired, Basics
    <3> QED
      BY <2>1, <3>1, LostFields DEF Basics
  <2>3. CASE CancelTask
    BY <2>3, CancelKept DEF CancelTask
  <2> QED
    BY <2>1, <2>2, <2>3, RequestFields DEF Tick, ResumeTask, Resume, Assign, Revoke, kernelVars
<1>3. \A p \in Episodes : HasProof(p)
  BY <1>2 DEF HasProof
<1>4. ASSUME NEW c \in Challenges PROVE Accepted(c)'
  <2>1. /\ challenge'[c].state = "accepted" => challenge'[c] = challenge[c]
    <3>1. CASE \E d \in Prepared, x \in Challenges : RequestReconciliation(x, d)
      <4>1. PICK d \in Prepared, x \in Challenges : RequestReconciliation(x, d)
        BY <3>1
      <4>2. challenge'[x].state = "pending" /\ \A y \in Challenges \ {x} : challenge'[y] = challenge[y]
        BY <4>1, RequestFields
      <4> QED
        BY <4>2
    <3>2. CASE UNCHANGED challenge
      BY <3>2
    <3> QED
      BY <3>1, <3>2, OthersKept
  <2>2. Accepted(c) /\ AboutEpisode(c)
    BY DEF Truth, Basics, Bearings
  <2> QED
    BY <1>1, <2>1, <2>2 DEF Accepted, AboutEpisode, KernelKept, RowsGrow
<1> QED
  BY <1>1, <1>3, <1>4, TruthRows DEF KernelKept, wireVars

\* The journals in a step of d: only of its own episodes, and what was proven stays so.
JournalGrows(d, q) ==
  /\ ~Theirs(q, d) => journal'[q] = journal[q]
  /\ journal[q].phase # "none" => journal'[q].phase # "none"
  /\ journal[q].observed => journal'[q].observed
  /\ journal[q].observed /\ journal[q].result = native[q] => journal'[q].result = native[q]
  /\ journal'[q].phase = "released" =>
       \/ journal[q].phase = "released"
       \/ episode[q].state = "released" /\ native[q] = "none"
  /\ journal'[q].phase = "completed" => journal[q].phase = "completed" \/ effect[q].state = "confirmed"
  /\ journal'[q].phase \in {"none", "dispatching", "released"} =>
       journal'[q].phase = journal[q].phase \/ native[q] = "none"

LEMMA WritesGrow ==
  ASSUME NEW d \in Devices, NEW q \in Episodes, NEW p \in Episodes, Theirs(p, d),
         NEW phases, Writes(p, phases), "none" \notin phases,
         "released" \in phases => episode[p].state = "released" /\ native[p] = "none",
         "dispatching" \in phases => native[p] = "none",
         "completed" \in phases => effect[p].state = "confirmed"
  PROVE  JournalGrows(d, q)
<1>1. CASE q = p
  BY <1>1 DEF Writes, JournalGrows
<1>2. CASE q # p
  BY <1>2 DEF Writes, JournalGrows
<1> QED
  BY <1>1, <1>2

LEMMA DeviceJournals ==
  ASSUME Basics, Once, Truth, NEW d \in Devices, Device(d), NEW q \in Episodes
  PROVE  JournalGrows(d, q)
<1> DEFINE p == worker[d].episode
<1>0. AtOperation(d) /\ (p \in Episodes => Theirs(p, d))
  BY EpisodesAre DEF Once, Basics, Bearings, AtBearings
<1>1. CASE journal' = journal
  BY <1>1 DEF JournalGrows
<1>2. CASE Dispatch(d)
  <2>1. p \in Episodes /\ Writes(p, {"dispatching"}) /\ native[p] = "none"
    BY <1>0, <1>2, DispatchWrites DEF Dispatch, At, AtOperation, Before
  <2> QED
    BY <1>0, <2>1, WritesGrow
<1>3. CASE Permitted(d) \/ GivesBack(d) \/ Unproven(d)
  <2>1. /\ p \in Episodes
        /\ journal' = journal \/ Writes(p, {"dispatched"}) \/ Writes(p, {"unknown"})
    BY <1>3, PermittedWrites, GivesBackWrites, UnprovenWrites
  <2> QED
    BY <1>0, <1>1, <2>1, WritesGrow
<1>4. CASE Completed(d) \/ Reported(d)
  <2>1. /\ p \in Episodes
        /\ journal' = journal \/ Writes(p, {"completed"})
        /\ \E op \in {"complete", "report"} : Read(d, op, TRUE)
    BY <1>4, CompletedWrites, ReportedWrites
  <2>2. PICK a \in answers : a.device = d /\ a.op \in {"complete", "report"} /\ a.ok
    <3>1. CASE Read(d, "complete", TRUE)
      BY <3>1, ReadGood
    <3>2. CASE Read(d, "report", TRUE)
      BY <3>2, ReadGood
    <3> QED
      BY <2>1, <3>1, <3>2
  <2>3. effect[p].state = "confirmed"
    BY <2>2 DEF Truth, Confirms
  <2> QED
    BY <1>0, <1>1, <2>1, <2>3, WritesGrow
<1>5. CASE GivenBack(d)
  <2>1. /\ p \in Episodes /\ Writes(p, {"released"}) /\ worker[d].pc = "releasing"
        /\ Read(d, "release", TRUE)
    BY <1>5, GivenBackWrites
  <2>2. PICK a \in answers : a.device = d /\ a.op = "release" /\ a.ok
    BY <2>1, ReadGood
  <2>3. episode[p].state = "released"
    BY <2>2 DEF Truth, Confirms
  <2>4. native[p] = "none"
    BY <1>0, <2>1 DEF AtOperation, Before
  <2> QED
    BY <1>0, <2>1, <2>3, <2>4, WritesGrow
<1>6. CASE Observe(d)
  <2>1. p \in Episodes /\ (q # p => journal'[q] = journal[q])
    BY <1>6, ObserveWrites
  <2>2. CASE q = p /\ d \in Prepared
    <3>1. /\ journal'[p].phase \in {"observed", "unknown"} /\ journal'[p].observed
          /\ journal'[p].result = journal[p].result
      BY <1>6, <2>2, ObserveWrites
    <3> QED
      BY <1>0, <2>1, <2>2, <3>1 DEF JournalGrows
  <2> QED
    BY <1>1, <1>6, <2>1, <2>2, ObserveWrites DEF JournalGrows
<1>7. CASE Complete(d)
  <2>1. p \in Episodes /\ (q # p => journal'[q] = journal[q])
    BY <1>7, CompleteWrites
  <2>2. CASE q = p /\ d \in Prepared
    <3>1. /\ journal'[p].phase = "verified" /\ journal'[p].observed = journal[p].observed
          /\ journal'[p].result = native[p]
      BY <1>7, <2>2, CompleteWrites
    <3> QED
      BY <1>0, <2>1, <2>2, <3>1 DEF JournalGrows
  <2> QED
    BY <1>1, <1>7, <2>1, <2>2, CompleteWrites DEF JournalGrows
<1>8. CASE Report(d)
  <2>1. /\ p \in Episodes /\ (q # p => journal'[q] = journal[q])
        /\ journal[p].observed /\ journal'[p].phase = journal[p].phase
        /\ journal'[p].observed = journal[p].observed /\ journal'[p].result = native[p]
    BY <1>8, ReportWrites
  <2> QED
    BY <1>0, <2>1 DEF JournalGrows
<1>9. CASE \E c \in Challenges : Fetch(d, c)
  <2>1. PICK c \in Challenges : Fetch(d, c)
    BY <1>9
  <2>2. CASE challenge[c].state = "accepted" /\ Writes(challenge[c].episode, {"completed"})
    <3>1. challenge[c].episode \in Episodes /\ effect[challenge[c].episode].state = "confirmed"
      BY <2>1, <2>2, FetchWrites DEF Truth, Accepted
    <3>2. Theirs(challenge[c].episode, d)
      <4>1. episode[challenge[c].episode].device = d
        BY <2>1 DEF Fetch
      <4>2. episode[challenge[c].episode].state # "none"
        BY <3>1, OwnEffect, EpisodesAre DEF Basics, Inv, Accounted, UntouchedHasNone, Untouched
      <4> QED
        BY <3>1, <4>1, <4>2 DEF Theirs
    <3> QED
      BY <2>2, <3>1, <3>2, WritesGrow
  <2> QED
    BY <1>1, <2>1, <2>2, FetchWrites
<1> QED
  BY <1>1, <1>2, <1>3, <1>4, <1>5, <1>6, <1>7, <1>8, <1>9
     DEF Device, Run, GotLease, NoLease, Started, PrepareFails, Begin, Observed,
         RenewSent, RenewAnswered, ReportFails

\* The operation of q after a step of d: as it was, or begun with a journaled permit.
OperationGrows(q) ==
  \/ native'[q] = native[q]
  \/ /\ native[q] = "none" /\ journal'[q] = journal[q]
     /\ effect[q].state # "none"
     /\ episode[q].device \in Prepared => journal[q].phase = "dispatched"

LEMMA DeviceOperations ==
  ASSUME Basics, Once, Truth, NEW d \in Devices, Device(d), NEW q \in Episodes
  PROVE  OperationGrows(q)
<1>1. CASE UNCHANGED native
  BY <1>1 DEF OperationGrows
<1>2. CASE Begin(d)
  <2>1. /\ worker[d].episode \in Episodes /\ worker[d].pc = "permitted"
        /\ q # worker[d].episode => native'[q] = native[q]
        /\ UNCHANGED journal
    BY <1>2, BeginWrites DEF Begin, At
  <2>2. native[worker[d].episode] = "none" /\ effect[worker[d].episode].state # "none"
    BY <2>1 DEF Once, AtOperation, Before
  <2>3. d \in Prepared => journal[worker[d].episode].phase = "dispatched"
    BY <2>1 DEF Truth, OnDisk
  <2>4. episode[worker[d].episode].device = d
    BY <2>1, HasEpisode DEF Unleased, Theirs
  <2> QED
    BY <2>1, <2>2, <2>3, <2>4 DEF OperationGrows
<1> QED
  BY <1>1, <1>2, DeviceWrites

\* A step that leaves the rows alone, with its own run and requests in order.
LEMMA TruthDevice ==
  ASSUME Basics, Once, Truth, NEW d \in Devices, UNCHANGED <<kernelVars, challenge>>,
         \A x \in Devices \ {d} : worker'[x] = worker[x],
         \A q \in Episodes : JournalGrows(d, q) /\ OperationGrows(q),
         OnDisk(d)', \A m \in net' \ net : Backs(m)',
         \A a \in answers' : /\ a \in answers
                             /\ a.device = d => worker'[d].episode = worker[d].episode
  PROVE  Truth'
<1>1. UNCHANGED <<task, episode, effect, challenge>>
  BY DEF kernelVars
<1>2. ASSUME NEW q \in Episodes PROVE TrueRecord(q)'
  <2>1. TrueRecord(q) /\ BegunOnce(q) /\ Noted(q) /\ JournalGrows(d, q) /\ OperationGrows(q)
    BY DEF Truth, Once
  <2>2. effect[q].state # "none" => episode[q].state # "released"
    BY OwnEffect, EpisodesAre DEF Basics, Inv, Accounted, UntouchedHasNone, Untouched
  <2>3. /\ journal'[q].phase = "released" => episode[q].state = "released" /\ native[q] = "none"
        /\ native'[q] # "none" => effect[q].state # "none"
    BY <2>1 DEF TrueRecord, JournalGrows, OperationGrows, BegunOnce
  <2>4. journal'[q].phase = "released" => episode'[q].state = "released" /\ native'[q] = "none"
    BY <1>1, <2>2, <2>3
  <2>5. journal'[q].phase = "completed" => effect'[q].state = "confirmed"
    BY <1>1, <2>1 DEF TrueRecord, JournalGrows
  <2>6. effect'[q].manifest => /\ effect'[q].state # "none" /\ episode'[q].device \in Prepared
                               /\ journal'[q].phase # "none"
    BY <1>1, <2>1 DEF TrueRecord, JournalGrows
  <2>7. ASSUME native'[q] # "none", episode'[q].device \in Prepared
        PROVE  journal'[q].phase \notin {"none", "dispatching", "released"}
    <3>1. CASE native[q] # "none"
      BY <1>1, <2>1, <2>7, <3>1 DEF TrueRecord, JournalGrows
    <3>2. CASE native[q] = "none"
      BY <1>1, <2>1, <2>7, <3>2 DEF OperationGrows
    <3> QED
      BY <3>1, <3>2
  <2>8. ASSUME effect'[q].manifest, effect'[q].state = "confirmed"
        PROVE  /\ journal'[q].observed /\ journal'[q].result = native'[q]
               /\ native'[q] = episode'[q].state
    <3>1. journal[q].observed /\ journal[q].result = native[q] /\ native[q] = episode[q].state
      BY <1>1, <2>1, <2>8 DEF TrueRecord
    <3>2. native'[q] = native[q]
      BY <2>1, <3>1 DEF OperationGrows, Noted, Outcomes
    <3> QED
      BY <1>1, <2>1, <3>1, <3>2 DEF JournalGrows
  <2> QED
    BY <2>4, <2>5, <2>6, <2>7, <2>8 DEF TrueRecord
<1>3. ASSUME NEW x \in Devices PROVE OnDisk(x)'
  <2>1. CASE x # d
    <3>1. OnDisk(x) /\ worker'[x] = worker[x]
      BY <2>1 DEF Truth
    <3>2. worker[x].pc \in After \cup {"permitted"} => journal'[worker[x].episode] = journal[worker[x].episode]
      <4>1. ASSUME worker[x].pc \in After \cup {"permitted"}
            PROVE  worker[x].episode \in Episodes /\ ~Theirs(worker[x].episode, d)
        BY <2>1, <4>1, BeforeHasEpisode DEF Before, Theirs
      <4> QED
        BY <4>1 DEF JournalGrows
    <3> QED
      BY <3>1, <3>2 DEF OnDisk
  <2> QED
    BY <2>1
<1>4. ASSUME NEW r \in net' PROVE Backs(r)'
  <2>1. CASE r \in net
    <3>1. /\ Backs(r) /\ (r.op # "claim" => r.episode \in Episodes)
      BY <2>1, HeldFields DEF Truth
    <3>2. CASE r.op \in {"dispatch", "complete", "report"}
      <4>1. /\ r.episode \in Episodes /\ JournalGrows(d, r.episode) /\ OperationGrows(r.episode)
            /\ Noted(r.episode)
        BY <3>1, <3>2 DEF Once
      <4>2. journal[r.episode].observed => native'[r.episode] = native[r.episode]
        BY <4>1 DEF OperationGrows, Noted, Outcomes
      <4> QED
        BY <3>1, <4>1, <4>2 DEF Backs, JournalGrows
    <3> QED
      BY <3>2 DEF Backs
  <2> QED
    BY <2>1
<1>5. ASSUME NEW a \in answers' PROVE Confirms(a)'
  <2>1. a \in answers /\ a.device \in Devices /\ Confirms(a)
    BY AnswersAwaited DEF Truth
  <2>2. worker'[a.device].episode = worker[a.device].episode
    BY <2>1
  <2> QED
    BY <1>1, <2>1, <2>2 DEF Confirms
<1>6. \A c \in Challenges : Accepted(c)'
  BY <1>1 DEF Truth, Accepted
<1> QED
  BY <1>2, <1>3, <1>4, <1>5, <1>6 DEF Truth

LEMMA TruthQuits ==
  ASSUME Basics, Once, Truth, NEW d \in Devices, Quits(d),
         \A q \in Episodes : JournalGrows(d, q) /\ OperationGrows(q)
  PROVE  Truth'
<1>1. OnDisk(d)' /\ \A x \in Devices \ {d} : worker'[x] = worker[x]
  BY DEF OnDisk, Quits, RunOver, After
<1>2. UNCHANGED <<kernelVars, challenge>> /\ \A m \in net' \ net : Backs(m)'
  BY DEF Quits, Asks, Backs, operatorVars
<1>3. \A a \in answers' : a \in answers /\ a.device # d
  BY DEF Quits
<1> QED
  BY <1>1, <1>2, <1>3, TruthDevice

LEMMA TruthBegins ==
  ASSUME Basics, Once, Truth, NEW d \in Devices, Begins(d),
         worker'[d].pc \in Unleased \cup {"reconciling"},
         \A q \in Episodes : JournalGrows(d, q) /\ OperationGrows(q)
  PROVE  Truth'
<1>1. OnDisk(d)' /\ \A x \in Devices \ {d} : worker'[x] = worker[x]
  BY DEF OnDisk, Begins, After, Unleased
<1>2. UNCHANGED <<kernelVars, challenge>> /\ \A m \in net' \ net : Backs(m)'
  BY DEF Begins, Backs, operatorVars
<1>3. ASSUME NEW a \in answers' PROVE a \in answers /\ a.device # d
  <2>1. a \in answers /\ Awaits(a.device, a.op) /\ worker[d].pc = "idle" /\ ~worker[d].renewing
    BY AnswersAwaited DEF Begins, Basics, Bearings, AtBearings, Renews
  <2> QED
    BY <2>1, AwaitsWhat
<1> QED
  BY <1>1, <1>2, <1>3, TruthDevice

LEMMA TruthTakes ==
  ASSUME Basics, Once, Truth, NEW d \in Devices, NEW a \in answers, TakesLease(d, a),
         \A q \in Episodes : JournalGrows(d, q) /\ OperationGrows(q)
  PROVE  Truth'
<1>1. OnDisk(d)' /\ \A x \in Devices \ {d} : worker'[x] = worker[x]
  BY DEF OnDisk, TakesLease, After
<1>2. UNCHANGED <<kernelVars, challenge>> /\ \A m \in net' \ net : Backs(m)'
  BY DEF TakesLease, Backs, operatorVars
<1>3. \A x \in answers' : x \in answers /\ x.device # d
  BY DEF TakesLease
<1> QED
  BY <1>1, <1>2, <1>3, TruthDevice

LEMMA TruthGoesOn ==
  ASSUME Basics, Once, Truth, NEW d \in Devices, GoesOn(d),
         \A q \in Episodes : JournalGrows(d, q) /\ OperationGrows(q),
         OnDisk(d)', \A m \in net' \ net : Backs(m)'
  PROVE  Truth'
<1>1. \A x \in Devices \ {d} : worker'[x] = worker[x]
  BY DEF GoesOn, Stays
<1>2. UNCHANGED <<kernelVars, challenge>>
  BY DEF GoesOn, operatorVars
<1>3. \A a \in answers' : a \in answers /\ (a.device = d => worker'[d].episode = worker[d].episode)
  BY DEF GoesOn, StillAwaited, Stays
<1> QED
  BY <1>1, <1>2, <1>3, TruthDevice

\* Requests that need no proof.
LEMMA AsksPlainly ==
  ASSUME NEW d \in Devices, Asks(d, Ops \ {"dispatch", "complete", "report"})
  PROVE  \A m \in net' \ net : Backs(m)'
BY DEF Asks, Backs

LEMMA GoesOnTruth ==
  ASSUME Basics, Once, Truth, NEW d \in Devices,
         \/ Permitted(d) \/ Begin(d) \/ Observed(d) \/ GivesBack(d)
         \/ RenewSent(d) \/ RenewAnswered(d) \/ (Observe(d) /\ Current(d)),
         \A q \in Episodes : JournalGrows(d, q) /\ OperationGrows(q)
  PROVE  Truth'
<1>1. OnDisk(d)
  BY DEF Truth
<1>2. GoesOn(d) /\ worker'[d].episode = worker[d].episode
  <2>1. GoesOn(d)
    BY PermittedMoves, BeginMoves, ObservedMoves, GivesBackMoves, RenewSentMoves,
       RenewAnsweredMoves, ObserveMoves
  <2> QED
    BY <2>1 DEF GoesOn, Stays
<1>3. OnDisk(d)'
  <2>1. CASE Permitted(d)
    <3>1. worker'[d].pc = "permitted"
      BY <2>1, PermittedMoves
    <3>2. d \in Prepared => journal'[worker[d].episode].phase = "dispatched"
      BY <2>1, PermittedWrites DEF Writes
    <3> QED
      BY <1>2, <3>1, <3>2 DEF OnDisk, After
  <2>2. CASE Begin(d)
    <3>1. worker'[d].pc = "native"
      BY <2>2, BeginMoves
    <3> QED
      BY <3>1 DEF OnDisk, After
  <2>3. CASE Observed(d)
    <3>1. worker[d].pc = "observing" /\ worker'[d].pc = "observed" /\ UNCHANGED journal
      BY <2>3, ObservedMoves DEF Observed
    <3> QED
      BY <1>1, <1>2, <3>1 DEF OnDisk, After
  <2>4. CASE GivesBack(d)
    <3>1. worker'[d].pc = "releasing"
      BY <2>4, GivesBackMoves
    <3> QED
      BY <3>1 DEF OnDisk, After
  <2>5. CASE RenewSent(d) \/ RenewAnswered(d)
    <3>1. worker'[d].pc = worker[d].pc /\ UNCHANGED journal
      BY <2>5, RenewSentMoves, RenewAnsweredMoves DEF RenewSent, RenewAnswered
    <3> QED
      BY <1>1, <1>2, <3>1 DEF OnDisk
  <2>6. CASE Observe(d) /\ Current(d)
    <3>1. worker'[d].pc = "observing" /\ (d \in Prepared => journal'[worker[d].episode].observed)
      BY <2>6, ObserveMoves, ObserveWrites
    <3> QED
      BY <1>2, <3>1 DEF OnDisk, After
  <2> QED
    BY <2>1, <2>2, <2>3, <2>4, <2>5, <2>6
<1>4. Asks(d, Ops \ {"dispatch", "complete", "report"})
  <2>1. {"release", "renew", "observe"} \subseteq Ops \ {"dispatch", "complete", "report"}
    BY DEF Ops
  <2>2. \/ net' = net
        \/ \E op \in {"release", "renew", "observe"} : Send(d, op)
    BY DEF Permitted, Begin, Observed, GivesBack, RenewSent, RenewAnswered, Observe, wireVars
  <2> QED
    BY <2>1, <2>2, SendAsks, NothingAsked
<1> QED
  BY <1>2, <1>3, <1>4, AsksPlainly, TruthGoesOn

\* A dispatch is on disk, an outcome observed and its result kept before it is asked for.
LEMMA AskingTruth ==
  ASSUME Basics, Once, Truth, NEW d \in Devices,
         Dispatch(d) \/ Complete(d) \/ Report(d) \/ (Started(d) /\ ~Quits(d)),
         \A q \in Episodes : JournalGrows(d, q) /\ OperationGrows(q)
  PROVE  Truth'
<1> DEFINE p == worker[d].episode
<1>1. OnDisk(d) /\ AtOperation(d)
  BY DEF Truth, Once
<1>2. CASE Dispatch(d)
  <2>1. GoesOn(d) /\ worker'[d].pc = "dispatching" /\ journal'[p].phase = "dispatching"
    BY <1>2, DispatchMoves, DispatchWrites DEF Writes
  <2>2. Asks(d, {"dispatch"})
    BY <1>2, SendAsks DEF Dispatch
  <2>3. OnDisk(d)' /\ \A m \in net' \ net : Backs(m)'
    BY <2>1, <2>2 DEF OnDisk, After, Asks, Backs
  <2> QED
    BY <2>1, <2>3, TruthGoesOn
<1>3. CASE Complete(d)
  <2>1. /\ GoesOn(d) /\ worker[d].pc = "observed" /\ worker'[d].pc = "completing"
        /\ worker'[d].episode = p /\ Asks(d, {"complete"}) /\ UNCHANGED native
    BY <1>3, CompleteMoves, CompleteWrites DEF Complete, Keeps, Stays
  <2>2. d \in Prepared => journal'[p].observed /\ journal'[p].result = native[p]
    BY <1>1, <1>3, <2>1, CompleteWrites DEF OnDisk, After
  <2>3. OnDisk(d)' /\ \A m \in net' \ net : Backs(m)'
    BY <2>1, <2>2 DEF OnDisk, Asks, Backs
  <2> QED
    BY <2>1, <2>3, TruthGoesOn
<1>4. CASE Report(d)
  <2>1. /\ GoesOn(d) /\ worker'[d].pc = "reporting" /\ Asks(d, {"report"}) /\ UNCHANGED native
    BY <1>4, ReportMoves DEF Report
  <2>2. journal'[p].observed /\ journal'[p].result = native[p]
    BY <1>4, ReportWrites
  <2>3. OnDisk(d)' /\ \A m \in net' \ net : Backs(m)'
    BY <2>1, <2>2 DEF OnDisk, After, Asks, Backs
  <2> QED
    BY <2>1, <2>3, TruthGoesOn
<1>5. CASE Started(d) /\ ~Quits(d)
  <2>1. /\ GoesOn(d) /\ worker[d].pc = "starting" /\ worker'[d].pc = "dispatching"
        /\ Asks(d, {"dispatch"})
    BY <1>5, StartedMoves
  <2>2. OnDisk(d)' /\ \A m \in net' \ net : Backs(m)'
    BY <1>1, <2>1 DEF OnDisk, After, Asks, Backs
  <2> QED
    BY <2>1, <2>2, TruthGoesOn
<1> QED
  BY <1>2, <1>3, <1>4, <1>5

LEMMA DeviceTruth ==
  ASSUME Basics, Once, Truth, NEW d \in Devices, Device(d)
  PROVE  Truth'
<1>1. \A q \in Episodes : JournalGrows(d, q) /\ OperationGrows(q)
  BY DeviceJournals, DeviceOperations
<1>2. CASE Quits(d)
  BY <1>1, <1>2, TruthQuits
<1>3. CASE Run(d) \/ \E c \in Challenges : Fetch(d, c)
  <2>1. Begins(d) /\ worker'[d].pc \in Unleased \cup {"reconciling"}
    BY <1>3, RunBegins, FetchBegins DEF Unleased
  <2> QED
    BY <1>1, <2>1, TruthBegins
<1>4. CASE GotLease(d)
  BY <1>1, <1>2, <1>4, GotLeaseMoves, TruthTakes
<1>5. CASE \/ NoLease(d) \/ PrepareFails(d) \/ Completed(d) \/ GivenBack(d) \/ Unproven(d)
           \/ Reported(d) \/ ReportFails(d)
  BY <1>2, <1>5, SilentQuits, PrepareFailsQuits, UnprovenQuits
<1>6. CASE Observe(d)
  <2>1. CASE Current(d)
    BY <1>1, <1>6, <2>1, GoesOnTruth
  <2>2. CASE ~Current(d)
    BY <1>2, <1>6, <2>2, ObserveLate
  <2> QED
    BY <2>1, <2>2
<1>7. CASE \/ Permitted(d) \/ Begin(d) \/ Observed(d) \/ GivesBack(d)
           \/ RenewSent(d) \/ RenewAnswered(d)
  BY <1>1, <1>7, GoesOnTruth
<1>8. CASE Dispatch(d) \/ Complete(d) \/ Report(d) \/ (Started(d) /\ ~Quits(d))
  BY <1>1, <1>8, AskingTruth
<1> QED
  BY <1>2, <1>3, <1>4, <1>5, <1>6, <1>7, <1>8 DEF Device

LEMMA CrashTruth ==
  ASSUME Basics, Once, Truth, NEW d \in Devices, Crash(d)
  PROVE  Truth'
<1>1. Quits(d) /\ UNCHANGED <<journal, native>>
  BY SilentQuits DEF Crash
<1>2. \A q \in Episodes : JournalGrows(d, q) /\ OperationGrows(q)
  BY <1>1 DEF JournalGrows, OperationGrows
<1> QED
  BY <1>1, <1>2, TruthQuits

\* An operation that ends was running, so that nothing rests on its outcome yet.
LEMMA NativeEndsTruth ==
  ASSUME Basics, Once, Truth, NEW p \in Episodes, NativeEnds(p)
  PROVE  Truth'
<1>1. /\ native[p] = "running" /\ native'[p] \in Outcomes
      /\ \A q \in Episodes \ {p} : native'[q] = native[q]
      /\ UNCHANGED <<worker, journal, net, answers, effect, episode, challenge>>
  BY NativeEndsBasics DEF wireVars, kernelVars, operatorVars
<1>2. TrueRecord(p) /\ Noted(p) /\ ~journal[p].observed
  BY <1>1 DEF Truth, Once, Noted, Outcomes
<1>3. ASSUME NEW q \in Episodes PROVE TrueRecord(q)'
  <2>1. CASE q = p
    BY <1>1, <1>2, <2>1 DEF TrueRecord, Outcomes
  <2>2. CASE q # p
    BY <1>1, <2>2 DEF Truth, TrueRecord
  <2> QED
    BY <2>1, <2>2
<1>4. ASSUME NEW d \in Devices PROVE OnDisk(d)'
  BY <1>1 DEF Truth, OnDisk
<1>5. ASSUME NEW r \in net' PROVE Backs(r)'
  <2>1. Backs(r) /\ (r.op \in {"complete", "report"} => r.episode \in Episodes)
    BY <1>1, HeldFields DEF Truth
  <2> QED
    BY <1>1, <1>2, <2>1 DEF Backs
<1>6. ASSUME NEW a \in answers' PROVE Confirms(a)'
  BY <1>1 DEF Truth, Confirms
<1>7. ASSUME NEW c \in Challenges PROVE Accepted(c)'
  BY <1>1 DEF Truth, Accepted
<1> QED
  BY <1>3, <1>4, <1>5, <1>6, <1>7 DEF Truth

LEMMA TruthStep ==
  ASSUME Basics, Once, Truth, [Next]_vars
  PROVE  Truth'
<1>1. CASE UNCHANGED vars
  <2>1. RowsGrow /\ UNCHANGED deviceVars /\ net' \subseteq net /\ answers' = answers
    BY <1>1, KernelUnchanged DEF vars, wireVars, KernelKept
  <2>2. \A p \in Episodes : HasProof(p)
    BY <1>1 DEF HasProof, vars, kernelVars
  <2>3. \A c \in Challenges : Accepted(c)'
    BY <1>1 DEF Truth, Accepted, vars, kernelVars, operatorVars
  <2> QED
    BY <2>1, <2>2, <2>3, TruthRows
<1>2. CASE \E r \in net : Handle(r)
  BY <1>2, HandleTruth
<1>3. CASE \E p \in Episodes : NativeEnds(p)
  BY <1>3, NativeEndsTruth
<1>4. CASE \E d \in Devices : Device(d)
  BY <1>4, DeviceTruth
<1>5. CASE \E d \in Devices : Crash(d)
  BY <1>5, CrashTruth
<1> QED
  BY <1>1, <1>2, <1>3, <1>4, <1>5, OthersTruth DEF Next, Operator

(* Wherever a crash, a lost answer or a late request leaves them, the device's  *)
(* journal and the coordinator's rows agree: a released effect was never        *)
(* dispatched nor begun, a completed one is confirmed, and behind an outcome     *)
(* the coordinator accepted there are the device's observation and result.      *)
THEOREM LedgersAgree == Spec => []JournalTruth
<1>1. Init => Basics /\ Once /\ Truth
  BY KnownInit, TruthInit
<1>2. Basics /\ Once /\ Truth /\ [Next]_vars => (Basics /\ Once /\ Truth)'
  BY KnownStep, TruthStep
<1>3. Basics /\ Once /\ Truth => JournalTruth
  <2> SUFFICES ASSUME Basics, Once, Truth, NEW p \in Episodes
               PROVE  /\ journal[p].phase = "released" => effect[p].state = "none" /\ native[p] = "none"
                      /\ journal[p].phase = "completed" => effect[p].state = "confirmed"
                      /\ effect[p].manifest =>
                           /\ journal[p].phase # "none"
                           /\ native[p] # "none" => journal[p].phase \notin {"dispatching", "released"}
                           /\ effect[p].state = "confirmed" =>
                                journal[p].observed /\ journal[p].result = episode[p].state
                                /\ native[p] = episode[p].state
    BY DEF JournalTruth
  <2>1. TrueRecord(p)
    BY DEF Truth
  <2>2. episode[p].state = "released" => effect[p].state = "none"
    BY OwnEffect, EpisodesAre DEF Basics, Inv, Accounted, UntouchedHasNone, Untouched
  <2> QED
    BY <2>1, <2>2 DEF TrueRecord
<1> QED
  BY <1>1, <1>2, <1>3, PTL DEF Spec

-----------------------------------------------------------------------------
(* The devices and their coordinator still make attempts one at a time.       *)

Mapped == [Sole!Next]_(Sole!vars)

LEMMA MapsTo ==
  ASSUME NEW p \in Episodes
  PROVE  Sole!Begin(p) \/ Sole!Settle(p) \/ UNCHANGED Sole!vars => Mapped
BY DEF Mapped, Sole!Next

LEMMA QuietlyMapped ==
  ASSUME SameAttempts, task'.status = "cancelled" <=> task.status = "cancelled"
  PROVE  Mapped
BY QuietMaps DEF Mapped

LEMMA RowsMapped ==
  ASSUME UNCHANGED <<task, episode, effect>>
  PROVE  Mapped
BY QuietlyMapped DEF SameAttempts

\* What a lease allows besides a dispatch or an end.
LEMMA LeaseMapped ==
  ASSUME Basics, NEW d \in Devices, NEW p \in Episodes,
         \/ Start(d, p, clock) \/ ReleaseUnstarted(d, p, clock) \/ MarkUnknown(d, p, clock)
         \/ RecordEffectObservation(d, p, p, clock)
  PROVE  Mapped
<1> USE DEF Basics, Inv, TypeOK, Outcomes, SameAttempts
<1>1. task.status \notin Terminal /\ "cancelled" \in Terminal
  BY DEF Start, ReleaseUnstarted, MarkUnknown, RecordEffectObservation, Lease, Terminal
<1>2. Saved(task).status = task.status /\ Stale.status = "stale" /\ Waiting.status = "waiting"
  BY DEF Saved, Stale, Waiting, Task
<1>3. SameAttempts /\ (task'.status = "cancelled" <=> task.status = "cancelled")
  <2>1. CASE Start(d, p, clock)
    BY <1>2, <2>1 DEF Start, Episode
  <2>2. CASE ReleaseUnstarted(d, p, clock)
    BY <1>1, <1>2, <2>2 DEF ReleaseUnstarted, Ended, Episode
  <2>3. CASE MarkUnknown(d, p, clock)
    BY <1>1, <1>2, <2>3 DEF MarkUnknown, Lost, Episode, Effect
  <2>4. CASE RecordEffectObservation(d, p, p, clock)
    BY <2>4 DEF RecordEffectObservation, Effect
  <2> QED
    BY <2>1, <2>2, <2>3, <2>4
<1> QED
  BY <1>3, QuietlyMapped

\* A dispatch begins the attempt, for a prepared device with its episode.
LEMMA DispatchMapped ==
  ASSUME Basics, NEW r \in net, HandleDispatch(r)
  PROVE  Mapped
<1> DEFINE p == r.episode
<1>1. CASE Refuse(r)
  BY <1>1, RowsMapped DEF Refuse
<1>2. CASE /\ Held(r) /\ effect[p].state = "none"
           /\ effect' = [effect EXCEPT ![p] = Dispatched(p, r.device \in Prepared)]
           /\ IF episode[p].state = "leased"
              THEN episode' = [episode EXCEPT ![p].state = "running"] /\ task' = Saved(task)
              ELSE UNCHANGED <<task, episode>>
  <2>1. /\ p \in Episodes /\ task.active = p /\ task.status # "cancelled"
        /\ episode[p].state \in {"leased", "running"} /\ ~Begun(p)
    BY <1>2, HeldFields, OwnEffect DEF HandleDispatch, Held, Lease, Terminal, Begun, Basics
  <2> HIDE DEF p
  <2>2. task'.status = task.status
    BY <1>2, TaskFields DEF Saved, Basics, Inv, Task
  <2>3. \A q \in Episodes : episode'[q].state = IF q = p /\ episode[p].state = "leased"
                                                THEN "running" ELSE episode[q].state
    BY <1>2, <2>1 DEF Episode, Basics, Inv, TypeOK
  <2>4. \A e \in Effects : effect'[e].episode = IF e = p THEN p ELSE effect[e].episode
    BY <1>2, <2>1, EpisodesAre DEF Dispatched, Basics, Inv, TypeOK, Effect
  <2>5. \A q \in Episodes : Begun(q)' <=> Begun(q) \/ q = p
    <3>1. effect[p].episode # p /\ p \in Effects
      BY <2>1, EpisodesAre DEF Begun, EffectsOf
    <3>2. effect[p].episode = 0
      BY <1>2, <3>1, <2>1, OwnEffect DEF Basics
    <3> QED
      BY <2>4, <3>1, <3>2 DEF Begun, EffectsOf, Episodes
  <2>6. AttemptOf[p] = "none" /\ ~Over
    BY <2>1 DEF AttemptOf, Over
  <2>7. \A q \in Episodes : AttemptOf[q] # "open"
    BY <2>1, <2>6, OpenAttempt DEF Basics
  <2>8. AttemptOf' = [AttemptOf EXCEPT ![p] = "open"]
    BY <2>1, <2>3, <2>5 DEF AttemptOf, Outcomes
  <2>9. Sole!Begin(p)
    BY <2>1, <2>2, <2>6, <2>7, <2>8 DEF Sole!Begin, Over
  <2> QED
    BY <2>1, <2>9, MapsTo
<1> QED
  BY <1>1, <1>2 DEF HandleDispatch

\* A completion, and a report, settle it.
LEMMA CompleteMapped ==
  ASSUME Basics, NEW r \in net, HandleComplete(r), r.result \in Outcomes
  PROVE  Mapped
<1> DEFINE p == r.episode
<1>1. CASE Refuse(r)
  BY <1>1, RowsMapped DEF Refuse
<1>2. CASE /\ Held(r) /\ episode[p].state = "running"
           /\ effect' = [effect EXCEPT ![p].state = "confirmed"]
           /\ episode' = Ended(p, r.result)
           /\ task' = Finished(r.result)
  <2>1. p \in Episodes /\ task.status # "cancelled"
    BY <1>2, HeldFields DEF HandleComplete, Held, Lease, Terminal
  <2> HIDE DEF p
  <2>2. task'.status # "cancelled"
    BY <1>2, FinishedTask DEF Basics, Outcomes
  <2>3. \A q \in Episodes : episode'[q].state = IF q = p THEN r.result ELSE episode[q].state
    BY <1>2, <2>1 DEF Ended, Episode, Basics, Inv, TypeOK
  <2>4. \A e \in Effects : effect'[e].episode = effect[e].episode
    BY <1>2, <2>1, EpisodesAre DEF Effect, Basics, Inv, TypeOK
  <2> QED
    BY <1>2, <2>1, <2>2, <2>3, <2>4, SettleStep, MapsTo DEF Basics
<1> QED
  BY <1>1, <1>2 DEF HandleComplete

LEMMA ReportMapped ==
  ASSUME Basics, NEW r \in net, HandleReport(r), r.result \in Outcomes
  PROVE  Mapped
<1> DEFINE p == challenge[r.challenge].episode
<1>1. CASE UNCHANGED <<task, episode, effect>>
  BY <1>1, RowsMapped
<1>2. CASE /\ ChallengeCurrent(r.challenge, r.device)
           /\ effect' = [effect EXCEPT ![p] = [@ EXCEPT !.observed = TRUE, !.state = "confirmed"]]
           /\ episode' = [episode EXCEPT ![p] = [@ EXCEPT !.state = r.result, !.until = 0]]
           /\ task' = Reconciled(r.result)
  <2>1. p \in Episodes /\ task.status # "cancelled" /\ episode[p].state = "unknown"
    BY <1>2, ReportFields, ReconcilableFields DEF HandleReport, ChallengeCurrent
  <2> HIDE DEF p
  <2>2. task'.status # "cancelled"
    BY <1>2, FinishedTask DEF Basics, Outcomes
  <2>3. \A q \in Episodes : episode'[q].state = IF q = p THEN r.result ELSE episode[q].state
    BY <1>2, <2>1 DEF Episode, Basics, Inv, TypeOK
  <2>4. \A e \in Effects : effect'[e].episode = effect[e].episode
    BY <1>2, <2>1, EpisodesAre DEF Effect, Basics, Inv, TypeOK
  <2> QED
    BY <2>1, <2>2, <2>3, <2>4, SettleStep, MapsTo DEF Basics
<1> QED
  BY <1>1, <1>2 DEF HandleReport, Refuse

LEMMA RenewMapped ==
  ASSUME Basics, NEW r \in net, HandleRenew(r)
  PROVE  Mapped
<1>1. CASE Refuse(r)
  BY <1>1, RowsMapped DEF Refuse
<1>2. CASE ~Refuse(r)
  <2>1. PICK until : episode' = [episode EXCEPT ![r.episode].until = until]
    BY <1>2 DEF HandleRenew
  <2>2. UNCHANGED <<task, effect>>
    BY <1>2 DEF HandleRenew
  <2>3. \A q \in Episodes : episode'[q].state = episode[q].state
    BY <2>1 DEF Basics, Inv, TypeOK, Episode
  <2> QED
    BY <2>2, <2>3, QuietlyMapped DEF SameAttempts
<1> QED
  BY <1>1, <1>2

LEMMA HandleMapped ==
  ASSUME Basics, NEW r \in net, Backed(r), Handle(r)
  PROVE  Mapped
<1>1. CASE UNCHANGED <<task, episode, effect>>
  BY <1>1, RowsMapped
<1>2. CASE HandleClaim(r) /\ ~UNCHANGED <<task, episode, effect>>
  <2>1. r.device \in Devices /\ Ttl \in Ttls /\ Ttl \in Budgets /\ Inv /\ clock \in Nat
    BY MessageFields, DeviceAssumption DEF Basics, Inv, TypeOK
  <2>2. PICK p \in Episodes : Claim(r.device, p, Ttl, Ttl, clock)
    BY <1>2 DEF HandleClaim, Refuse
  <2> QED
    BY <2>1, <2>2, QuietClaim, QuietlyMapped
<1>3. CASE (HandleStart(r) \/ HandleObserve(r) \/ HandleRelease(r) \/ HandleUnknown(r))
           /\ ~UNCHANGED <<task, episode, effect>>
  <2>1. r.op # "claim"
    BY <1>3 DEF HandleStart, HandleObserve, HandleRelease, HandleUnknown
  <2> QED
    BY <1>3, <2>1, HeldFields, LeaseMapped
    DEF HandleStart, HandleObserve, HandleRelease, HandleUnknown, Refuse
<1>4. CASE HandleRenew(r)
  BY <1>4, RenewMapped
<1>5. CASE HandleDispatch(r)
  BY <1>5, DispatchMapped
<1>6. CASE HandleComplete(r)
  BY <1>6, CompleteMapped DEF Backed, HandleComplete
<1>7. CASE HandleReport(r)
  BY <1>7, ReportMapped DEF Backed, HandleReport
<1> QED
  BY <1>1, <1>2, <1>3, <1>4, <1>5, <1>6, <1>7 DEF Handle

LEMMA MappedStep ==
  ASSUME Basics, Once, [Next]_vars
  PROVE  Mapped
<1>1. Inv /\ clock \in Nat
  BY DEF Basics, Inv, TypeOK
<1>2. CASE \E r \in net : Handle(r)
  BY <1>2, HandleMapped DEF Once, TrueResult, Backed
<1>3. CASE CancelTask
  BY <1>1, <1>3, CancelMaps DEF CancelTask, Mapped, Sole!Next
<1>4. CASE ResumeTask
  BY <1>1, <1>4, QuietOperation, QuietlyMapped DEF ResumeTask
<1>5. CASE Recover
  BY <1>1, <1>5, QuietOperation, QuietlyMapped DEF Recover
<1>6. CASE UNCHANGED <<task, episode, effect>>
  BY <1>6, RowsMapped
<1>7. UNCHANGED vars => UNCHANGED <<task, episode, effect>>
  BY DEF vars, kernelVars
<1>8. Tick \/ (\E p \in Episodes : NativeEnds(p)) \/ (\E d \in Devices : Device(d) \/ Crash(d) \/ Revoke(d))
      \/ Assign \/ (\E d \in Prepared, c \in Challenges : RequestReconciliation(c, d))
      => UNCHANGED <<task, episode, effect>>
  <2>1. ASSUME NEW d \in Devices, Device(d) PROVE UNCHANGED <<task, episode, effect>>
    BY <2>1 DEF Device, kernelVars, Run, GotLease, NoLease, Started, PrepareFails, Dispatch, Permitted,
      Begin, Observe, Observed, Complete, Completed, GivesBack, GivenBack, Unproven, RenewSent,
      RenewAnswered, Report, Reported, ReportFails, Fetch
  <2> QED
    BY <2>1 DEF Tick, NativeEnds, Crash, Revoke, Assign, RequestReconciliation, kernelVars
<1> QED
  BY <1>2, <1>3, <1>4, <1>5, <1>6, <1>7, <1>8 DEF Next, Operator

(* The devices, their coordinator, the operator and the faults together keep    *)
(* the promise of the kernel, also where a handler makes two of the kernel's     *)
(* writes in one transaction: no attempt begins while an earlier one is open.   *)
THEOREM DevicesMakeSoleAttempts == Spec => ImplementsSole
<1>1. Init => Sole!Init
  BY DEF Init, KernelInit, Sole!Init, AttemptOf, Over, Begun, EffectsOf, NoEffect, Episodes
<1>2. Basics /\ Once /\ [Next]_vars => [Sole!Next]_(Sole!vars)
  BY MappedStep DEF Mapped
<1> QED
  BY <1>1, <1>2, Known, PTL DEF Spec, ImplementsSole, Sole!Spec

(* An outcome the task reports is proven by the effects of its newest episode,  *)
(* also where it came from a device's report and not from its completion.       *)
THEOREM DeviceOutcomesAreProven == Spec => []OutcomeIsProven
<1>1. Basics => OutcomeIsProven
  <2> SUFFICES ASSUME Basics, task.status \in Outcomes PROVE OutcomeIsProven
    BY DEF OutcomeIsProven
  <2>1. PICK p \in Episodes :
          episode[p].state = task.status /\ \A q \in Episodes : episode[q].state # "none" => q <= p
    BY DEF Basics, Inv, Accounted, Proven
  <2>2. Unconfirmed(p) = {}
    BY <2>1 DEF Basics, Inv, Accounted, OutcomeIsSettled, Unconfirmed, EffectsOf
  <2> QED
    BY <2>1, <2>2 DEF OutcomeIsProven
<1> QED
  BY <1>1, Known, PTL
=============================================================================
