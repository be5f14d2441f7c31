--------------------------- MODULE DeliveryOutbox ---------------------------
(***************************************************************************)
(* DeliveryOutbox (delivery-outbox.ts): terminal events of tasks become rows *)
(* of an outbox, one per message, and drains hand each row to a transport     *)
(* that cannot say whether a lost request was carried out.                    *)
(*                                                                         *)
(* Transactions and statements of the database are one action each; whatever *)
(* happens at an await of deliver() is several.  Any number of drains runs at *)
(* the same time (the service's pump, the retry timer, an operator, another   *)
(* process).  authorize(), the abort signal and the adapter may fail any       *)
(* check: Fails and AttemptFails.  The rows' digests and envelopes are data   *)
(* nobody changes and left out, and so is what an adapter sends.              *)
(***************************************************************************)
EXTENDS Naturals, FiniteSets, FiniteSetsExt

CONSTANTS Tasks,
          TaskOf,      \* the task of each terminal event, in the order of events
          PartsOf,     \* the messages each event's text is split into
          Drains,      \* callers of drain
          None,
          Capacity,    \* sends at a time (4 in the code)
          Batch,       \* events and rows per drain (32)
          MaxOpen,     \* rows not sent (128)
          MaxRefusals, \* refusals of a row (3)
          MaxResets    \* bound: rows an operator resets

Events == DOMAIN TaskOf

ASSUME OutboxAssumption ==
  /\ TaskOf \in [Events -> Tasks] /\ Events \subseteq Nat
  /\ PartsOf \in [Events -> Nat \ {0}]
  /\ None \notin Drains
  /\ {Capacity, Batch, MaxOpen, MaxRefusals} \subseteq Nat \ {0}
  /\ MaxResets \in Nat

Rows == UNION {{e} \X (1 .. PartsOf[e]) : e \in Events}

VARIABLES
  ended,     \* terminal events on file
  standing,  \* tasks whose last event is still their latest revision
  route,     \* per task: its route, and the event from which it counts
  state,     \* per row, "none" until the event is projected
  attempt,   \* per row: the drain whose attempt_id it has
  observed,  \* rows with an observation
  refusals,  \* per row: refusal_count
  unmade,    \* events projected as a placeholder for failed media
  cooling,   \* is now before a not_before of the adapter?
  drain,     \* per caller of drain: rows it still has, the row at hand, where it is
  wire,      \* per row: its latest request at the transport
  posts,     \* per row: messages the recipient has
  resets     \* rows reset so far

outbox == <<state, attempt, observed, refusals, unmade>>
vars == <<ended, standing, route, outbox, cooling, drain, wire, posts, resets>>

RowStates == {"none", "pending", "dispatching", "sent", "unknown", "blocked"}
Idle == [queue |-> {}, row |-> None, pc |-> "idle"]

TypeOK ==
  /\ ended \subseteq Events
  /\ standing \subseteq Tasks
  /\ route \in [Tasks -> [state : {"none", "active", "revoked"}, after : SUBSET Events]]
  /\ state \in [Rows -> RowStates]
  /\ attempt \in [Rows -> Drains \cup {None}]
  /\ observed \subseteq Rows
  /\ refusals \in [Rows -> 0 .. MaxRefusals]
  /\ unmade \subseteq Events
  /\ cooling \in BOOLEAN
  /\ drain \in [Drains -> [queue : SUBSET Rows, row : Rows \cup {None},
                           pc : {"idle", "next", "preparing", "admitted", "sending", "observed"}]]
  /\ wire \in [Rows -> {"none", "flying", "posted", "refused"}]
  /\ posts \in [Rows -> 0 .. 2]
  /\ resets \in 0 .. MaxResets

Init ==
  /\ ended = {} /\ standing = {}
  /\ route = [t \in Tasks |-> [state |-> "none", after |-> {}]]
  /\ state = [r \in Rows |-> "none"] /\ attempt = [r \in Rows |-> None]
  /\ observed = {} /\ refusals = [r \in Rows |-> 0]
  /\ unmade = {} /\ cooling = FALSE
  /\ drain = [c \in Drains |-> Idle]
  /\ wire = [r \in Rows |-> "none"] /\ posts = [r \in Rows |-> 0]
  /\ resets = 0

-----------------------------------------------------------------------------
(* The kernel's side: a task ends, with an event, and may be resumed.        *)
TaskEnds(e) ==
  /\ e \notin ended /\ \A f \in Events : f < e => f \in ended
  /\ TaskOf[e] \notin standing
  /\ ended' = ended \cup {e}
  /\ standing' = standing \cup {TaskOf[e]}
  /\ UNCHANGED <<route, outbox, cooling, drain, wire, posts, resets>>

TaskResumes(t) ==
  /\ t \in standing
  /\ standing' = standing \ {t}
  /\ UNCHANGED <<ended, route, outbox, cooling, drain, wire, posts, resets>>

BindTask(t) ==
  /\ t \notin standing
  /\ route[t].state = "none"
  /\ route' = [route EXCEPT ![t] = [state |-> "active", after |-> ended]]
  /\ UNCHANGED <<ended, standing, outbox, cooling, drain, wire, posts, resets>>

RevokeTask(t) ==
  /\ route[t].state # "none"
  /\ route' = [route EXCEPT ![t].state = "revoked"]
  /\ UNCHANGED <<ended, standing, outbox, cooling, drain, wire, posts, resets>>

-----------------------------------------------------------------------------
Task(r)     == TaskOf[r[1]]
Earlier(q, r) == q[1] < r[1] \/ (q[1] = r[1] /\ q[2] < r[2])
Parts(e)    == {r \in Rows : r[1] = e}
Projected(e) == \E r \in Parts(e) : state[r] # "none"
InState(s)  == {r \in Rows : state[r] = s}
Open        == {r \in Rows : state[r] \notin {"none", "sent"}}

(* evidence(): the row's route must still be the active one.                 *)
Current(r) == route[Task(r)].state = "active"

(* What the route of a task delivers: the events after its binding.          *)
Routed(t) == {e \in ended \ route[t].after : TaskOf[e] = t /\ route[t].state # "none"}

Unprojected ==
  {e \in Events : e \in Routed(TaskOf[e]) /\ route[TaskOf[e]].state = "active" /\ ~Projected(e)}

ProjectableLatest(failed) ==   \* fault: the newest event of each task first
  {e \in Unprojected : \A f \in Unprojected : TaskOf[f] = TaskOf[e] => f <= e}

(* project(): the oldest events, up to the first whose rows do not fit.       *)
(* Media that cannot be prepared become one row, blocked.                    *)
FitsWithOlder(e, failed) ==
  LET older == {f \in Unprojected : f <= e}
  IN  /\ Cardinality(older) <= Batch
      /\ MapThenSumSet(LAMBDA f : IF f \in failed THEN 1 ELSE PartsOf[f], older)
           + Cardinality(Open) <= MaxOpen

Projectable(failed) ==
  {e \in Unprojected : \A f \in Unprojected : f <= e => FitsWithOlder(f, failed)}

AfterProject(failed) ==
  [r \in Rows |->
    IF r[1] \notin Projectable(failed) THEN state[r]
    ELSE IF r[1] \notin failed THEN "pending"
    ELSE IF r[2] = 1 THEN "blocked" ELSE "none"]

RecoverNothing(s, late) == s   \* fault: attempts of dead senders stay open

(* recover(): attempts past their time, whether or not their sender lives.   *)
Recover(s, late) == [r \in Rows |-> IF r \in late THEN "unknown" ELSE s[r]]

(* drain(): project and recover, then take up the rows that are pending.     *)
Oldest(rows, n) == {r \in rows : Cardinality({q \in rows : Earlier(q, r)}) < n}

DrainLate(c, late) ==
  /\ drain[c].pc = "idle"
  /\ \E failed \in SUBSET Unprojected :
       /\ unmade' = unmade \cup (failed \cap Projectable(failed))
       /\ state' = Recover(AfterProject(failed), late)
       /\ drain' = [drain EXCEPT ![c] =
            [queue |-> Oldest({r \in Rows : state'[r] = "pending"}, Batch), row |-> None, pc |-> "next"]]
  /\ UNCHANGED <<ended, standing, route, attempt, observed, refusals, cooling, wire, posts, resets>>

Drain(c) == \E late \in SUBSET InState("dispatching") : DrainLate(c, late)

-----------------------------------------------------------------------------
(* deliver()                                                                *)
Prior(r) == \E q \in Rows : Task(q) = Task(r) /\ Earlier(q, r) /\ state[q] \notin {"none", "sent"}
HasCapacity == Cardinality(InState("dispatching")) < Capacity

At(c, pc) == [drain EXCEPT ![c].pc = pc]
Done(c)   == [drain EXCEPT ![c] = [@ EXCEPT !.row = None, !.pc = "next"]]
Here(c, r, pc) == drain[c].pc = pc /\ drain[c].row = r
Settles(r, s) == state' = [state EXCEPT ![r] = s]

Take(c, r) ==
  /\ drain[c].pc = "next" /\ r \in drain[c].queue
  /\ \A q \in drain[c].queue : ~Earlier(q, r)
  /\ drain' = [drain EXCEPT ![c] =
       IF state[r] = "pending" /\ ~Prior(r) /\ HasCapacity
       THEN [queue |-> @.queue \ {r}, row |-> r, pc |-> "preparing"]
       ELSE [queue |-> @.queue \ {r}, row |-> None, pc |-> "next"]]
  /\ UNCHANGED <<ended, standing, route, outbox, cooling, wire, posts, resets>>

Drained(c) ==
  /\ drain[c].pc = "next" /\ drain[c].queue = {}
  /\ drain' = [drain EXCEPT ![c] = Idle]
  /\ UNCHANGED <<ended, standing, route, outbox, cooling, wire, posts, resets>>

Admissible(r) == state[r] = "pending" /\ ~Prior(r) /\ HasCapacity /\ ~cooling

(* The admission transaction, after prepare was awaited.                     *)
Admit(c, r) ==
  /\ Here(c, r, "preparing") /\ Current(r)
  /\ IF Admissible(r)
     THEN /\ Settles(r, "dispatching")
          /\ attempt' = [attempt EXCEPT ![r] = c]
          /\ drain' = At(c, "admitted")
     ELSE drain' = Done(c) /\ UNCHANGED <<state, attempt>>
  /\ UNCHANGED <<ended, standing, route, observed, refusals, unmade, cooling, wire, posts, resets>>

(* A check or prepare fails before the attempt is on file.                   *)
Fails(c, r) ==
  /\ Here(c, r, "preparing")
  /\ Settles(r, IF state[r] = "pending" THEN "blocked" ELSE state[r])
  /\ drain' = Done(c)
  /\ UNCHANGED <<ended, standing, route, attempt, observed, refusals, unmade, cooling, wire, posts, resets>>

Send(c, r) ==
  /\ Here(c, r, "admitted") /\ Current(r)
  /\ wire' = [wire EXCEPT ![r] = "flying"]
  /\ drain' = At(c, "sending")
  /\ UNCHANGED <<ended, standing, route, outbox, cooling, posts, resets>>

(* The transport carries a request out, or refuses it, at any later time.    *)
Arrives(r) ==
  /\ wire[r] = "flying"
  /\ wire' = [wire EXCEPT ![r] = "posted"]
  /\ posts' = [posts EXCEPT ![r] = IF @ < 2 THEN @ + 1 ELSE @]
  /\ UNCHANGED <<ended, standing, route, outbox, cooling, drain, resets>>

IsRefused(r) ==
  /\ wire[r] = "flying"
  /\ wire' = [wire EXCEPT ![r] = "refused"]
  /\ UNCHANGED <<ended, standing, route, outbox, cooling, drain, posts, resets>>

Observe(c, r) ==
  /\ Here(c, r, "sending") /\ wire[r] = "posted"
  /\ observed' = IF attempt[r] = c THEN observed \cup {r} ELSE observed
  /\ drain' = At(c, "observed")
  /\ UNCHANGED <<ended, standing, route, state, attempt, refusals, unmade, cooling, wire, posts, resets>>

(* accept(): of an observation that is on file, from an attempt whose        *)
(* outcome is open or was given up.                                          *)
Accepts(r) ==
  /\ Current(r) /\ r \in observed
  /\ state[r] \in {"dispatching", "unknown", "sent"}
  /\ Settles(r, "sent")

Accept(c, r) ==
  /\ Here(c, r, "observed") /\ attempt[r] = c
  /\ Accepts(r)
  /\ drain' = Done(c)
  /\ UNCHANGED <<ended, standing, route, attempt, observed, refusals, unmade, cooling, wire, posts, resets>>

(* DeliveryRetryAfter: the transport says it did nothing.  If this           *)
(* transaction fails, the error leaves deliver() and the drain.              *)
RetryAfter(c, r) ==
  /\ Current(r) /\ attempt[r] = c
  /\ state[r] = "dispatching" /\ r \notin observed

HandleRefusal(c, r) ==
  /\ Here(c, r, "sending") /\ wire[r] = "refused"
  /\ IF RetryAfter(c, r)
     THEN LET count == IF refusals[r] < MaxRefusals THEN refusals[r] + 1 ELSE MaxRefusals
          IN  /\ refusals' = [refusals EXCEPT ![r] = count]
              /\ Settles(r, IF count < MaxRefusals THEN "pending" ELSE "blocked")
              /\ attempt' = [attempt EXCEPT ![r] = None]
              /\ cooling' = TRUE
              /\ drain' = Done(c)
     ELSE drain' = [drain EXCEPT ![c] = Idle] /\ UNCHANGED <<state, attempt, refusals, cooling>>
  /\ UNCHANGED <<ended, standing, route, observed, unmade, wire, posts, resets>>

(* Anything else that goes wrong once the attempt is on file: the request    *)
(* may have been sent or not.                                                *)
GivenUpAnyway(c, r) == IF attempt[r] = c THEN "unknown" ELSE state[r]   \* fault: whatever it has become
GivenUp(c, r) == IF attempt[r] = c /\ state[r] \in {"dispatching", "unknown"} THEN "unknown" ELSE state[r]

AttemptFails(c, r) ==
  /\ \E pc \in {"admitted", "sending", "observed"} : Here(c, r, pc)
  /\ Settles(r, GivenUp(c, r))
  /\ drain' = Done(c)
  /\ UNCHANGED <<ended, standing, route, attempt, observed, refusals, unmade, cooling, wire, posts, resets>>

(* The caller's process dies, or the drain's own check ends it.              *)
Crash(c) ==
  /\ drain[c].pc # "idle"
  /\ drain' = [drain EXCEPT ![c] = Idle]
  /\ UNCHANGED <<ended, standing, route, outbox, cooling, wire, posts, resets>>

CoolsDown ==
  /\ cooling /\ cooling' = FALSE
  /\ UNCHANGED <<ended, standing, route, outbox, drain, wire, posts, resets>>

-----------------------------------------------------------------------------
RetryUnknown(r) == state[r] \in {"blocked", "unknown"}   \* fault: an open attempt is reset
RetrySafe(r) == state[r] = "blocked" /\ attempt[r] = None

(* retryBlocked(): a placeholder is projected again, with its event.         *)
RetryBlocked(r) ==
  /\ RetrySafe(r) /\ Current(r)
  /\ resets < MaxResets /\ resets' = resets + 1
  /\ IF r[1] \in unmade
     THEN /\ Task(r) \in standing /\ \A e \in ended : TaskOf[e] = Task(r) => e <= r[1]
          /\ Cardinality(Open) - 1 + PartsOf[r[1]] <= MaxOpen
          /\ unmade' = unmade \ {r[1]}
          /\ state' = [q \in Rows |-> IF q[1] = r[1] THEN "pending" ELSE state[q]]
     ELSE Settles(r, "pending") /\ UNCHANGED unmade
  /\ UNCHANGED <<ended, standing, route, attempt, observed, refusals, cooling, drain, wire, posts>>

(* reconcile(): reads the message back and accepts what was observed.        *)
Reconcile(r) ==
  /\ state[r] = "unknown"
  /\ Accepts(r)
  /\ UNCHANGED <<ended, standing, route, attempt, observed, refusals, unmade, cooling, drain, wire, posts, resets>>

-----------------------------------------------------------------------------
Delivering(c, r) ==
  \/ Take(c, r) \/ Admit(c, r) \/ Fails(c, r) \/ Send(c, r) \/ Observe(c, r)
  \/ Accept(c, r) \/ HandleRefusal(c, r) \/ AttemptFails(c, r)

Next ==
  \/ \E e \in Events : TaskEnds(e)
  \/ \E t \in Tasks : TaskResumes(t) \/ BindTask(t) \/ RevokeTask(t)
  \/ \E c \in Drains : Drain(c) \/ Drained(c) \/ Crash(c) \/ \E r \in Rows : Delivering(c, r)
  \/ \E r \in Rows : Arrives(r) \/ IsRefused(r) \/ RetryBlocked(r) \/ Reconcile(r)
  \/ CoolsDown

Spec == Init /\ [][Next]_vars

(* The pump drains again and again, also when every attempt has reached its  *)
(* time-out; cool-downs pass, a drain that lives goes on, and one that dies   *)
(* again and again sometimes lives long enough.  Nothing is assumed of transports,  *)
(* tasks or operators.                                                       *)
Fairness ==
  /\ \A c \in Drains :
       /\ SF_vars(DrainLate(c, InState("dispatching"))) /\ WF_vars(Drained(c))
       /\ WF_vars(\E r \in Rows : Delivering(c, r))
       /\ \A r \in Rows : SF_vars(Take(c, r)) /\ SF_vars(Admissible(r) /\ Admit(c, r))
  /\ WF_vars(CoolsDown)

FairSpec == Spec /\ Fairness

-----------------------------------------------------------------------------
(* "Lost/expired sends stay unknown and are never reclaimed for automatic    *)
(* resend" (README.md:150 of the package): no drain, recovery or operator     *)
(* reset makes the recipient get a message twice.                            *)
PostedOnce == \A r \in Rows : posts[r] <= 1

(* "A task's later result cannot overtake its unresolved earlier delivery":  *)
(* what the recipient has of a task, it has in order and without gaps,       *)
(* including events not yet projected.                                       *)
InOrder ==
  \A r \in Rows : posts[r] > 0 =>
    \A q \in Rows : q[1] \in Routed(Task(r)) /\ Earlier(q, r) => state[q] = "sent"

(* "Controllers share at most four active sends in the coordinator           *)
(* database", although each asks before it prepares.                         *)
SharedCapacity == Cardinality(InState("dispatching")) <= Capacity

(* Once the outbox has accepted a receipt, no late failure of the attempt,     *)
(* recovery or retry takes it back.                                          *)
SentForGood == [][\A r \in Rows : state[r] = "sent" => state'[r] = "sent"]_vars

(* The oldest message of a task that is not sent.                            *)
Head(r) == state[r] = "pending" /\ ~Prior(r)
Crowded(r) == r \notin Oldest(InState("pending"), Batch)

(* Every message at the head of its task's queue is attempted, or blocked,   *)
(* wherever drains crash, time out or are refused; unless the route is        *)
(* revoked or Batch undeliverable messages come before it.                    *)
HeadsMove == \A r \in Rows : Head(r) ~> (~Head(r) \/ ~Current(r) \/ Crowded(r))
=============================================================================
