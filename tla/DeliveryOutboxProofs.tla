------------------------ MODULE DeliveryOutboxProofs ------------------------
(***************************************************************************)
(* What DeliveryOutbox promises of its messages, for any tasks, events,      *)
(* parts, drains and limits.  The promises about one message hold because    *)
(* the row of a message not attempted, or refused, has no attempt and no      *)
(* request under way (Evidence), and those about their order because rows     *)
(* are projected without gaps (Gapless) and admitted at the head (Ordered).  *)
(***************************************************************************)
EXTENDS DeliveryOutbox, FiniteSetTheorems, TLAPS

Attempted == {"dispatching", "unknown", "sent"}

(* Events are numbered as they happen; only routed events have rows.         *)
EventsClosed == \A e \in ended : \A f \in Events : f < e => f \in ended
RowsRouted   == \A r \in Rows : state[r] # "none" => r[1] \in Routed(Task(r))

(* A projected event has all its rows, or is a blocked placeholder.          *)
Whole ==
  /\ \A e \in unmade : /\ state[<<e, 1>>] = "blocked"
                       /\ \A r \in Parts(e) : r # <<e, 1>> => state[r] = "none"
  /\ \A e \in Events \ unmade : Projected(e) => \A r \in Parts(e) : state[r] # "none"

Gapless ==
  \A e, f \in Events : Projected(e) /\ f < e /\ f \in Routed(TaskOf[e]) => Projected(f)

Structure == EventsClosed /\ RowsRouted /\ Whole /\ Gapless

(* What is on file and on the wire about one message.                        *)
Evidence ==
  \A r \in Rows :
    /\ state[r] \notin Attempted => attempt[r] = None /\ wire[r] \in {"none", "refused"}
    /\ posts[r] = IF wire[r] = "posted" THEN 1 ELSE 0
    /\ r \in observed => wire[r] = "posted"
    /\ state[r] = "sent" => r \in observed

AdmittedUnsent ==
  \A c \in Drains : \A r \in Rows :
    Here(c, r, "admitted") =>
      attempt[r] = c /\ wire[r] \in {"none", "refused"} /\ state[r] \in Attempted

Ordered ==
  \A r \in Rows : state[r] \in Attempted =>
    \A q \in Rows : q[1] \in Routed(Task(r)) /\ Earlier(q, r) => state[q] = "sent"

Counted == IsFiniteSet(InState("dispatching")) /\ SharedCapacity

IInv == TypeOK /\ Structure /\ Evidence /\ AdmittedUnsent /\ Ordered /\ Counted

-----------------------------------------------------------------------------
LEMMA RowShape ==
  ASSUME NEW r \in Rows
  PROVE  r = <<r[1], r[2]>> /\ r[1] \in Events /\ r[2] \in Nat /\ r[2] >= 1 /\ Task(r) \in Tasks
BY OutboxAssumption DEF Rows, Task

LEMMA FirstRow ==
  ASSUME NEW e \in Events
  PROVE  <<e, 1>> \in Rows /\ <<e, 1>> \in Parts(e)
BY OutboxAssumption DEF Rows, Parts

LEMMA InitIInv == Init => IInv
<1>1. Init => InState("dispatching") = {}
  BY DEF Init, InState
<1>2. Init => Counted
  BY <1>1, FS_EmptySet, OutboxAssumption DEF Counted, SharedCapacity
<1>3. ASSUME Init PROVE TypeOK
  <2>1. 0 \in 0 .. MaxRefusals /\ 0 \in 0 .. MaxResets /\ 0 \in 0 .. 2
    BY OutboxAssumption
  <2>2. refusals \in [Rows -> 0 .. MaxRefusals] /\ resets \in 0 .. MaxResets /\ posts \in [Rows -> 0 .. 2]
    BY <1>3, <2>1 DEF Init
  <2>3. drain \in [Drains -> [queue : SUBSET Rows, row : Rows \cup {None},
                           pc : {"idle", "next", "preparing", "admitted", "sending", "observed"}]]
    BY <1>3 DEF Init, Idle
  <2> QED BY <1>3, <2>2, <2>3 DEF Init, TypeOK, RowStates
<1>4. Init => Structure
  BY RowShape DEF Init, Structure, EventsClosed, RowsRouted, Whole, Gapless, Projected, Parts
<1>5. Init => Evidence /\ AdmittedUnsent /\ Ordered
  BY DEF Init, Evidence, AdmittedUnsent, Ordered, Attempted, Here, Idle
<1> QED BY <1>2, <1>3, <1>4, <1>5 DEF IInv

-----------------------------------------------------------------------------
(* Steps that leave the events, routes and placeholders alone, and every      *)
(* row projected or not as it was.                                           *)
LEMMA StructureKept ==
  ASSUME TypeOK, Structure, UNCHANGED <<ended, route, unmade>>,
         state' \in [Rows -> RowStates],
         \A r \in Rows : (state'[r] = "none") = (state[r] = "none"),
         \A e \in unmade : state'[<<e, 1>>] = "blocked"
  PROVE  Structure'
<1>1. \A e \in Events : Projected(e)' = Projected(e)
  BY DEF Projected, Parts
<1>2. \A t \in Tasks : Routed(t)' = Routed(t)
  BY DEF Routed
<1>3. EventsClosed'
  BY DEF Structure, EventsClosed
<1>4. RowsRouted'
  BY <1>2, RowShape DEF Structure, RowsRouted, Task
<1>5. Whole'
  BY <1>1 DEF Structure, Whole, Parts
<1>6. Gapless'
  BY <1>1, <1>2, OutboxAssumption DEF Structure, Gapless
<1> QED BY <1>3, <1>4, <1>5, <1>6 DEF Structure

(* No step takes a message back once it is sent, and none attempts one        *)
(* without its being the head of its task's queue.                           *)
LEMMA OrderedKept ==
  ASSUME TypeOK, Ordered, UNCHANGED <<ended, route>>,
         \A r \in Rows : state[r] = "sent" => state'[r] = "sent",
         \A r \in Rows : state'[r] \in Attempted => state[r] \in Attempted
  PROVE  Ordered'
<1>1. \A t \in Tasks : Routed(t)' = Routed(t)
  BY DEF Routed
<1> QED BY <1>1, RowShape DEF Ordered, Task, Earlier

LEMMA CountedKept ==
  ASSUME Counted, TypeOK, OutboxAssumption,
         \A r \in Rows : state'[r] = "dispatching" => state[r] = "dispatching"
  PROVE  Counted'
<1>1. InState("dispatching")' \in SUBSET InState("dispatching")
  BY DEF InState
<1>2. /\ IsFiniteSet(InState("dispatching")')
      /\ Cardinality(InState("dispatching")') <= Cardinality(InState("dispatching"))
  BY <1>1, FS_Subset DEF Counted
<1>3. /\ Cardinality(InState("dispatching")) \in Nat
      /\ Cardinality(InState("dispatching")') \in Nat
  BY <1>2, FS_CardinalityType DEF Counted
<1> QED BY <1>2, <1>3, OutboxAssumption DEF Counted, SharedCapacity

LEMMA AdmittedKept ==
  ASSUME TypeOK, AdmittedUnsent,
         \A c \in Drains : \A r \in Rows : Here(c, r, "admitted")' =>
           /\ Here(c, r, "admitted")
           /\ attempt'[r] = attempt[r] /\ wire'[r] = wire[r]
           /\ state'[r] \in Attempted
  PROVE  AdmittedUnsent'
BY DEF AdmittedUnsent

-----------------------------------------------------------------------------
(* The kernel's and the operator's steps on events and routes.               *)
LEMMA RoutesMove ==
  ASSUME TypeOK, Structure, Ordered, UNCHANGED outbox, EventsClosed',
         \A r \in Rows : state[r] # "none" => r[1] \in Routed(Task(r))',
         \A r \in Rows : \A f \in Events :
           state[r] # "none" /\ f <= r[1] /\ f \in Routed(Task(r))' => f \in Routed(Task(r))
  PROVE  Structure' /\ Ordered'
<1> USE DEF outbox
<1>1. \A e \in Events : Projected(e)' = Projected(e)
  BY DEF Projected, Parts
<1>2. \A e \in Events : Projected(e) => \E r \in Rows : r[1] = e /\ Task(r) = TaskOf[e] /\ state[r] # "none"
  BY DEF Projected, Parts, Task
<1>3. RowsRouted'
  BY DEF RowsRouted, Task
<1>4. Whole'
  BY <1>1 DEF Structure, Whole, Parts
<1>5. Gapless'
  BY <1>1, <1>2, OutboxAssumption DEF Structure, Gapless
<1>6. Ordered'
  <2> SUFFICES ASSUME NEW r \in Rows, NEW q \in Rows, state[r] \in Attempted,
                      q[1] \in Routed(Task(r))', Earlier(q, r)
               PROVE  state[q] = "sent"
    BY DEF Ordered, Task, Earlier
  <2>1. q[1] \in Events /\ q[1] <= r[1] /\ state[r] # "none"
    BY RowShape, OutboxAssumption DEF Earlier, Attempted
  <2> QED BY <2>1 DEF Ordered
<1> QED BY <1>3, <1>4, <1>5, <1>6 DEF Structure

LEMMA MessagesKept ==
  ASSUME Evidence, AdmittedUnsent, Counted, UNCHANGED <<outbox, drain, wire, posts>>
  PROVE  Evidence' /\ AdmittedUnsent' /\ Counted'
BY DEF Evidence, AdmittedUnsent, Counted, SharedCapacity, InState, Here, outbox

LEMMA TaskEndsInv ==
  ASSUME IInv, NEW e \in Events, TaskEnds(e)
  PROVE  IInv'
<1> USE DEF TaskEnds, IInv
<1>1. TypeOK'
  BY OutboxAssumption DEF TypeOK, outbox
<1>2. EventsClosed'
  BY OutboxAssumption DEF Structure, EventsClosed
<1>3. \A r \in Rows : state[r] # "none" => r[1] \in ended /\ r[1] \in Routed(Task(r))'
  BY DEF Structure, RowsRouted, Routed, Task
<1>4. ASSUME NEW r \in Rows, NEW f \in Events, state[r] # "none", f <= r[1], f \in Routed(Task(r))'
      PROVE  f \in Routed(Task(r))
  <2>1. f # e
    BY <1>3, <1>4, RowShape, OutboxAssumption DEF Structure, EventsClosed
  <2> QED BY <1>4, <2>1 DEF Routed
<1>5. Structure' /\ Ordered'
  BY <1>2, <1>3, <1>4, RoutesMove
<1> QED BY <1>1, <1>5, MessagesKept

LEMMA TaskResumesInv ==
  ASSUME IInv, NEW t \in Tasks, TaskResumes(t)
  PROVE  IInv'
<1> USE DEF TaskResumes, IInv
<1>1. TypeOK'
  BY DEF TypeOK, outbox
<1>2. EventsClosed' /\ \A s \in Tasks : Routed(s)' = Routed(s)
  BY DEF Structure, EventsClosed, Routed
<1>3. Structure' /\ Ordered'
  BY <1>2, RowShape, RoutesMove DEF Structure, RowsRouted
<1> QED BY <1>1, <1>3, MessagesKept

LEMMA BindTaskInv ==
  ASSUME IInv, NEW t \in Tasks, BindTask(t)
  PROVE  IInv'
<1> USE DEF BindTask, IInv
<1>1. TypeOK'
  BY DEF TypeOK, outbox
<1>2. EventsClosed' /\ \A s \in Tasks : Routed(s)' \subseteq Routed(s)
  BY DEF Structure, EventsClosed, Routed, TypeOK
<1>3. \A s \in Tasks : route[s].state # "none" => Routed(s)' = Routed(s)
  BY DEF Routed, TypeOK
<1>4. \A r \in Rows : state[r] # "none" => r[1] \in Routed(Task(r))'
  BY <1>3, RowShape DEF Structure, RowsRouted, Routed
<1>5. Structure' /\ Ordered'
  BY <1>2, <1>4, RowShape, RoutesMove DEF Structure
<1> QED BY <1>1, <1>5, MessagesKept

LEMMA RevokeTaskInv ==
  ASSUME IInv, NEW t \in Tasks, RevokeTask(t)
  PROVE  IInv'
<1> USE DEF RevokeTask, IInv
<1>1. TypeOK'
  BY DEF TypeOK, outbox
<1>2. EventsClosed' /\ \A s \in Tasks : Routed(s)' = Routed(s)
  BY DEF Structure, EventsClosed, Routed, TypeOK
<1>3. Structure' /\ Ordered'
  BY <1>2, RowShape, RoutesMove DEF Structure, RowsRouted
<1> QED BY <1>1, <1>3, MessagesKept

-----------------------------------------------------------------------------
LEMMA DrainInv ==
  ASSUME IInv, NEW c \in Drains, NEW late \in SUBSET InState("dispatching"), DrainLate(c, late)
  PROVE  IInv'
<1> USE DEF IInv
<1>1. PICK failed \in SUBSET Unprojected :
        /\ unmade' = unmade \cup (failed \cap Projectable(failed))
        /\ state' = Recover(AfterProject(failed), late)
        /\ drain' = [drain EXCEPT ![c] =
             [queue |-> Oldest({r \in Rows : state'[r] = "pending"}, Batch), row |-> None, pc |-> "next"]]
  BY DEF DrainLate
<1>2. UNCHANGED <<ended, standing, route, attempt, observed, refusals, cooling, wire, posts, resets>>
  BY DEF DrainLate
<1> DEFINE P == Projectable(failed)
<1>3. /\ P \subseteq Events
      /\ \A e \in P : ~Projected(e) /\ e \in Routed(TaskOf[e]) /\ route[TaskOf[e]].state = "active"
      /\ \A e \in P : \A f \in Unprojected : f <= e => f \in P
  BY OutboxAssumption DEF Projectable, Unprojected
<1>4. \A r \in Rows : r[1] \in P => state[r] = "none"
  BY <1>3 DEF Projected, Parts
<1>5. /\ state' \in [Rows -> RowStates]
      /\ \A r \in Rows : r[1] \notin P => state'[r] = IF r \in late THEN "unknown" ELSE state[r]
      /\ \A r \in Rows : r[1] \in P => state'[r] = IF r[1] \notin failed THEN "pending"
                                               ELSE IF r[2] = 1 THEN "blocked" ELSE "none"
  <2>1. \A r \in Rows : r[1] \in P => r \notin late
    BY <1>4 DEF InState
  <2> QED BY <1>1, <2>1 DEF Recover, AfterProject, TypeOK, RowStates
<1>6. unmade' = unmade \cup (failed \cap P)
  BY <1>1
<1>7. \A r \in late : r \in Rows /\ state[r] = "dispatching"
  BY DEF InState
<1> HIDE DEF P
<1>8. TypeOK'
  <2>1. drain' \in [Drains -> [queue : SUBSET Rows, row : Rows \cup {None},
                           pc : {"idle", "next", "preparing", "admitted", "sending", "observed"}]]
    BY <1>1 DEF Oldest, TypeOK
  <2>2. unmade' \subseteq Events
    BY <1>3, <1>6 DEF TypeOK
  <2> QED BY <1>2, <1>5, <2>1, <2>2 DEF TypeOK
<1>9. \A e \in Events : Projected(e) => e \notin P /\ Projected(e)'
  BY <1>3, <1>5, <1>7 DEF Projected, Parts
<1>10. \A e \in Events : e \notin P /\ Projected(e)' => Projected(e)
  BY <1>5, <1>7 DEF Projected, Parts
<1>11. \A e \in P : Projected(e)'
  <2> SUFFICES ASSUME NEW e \in P PROVE state'[<<e, 1>>] # "none"
    BY <1>3, FirstRow DEF Projected, Parts
  <2>1. <<e, 1>> \in Rows /\ <<e, 1>>[1] \in P /\ <<e, 1>>[2] = 1
    BY <1>3, FirstRow
  <2> QED BY <1>5, <2>1
<1>12. EventsClosed' /\ \A t \in Tasks : Routed(t)' = Routed(t)
  BY <1>2 DEF Structure, EventsClosed, Routed
<1>13. RowsRouted'
  <2> SUFFICES ASSUME NEW r \in Rows, state'[r] # "none" PROVE r[1] \in Routed(Task(r))
    BY <1>12, RowShape DEF RowsRouted, Task
  <2>1. CASE r[1] \in P
    BY <2>1, <1>3 DEF Task
  <2>2. CASE r[1] \notin P
    BY <2>2, <1>5, <1>7 DEF Structure, RowsRouted
  <2> QED BY <2>1, <2>2
<1>14. Whole'
  <2>1. ASSUME NEW e \in unmade
        PROVE  /\ state'[<<e, 1>>] = "blocked"
               /\ \A r \in Parts(e) : r # <<e, 1>> => state'[r] = "none"
    <3>1. e \in Events /\ <<e, 1>> \in Parts(e) /\ state[<<e, 1>>] = "blocked"
      BY FirstRow DEF TypeOK, Structure, Whole
    <3>2. e \notin P
      BY <1>9, <3>1 DEF Projected
    <3> QED BY <1>5, <1>7, <3>1, <3>2 DEF Structure, Whole, Parts
  <2>2. ASSUME NEW e \in failed \cap P
        PROVE  /\ state'[<<e, 1>>] = "blocked"
               /\ \A r \in Parts(e) : r # <<e, 1>> => state'[r] = "none"
    BY <1>3, <1>5, FirstRow, RowShape DEF Parts
  <2>3. ASSUME NEW e \in Events \ unmade', Projected(e)', NEW r \in Parts(e)
        PROVE  state'[r] # "none"
    <3>1. CASE e \in P
      BY <2>3, <3>1, <1>5, <1>6 DEF Parts
    <3>2. CASE e \notin P
      <4>1. state[r] # "none"
        BY <2>3, <3>2, <1>6, <1>10 DEF Structure, Whole
      <4> QED BY <4>1, <2>3, <3>2, <1>5, <1>7 DEF Parts
    <3> QED BY <3>1, <3>2
  <2> QED BY <1>6, <2>1, <2>2, <2>3 DEF Whole, Parts
<1>15. Gapless'
  <2> SUFFICES ASSUME NEW e \in Events, NEW f \in Events, Projected(e)', f < e, f \in Routed(TaskOf[e])
               PROVE  Projected(f)'
    BY <1>12, OutboxAssumption DEF Gapless
  <2>1. CASE e \notin P
    BY <2>1, <1>9, <1>10 DEF Structure, Gapless
  <2>2. CASE e \in P
    <3>1. ~Projected(f) => f \in Unprojected
      BY <2>2, <1>3 DEF Unprojected, Routed
    <3>2. f <= e
      BY OutboxAssumption
    <3> QED BY <2>2, <3>1, <3>2, <1>3, <1>9, <1>11
  <2> QED BY <2>1, <2>2
<1>16. \A r \in Rows : /\ state[r] \in Attempted => state'[r] \in Attempted
                       /\ state'[r] \in Attempted => state[r] \in Attempted
                       /\ state[r] = "sent" <=> state'[r] = "sent"
                       /\ state'[r] = "dispatching" => state[r] = "dispatching"
  BY <1>4, <1>5, <1>7 DEF Attempted
<1>17. Evidence'
  BY <1>2, <1>16 DEF Evidence
<1>18. Ordered'
  BY <1>2, <1>16, OrderedKept
<1>19. Counted'
  BY <1>16, CountedKept, OutboxAssumption
<1>20. AdmittedUnsent'
  <2>1. \A d \in Drains : \A r \in Rows : Here(d, r, "admitted")' => Here(d, r, "admitted")
    BY <1>1 DEF Here, TypeOK
  <2> QED BY <1>2, <1>16, <2>1, AdmittedKept DEF AdmittedUnsent
<1> QED BY <1>8, <1>12, <1>13, <1>14, <1>15, <1>17, <1>18, <1>19, <1>20 DEF Structure

-----------------------------------------------------------------------------
(* A row goes from one state to another one by one: what follows whatever    *)
(* drain or operator does it.                                                *)
LEMMA RowSettles ==
  ASSUME IInv, NEW r \in Rows, NEW s \in RowStates \ {"none"}, Settles(r, s),
         UNCHANGED <<ended, route, unmade>>,
         state[r] # "none",
         r[1] \notin unmade \/ s = state[r],
         state[r] = "sent" => s = "sent",
         s \in Attempted => state[r] \in Attempted,
         s = "dispatching" => state[r] = "dispatching"
  PROVE  Structure' /\ Ordered' /\ Counted' /\ state' \in [Rows -> RowStates]
<1> USE DEF IInv
<1>1. /\ state' \in [Rows -> RowStates]
      /\ \A q \in Rows : state'[q] = IF q = r THEN s ELSE state[q]
  BY DEF Settles, TypeOK
<1>2. \A e \in unmade : state'[<<e, 1>>] = "blocked"
  <2> SUFFICES ASSUME NEW e \in unmade PROVE state'[<<e, 1>>] = "blocked"
    OBVIOUS
  <2>1. <<e, 1>> \in Rows /\ state[<<e, 1>>] = "blocked" /\ <<e, 1>>[1] = e
    BY FirstRow DEF TypeOK, Structure, Whole
  <2> QED BY <1>1, <2>1
<1>3. Structure'
  BY <1>1, <1>2, StructureKept
<1>4. Ordered'
  BY <1>1, OrderedKept
<1>5. Counted'
  BY <1>1, CountedKept, OutboxAssumption
<1> QED BY <1>1, <1>3, <1>4, <1>5

(* A row some drain has attempted or is to attempt is no placeholder.        *)
LEMMA PlaceholdersWait ==
  ASSUME IInv, NEW r \in Rows, state[r] \notin {"none", "blocked"}
  PROVE  r[1] \notin unmade
<1> SUFFICES ASSUME r[1] \in unmade PROVE FALSE
  OBVIOUS
<1>1. r \in Parts(r[1])
  BY DEF Parts
<1> QED BY <1>1 DEF IInv, Structure, Whole

LEMMA TakeInv ==
  ASSUME IInv, NEW c \in Drains, NEW r \in Rows, Take(c, r)
  PROVE  IInv'
<1> USE DEF IInv
<1>1. UNCHANGED <<ended, standing, route, outbox, cooling, wire, posts, resets>>
  BY DEF Take
<1>2. \E d \in [queue : SUBSET Rows, row : Rows \cup {None},
               pc : {"idle", "next", "preparing", "admitted", "sending", "observed"}] :
        d.pc # "admitted" /\ drain' = [drain EXCEPT ![c] = d]
  BY DEF Take, TypeOK
<1>3. TypeOK'
  BY <1>1, <1>2 DEF TypeOK, outbox
<1>4. Structure'
  BY <1>1 DEF outbox, Structure, EventsClosed, RowsRouted, Whole, Gapless, Projected, Parts, Routed, Task
<1>5. Ordered' /\ Evidence' /\ Counted'
  BY <1>1 DEF outbox, Ordered, Evidence, Counted, SharedCapacity, InState, Routed, Task
<1>6. \A d \in Drains : \A q \in Rows : Here(d, q, "admitted")' => Here(d, q, "admitted")
  BY <1>2 DEF Here, TypeOK
<1>7. AdmittedUnsent'
  BY <1>1, <1>6 DEF AdmittedUnsent, outbox
<1> QED BY <1>3, <1>4, <1>5, <1>7

LEMMA AdmitInv ==
  ASSUME IInv, NEW c \in Drains, NEW r \in Rows, Admit(c, r)
  PROVE  IInv'
<1> USE DEF IInv
<1>1. UNCHANGED <<ended, standing, route, observed, refusals, unmade, cooling, wire, posts, resets>>
  BY DEF Admit
<1>2. CASE ~Admissible(r)
  <2>1. drain' = Done(c) /\ UNCHANGED <<state, attempt>>
    BY <1>2 DEF Admit
  <2>2. TypeOK'
    BY <1>1, <2>1 DEF TypeOK, Done
  <2>3. Structure' /\ Ordered' /\ Evidence' /\ Counted'
    BY <1>1, <2>1 DEF Structure, EventsClosed, RowsRouted, Whole, Gapless, Projected, Parts, Routed, Task,
                      Ordered, Evidence, Counted, SharedCapacity, InState
  <2>4. \A d \in Drains : \A q \in Rows : Here(d, q, "admitted")' => Here(d, q, "admitted")
    BY <2>1 DEF Here, TypeOK, Done
  <2>5. AdmittedUnsent'
    BY <1>1, <2>1, <2>4 DEF AdmittedUnsent
  <2> QED BY <2>2, <2>3, <2>5
<1>3. CASE Admissible(r)
  <2>1. /\ state[r] = "pending" /\ ~Prior(r) /\ HasCapacity
        /\ \A q \in Rows : state'[q] = IF q = r THEN "dispatching" ELSE state[q]
        /\ \A q \in Rows : attempt'[q] = IF q = r THEN c ELSE attempt[q]
        /\ state' \in [Rows -> RowStates] /\ attempt' \in [Rows -> Drains \cup {None}]
        /\ drain' = At(c, "admitted")
    BY <1>3 DEF Admit, Admissible, Settles, TypeOK, RowStates
  <2>2. TypeOK'
    BY <1>1, <2>1 DEF TypeOK, At
  <2>3. r[1] \notin unmade
    BY <2>1, PlaceholdersWait
  <2>4. Structure'
    <3>1. \A e \in unmade : state'[<<e, 1>>] = "blocked"
      <4> SUFFICES ASSUME NEW e \in unmade PROVE state'[<<e, 1>>] = "blocked"
        OBVIOUS
      <4>1. <<e, 1>> \in Rows /\ state[<<e, 1>>] = "blocked" /\ <<e, 1>>[1] = e
        BY FirstRow DEF TypeOK, Structure, Whole
      <4> QED BY <2>1, <4>1
    <3> QED BY <1>1, <2>1, <3>1, StructureKept
  <2>5. \A t \in Tasks : Routed(t)' = Routed(t)
    BY <1>1 DEF Routed
  <2>6. ASSUME NEW q \in Rows, q[1] \in Routed(Task(r)), Earlier(q, r)
        PROVE  state[q] = "sent"
    <3>1. Task(q) = Task(r) /\ q[1] \in Events /\ r[1] \in Events /\ q \in Parts(q[1]) /\ r \in Parts(r[1])
      BY <2>6, RowShape DEF Routed, Task, Parts
    <3>2. state[q] \in {"none", "sent"}
      BY <2>1, <2>6, <3>1 DEF Prior
    <3>3. Projected(r[1])
      BY <2>1, <3>1 DEF Projected
    <3>4. Projected(q[1])
      <4>1. CASE q[1] = r[1]
        BY <3>3, <4>1
      <4>2. CASE q[1] < r[1]
        BY <2>6, <3>1, <3>3, <4>2 DEF Structure, Gapless, Task
      <4> QED BY <2>6, <4>1, <4>2 DEF Earlier
    <3>5. q[1] \notin unmade
      <4> SUFFICES ASSUME q[1] \in unmade PROVE FALSE
        OBVIOUS
      <4>1. <<q[1], 1>> \in Rows /\ state[<<q[1], 1>>] = "blocked" /\ q[1] < r[1]
        BY <2>3, <2>6, <3>1, FirstRow DEF Structure, Whole, Earlier
      <4>2. Earlier(<<q[1], 1>>, r) /\ Task(<<q[1], 1>>) = Task(r)
        BY <3>1, <4>1 DEF Earlier, Task
      <4> QED BY <2>1, <4>1, <4>2 DEF Prior
    <3> QED BY <3>1, <3>2, <3>4, <3>5 DEF Structure, Whole
  <2>7. Ordered'
    <3> SUFFICES ASSUME NEW p \in Rows, state'[p] \in Attempted, NEW q \in Rows,
                        q[1] \in Routed(Task(p)), Earlier(q, p)
                 PROVE  state'[q] = "sent"
      BY <2>5, RowShape DEF Ordered, Task, Earlier
    <3>1. CASE p = r
      BY <2>1, <2>6, <3>1
    <3>2. CASE p # r
      BY <2>1, <3>2 DEF Ordered
    <3> QED BY <3>1, <3>2
  <2>8. Counted'
    <3>1. InState("dispatching")' = InState("dispatching") \cup {r} /\ r \notin InState("dispatching")
      BY <2>1 DEF InState
    <3>2. /\ IsFiniteSet(InState("dispatching")')
          /\ Cardinality(InState("dispatching")') = Cardinality(InState("dispatching")) + 1
      BY <3>1, FS_AddElement DEF Counted
    <3>3. Cardinality(InState("dispatching")) \in Nat
      BY FS_CardinalityType DEF Counted
    <3> QED BY <2>1, <3>2, <3>3, OutboxAssumption DEF Counted, SharedCapacity, HasCapacity
  <2>9. Evidence'
    <3> SUFFICES ASSUME NEW q \in Rows
                 PROVE  /\ state'[q] \notin Attempted => attempt'[q] = None /\ wire[q] \in {"none", "refused"}
                        /\ state'[q] = "sent" => q \in observed
      BY <1>1 DEF Evidence
    <3> QED BY <2>1 DEF Evidence, Attempted
  <2>10. AdmittedUnsent'
    <3> SUFFICES ASSUME NEW d \in Drains, NEW q \in Rows, Here(d, q, "admitted")'
                 PROVE  attempt'[q] = d /\ wire[q] \in {"none", "refused"} /\ state'[q] \in Attempted
      BY <1>1 DEF AdmittedUnsent
    <3>1. CASE d = c
      <4>1. q = r
        BY <2>1, <3>1 DEF Admit, Here, At, TypeOK
      <4> QED BY <2>1, <3>1, <4>1 DEF Evidence, Attempted
    <3>2. CASE d # c
      <4>1. Here(d, q, "admitted")
        BY <2>1, <3>2 DEF Here, At, TypeOK
      <4>2. q # r
        BY <2>1, <4>1 DEF AdmittedUnsent, Attempted
      <4> QED BY <2>1, <4>1, <4>2 DEF AdmittedUnsent
    <3> QED BY <3>1, <3>2
  <2> QED BY <2>2, <2>4, <2>7, <2>8, <2>9, <2>10
<1> QED BY <1>2, <1>3

-----------------------------------------------------------------------------
LEMMA FilesKept ==
  ASSUME IInv, UNCHANGED <<ended, route, outbox>>
  PROVE  Structure' /\ Ordered' /\ Counted'
BY DEF IInv, outbox, Structure, EventsClosed, RowsRouted, Whole, Gapless, Projected, Parts, Routed, Task,
       Ordered, Counted, SharedCapacity, InState

(* After its drain moves on, a row is no longer about to be sent by it.       *)
LEMMA DrainMoves ==
  ASSUME TypeOK, NEW c \in Drains, NEW r \in Rows,
         drain' = Done(c) \/ drain' = [drain EXCEPT ![c] = Idle]
           \/ drain' = At(c, "sending") \/ drain' = At(c, "observed")
  PROVE  /\ drain' \in [Drains -> [queue : SUBSET Rows, row : Rows \cup {None},
                           pc : {"idle", "next", "preparing", "admitted", "sending", "observed"}]]
         /\ \A d \in Drains : \A q \in Rows :
              Here(d, q, "admitted")' => Here(d, q, "admitted") /\ d # c
<1>1. \E d \in [queue : SUBSET Rows, row : Rows \cup {None},
               pc : {"idle", "next", "preparing", "admitted", "sending", "observed"}] :
        d.pc # "admitted" /\ drain' = [drain EXCEPT ![c] = d]
  <2>1. CASE drain' = Done(c)
    <3>1. [drain[c] EXCEPT !.row = None, !.pc = "next"] \in
            [queue : SUBSET Rows, row : Rows \cup {None},
             pc : {"idle", "next", "preparing", "admitted", "sending", "observed"}]
      BY DEF TypeOK
    <3>2. [drain[c] EXCEPT !.row = None, !.pc = "next"].pc # "admitted"
      BY DEF TypeOK
    <3>3. drain' = [drain EXCEPT ![c] = [drain[c] EXCEPT !.row = None, !.pc = "next"]]
      BY <2>1 DEF Done, TypeOK
    <3> QED BY <3>1, <3>2, <3>3
  <2>2. CASE drain' = [drain EXCEPT ![c] = Idle]
    BY <2>2 DEF Idle
  <2>3. CASE drain' = At(c, "sending")
    <3>1. [drain[c] EXCEPT !.pc = "sending"] \in
            [queue : SUBSET Rows, row : Rows \cup {None},
             pc : {"idle", "next", "preparing", "admitted", "sending", "observed"}]
      BY DEF TypeOK
    <3>2. [drain[c] EXCEPT !.pc = "sending"].pc # "admitted"
      BY DEF TypeOK
    <3>3. drain' = [drain EXCEPT ![c] = [drain[c] EXCEPT !.pc = "sending"]]
      BY <2>3 DEF At, TypeOK
    <3> QED BY <3>1, <3>2, <3>3
  <2>4. CASE drain' = At(c, "observed")
    <3>1. [drain[c] EXCEPT !.pc = "observed"] \in
            [queue : SUBSET Rows, row : Rows \cup {None},
             pc : {"idle", "next", "preparing", "admitted", "sending", "observed"}]
      BY DEF TypeOK
    <3>2. [drain[c] EXCEPT !.pc = "observed"].pc # "admitted"
      BY DEF TypeOK
    <3>3. drain' = [drain EXCEPT ![c] = [drain[c] EXCEPT !.pc = "observed"]]
      BY <2>4 DEF At, TypeOK
    <3> QED BY <3>1, <3>2, <3>3
  <2> QED BY <2>1, <2>2, <2>3, <2>4
<1> QED BY <1>1 DEF TypeOK, Here

LEMMA FailsInv ==
  ASSUME IInv, NEW c \in Drains, NEW r \in Rows, Fails(c, r)
  PROVE  IInv'
<1> USE DEF IInv
<1>1. UNCHANGED <<ended, standing, route, attempt, observed, refusals, unmade, cooling, wire, posts, resets>>
  BY DEF Fails
<1>2. drain' = Done(c)
  BY DEF Fails
<1>3. CASE state[r] # "pending"
  <2>1. UNCHANGED state
    BY <1>3 DEF Fails, Settles, TypeOK
  <2>2. TypeOK'
    BY <1>1, <1>2, <2>1, DrainMoves DEF TypeOK
  <2>3. Evidence' /\ Structure' /\ Ordered' /\ Counted'
    BY <1>1, <2>1, FilesKept DEF Evidence, outbox
  <2>4. AdmittedUnsent'
    BY <1>1, <1>2, <2>1, DrainMoves DEF AdmittedUnsent
  <2> QED BY <2>2, <2>3, <2>4
<1>4. CASE state[r] = "pending"
  <2>1. Settles(r, "blocked") /\ r[1] \notin unmade
    BY <1>4, PlaceholdersWait DEF Fails
  <2>2. Structure' /\ Ordered' /\ Counted' /\ state' \in [Rows -> RowStates]
    BY <1>1, <1>4, <2>1, RowSettles DEF Attempted, RowStates
  <2>3. TypeOK'
    BY <1>1, <1>2, <2>2, DrainMoves DEF TypeOK
  <2>4. \A q \in Rows : state'[q] = IF q = r THEN "blocked" ELSE state[q]
    BY <2>1 DEF Settles, TypeOK
  <2>5. Evidence'
    BY <1>1, <1>4, <2>4 DEF Evidence, Attempted
  <2>6. AdmittedUnsent'
    BY <1>1, <1>2, <1>4, <2>4, DrainMoves DEF AdmittedUnsent, Attempted
  <2> QED BY <2>2, <2>3, <2>5, <2>6
<1> QED BY <1>3, <1>4

LEMMA SendInv ==
  ASSUME IInv, NEW c \in Drains, NEW r \in Rows, Send(c, r)
  PROVE  IInv'
<1> USE DEF IInv
<1>1. /\ UNCHANGED <<ended, standing, route, outbox, cooling, posts, resets>>
      /\ drain' = At(c, "sending")
      /\ wire' = [wire EXCEPT ![r] = "flying"]
  BY DEF Send
<1>2. attempt[r] = c /\ wire[r] \in {"none", "refused"} /\ state[r] \in Attempted
  BY DEF Send, AdmittedUnsent
<1>3. TypeOK'
  BY <1>1, DrainMoves DEF TypeOK, outbox
<1>4. Structure' /\ Ordered' /\ Counted'
  BY <1>1, FilesKept
<1>5. \A q \in Rows : wire'[q] = IF q = r THEN "flying" ELSE wire[q]
  BY <1>1 DEF TypeOK
<1>6. Evidence'
  BY <1>1, <1>2, <1>5 DEF Evidence, outbox
<1>7. AdmittedUnsent'
  BY <1>1, <1>2, <1>5, DrainMoves DEF AdmittedUnsent, outbox
<1> QED BY <1>3, <1>4, <1>6, <1>7

LEMMA TransportInv ==
  ASSUME IInv, NEW r \in Rows, Arrives(r) \/ IsRefused(r)
  PROVE  IInv'
<1> USE DEF IInv
<1>1. UNCHANGED <<ended, standing, route, outbox, cooling, drain, resets>> /\ wire[r] = "flying"
  BY DEF Arrives, IsRefused
<1>2. posts[r] = 0 /\ state[r] \in Attempted /\ r \notin observed
  BY <1>1 DEF Evidence
<1>3. PICK w \in {"posted", "refused"} :
        /\ wire' = [wire EXCEPT ![r] = w]
        /\ posts' = IF w = "posted" THEN [posts EXCEPT ![r] = 1] ELSE posts
  <2>1. CASE Arrives(r)
    BY <1>2, <2>1 DEF Arrives, TypeOK
  <2>2. CASE IsRefused(r)
    BY <2>2 DEF IsRefused
  <2> QED BY <2>1, <2>2
<1>4. /\ \A q \in Rows : wire'[q] = IF q = r THEN w ELSE wire[q]
      /\ \A q \in Rows : posts'[q] = IF q = r /\ w = "posted" THEN 1 ELSE posts[q]
      /\ posts' \in [Rows -> 0 .. 2] /\ wire' \in [Rows -> {"none", "flying", "posted", "refused"}]
  BY <1>3 DEF TypeOK
<1>5. TypeOK'
  BY <1>1, <1>4 DEF TypeOK, outbox
<1>6. Structure' /\ Ordered' /\ Counted'
  BY <1>1, FilesKept
<1>7. Evidence'
  BY <1>1, <1>2, <1>4 DEF Evidence, outbox
<1>8. AdmittedUnsent'
  BY <1>1, <1>4 DEF AdmittedUnsent, outbox, Here
<1> QED BY <1>5, <1>6, <1>7, <1>8

LEMMA ObserveInv ==
  ASSUME IInv, NEW c \in Drains, NEW r \in Rows, Observe(c, r)
  PROVE  IInv'
<1> USE DEF IInv
<1>1. /\ UNCHANGED <<ended, standing, route, state, attempt, refusals, unmade, cooling, wire, posts, resets>>
      /\ drain' = At(c, "observed")
      /\ wire[r] = "posted"
      /\ observed \subseteq observed' /\ observed' \subseteq observed \cup {r}
  BY DEF Observe
<1>2. TypeOK'
  BY <1>1, DrainMoves DEF TypeOK
<1>3. Structure' /\ Ordered' /\ Counted'
  BY <1>1 DEF Structure, EventsClosed, RowsRouted, Whole, Gapless, Projected, Parts, Routed, Task,
              Ordered, Counted, SharedCapacity, InState
<1>4. Evidence'
  BY <1>1 DEF Evidence
<1>5. AdmittedUnsent'
  BY <1>1, DrainMoves DEF AdmittedUnsent
<1> QED BY <1>2, <1>3, <1>4, <1>5

LEMMA AcceptInv ==
  ASSUME IInv, NEW r \in Rows, Accepts(r),
         UNCHANGED <<ended, standing, route, attempt, observed, refusals, unmade, cooling, wire, posts, resets>>,
         UNCHANGED drain \/ \E c \in Drains : drain' = Done(c)
  PROVE  IInv'
<1> USE DEF IInv
<1>1. Settles(r, "sent") /\ r \in observed /\ state[r] \in Attempted /\ wire[r] = "posted"
  BY DEF Accepts, Evidence, Attempted
<1>2. r[1] \notin unmade
  BY <1>1, PlaceholdersWait DEF Attempted
<1>3. Structure' /\ Ordered' /\ Counted' /\ state' \in [Rows -> RowStates]
  BY <1>1, <1>2, RowSettles DEF Attempted, RowStates
<1>4. /\ drain' \in [Drains -> [queue : SUBSET Rows, row : Rows \cup {None},
                           pc : {"idle", "next", "preparing", "admitted", "sending", "observed"}]]
      /\ \A d \in Drains : \A q \in Rows : Here(d, q, "admitted")' => Here(d, q, "admitted")
  <2>1. CASE UNCHANGED drain
    BY <2>1 DEF TypeOK, Here
  <2>2. CASE \E c \in Drains : drain' = Done(c)
    BY <2>2, DrainMoves
  <2> QED BY <2>1, <2>2
<1>5. TypeOK'
  BY <1>3, <1>4 DEF TypeOK
<1>6. \A q \in Rows : state'[q] = IF q = r THEN "sent" ELSE state[q]
  BY <1>1 DEF Settles, TypeOK
<1>7. Evidence'
  BY <1>1, <1>6 DEF Evidence, Attempted
<1>8. AdmittedUnsent'
  BY <1>1, <1>4, <1>6 DEF AdmittedUnsent, Attempted
<1> QED BY <1>3, <1>5, <1>7, <1>8

LEMMA HandleRefusalInv ==
  ASSUME IInv, NEW c \in Drains, NEW r \in Rows, HandleRefusal(c, r)
  PROVE  IInv'
<1> USE DEF IInv
<1>1. UNCHANGED <<ended, standing, route, observed, unmade, wire, posts, resets>> /\ wire[r] = "refused"
  BY DEF HandleRefusal
<1>2. CASE ~RetryAfter(c, r)
  <2>1. drain' = [drain EXCEPT ![c] = Idle] /\ UNCHANGED <<state, attempt, refusals, cooling>>
    BY <1>2 DEF HandleRefusal
  <2>2. TypeOK'
    BY <1>1, <2>1, DrainMoves DEF TypeOK
  <2>3. Structure' /\ Ordered' /\ Counted' /\ Evidence'
    BY <1>1, <2>1, FilesKept DEF Evidence, outbox
  <2>4. AdmittedUnsent'
    BY <1>1, <2>1, DrainMoves DEF AdmittedUnsent
  <2> QED BY <2>2, <2>3, <2>4
<1>3. CASE RetryAfter(c, r)
  <2>1. /\ attempt[r] = c /\ state[r] = "dispatching" /\ r \notin observed
        /\ attempt' = [attempt EXCEPT ![r] = None]
        /\ cooling' = TRUE /\ drain' = Done(c)
    BY <1>3 DEF RetryAfter, HandleRefusal
  <2>2. PICK n \in 0 .. MaxRefusals : refusals' = [refusals EXCEPT ![r] = n]
    BY <1>3, OutboxAssumption DEF HandleRefusal, TypeOK
  <2>3. PICK s \in {"pending", "blocked"} : Settles(r, s)
    BY <1>3 DEF HandleRefusal
  <2>4. r[1] \notin unmade
    BY <2>1, PlaceholdersWait
  <2>5. Structure' /\ Ordered' /\ Counted' /\ state' \in [Rows -> RowStates]
    BY <1>1, <2>1, <2>3, <2>4, RowSettles DEF Attempted, RowStates
  <2>6. TypeOK'
    BY <1>1, <2>1, <2>2, <2>5, DrainMoves DEF TypeOK
  <2>7. /\ \A q \in Rows : state'[q] = IF q = r THEN s ELSE state[q]
        /\ \A q \in Rows : attempt'[q] = IF q = r THEN None ELSE attempt[q]
    BY <2>1, <2>3 DEF Settles, TypeOK
  <2>8. Evidence'
    BY <1>1, <2>1, <2>7 DEF Evidence, Attempted
  <2>9. AdmittedUnsent'
    BY <1>1, <2>1, <2>7, DrainMoves DEF AdmittedUnsent
  <2> QED BY <2>5, <2>6, <2>8, <2>9
<1> QED BY <1>2, <1>3

LEMMA AttemptFailsInv ==
  ASSUME IInv, NEW c \in Drains, NEW r \in Rows, AttemptFails(c, r)
  PROVE  IInv'
<1> USE DEF IInv
<1>1. /\ UNCHANGED <<ended, standing, route, attempt, observed, refusals, unmade, cooling, wire, posts, resets>>
      /\ drain' = Done(c)
      /\ Settles(r, GivenUp(c, r))
  BY DEF AttemptFails
<1>2. CASE GivenUp(c, r) = state[r]
  <2>1. UNCHANGED state
    BY <1>1, <1>2 DEF Settles, TypeOK
  <2>2. TypeOK'
    BY <1>1, <2>1, DrainMoves DEF TypeOK
  <2>3. Structure' /\ Ordered' /\ Counted' /\ Evidence'
    BY <1>1, <2>1, FilesKept DEF Evidence, outbox
  <2>4. AdmittedUnsent'
    BY <1>1, <2>1, DrainMoves DEF AdmittedUnsent
  <2> QED BY <2>2, <2>3, <2>4
<1>3. CASE GivenUp(c, r) # state[r]
  <2>1. Settles(r, "unknown") /\ state[r] = "dispatching"
    BY <1>1, <1>3 DEF GivenUp
  <2>2. r[1] \notin unmade
    BY <2>1, PlaceholdersWait
  <2>3. Structure' /\ Ordered' /\ Counted' /\ state' \in [Rows -> RowStates]
    BY <1>1, <2>1, <2>2, RowSettles DEF Attempted, RowStates
  <2>4. TypeOK'
    BY <1>1, <2>3, DrainMoves DEF TypeOK
  <2>5. \A q \in Rows : state'[q] = IF q = r THEN "unknown" ELSE state[q]
    BY <2>1 DEF Settles, TypeOK
  <2>6. Evidence'
    BY <1>1, <2>1, <2>5 DEF Evidence, Attempted
  <2>7. AdmittedUnsent'
    BY <1>1, <2>5, DrainMoves DEF AdmittedUnsent, Attempted
  <2> QED BY <2>3, <2>4, <2>6, <2>7
<1> QED BY <1>2, <1>3

LEMMA CoolsDownInv ==
  ASSUME IInv, CoolsDown
  PROVE  IInv'
<1>1. TypeOK'
  BY DEF CoolsDown, TypeOK, IInv, outbox
<1> QED BY <1>1, FilesKept, MessagesKept DEF CoolsDown, IInv

LEMMA RetryBlockedInv ==
  ASSUME IInv, NEW r \in Rows, RetryBlocked(r)
  PROVE  IInv'
<1> USE DEF IInv
<1>1. /\ UNCHANGED <<ended, standing, route, attempt, observed, refusals, cooling, drain, wire, posts>>
      /\ state[r] = "blocked" /\ resets' = resets + 1 /\ resets < MaxResets
  BY DEF RetryBlocked, RetrySafe
<1>2. resets' \in 0 .. MaxResets
  BY <1>1, OutboxAssumption DEF TypeOK
<1>3. CASE r[1] \notin unmade
  <2>1. Settles(r, "pending") /\ UNCHANGED unmade
    BY <1>3 DEF RetryBlocked
  <2>2. Structure' /\ Ordered' /\ Counted' /\ state' \in [Rows -> RowStates]
    BY <1>1, <1>3, <2>1, RowSettles DEF Attempted, RowStates
  <2>3. TypeOK'
    BY <1>1, <1>2, <2>1, <2>2 DEF TypeOK
  <2>4. \A q \in Rows : state'[q] = IF q = r THEN "pending" ELSE state[q]
    BY <2>1 DEF Settles, TypeOK
  <2>5. Evidence'
    BY <1>1, <2>4 DEF Evidence, Attempted
  <2>6. AdmittedUnsent'
    BY <1>1, <2>4 DEF AdmittedUnsent, Attempted, Here
  <2> QED BY <2>2, <2>3, <2>5, <2>6
<1>4. CASE r[1] \in unmade
  <2>1. /\ unmade' = unmade \ {r[1]}
        /\ state' = [q \in Rows |-> IF q[1] = r[1] THEN "pending" ELSE state[q]]
    BY <1>4 DEF RetryBlocked
  <2>2. \A q \in Rows : q[1] = r[1] => state[q] \in {"none", "blocked"}
    BY <1>4 DEF Structure, Whole, Parts
  <2>3. /\ state' \in [Rows -> RowStates]
        /\ \A q \in Rows : state'[q] = IF q[1] = r[1] THEN "pending" ELSE state[q]
    BY <2>1 DEF TypeOK, RowStates
  <2>4. TypeOK'
    BY <1>1, <1>2, <2>1, <2>3 DEF TypeOK
  <2>5. \A e \in Events : Projected(e)' = Projected(e)
    BY <1>1, <2>3 DEF Projected, Parts
  <2>6. \A t \in Tasks : Routed(t)' = Routed(t)
    BY <1>1 DEF Routed
  <2>7. EventsClosed'
    BY <1>1 DEF Structure, EventsClosed
  <2>8. RowsRouted'
    <3> SUFFICES ASSUME NEW q \in Rows, state'[q] # "none" PROVE q[1] \in Routed(Task(q))
      BY <2>6, RowShape DEF RowsRouted, Task
    <3>1. CASE q[1] = r[1]
      BY <1>1, <3>1 DEF Structure, RowsRouted, Task
    <3>2. CASE q[1] # r[1]
      BY <2>3, <3>2 DEF Structure, RowsRouted
    <3> QED BY <3>1, <3>2
  <2>9. Whole'
    <3>1. ASSUME NEW e \in unmade'
          PROVE  /\ state'[<<e, 1>>] = "blocked"
                 /\ \A q \in Parts(e) : q # <<e, 1>> => state'[q] = "none"
      <4>1. e \in unmade /\ e # r[1] /\ <<e, 1>> \in Rows /\ <<e, 1>>[1] = e
        BY <2>1, FirstRow DEF TypeOK
      <4> QED BY <2>3, <4>1 DEF Structure, Whole, Parts
    <3>2. ASSUME NEW e \in Events \ unmade', Projected(e)', NEW q \in Parts(e)
          PROVE  state'[q] # "none"
      BY <2>1, <2>3, <2>5, <3>2 DEF Structure, Whole, Parts
    <3> QED BY <3>1, <3>2 DEF Whole, Parts
  <2>10. Gapless'
    BY <2>5, <2>6, OutboxAssumption DEF Structure, Gapless
  <2>11. \A q \in Rows :
           /\ state[q] \in Attempted => state'[q] \in Attempted
           /\ state'[q] \in Attempted => state[q] \in Attempted
           /\ state[q] = "sent" <=> state'[q] = "sent"
           /\ state'[q] = "dispatching" => state[q] = "dispatching"
    BY <2>2, <2>3 DEF Attempted
  <2>12. Ordered'
    BY <1>1, <2>11, OrderedKept
  <2>15. Counted'
    BY <2>11, CountedKept, OutboxAssumption
  <2>13. Evidence'
    BY <1>1, <2>11 DEF Evidence, Attempted
  <2>14. AdmittedUnsent'
    BY <1>1, <2>11 DEF AdmittedUnsent, Here
  <2> QED BY <2>4, <2>7, <2>8, <2>9, <2>10, <2>12, <2>13, <2>14, <2>15 DEF Structure
<1> QED BY <1>3, <1>4

-----------------------------------------------------------------------------
LEMMA NextIInv == IInv /\ [Next]_vars => IInv'
<1> SUFFICES ASSUME IInv, [Next]_vars PROVE IInv'
  OBVIOUS
<1>1. ASSUME NEW e \in Events, TaskEnds(e) PROVE IInv'
  BY <1>1, TaskEndsInv
<1>2. ASSUME NEW t \in Tasks, TaskResumes(t) \/ BindTask(t) \/ RevokeTask(t) PROVE IInv'
  BY <1>2, TaskResumesInv, BindTaskInv, RevokeTaskInv
<1>3. ASSUME NEW c \in Drains, Drain(c) PROVE IInv'
  BY <1>3, DrainInv DEF Drain
<1>4. ASSUME NEW c \in Drains, NEW r \in Rows, Delivering(c, r) PROVE IInv'
  <2>1. Accept(c, r) => IInv'
    BY AcceptInv DEF Accept
  <2> QED BY <1>4, <2>1, TakeInv, AdmitInv, FailsInv, SendInv, ObserveInv, HandleRefusalInv,
             AttemptFailsInv DEF Delivering
<1>5. ASSUME NEW c \in Drains, Drained(c) \/ Crash(c) PROVE IInv'
  <2>1. UNCHANGED <<ended, route, outbox>>
    BY <1>5 DEF Drained, Crash
  <2>2. drain' = [drain EXCEPT ![c] = Idle]
    BY <1>5 DEF Drained, Crash
  <2>3. UNCHANGED <<standing, cooling, wire, posts, resets>>
    BY <1>5 DEF Drained, Crash
  <2>4. TypeOK'
    BY <2>1, <2>2, <2>3 DEF IInv, TypeOK, Idle, outbox
  <2>5. Evidence'
    BY <2>1, <2>3 DEF IInv, Evidence, outbox
  <2>6. AdmittedUnsent'
    BY <2>1, <2>2, <2>3 DEF IInv, AdmittedUnsent, TypeOK, Here, Idle, outbox
  <2> QED BY <2>1, <2>4, <2>5, <2>6, FilesKept DEF IInv
<1>6. ASSUME NEW r \in Rows, Arrives(r) \/ IsRefused(r) \/ RetryBlocked(r) PROVE IInv'
  BY <1>6, TransportInv, RetryBlockedInv
<1>7. ASSUME NEW r \in Rows, Reconcile(r) PROVE IInv'
  BY <1>7, AcceptInv DEF Reconcile
<1>8. CASE CoolsDown
  BY <1>8, CoolsDownInv
<1>9. CASE UNCHANGED vars
  <2>1. UNCHANGED <<ended, standing, route, outbox, cooling, drain, wire, posts, resets>>
    BY <1>9 DEF vars
  <2>2. TypeOK'
    BY <2>1 DEF IInv, TypeOK, outbox
  <2> QED BY <2>1, <2>2, FilesKept, MessagesKept DEF IInv
<1> QED BY <1>1, <1>2, <1>3, <1>4, <1>5, <1>6, <1>7, <1>8, <1>9 DEF Next

THEOREM Invariant == Spec => []IInv
<1> QED BY InitIInv, NextIInv, PTL DEF Spec

(* Every variable of the outbox keeps its type.                              *)
THEOREM TypeCorrect == Spec => []TypeOK
<1>1. IInv => TypeOK
  BY DEF IInv
<1> QED BY <1>1, Invariant, PTL

(* No message reaches its recipient twice (deliver and recover never send     *)
(* again what may have been sent), whatever drains overlap or die.           *)
THEOREM MessagesArePostedOnce == Spec => []PostedOnce
<1>1. IInv => PostedOnce
  BY DEF IInv, Evidence, PostedOnce
<1> QED BY <1>1, Invariant, PTL

(* A message reaches its recipient only after all earlier ones of its task    *)
(* that the route covers, projected or not, were accepted as sent.           *)
THEOREM MessagesAreInOrder == Spec => []InOrder
<1>1. IInv => InOrder
  BY DEF IInv, Evidence, Ordered, InOrder
<1> QED BY <1>1, Invariant, PTL

(* The admission transactions of all drains together keep to the limit of     *)
(* sends at a time.                                                          *)
THEOREM SendsAreLimited == Spec => []SharedCapacity
<1>1. IInv => SharedCapacity
  BY DEF IInv, Counted
<1> QED BY <1>1, Invariant, PTL

(* A receipt the outbox accepted is never taken back.                        *)
THEOREM ReceiptsAreFinal == Spec => SentForGood
<1>1. ASSUME IInv, Next, NEW r \in Rows, state[r] = "sent"
      PROVE  state'[r] = "sent"
  <2> USE <1>1 DEF IInv, Settles, TypeOK
  <2>1. ASSUME NEW c \in Drains, Drain(c) PROVE state'[r] = "sent"
    <3>1. PICK late \in SUBSET InState("dispatching") : DrainLate(c, late)
      BY <2>1 DEF Drain
    <3>2. PICK failed \in SUBSET Unprojected : state' = Recover(AfterProject(failed), late)
      BY <3>1 DEF DrainLate
    <3>3. r \notin late
      BY DEF InState
    <3>4. r[1] \notin Projectable(failed)
      BY DEF Projectable, Unprojected, Projected, Parts
    <3> QED BY <3>2, <3>3, <3>4 DEF Recover, AfterProject
  <2>2. ASSUME NEW c \in Drains, NEW q \in Rows, Delivering(c, q) PROVE state'[r] = "sent"
    <3>1. CASE Take(c, q) \/ Send(c, q) \/ Observe(c, q)
      BY <3>1 DEF Take, Send, Observe, outbox
    <3>2. CASE Admit(c, q)
      BY <3>2 DEF Admit, Admissible
    <3>3. CASE Fails(c, q)
      BY <3>3 DEF Fails
    <3>4. CASE Accept(c, q)
      BY <3>4 DEF Accept, Accepts
    <3>5. CASE HandleRefusal(c, q)
      BY <3>5 DEF HandleRefusal, RetryAfter
    <3>6. CASE AttemptFails(c, q)
      BY <3>6 DEF AttemptFails, GivenUp
    <3> QED BY <2>2, <3>1, <3>2, <3>3, <3>4, <3>5, <3>6 DEF Delivering
  <2>3. ASSUME NEW q \in Rows, RetryBlocked(q) PROVE state'[r] = "sent"
    <3>1. CASE q[1] \notin unmade
      BY <2>3, <3>1 DEF RetryBlocked, RetrySafe
    <3>2. CASE q[1] \in unmade
      <4>1. r[1] # q[1]
        BY <3>2, PlaceholdersWait
      <4> QED BY <2>3, <3>2, <4>1 DEF RetryBlocked
    <3> QED BY <3>1, <3>2
  <2>4. ASSUME NEW q \in Rows, Reconcile(q) PROVE state'[r] = "sent"
    BY <2>4 DEF Reconcile, Accepts
  <2>5. ASSUME UNCHANGED state PROVE state'[r] = "sent"
    BY <2>5
  <2>6. ASSUME NEW e \in Events, TaskEnds(e) PROVE UNCHANGED state
    BY <2>6 DEF TaskEnds, outbox
  <2>7. ASSUME NEW t \in Tasks, TaskResumes(t) \/ BindTask(t) \/ RevokeTask(t) PROVE UNCHANGED state
    BY <2>7 DEF TaskResumes, BindTask, RevokeTask, outbox
  <2>8. ASSUME NEW c \in Drains, Drained(c) \/ Crash(c) PROVE UNCHANGED state
    BY <2>8 DEF Drained, Crash, outbox
  <2>9. ASSUME NEW q \in Rows, Arrives(q) \/ IsRefused(q) PROVE UNCHANGED state
    BY <2>9 DEF Arrives, IsRefused, outbox
  <2>10. ASSUME CoolsDown PROVE UNCHANGED state
    BY <2>10 DEF CoolsDown, outbox
  <2> QED BY <1>1, <2>1, <2>2, <2>3, <2>4, <2>5, <2>6, <2>7, <2>8, <2>9, <2>10 DEF Next
<1>2. IInv /\ [Next]_vars => [\A r \in Rows : state[r] = "sent" => state'[r] = "sent"]_vars
  BY <1>1
<1> QED BY <1>2, Invariant, PTL DEF Spec, SentForGood

=============================================================================
