-------------------------- MODULE TaskKernelProofs --------------------------
(***************************************************************************)
(* TaskKernel for any devices, effects, number of episodes and bounds on      *)
(* time.                                                                     *)
(*                                                                         *)
(* The inductive invariant says where work can still be open.  An episode     *)
(* that is leased, running or of unknown outcome is the active one, an        *)
(* episode that was never started has no effects, and an episode that ended    *)
(* with an outcome has no effect left open.  What is open therefore belongs     *)
(* to the active episode or to a cancelled task.                              *)
(***************************************************************************)
EXTENDS TaskKernel, TLAPS

Live      == {"leased", "running", "unknown"}
Untouched == {"none", "leased", "expired", "released"}

(* Episodes are claimed in their order.                                      *)
Ordered ==
  \A p \in Episodes : \A q \in Episodes :
    q < p /\ episode[p].state # "none" => episode[q].state # "none"

LiveIsActive ==
  \A p \in Episodes : episode[p].state \in Live => p = task.active /\ task.status \notin Terminal

ActiveIsNewest ==
  task.active # 0 =>
    /\ episode[task.active].state \in Live
    /\ \A q \in Episodes : q > task.active => episode[q].state = "none"

UntouchedHasNone ==
  \A p \in Episodes, e \in Effects : episode[p].state \in Untouched => effect[e].episode # p

OutcomeIsSettled ==
  \A p \in Episodes, e \in Effects :
    episode[p].state \in Outcomes /\ effect[e].episode = p => effect[e].state = "confirmed"

CancelledTogether ==
  \A p \in Episodes : episode[p].state = "cancelled" => task.status = "cancelled"

NoneIsNowhere == \A e \in Effects : effect[e].state = "none" <=> effect[e].episode = 0

(* UnresolvedIsActive and OutcomeIsProven, effect by effect.                 *)
OpenIsActive ==
  \A e \in Effects :
    effect[e].state \in {"dispatched", "unknown"} =>
      task.status = "cancelled" \/ effect[e].episode = task.active

Proven ==
  task.status \in Outcomes =>
    \E p \in Episodes :
      episode[p].state = task.status /\ \A q \in Episodes : episode[q].state # "none" => q <= p

Accounted ==
  /\ LiveIsActive /\ ActiveIsNewest /\ UntouchedHasNone
  /\ OutcomeIsSettled /\ CancelledTogether /\ NoneIsNowhere
  /\ OpenIsActive /\ Proven

Inv == TypeOK /\ Ordered /\ Accounted

-----------------------------------------------------------------------------
(* Rows keep their types.                                                    *)

States == Terminal \cup {"waiting", "running", "stale"}

LEMMA TaskTyped ==
  ASSUME NEW t \in Task, NEW s \in States, NEW a \in 0 .. MaxEpisodes, NEW b \in BOOLEAN
  PROVE  /\ [t EXCEPT !.status = s, !.active = a] \in Task
         /\ [t EXCEPT !.status = s, !.dirty = b, !.active = a] \in Task
         /\ [t EXCEPT !.status = s, !.active = a, !.fence = @ + 1] \in Task
         /\ [t EXCEPT !.status = s, !.dirty = b, !.fence = @ + 1] \in Task
         /\ [t EXCEPT !.fence = @ + 1, !.active = a, !.status = s] \in Task
<1>1. t.fence + 1 \in Nat
  BY DEF Task
<1>. QED
  BY <1>1, Zenon DEF Task, States

LEMMA SavedTask ==
  ASSUME NEW t \in Task
  PROVE  Saved(t) \in Task
BY DEF Saved, Task

LEMMA EpisodeRow ==
  ASSUME NEW r \in Episode, NEW s \in EpisodeStates, NEW u \in Nat
  PROVE  /\ [r EXCEPT !.state = s] \in Episode
         /\ [r EXCEPT !.until = u] \in Episode
         /\ [r EXCEPT !.state = s, !.until = u] \in Episode
BY DEF Episode

LEMMA EpisodeTyped ==
  ASSUME TypeOK, NEW p \in Episodes, NEW s \in EpisodeStates, NEW u \in Nat
  PROVE  /\ [episode EXCEPT ![p].state = s] \in [Episodes -> Episode]
         /\ [episode EXCEPT ![p].until = u] \in [Episodes -> Episode]
         /\ [episode EXCEPT ![p] = [@ EXCEPT !.state = s, !.until = u]] \in [Episodes -> Episode]
BY EpisodeRow DEF TypeOK

LEMMA EffectRow ==
  ASSUME NEW r \in Effect, NEW s \in {"none", "dispatched", "confirmed", "unknown"}
  PROVE  /\ [r EXCEPT !.state = s] \in Effect
         /\ [r EXCEPT !.observed = TRUE] \in Effect
BY DEF Effect

LEMMA LostTyped ==
  ASSUME TypeOK, NEW p
  PROVE  Lost(p) \in [Effects -> Effect]
BY EffectRow DEF TypeOK, Lost

(* Nothing comes into being and nothing is forgotten: order is kept.         *)
LEMMA KeepsOrder ==
  ASSUME Ordered, \A q \in Episodes : episode'[q].state = "none" <=> episode[q].state = "none"
  PROVE  Ordered'
BY DEF Ordered

-----------------------------------------------------------------------------
(* One lemma per operation.                                                  *)

LEMMA ClaimInv ==
  ASSUME Inv, clock' \in Nat, NEW d \in Devices, NEW p \in Episodes, NEW ttl \in Nat, NEW budget
         \in Nat, NEW now \in Nat, Claim(d, p, ttl, budget, now)
  PROVE  Inv'
<1>. USE KernelAssumption DEF Inv, Accounted
<1>1. TypeOK'
  <2>1. task' \in Task
    <3>1. "running" \in States /\ p \in 0 .. MaxEpisodes /\ TRUE \in BOOLEAN /\ FALSE \in BOOLEAN /\ task \in Task
      BY DEF States, Outcomes, Terminal, Episodes, TypeOK
    <3>2. [task EXCEPT !.fence = @ + 1, !.active = p, !.status = "running"] \in Task
      BY <3>1, TaskTyped, Zenon
    <3>3. task' = Saved([task EXCEPT !.fence = @ + 1, !.active = p, !.status = "running"])
      BY DEF Claim, Admitted
    <3>. QED
      BY <3>2, <3>3, SavedTask
  <2>2. episode' \in [Episodes -> Episode]
    <3>1. [state |-> "leased", device |-> d, fence |-> task.fence + 1,
           until |-> now + ttl, deadline |-> now + budget] \in Episode
      <4>1. task.fence + 1 \in Nat /\ now + ttl \in Nat /\ now + budget \in Nat
        BY DEF TypeOK, Task
      <4>. QED
        BY <4>1 DEF Episode, EpisodeStates
    <3>2. \A q \in Episodes : [episode[q] EXCEPT !.state = "expired"] \in Episode
      BY EpisodeRow DEF TypeOK, EpisodeStates
    <3>. QED
      BY <3>1, <3>2 DEF Claim, TypeOK
  <2>3. effect' \in [Effects -> Effect]
    BY LostTyped, EffectRow DEF TypeOK, Claim, Admitted
  <2>. QED
    BY <2>1, <2>2, <2>3 DEF TypeOK
<1>a. /\ \A q \in Episodes : episode'[q].state =
             IF q = p THEN "leased" ELSE IF q = task.active THEN "expired" ELSE episode[q].state
      /\ episode[p].state = "none" /\ \A q \in Episodes : q < p => episode[q].state # "none"
  BY DEF TypeOK, Episodes, Claim
<1>b. /\ task.active # 0 => task.active \in Episodes /\ task.active # p /\ episode[task.active].state = "leased"
      /\ task'.active = p /\ task'.status = "running" /\ effect' = effect
      /\ task.status \notin Terminal
  BY <1>a DEF TypeOK, Task, Episodes, Claim, Admitted, Saved
<1>2. Ordered'
  BY <1>a, <1>b DEF Ordered, Episodes
<1>3. Accounted'
  <2>. USE <1>a, <1>b DEF TypeOK, Effect, ActiveIsNewest, CancelledTogether, LiveIsActive,
    NoneIsNowhere, OpenIsActive, Ordered, OutcomeIsSettled,
    UntouchedHasNone, Live, Untouched, Outcomes, Terminal, Episodes, Proven
  <2>1. LiveIsActive'
    OBVIOUS
  <2>2. ActiveIsNewest'
    OBVIOUS
  <2>3. UntouchedHasNone'
    OBVIOUS
  <2>4. OutcomeIsSettled'
    OBVIOUS
  <2>5. CancelledTogether'
    OBVIOUS
  <2>6. NoneIsNowhere'
    OBVIOUS
  <2>7. OpenIsActive'
    OBVIOUS
  <2>8. Proven'
    OBVIOUS
  <2>. QED
    BY <2>1, <2>2, <2>3, <2>4, <2>5, <2>6, <2>7, <2>8
<1>. QED
  BY <1>1, <1>2, <1>3

LEMMA StartInv ==
  ASSUME Inv, clock' \in Nat, NEW d \in Devices, NEW p \in Episodes, NEW now \in Nat, Start(d, p,
         now)
  PROVE  Inv'
<1>. USE KernelAssumption DEF Inv, Accounted
<1>1. TypeOK'
  <2>1. task' \in Task
    BY SavedTask DEF TypeOK, Start, Lease
  <2>2. episode' \in [Episodes -> Episode]
    BY EpisodeTyped DEF TypeOK, EpisodeStates, Outcomes, Terminal, Start, Lease
  <2>3. effect' \in [Effects -> Effect]
    BY LostTyped, EffectRow DEF TypeOK, Start, Lease
  <2>. QED
    BY <2>1, <2>2, <2>3 DEF TypeOK
<1>2. Ordered'
  <2>1. \A q \in Episodes : episode'[q].state = "none" <=> episode[q].state = "none"
    BY DEF TypeOK, ActiveIsNewest, Live, Outcomes, Start, Lease
  <2>. QED
    BY <2>1, KeepsOrder
<1>3. Accounted'
  <2>. USE DEF TypeOK, Ordered, LiveIsActive, ActiveIsNewest, UntouchedHasNone,
    OutcomeIsSettled, CancelledTogether, NoneIsNowhere, OpenIsActive,
    Proven, Task, Episode, Effect, EpisodeStates, Terminal, Outcomes, Live,
    Untouched, Episodes, Start, Lease, Saved
  <2>1. LiveIsActive'
    OBVIOUS
  <2>2. ActiveIsNewest'
    OBVIOUS
  <2>3. UntouchedHasNone'
    OBVIOUS
  <2>4. OutcomeIsSettled'
    OBVIOUS
  <2>5. CancelledTogether'
    OBVIOUS
  <2>6. NoneIsNowhere'
    OBVIOUS
  <2>7. OpenIsActive'
    OBVIOUS
  <2>8. Proven'
    OBVIOUS
  <2>. QED
    BY <2>1, <2>2, <2>3, <2>4, <2>5, <2>6, <2>7, <2>8
<1>. QED
  BY <1>1, <1>2, <1>3

LEMMA RenewLeaseInv ==
  ASSUME Inv, clock' \in Nat, NEW d \in Devices, NEW p \in Episodes, NEW ttl \in Nat, NEW now \in
         Nat, RenewLease(d, p, ttl, now)
  PROVE  Inv'
<1>. USE KernelAssumption DEF Inv, Accounted
<1>1. TypeOK'
  <2>1. task' \in Task
    BY SavedTask DEF TypeOK, RenewLease, Lease
  <2>2. episode' \in [Episodes -> Episode]
    <3>1. PICK until \in Nat : episode' = [episode EXCEPT ![p].until = until]
      <4>1. now + ttl \in Nat /\ episode[p].deadline \in Nat
        BY DEF TypeOK, Episode
      <4>. QED
        BY <4>1, Zenon DEF RenewLease
    <3>2. TypeOK
      OBVIOUS
    <3>3. "none" \in EpisodeStates
      BY DEF EpisodeStates
    <3>. QED
      BY <3>1, <3>2, <3>3, EpisodeTyped, Zenon
  <2>3. effect' \in [Effects -> Effect]
    BY LostTyped, EffectRow DEF TypeOK, RenewLease, Lease
  <2>. QED
    BY <2>1, <2>2, <2>3 DEF TypeOK
<1>2. Ordered'
  <2>1. \A q \in Episodes : episode'[q].state = "none" <=> episode[q].state = "none"
    BY DEF TypeOK, ActiveIsNewest, Live, Outcomes, RenewLease, Lease
  <2>. QED
    BY <2>1, KeepsOrder
<1>3. Accounted'
  <2>. USE DEF TypeOK, Ordered, LiveIsActive, ActiveIsNewest, UntouchedHasNone,
    OutcomeIsSettled, CancelledTogether, NoneIsNowhere, OpenIsActive,
    Proven, Task, Episode, Effect, EpisodeStates, Terminal, Outcomes, Live,
    Untouched, Episodes, RenewLease, Lease
  <2>1. LiveIsActive'
    OBVIOUS
  <2>2. ActiveIsNewest'
    OBVIOUS
  <2>3. UntouchedHasNone'
    OBVIOUS
  <2>4. OutcomeIsSettled'
    OBVIOUS
  <2>5. CancelledTogether'
    OBVIOUS
  <2>6. NoneIsNowhere'
    OBVIOUS
  <2>7. OpenIsActive'
    OBVIOUS
  <2>8. Proven'
    OBVIOUS
  <2>. QED
    BY <2>1, <2>2, <2>3, <2>4, <2>5, <2>6, <2>7, <2>8
<1>. QED
  BY <1>1, <1>2, <1>3

LEMMA RenewInv ==
  ASSUME Inv, clock' \in Nat, NEW d \in Devices, NEW p \in Episodes, NEW ttl \in Nat, NEW now \in
         Nat, Renew(d, p, ttl, now)
  PROVE  Inv'
<1>. USE KernelAssumption DEF Inv, Accounted
<1>1. TypeOK'
  <2>1. task' \in Task
    BY SavedTask DEF TypeOK, Renew, Lease
  <2>2. episode' \in [Episodes -> Episode]
    <3>1. now + ttl \in Nat
      OBVIOUS
    <3>2. TypeOK /\ "none" \in EpisodeStates
      BY DEF EpisodeStates
    <3>3. episode' = [episode EXCEPT ![p].until = now + ttl]
      BY DEF Renew
    <3>. QED
      BY <3>1, <3>2, <3>3, EpisodeTyped, Zenon
  <2>3. effect' \in [Effects -> Effect]
    BY LostTyped, EffectRow DEF TypeOK, Renew, Lease
  <2>. QED
    BY <2>1, <2>2, <2>3 DEF TypeOK
<1>2. Ordered'
  <2>1. \A q \in Episodes : episode'[q].state = "none" <=> episode[q].state = "none"
    BY DEF TypeOK, ActiveIsNewest, Live, Outcomes, Renew, Lease
  <2>. QED
    BY <2>1, KeepsOrder
<1>3. Accounted'
  <2>. USE DEF TypeOK, Ordered, LiveIsActive, ActiveIsNewest, UntouchedHasNone,
    OutcomeIsSettled, CancelledTogether, NoneIsNowhere, OpenIsActive,
    Proven, Task, Episode, Effect, EpisodeStates, Terminal, Outcomes, Live,
    Untouched, Episodes, Renew, Lease
  <2>1. LiveIsActive'
    OBVIOUS
  <2>2. ActiveIsNewest'
    OBVIOUS
  <2>3. UntouchedHasNone'
    OBVIOUS
  <2>4. OutcomeIsSettled'
    OBVIOUS
  <2>5. CancelledTogether'
    OBVIOUS
  <2>6. NoneIsNowhere'
    OBVIOUS
  <2>7. OpenIsActive'
    OBVIOUS
  <2>8. Proven'
    OBVIOUS
  <2>. QED
    BY <2>1, <2>2, <2>3, <2>4, <2>5, <2>6, <2>7, <2>8
<1>. QED
  BY <1>1, <1>2, <1>3

LEMMA FinishInv ==
  ASSUME Inv, clock' \in Nat, NEW d \in Devices, NEW p \in Episodes, NEW outcome \in Outcomes,
         NEW now \in Nat, Finish(d, p, outcome, now)
  PROVE  Inv'
<1>. USE KernelAssumption DEF Inv, Accounted
<1>1. TypeOK'
  <2>1. task' \in Task
    <3>1. outcome \in States /\ 0 \in 0 .. MaxEpisodes /\ TRUE \in BOOLEAN /\ FALSE \in BOOLEAN /\ task \in Task
      BY DEF States, Outcomes, Terminal, Episodes, TypeOK
    <3>2. [task EXCEPT !.status = outcome, !.active = 0] \in Task
      BY <3>1, TaskTyped, Zenon
    <3>3. task' = Saved([task EXCEPT !.status = outcome, !.active = 0])
      BY DEF Finish, Lease, Ended, Finished, Unconfirmed, EffectsOf
    <3>. QED
      BY <3>2, <3>3, SavedTask
  <2>2. episode' \in [Episodes -> Episode]
    BY EpisodeTyped DEF TypeOK, EpisodeStates, Outcomes, Terminal, Finish, Lease, Ended, Finished, Unconfirmed, EffectsOf
  <2>3. effect' \in [Effects -> Effect]
    BY LostTyped, EffectRow DEF TypeOK, Finish, Lease, Ended, Finished, Unconfirmed, EffectsOf
  <2>. QED
    BY <2>1, <2>2, <2>3 DEF TypeOK
<1>2. Ordered'
  <2>1. \A q \in Episodes : episode'[q].state = "none" <=> episode[q].state = "none"
    BY DEF TypeOK, ActiveIsNewest, Live, Outcomes, Finish, Lease, Ended, Finished, Unconfirmed, EffectsOf
  <2>. QED
    BY <2>1, KeepsOrder
<1>3. Accounted'
  <2>. USE DEF TypeOK, Ordered, LiveIsActive, ActiveIsNewest, UntouchedHasNone,
    OutcomeIsSettled, CancelledTogether, NoneIsNowhere, OpenIsActive,
    Proven, Task, Episode, Effect, EpisodeStates, Terminal, Outcomes, Live,
    Untouched, Episodes, Finish, Lease, Ended, Finished, Saved, Unconfirmed,
    EffectsOf
  <2>1. LiveIsActive'
    OBVIOUS
  <2>2. ActiveIsNewest'
    OBVIOUS
  <2>3. UntouchedHasNone'
    OBVIOUS
  <2>4. OutcomeIsSettled'
    OBVIOUS
  <2>5. CancelledTogether'
    OBVIOUS
  <2>6. NoneIsNowhere'
    OBVIOUS
  <2>7. OpenIsActive'
    OBVIOUS
  <2>8. Proven'
    OBVIOUS
  <2>. QED
    BY <2>1, <2>2, <2>3, <2>4, <2>5, <2>6, <2>7, <2>8
<1>. QED
  BY <1>1, <1>2, <1>3

LEMMA CancelActiveInv ==
  ASSUME Inv, clock' \in Nat, NEW p \in Episodes, p = task.active, Cancel, task.status \notin
         Terminal
  PROVE  Inv'
<1>. USE KernelAssumption DEF Inv, Accounted
<1>0. /\ episode' = [episode EXCEPT ![p] = [@ EXCEPT !.state = "cancelled", !.until = 0]]
      /\ effect' = Lost(p)
      /\ task.active = p /\ task'.status = "cancelled" /\ task'.active = 0
      /\ episode[p].state \in Live
      /\ \A q \in Episodes : episode'[q].state = IF q = p THEN "cancelled" ELSE episode[q].state
      /\ \A e \in Effects : /\ effect'[e].episode = effect[e].episode
                          /\ effect'[e].state = IF effect[e].episode = p /\ effect[e].state = "dispatched" THEN "unknown" ELSE effect[e].state
  <2>1. p # 0 /\ task.active = p
    BY DEF Episodes
  <2>2. episode' = [episode EXCEPT ![p] = [@ EXCEPT !.state = "cancelled", !.until = 0]] /\ effect' = Lost(p)
    BY <2>1 DEF Cancel
  <2>3. task'.status = "cancelled" /\ task'.active = 0
    BY DEF Cancel, Saved, TypeOK, Task
  <2>4. episode[p].state \in Live
    BY <2>1 DEF ActiveIsNewest
  <2>5. \A q \in Episodes : episode'[q].state = IF q = p THEN "cancelled" ELSE episode[q].state
    BY <2>2 DEF TypeOK, Episode
  <2>6. \A e \in Effects : /\ effect'[e].episode = effect[e].episode
                          /\ effect'[e].state = IF effect[e].episode = p /\ effect[e].state = "dispatched" THEN "unknown" ELSE effect[e].state
    BY <2>2 DEF TypeOK, Effect, Lost
  <2>. QED
    BY <2>1, <2>2, <2>3, <2>4, <2>5, <2>6
<1>1. TypeOK'
  <2>1. task' \in Task
    <3>1. "cancelled" \in States /\ 0 \in 0 .. MaxEpisodes /\ TRUE \in BOOLEAN /\ FALSE \in BOOLEAN /\ task \in Task
      BY DEF States, Outcomes, Terminal, Episodes, TypeOK
    <3>2. [task EXCEPT !.status = "cancelled", !.active = 0, !.fence = @ + 1] \in Task
      BY <3>1, TaskTyped, Zenon
    <3>3. task' = Saved([task EXCEPT !.status = "cancelled", !.active = 0, !.fence = @ + 1])
      BY DEF Cancel
    <3>. QED
      BY <3>2, <3>3, SavedTask
  <2>2. episode' \in [Episodes -> Episode]
    <3>1. TypeOK /\ "cancelled" \in EpisodeStates /\ 0 \in Nat
      BY DEF EpisodeStates, Terminal
    <3>. QED
      BY <1>0, <3>1, EpisodeTyped, Zenon
  <2>3. effect' \in [Effects -> Effect]
    BY LostTyped, EffectRow DEF TypeOK, Cancel
  <2>. QED
    BY <2>1, <2>2, <2>3 DEF TypeOK
<1>2. Ordered'
  BY <1>0, KeepsOrder DEF Live
<1>3. Accounted'
  <2>. USE <1>0 DEF TypeOK, Effect, ActiveIsNewest, CancelledTogether, LiveIsActive,
    NoneIsNowhere, OpenIsActive, OutcomeIsSettled, UntouchedHasNone, Live,
    Untouched, Outcomes, Terminal, Proven
  <2>1. LiveIsActive'
    OBVIOUS
  <2>2. ActiveIsNewest'
    OBVIOUS
  <2>3. UntouchedHasNone'
    OBVIOUS
  <2>4. OutcomeIsSettled'
    OBVIOUS
  <2>5. CancelledTogether'
    OBVIOUS
  <2>6. NoneIsNowhere'
    OBVIOUS
  <2>7. OpenIsActive'
    OBVIOUS
  <2>8. Proven'
    OBVIOUS
  <2>. QED
    BY <2>1, <2>2, <2>3, <2>4, <2>5, <2>6, <2>7, <2>8
<1>. QED
  BY <1>1, <1>2, <1>3

LEMMA CancelIdleInv ==
  ASSUME Inv, clock' \in Nat, task.active = 0, Cancel, task.status \notin Terminal
  PROVE  Inv'
<1>. USE KernelAssumption DEF Inv, Accounted
<1>1. TypeOK'
  <2>1. task' \in Task
    <3>1. "cancelled" \in States /\ 0 \in 0 .. MaxEpisodes /\ TRUE \in BOOLEAN /\ FALSE \in BOOLEAN /\ task \in Task
      BY DEF States, Outcomes, Terminal, Episodes, TypeOK
    <3>2. [task EXCEPT !.status = "cancelled", !.active = 0, !.fence = @ + 1] \in Task
      BY <3>1, TaskTyped, Zenon
    <3>3. task' = Saved([task EXCEPT !.status = "cancelled", !.active = 0, !.fence = @ + 1])
      BY DEF Cancel
    <3>. QED
      BY <3>2, <3>3, SavedTask
  <2>2. episode' \in [Episodes -> Episode]
    BY EpisodeTyped DEF TypeOK, EpisodeStates, Outcomes, Terminal, Cancel
  <2>3. effect' \in [Effects -> Effect]
    BY LostTyped, EffectRow DEF TypeOK, Cancel
  <2>. QED
    BY <2>1, <2>2, <2>3 DEF TypeOK
<1>2. Ordered'
  <2>1. \A q \in Episodes : episode'[q].state = "none" <=> episode[q].state = "none"
    BY DEF TypeOK, ActiveIsNewest, Live, Outcomes, Cancel
  <2>. QED
    BY <2>1, KeepsOrder
<1>3. Accounted'
  <2>. USE DEF TypeOK, Ordered, LiveIsActive, ActiveIsNewest, UntouchedHasNone,
    OutcomeIsSettled, CancelledTogether, NoneIsNowhere, OpenIsActive,
    Proven, Task, Episode, Effect, EpisodeStates, Terminal, Outcomes, Live,
    Untouched, Episodes, Cancel, Saved
  <2>1. LiveIsActive'
    OBVIOUS
  <2>2. ActiveIsNewest'
    OBVIOUS
  <2>3. UntouchedHasNone'
    OBVIOUS
  <2>4. OutcomeIsSettled'
    OBVIOUS
  <2>5. CancelledTogether'
    OBVIOUS
  <2>6. NoneIsNowhere'
    OBVIOUS
  <2>7. OpenIsActive'
    OBVIOUS
  <2>8. Proven'
    OBVIOUS
  <2>. QED
    BY <2>1, <2>2, <2>3, <2>4, <2>5, <2>6, <2>7, <2>8
<1>. QED
  BY <1>1, <1>2, <1>3

LEMMA ResumeInv ==
  ASSUME Inv, clock' \in Nat, Resume
  PROVE  Inv'
<1>. USE KernelAssumption DEF Inv, Accounted
<1>1. TypeOK'
  <2>1. task' \in Task
    <3>1. "waiting" \in States /\ 0 \in 0 .. MaxEpisodes /\ TRUE \in BOOLEAN /\ FALSE \in BOOLEAN /\ task \in Task
      BY DEF States, Outcomes, Terminal, Episodes, TypeOK
    <3>2. [task EXCEPT !.status = "waiting", !.active = 0] \in Task
      BY <3>1, TaskTyped, Zenon
    <3>3. task' = Saved([task EXCEPT !.status = "waiting", !.active = 0])
      BY DEF Resume, AnyUnconfirmed
    <3>. QED
      BY <3>2, <3>3, SavedTask
  <2>2. episode' \in [Episodes -> Episode]
    BY EpisodeTyped DEF TypeOK, EpisodeStates, Outcomes, Terminal, Resume, AnyUnconfirmed
  <2>3. effect' \in [Effects -> Effect]
    BY LostTyped, EffectRow DEF TypeOK, Resume, AnyUnconfirmed
  <2>. QED
    BY <2>1, <2>2, <2>3 DEF TypeOK
<1>2. Ordered'
  <2>1. \A q \in Episodes : episode'[q].state = "none" <=> episode[q].state = "none"
    BY DEF TypeOK, ActiveIsNewest, Live, Outcomes, Resume, AnyUnconfirmed
  <2>. QED
    BY <2>1, KeepsOrder
<1>3. Accounted'
  <2>. USE DEF TypeOK, Ordered, LiveIsActive, ActiveIsNewest, UntouchedHasNone,
    OutcomeIsSettled, CancelledTogether, NoneIsNowhere, OpenIsActive,
    Proven, Task, Episode, Effect, EpisodeStates, Terminal, Outcomes, Live,
    Untouched, Episodes, Resume, AnyUnconfirmed, Saved
  <2>1. LiveIsActive'
    OBVIOUS
  <2>2. ActiveIsNewest'
    OBVIOUS
  <2>3. UntouchedHasNone'
    OBVIOUS
  <2>4. OutcomeIsSettled'
    OBVIOUS
  <2>5. CancelledTogether'
    OBVIOUS
  <2>6. NoneIsNowhere'
    OBVIOUS
  <2>7. OpenIsActive'
    OBVIOUS
  <2>8. Proven'
    OBVIOUS
  <2>. QED
    BY <2>1, <2>2, <2>3, <2>4, <2>5, <2>6, <2>7, <2>8
<1>. QED
  BY <1>1, <1>2, <1>3

LEMMA MarkUnknownInv ==
  ASSUME Inv, clock' \in Nat, NEW d \in Devices, NEW p \in Episodes, NEW now \in Nat,
         MarkUnknown(d, p, now)
  PROVE  Inv'
<1>. USE KernelAssumption DEF Inv, Accounted
<1>1. TypeOK'
  <2>1. task' \in Task
    <3>1. "stale" \in States /\ 0 \in 0 .. MaxEpisodes /\ TRUE \in BOOLEAN /\ FALSE \in BOOLEAN /\ task \in Task
      BY DEF States, Outcomes, Terminal, Episodes, TypeOK
    <3>2. [task EXCEPT !.status = "stale", !.dirty = TRUE, !.fence = @ + 1] \in Task
      BY <3>1, TaskTyped, Zenon
    <3>3. task' = Saved([task EXCEPT !.status = "stale", !.dirty = TRUE, !.fence = @ + 1])
      BY DEF MarkUnknown, Lease, Stale
    <3>. QED
      BY <3>2, <3>3, SavedTask
  <2>2. episode' \in [Episodes -> Episode]
    BY EpisodeTyped DEF TypeOK, EpisodeStates, Outcomes, Terminal, MarkUnknown, Lease, Stale
  <2>3. effect' \in [Effects -> Effect]
    BY LostTyped, EffectRow DEF TypeOK, MarkUnknown, Lease, Stale
  <2>. QED
    BY <2>1, <2>2, <2>3 DEF TypeOK
<1>2. Ordered'
  <2>1. \A q \in Episodes : episode'[q].state = "none" <=> episode[q].state = "none"
    BY DEF TypeOK, ActiveIsNewest, Live, Outcomes, MarkUnknown, Lease, Stale
  <2>. QED
    BY <2>1, KeepsOrder
<1>3. Accounted'
  <2>. USE DEF TypeOK, Ordered, LiveIsActive, ActiveIsNewest, UntouchedHasNone,
    OutcomeIsSettled, CancelledTogether, NoneIsNowhere, OpenIsActive,
    Proven, Task, Episode, Effect, EpisodeStates, Terminal, Outcomes, Live,
    Untouched, Episodes, MarkUnknown, Lease, Lost, Stale, Saved
  <2>1. LiveIsActive'
    OBVIOUS
  <2>2. ActiveIsNewest'
    OBVIOUS
  <2>3. UntouchedHasNone'
    OBVIOUS
  <2>4. OutcomeIsSettled'
    OBVIOUS
  <2>5. CancelledTogether'
    OBVIOUS
  <2>6. NoneIsNowhere'
    OBVIOUS
  <2>7. OpenIsActive'
    OBVIOUS
  <2>8. Proven'
    OBVIOUS
  <2>. QED
    BY <2>1, <2>2, <2>3, <2>4, <2>5, <2>6, <2>7, <2>8
<1>. QED
  BY <1>1, <1>2, <1>3

LEMMA ReleaseUnstartedInv ==
  ASSUME Inv, clock' \in Nat, NEW d \in Devices, NEW p \in Episodes, NEW now \in Nat,
         ReleaseUnstarted(d, p, now)
  PROVE  Inv'
<1>. USE KernelAssumption DEF Inv, Accounted
<1>1. TypeOK'
  <2>1. task' \in Task
    <3>1. "waiting" \in States /\ 0 \in 0 .. MaxEpisodes /\ TRUE \in BOOLEAN /\ FALSE \in BOOLEAN /\ task \in Task
      BY DEF States, Outcomes, Terminal, Episodes, TypeOK
    <3>2. [task EXCEPT !.status = "waiting", !.active = 0, !.fence = @ + 1] \in Task
      BY <3>1, TaskTyped, Zenon
    <3>3. task' = Saved([task EXCEPT !.status = "waiting", !.active = 0, !.fence = @ + 1])
      BY DEF ReleaseUnstarted, Lease, Ended, Waiting, EffectsOf
    <3>. QED
      BY <3>2, <3>3, SavedTask
  <2>2. episode' \in [Episodes -> Episode]
    BY EpisodeTyped DEF TypeOK, EpisodeStates, Outcomes, Terminal, ReleaseUnstarted, Lease, Ended, Waiting, EffectsOf
  <2>3. effect' \in [Effects -> Effect]
    BY LostTyped, EffectRow DEF TypeOK, ReleaseUnstarted, Lease, Ended, Waiting, EffectsOf
  <2>. QED
    BY <2>1, <2>2, <2>3 DEF TypeOK
<1>2. Ordered'
  <2>1. \A q \in Episodes : episode'[q].state = "none" <=> episode[q].state = "none"
    BY DEF TypeOK, ActiveIsNewest, Live, Outcomes, ReleaseUnstarted, Lease, Ended, Waiting, EffectsOf
  <2>. QED
    BY <2>1, KeepsOrder
<1>3. Accounted'
  <2>. USE DEF TypeOK, Ordered, LiveIsActive, ActiveIsNewest, UntouchedHasNone,
    OutcomeIsSettled, CancelledTogether, NoneIsNowhere, OpenIsActive,
    Proven, Task, Episode, Effect, EpisodeStates, Terminal, Outcomes, Live,
    Untouched, Episodes, ReleaseUnstarted, Lease, Ended, Waiting, Saved,
    EffectsOf
  <2>1. LiveIsActive'
    OBVIOUS
  <2>2. ActiveIsNewest'
    OBVIOUS
  <2>3. UntouchedHasNone'
    OBVIOUS
  <2>4. OutcomeIsSettled'
    OBVIOUS
  <2>5. CancelledTogether'
    OBVIOUS
  <2>6. NoneIsNowhere'
    OBVIOUS
  <2>7. OpenIsActive'
    OBVIOUS
  <2>8. Proven'
    OBVIOUS
  <2>. QED
    BY <2>1, <2>2, <2>3, <2>4, <2>5, <2>6, <2>7, <2>8
<1>. QED
  BY <1>1, <1>2, <1>3

LEMMA RecoverIdleInv ==
  ASSUME Inv, clock' \in Nat, NEW p \in Episodes, p = task.active, episode[p].state = "leased",
         EffectsOf(p) = {},
         episode' = Ended(p, "expired"), task' = Waiting, UNCHANGED effect
  PROVE  Inv'
<1>. USE KernelAssumption DEF Inv, Accounted
<1>1. TypeOK'
  <2>1. task' \in Task
    <3>1. "waiting" \in States /\ 0 \in 0 .. MaxEpisodes /\ TRUE \in BOOLEAN /\ FALSE \in BOOLEAN /\ task \in Task
      BY DEF States, Outcomes, Terminal, Episodes, TypeOK
    <3>2. [task EXCEPT !.status = "waiting", !.active = 0, !.fence = @ + 1] \in Task
      BY <3>1, TaskTyped, Zenon
    <3>3. task' = Saved([task EXCEPT !.status = "waiting", !.active = 0, !.fence = @ + 1])
      BY DEF Ended, Waiting, EffectsOf
    <3>. QED
      BY <3>2, <3>3, SavedTask
  <2>2. episode' \in [Episodes -> Episode]
    BY EpisodeTyped DEF TypeOK, EpisodeStates, Outcomes, Terminal, Ended, Waiting, EffectsOf
  <2>3. effect' \in [Effects -> Effect]
    BY LostTyped, EffectRow DEF TypeOK, Ended, Waiting, EffectsOf
  <2>. QED
    BY <2>1, <2>2, <2>3 DEF TypeOK
<1>2. Ordered'
  <2>1. \A q \in Episodes : episode'[q].state = "none" <=> episode[q].state = "none"
    BY DEF TypeOK, ActiveIsNewest, Live, Outcomes, Ended, Waiting, EffectsOf
  <2>. QED
    BY <2>1, KeepsOrder
<1>3. Accounted'
  <2>. USE DEF TypeOK, Ordered, LiveIsActive, ActiveIsNewest, UntouchedHasNone,
    OutcomeIsSettled, CancelledTogether, NoneIsNowhere, OpenIsActive,
    Proven, Task, Episode, Effect, EpisodeStates, Terminal, Outcomes, Live,
    Untouched, Episodes, Ended, Waiting, Saved, EffectsOf
  <2>1. LiveIsActive'
    OBVIOUS
  <2>2. ActiveIsNewest'
    OBVIOUS
  <2>3. UntouchedHasNone'
    OBVIOUS
  <2>4. OutcomeIsSettled'
    OBVIOUS
  <2>5. CancelledTogether'
    OBVIOUS
  <2>6. NoneIsNowhere'
    OBVIOUS
  <2>7. OpenIsActive'
    OBVIOUS
  <2>8. Proven'
    OBVIOUS
  <2>. QED
    BY <2>1, <2>2, <2>3, <2>4, <2>5, <2>6, <2>7, <2>8
<1>. QED
  BY <1>1, <1>2, <1>3

LEMMA RecoverRunningInv ==
  ASSUME Inv, clock' \in Nat, NEW p \in Episodes, p = task.active, episode[p].state = "running",
         episode' = Ended(p, "unknown"), effect' = Lost(p), task' = Stale
  PROVE  Inv'
<1>. USE KernelAssumption DEF Inv, Accounted
<1>1. TypeOK'
  <2>1. task' \in Task
    <3>1. "stale" \in States /\ 0 \in 0 .. MaxEpisodes /\ TRUE \in BOOLEAN /\ FALSE \in BOOLEAN /\ task \in Task
      BY DEF States, Outcomes, Terminal, Episodes, TypeOK
    <3>2. [task EXCEPT !.status = "stale", !.dirty = TRUE, !.fence = @ + 1] \in Task
      BY <3>1, TaskTyped, Zenon
    <3>3. task' = Saved([task EXCEPT !.status = "stale", !.dirty = TRUE, !.fence = @ + 1])
      BY DEF Ended, Stale
    <3>. QED
      BY <3>2, <3>3, SavedTask
  <2>2. episode' \in [Episodes -> Episode]
    BY EpisodeTyped DEF TypeOK, EpisodeStates, Outcomes, Terminal, Ended, Stale
  <2>3. effect' \in [Effects -> Effect]
    BY LostTyped, EffectRow DEF TypeOK, Ended, Stale
  <2>. QED
    BY <2>1, <2>2, <2>3 DEF TypeOK
<1>2. Ordered'
  <2>1. \A q \in Episodes : episode'[q].state = "none" <=> episode[q].state = "none"
    BY DEF TypeOK, ActiveIsNewest, Live, Outcomes, Ended, Stale
  <2>. QED
    BY <2>1, KeepsOrder
<1>3. Accounted'
  <2>. USE DEF TypeOK, Ordered, LiveIsActive, ActiveIsNewest, UntouchedHasNone,
    OutcomeIsSettled, CancelledTogether, NoneIsNowhere, OpenIsActive,
    Proven, Task, Episode, Effect, EpisodeStates, Terminal, Outcomes, Live,
    Untouched, Episodes, Ended, Lost, Stale, Saved
  <2>1. LiveIsActive'
    OBVIOUS
  <2>2. ActiveIsNewest'
    OBVIOUS
  <2>3. UntouchedHasNone'
    OBVIOUS
  <2>4. OutcomeIsSettled'
    OBVIOUS
  <2>5. CancelledTogether'
    OBVIOUS
  <2>6. NoneIsNowhere'
    OBVIOUS
  <2>7. OpenIsActive'
    OBVIOUS
  <2>8. Proven'
    OBVIOUS
  <2>. QED
    BY <2>1, <2>2, <2>3, <2>4, <2>5, <2>6, <2>7, <2>8
<1>. QED
  BY <1>1, <1>2, <1>3

LEMMA DispatchEffectInv ==
  ASSUME Inv, clock' \in Nat, NEW d \in Devices, NEW p \in Episodes, NEW e \in Effects, NEW
         manifest \in BOOLEAN, NEW now \in Nat, DispatchEffect(d, p, e, manifest, now)
  PROVE  Inv'
<1>. USE KernelAssumption DEF Inv, Accounted
<1>1. TypeOK'
  <2>1. task' \in Task
    BY SavedTask DEF TypeOK, DispatchEffect, Lease, Dispatched
  <2>2. episode' \in [Episodes -> Episode]
    BY EpisodeTyped DEF TypeOK, EpisodeStates, Outcomes, Terminal, DispatchEffect, Lease, Dispatched
  <2>3. effect' \in [Effects -> Effect]
    BY DEF TypeOK, Effect, Episodes, DispatchEffect, Dispatched
  <2>. QED
    BY <2>1, <2>2, <2>3 DEF TypeOK
<1>2. Ordered'
  <2>1. \A q \in Episodes : episode'[q].state = "none" <=> episode[q].state = "none"
    BY DEF TypeOK, ActiveIsNewest, Live, Outcomes, DispatchEffect, Lease, Dispatched
  <2>. QED
    BY <2>1, KeepsOrder
<1>3. Accounted'
  <2>. USE DEF TypeOK, Ordered, LiveIsActive, ActiveIsNewest, UntouchedHasNone,
    OutcomeIsSettled, CancelledTogether, NoneIsNowhere, OpenIsActive,
    Proven, Task, Episode, Effect, EpisodeStates, Terminal, Outcomes, Live,
    Untouched, Episodes, DispatchEffect, Lease, Dispatched
  <2>1. LiveIsActive'
    OBVIOUS
  <2>2. ActiveIsNewest'
    OBVIOUS
  <2>3. UntouchedHasNone'
    OBVIOUS
  <2>4. OutcomeIsSettled'
    OBVIOUS
  <2>5. CancelledTogether'
    OBVIOUS
  <2>6. NoneIsNowhere'
    OBVIOUS
  <2>7. OpenIsActive'
    OBVIOUS
  <2>8. Proven'
    OBVIOUS
  <2>. QED
    BY <2>1, <2>2, <2>3, <2>4, <2>5, <2>6, <2>7, <2>8
<1>. QED
  BY <1>1, <1>2, <1>3

LEMMA ConfirmEffectInv ==
  ASSUME Inv, clock' \in Nat, NEW d \in Devices, NEW p \in Episodes, NEW e \in Effects, NEW now
         \in Nat, ConfirmEffect(d, p, e, now)
  PROVE  Inv'
<1>. USE KernelAssumption DEF Inv, Accounted
<1>1. TypeOK'
  <2>1. task' \in Task
    BY SavedTask DEF TypeOK, ConfirmEffect, Lease
  <2>2. episode' \in [Episodes -> Episode]
    BY EpisodeTyped DEF TypeOK, EpisodeStates, Outcomes, Terminal, ConfirmEffect, Lease
  <2>3. effect' \in [Effects -> Effect]
    BY LostTyped, EffectRow DEF TypeOK, ConfirmEffect, Lease
  <2>. QED
    BY <2>1, <2>2, <2>3 DEF TypeOK
<1>2. Ordered'
  <2>1. \A q \in Episodes : episode'[q].state = "none" <=> episode[q].state = "none"
    BY DEF TypeOK, ActiveIsNewest, Live, Outcomes, ConfirmEffect, Lease
  <2>. QED
    BY <2>1, KeepsOrder
<1>3. Accounted'
  <2>. USE DEF TypeOK, Ordered, LiveIsActive, ActiveIsNewest, UntouchedHasNone,
    OutcomeIsSettled, CancelledTogether, NoneIsNowhere, OpenIsActive,
    Proven, Task, Episode, Effect, EpisodeStates, Terminal, Outcomes, Live,
    Untouched, Episodes, ConfirmEffect, Lease
  <2>1. LiveIsActive'
    OBVIOUS
  <2>2. ActiveIsNewest'
    OBVIOUS
  <2>3. UntouchedHasNone'
    OBVIOUS
  <2>4. OutcomeIsSettled'
    OBVIOUS
  <2>5. CancelledTogether'
    OBVIOUS
  <2>6. NoneIsNowhere'
    OBVIOUS
  <2>7. OpenIsActive'
    OBVIOUS
  <2>8. Proven'
    OBVIOUS
  <2>. QED
    BY <2>1, <2>2, <2>3, <2>4, <2>5, <2>6, <2>7, <2>8
<1>. QED
  BY <1>1, <1>2, <1>3

LEMMA RecordEffectObservationInv ==
  ASSUME Inv, clock' \in Nat, NEW d \in Devices, NEW p \in Episodes, NEW e \in Effects, NEW now
         \in Nat, RecordEffectObservation(d, p, e, now)
  PROVE  Inv'
<1>. USE KernelAssumption DEF Inv, Accounted
<1>1. TypeOK'
  <2>1. task' \in Task
    BY SavedTask DEF TypeOK, RecordEffectObservation, Lease
  <2>2. episode' \in [Episodes -> Episode]
    BY EpisodeTyped DEF TypeOK, EpisodeStates, Outcomes, Terminal, RecordEffectObservation, Lease
  <2>3. effect' \in [Effects -> Effect]
    BY LostTyped, EffectRow DEF TypeOK, RecordEffectObservation, Lease
  <2>. QED
    BY <2>1, <2>2, <2>3 DEF TypeOK
<1>2. Ordered'
  <2>1. \A q \in Episodes : episode'[q].state = "none" <=> episode[q].state = "none"
    BY DEF TypeOK, ActiveIsNewest, Live, Outcomes, RecordEffectObservation, Lease
  <2>. QED
    BY <2>1, KeepsOrder
<1>3. Accounted'
  <2>. USE DEF TypeOK, Ordered, LiveIsActive, ActiveIsNewest, UntouchedHasNone,
    OutcomeIsSettled, CancelledTogether, NoneIsNowhere, OpenIsActive,
    Proven, Task, Episode, Effect, EpisodeStates, Terminal, Outcomes, Live,
    Untouched, Episodes, RecordEffectObservation, Lease
  <2>1. LiveIsActive'
    OBVIOUS
  <2>2. ActiveIsNewest'
    OBVIOUS
  <2>3. UntouchedHasNone'
    OBVIOUS
  <2>4. OutcomeIsSettled'
    OBVIOUS
  <2>5. CancelledTogether'
    OBVIOUS
  <2>6. NoneIsNowhere'
    OBVIOUS
  <2>7. OpenIsActive'
    OBVIOUS
  <2>8. Proven'
    OBVIOUS
  <2>. QED
    BY <2>1, <2>2, <2>3, <2>4, <2>5, <2>6, <2>7, <2>8
<1>. QED
  BY <1>1, <1>2, <1>3

LEMMA AdmitObservationInv ==
  ASSUME Inv, clock' \in Nat, NEW d \in Devices, NEW e \in Effects, AdmitObservation(d, e)
  PROVE  Inv'
<1>. USE KernelAssumption DEF Inv, Accounted
<1>1. TypeOK'
  <2>1. task' \in Task
    BY SavedTask DEF TypeOK, AdmitObservation, Reconcilable
  <2>2. episode' \in [Episodes -> Episode]
    BY EpisodeTyped DEF TypeOK, EpisodeStates, Outcomes, Terminal, AdmitObservation, Reconcilable
  <2>3. effect' \in [Effects -> Effect]
    BY LostTyped, EffectRow DEF TypeOK, AdmitObservation, Reconcilable
  <2>. QED
    BY <2>1, <2>2, <2>3 DEF TypeOK
<1>2. Ordered'
  <2>1. \A q \in Episodes : episode'[q].state = "none" <=> episode[q].state = "none"
    BY DEF TypeOK, ActiveIsNewest, Live, Outcomes, AdmitObservation, Reconcilable
  <2>. QED
    BY <2>1, KeepsOrder
<1>3. Accounted'
  <2>. USE DEF TypeOK, Ordered, LiveIsActive, ActiveIsNewest, UntouchedHasNone,
    OutcomeIsSettled, CancelledTogether, NoneIsNowhere, OpenIsActive,
    Proven, Task, Episode, Effect, EpisodeStates, Terminal, Outcomes, Live,
    Untouched, Episodes, AdmitObservation, Reconcilable
  <2>1. LiveIsActive'
    OBVIOUS
  <2>2. ActiveIsNewest'
    OBVIOUS
  <2>3. UntouchedHasNone'
    OBVIOUS
  <2>4. OutcomeIsSettled'
    OBVIOUS
  <2>5. CancelledTogether'
    OBVIOUS
  <2>6. NoneIsNowhere'
    OBVIOUS
  <2>7. OpenIsActive'
    OBVIOUS
  <2>8. Proven'
    OBVIOUS
  <2>. QED
    BY <2>1, <2>2, <2>3, <2>4, <2>5, <2>6, <2>7, <2>8
<1>. QED
  BY <1>1, <1>2, <1>3

LEMMA ReconcileEffectInv ==
  ASSUME Inv, clock' \in Nat, NEW d \in Devices, NEW e \in Effects, NEW outcome \in Outcomes,
         ReconcileEffect(d, e, outcome)
  PROVE  Inv'
<1>. USE KernelAssumption DEF Inv, Accounted
<1>1. TypeOK'
  <2>1. task' \in Task
    <3>1. outcome \in States /\ 0 \in 0 .. MaxEpisodes /\ TRUE \in BOOLEAN /\ FALSE \in BOOLEAN /\ task \in Task
      BY DEF States, Outcomes, Terminal, Episodes, TypeOK
    <3>2. [task EXCEPT !.status = outcome, !.dirty = FALSE, !.active = 0] \in Task
      BY <3>1, TaskTyped, Zenon
    <3>3. task' = Saved([task EXCEPT !.status = outcome, !.dirty = FALSE, !.active = 0])
      BY DEF ReconcileEffect, Reconcilable, Reconciled, Unconfirmed, EffectsOf
    <3>. QED
      BY <3>2, <3>3, SavedTask
  <2>2. episode' \in [Episodes -> Episode]
    BY EpisodeTyped DEF TypeOK, EpisodeStates, Outcomes, Terminal, ReconcileEffect, Reconcilable, Reconciled, Unconfirmed, EffectsOf
  <2>3. effect' \in [Effects -> Effect]
    BY LostTyped, EffectRow DEF TypeOK, ReconcileEffect, Reconcilable, Reconciled, Unconfirmed, EffectsOf
  <2>. QED
    BY <2>1, <2>2, <2>3 DEF TypeOK
<1>2. Ordered'
  <2>1. \A q \in Episodes : episode'[q].state = "none" <=> episode[q].state = "none"
    BY DEF TypeOK, ActiveIsNewest, Live, Outcomes, ReconcileEffect, Reconcilable, Reconciled, Unconfirmed, EffectsOf
  <2>. QED
    BY <2>1, KeepsOrder
<1>3. Accounted'
  <2>. USE DEF TypeOK, Ordered, LiveIsActive, ActiveIsNewest, UntouchedHasNone,
    OutcomeIsSettled, CancelledTogether, NoneIsNowhere, OpenIsActive,
    Proven, Task, Episode, Effect, EpisodeStates, Terminal, Outcomes, Live,
    Untouched, Episodes, ReconcileEffect, Reconcilable, Reconciled, Saved,
    Unconfirmed, EffectsOf
  <2>1. LiveIsActive'
    OBVIOUS
  <2>2. ActiveIsNewest'
    OBVIOUS
  <2>3. UntouchedHasNone'
    OBVIOUS
  <2>4. OutcomeIsSettled'
    OBVIOUS
  <2>5. CancelledTogether'
    OBVIOUS
  <2>6. NoneIsNowhere'
    OBVIOUS
  <2>7. OpenIsActive'
    OBVIOUS
  <2>8. Proven'
    OBVIOUS
  <2>. QED
    BY <2>1, <2>2, <2>3, <2>4, <2>5, <2>6, <2>7, <2>8
<1>. QED
  BY <1>1, <1>2, <1>3

=============================================================================
