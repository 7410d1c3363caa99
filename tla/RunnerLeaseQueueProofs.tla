----------------------- MODULE RunnerLeaseQueueProofs -----------------------
(***************************************************************************)
(* Proofs about RunnerLeaseQueue, for any Runs, consumers, durations and   *)
(* bounds.                                                                 *)
(***************************************************************************)
EXTENDS RunnerLeaseQueue, TLAPS

USE QueueAssumption

(* The timing assumption of the fencing theorems: from its clock reading to *)
(* its answer, a claim() call is faster than a lease less the worst         *)
(* disagreement of two clocks.                                              *)
PromptClaims == MaxStall + 2 * MaxSkew < LeaseDuration

-----------------------------------------------------------------------------
(* A batch that commits leaves well-typed rows and logs. *)
LEMMA PersistTyped ==
  ASSUME TypeOK, NEW r \in Runs, NEW new \in Row, NEW tag \in EventTags,
         NEW lease \in Nat, NEW t \in Nat, Persist(r, new, tag, lease, t)
  PROVE  /\ row' = [row EXCEPT ![r] = new]
         /\ row' \in [Runs -> Row]
         /\ events' \in [Runs -> Seq(Event)]
<1>1. EventOf(tag, lease, new, t) \in Event
  BY DEF EventOf, Event, Row
<1>. QED
  BY <1>1 DEF Persist, TypeOK

(* So does a batch of which only the event was inserted. *)
LEMMA PersistEventOnlyTyped ==
  ASSUME TypeOK, NEW r \in Runs, NEW tag \in EventTags,
         NEW lease \in Nat, NEW t \in Nat, PersistEventOnly(r, tag, lease, t)
  PROVE  /\ row' = row
         /\ events' \in [Runs -> Seq(Event)]
<1>1. EventOf(tag, lease, row[r], t) \in Event
  BY DEF EventOf, Event, Row, TypeOK
<1>. QED
  BY <1>1 DEF PersistEventOnly, TypeOK

(* Clock readings are natural numbers no later than now + MaxSkew. *)
LEMMA InstantsBound ==
  ASSUME TypeOK
  PROVE  /\ \A t \in Instants : t \in Nat /\ t <= now + MaxSkew
         /\ \A t \in ClockReadings : t \in Nat /\ t <= now + MaxSkew /\ now <= t + MaxSkew
BY DEF Instants, ClockReadings, TypeOK

(* The rows the operations write are well typed. *)
LEMMA RowsTyped ==
  ASSUME TypeOK
  PROVE  /\ \A t \in Nat : EnqueuedRow(t) \in Row
         /\ \A r \in Runs, l \in Nat, t \in Nat : ClaimedRow(r, l, t) \in Row
         /\ \A r \in Runs, t \in Nat : RenewedRow(r, t) \in Row
         /\ \A r \in Runs, s \in DeliveryStates, t \in Nat : FinishedRow(r, s, t) \in Row
         /\ \A r \in Runs, t \in Nat, d \in RetryDelays : ReleasedRow(r, t, d) \in Row
         /\ \A r \in Runs, t \in Nat : RedrivenRow(r, t) \in Row
<1>1. \A t \in Nat : EnqueuedRow(t) \in Row
  BY DEF EnqueuedRow, NoRow, Row, DeliveryStates
<1>2. row \in [Runs -> Row]
  BY DEF TypeOK
<1>3. \A r \in Runs, l \in Nat, t \in Nat : ClaimedRow(r, l, t) \in Row
  <2> TAKE r \in Runs, l \in Nat, t \in Nat
  <2>1. t + LeaseDuration \in Nat
    OBVIOUS
  <2>2. row[r] \in Row /\ row[r].attempts + 1 \in Nat
    BY <1>2 DEF Row
  <2>. QED
    BY <2>1, <2>2 DEF ClaimedRow, Row, DeliveryStates
<1>4. \A r \in Runs, t \in Nat : RenewedRow(r, t) \in Row
  <2> TAKE r \in Runs, t \in Nat
  <2>1. t + LeaseDuration \in Nat
    OBVIOUS
  <2>2. row[r] \in Row
    BY <1>2
  <2>. QED
    BY <2>1, <2>2 DEF RenewedRow, Row
<1>5. \A r \in Runs, s \in DeliveryStates, t \in Nat : FinishedRow(r, s, t) \in Row
  BY <1>2 DEF FinishedRow, Row
<1>6. \A r \in Runs, t \in Nat, d \in RetryDelays : ReleasedRow(r, t, d) \in Row
  <2> TAKE r \in Runs, t \in Nat, d \in RetryDelays
  <2>1. t + d \in Nat
    OBVIOUS
  <2>2. row[r] \in Row
    BY <1>2
  <2>. QED
    BY <2>1, <2>2 DEF ReleasedRow, Row, DeliveryStates
<1>7. \A r \in Runs, t \in Nat : RedrivenRow(r, t) \in Row
  BY <1>2 DEF RedrivenRow, Row, DeliveryStates
<1>. QED
  BY <1>1, <1>3, <1>4, <1>5, <1>6, <1>7

(* So are the records a consumer keeps. *)
LEMMA LocalsTyped ==
  ASSUME TypeOK
  PROVE  /\ NoClaim \in Claim /\ NoDelivery \in Delivery
         /\ \A t \in Nat : NewClaim(t) \in Claim
         /\ \A c \in Consumers, r \in Runs :
              Candidate(c, r) \in Claim /\ Candidate(c, r).run = r
         /\ \A r \in Runs : DeliveryOf(r) \in Delivery /\ DeliveryOf(r).run = r
<1>1. NoClaim \in Claim /\ NoDelivery \in Delivery
  BY DEF NoClaim, Claim, NoDelivery, Delivery, DeliveryStates
<1>2. now \in Nat /\ row \in [Runs -> Row] /\ claim \in [Consumers -> Claim]
  BY DEF TypeOK
<1>3. \A t \in Nat : NewClaim(t) \in Claim
  BY <1>2 DEF NewClaim, NoClaim, Claim, DeliveryStates
<1>4. \A c \in Consumers, r \in Runs : Candidate(c, r) \in Claim /\ Candidate(c, r).run = r
  BY <1>2 DEF Candidate, Claim, Row
<1>5. \A r \in Runs : DeliveryOf(r) \in Delivery /\ DeliveryOf(r).run = r
  BY <1>2 DEF DeliveryOf, Delivery, Row
<1>. QED
  BY <1>1, <1>3, <1>4, <1>5

-----------------------------------------------------------------------------
(* A consumer is at work on a Run of the queue, or awaits an answer on one. *)
RunsKnown ==
  /\ \A c \in Consumers :
       phase[c] \in {"committing", "answering"} => claim[c].run \in Runs
  /\ \A c \in Consumers : phase[c] = "working" => held[c].run \in Runs

(* Every step keeps the state well typed. *)
LEMMA TypeStep ==
  ASSUME TypeOK, RunsKnown, [Next]_vars
  PROVE  TypeOK' /\ RunsKnown'
<1>0. /\ now \in Nat /\ lastLease \in Nat
      /\ row \in [Runs -> Row]
      /\ events \in [Runs -> Seq(Event)]
      /\ phase \in [Consumers -> Phases]
      /\ claim \in [Consumers -> Claim]
      /\ held \in [Consumers -> Delivery]
      /\ redriving \subseteq Redrive
  BY DEF TypeOK
<1>1. CASE Tick
  BY <1>0, <1>1 DEF Tick, TypeOK, RunsKnown
<1>2. CASE ProducerStep
  <2>1. ASSUME NEW r \in Runs, NEW t \in Instants, Enqueue(r, t)
        PROVE  TypeOK' /\ RunsKnown'
    <3>1. row' \in [Runs -> Row] /\ events' \in [Runs -> Seq(Event)]
      BY <2>1, PersistTyped, RowsTyped, InstantsBound DEF Enqueue, EventTags
    <3>. QED
      BY <1>0, <2>1, <3>1 DEF Enqueue, TypeOK, RunsKnown
  <2>2. ASSUME NEW r \in Runs, NEW t \in Instants, CancelQueued(r, t)
        PROVE  TypeOK' /\ RunsKnown'
    <3>1. row' \in [Runs -> Row] /\ events' \in [Runs -> Seq(Event)]
      BY <2>2, PersistTyped, RowsTyped, InstantsBound
         DEF CancelQueued, EventTags, DeliveryStates
    <3>. QED
      BY <1>0, <2>2, <3>1 DEF CancelQueued, TypeOK, RunsKnown
  <2>3. ASSUME NEW r \in Runs, NEW t \in Instants, RedriveRead(r, t)
        PROVE  TypeOK' /\ RunsKnown'
    BY <1>0, <2>3, InstantsBound DEF RedriveRead, TypeOK, RunsKnown, Redrive
  <2>4. ASSUME NEW d \in redriving, RedriveCommit(d)
        PROVE  TypeOK' /\ RunsKnown'
    <3>1. d.run \in Runs /\ d.at \in Nat
      BY <1>0 DEF Redrive
    <3>2. row' \in [Runs -> Row] /\ events' \in [Runs -> Seq(Event)]
      BY <2>4, <3>1, PersistTyped, RowsTyped DEF RedriveCommit, EventTags
    <3>. QED
      BY <1>0, <2>4, <3>2 DEF RedriveCommit, TypeOK, RunsKnown
  <2>5. ASSUME NEW d \in redriving, RedriveConflict(d)
        PROVE  TypeOK' /\ RunsKnown'
    <3>1. d.run \in Runs /\ d.at \in Nat
      BY <1>0 DEF Redrive
    <3>2. row' = row /\ events' \in [Runs -> Seq(Event)]
      BY <1>0, <2>5, <3>1, PersistEventOnlyTyped DEF RedriveConflict, EventTags
    <3>. QED
      BY <1>0, <2>5, <3>2 DEF RedriveConflict, TypeOK, RunsKnown
  <2>6. ASSUME NEW d \in redriving, RedriveAbort(d)
        PROVE  TypeOK' /\ RunsKnown'
    BY <1>0, <2>6 DEF RedriveAbort, TypeOK, RunsKnown
  <2>. QED
    BY <1>2, <2>1, <2>2, <2>3, <2>4, <2>5, <2>6 DEF ProducerStep
<1>3. ASSUME NEW c \in Consumers, ConsumerStep(c) PROVE TypeOK' /\ RunsKnown'
  <2>1. ASSUME NEW t \in ClockReadings, ClaimStart(c, t)
        PROVE  TypeOK' /\ RunsKnown'
    <3>1. NewClaim(t) \in Claim
      BY LocalsTyped, InstantsBound
    <3>. QED
      BY <1>0, <2>1, <3>1 DEF ClaimStart, TypeOK, RunsKnown, Phases
  <2>2. ASSUME NEW r \in Runs, ClaimSelect(c, r)
        PROVE  TypeOK' /\ RunsKnown'
    <3>1. claim' \in [Consumers -> Claim] /\ claim'[c].run = r
      BY <1>0, <2>2, LocalsTyped DEF ClaimSelect
    <3>2. \A d \in Consumers : d # c => claim'[d] = claim[d] /\ phase'[d] = phase[d]
      BY <1>0, <2>2 DEF ClaimSelect
    <3>3. /\ phase' \in [Consumers -> Phases]
          /\ phase'[c] = "committing"
          /\ UNCHANGED <<now, row, events, lastLease, held, redriving>>
      BY <1>0, <2>2 DEF ClaimSelect, Phases
    <3>. QED
      BY <1>0, <3>1, <3>2, <3>3 DEF TypeOK, RunsKnown
  <2>3. CASE ClaimNothing(c)
    BY <1>0, <2>3, LocalsTyped DEF ClaimNothing, TypeOK, RunsKnown, Phases
  <2>4. CASE ClaimCommit(c)
    <3>1. claim[c].run \in Runs /\ claim[c].at \in Nat
      BY <1>0, <2>4 DEF ClaimCommit, RunsKnown, Claim
    <3>2. lastLease + 1 \in Nat
      BY <1>0
    <3>3. ClaimTag(c) \in EventTags
      BY DEF ClaimTag, EventTags
    <3>4. row' \in [Runs -> Row] /\ events' \in [Runs -> Seq(Event)]
      BY <2>4, <3>1, <3>2, <3>3, PersistTyped, RowsTyped DEF ClaimCommit
    <3>. QED
      BY <1>0, <2>4, <3>1, <3>2, <3>4 DEF ClaimCommit, TypeOK, RunsKnown, Phases
  <2>5. CASE ClaimConflict(c)
    <3>1. /\ phase' \in [Consumers -> Phases]
          /\ phase'[c] \in {"selecting", "idle"}
          /\ \A d \in Consumers : d # c => phase'[d] = phase[d]
      BY <1>0, <2>5 DEF ClaimConflict, Phases
    <3>2. /\ claim' \in [Consumers -> Claim]
          /\ \A d \in Consumers : d # c => claim'[d] = claim[d]
      BY <1>0, <2>5, LocalsTyped DEF ClaimConflict
    <3>3. UNCHANGED <<now, row, events, lastLease, held, redriving>>
      BY <2>5 DEF ClaimConflict
    <3>. QED
      BY <1>0, <3>1, <3>2, <3>3 DEF TypeOK, RunsKnown
  <2>6. CASE ClaimAnswer(c)
    <3>1. claim[c].run \in Runs
      BY <2>6 DEF ClaimAnswer, RunsKnown
    <3>2. /\ NoClaim \in Claim
          /\ DeliveryOf(claim[c].run) \in Delivery
          /\ DeliveryOf(claim[c].run).run = claim[c].run
      BY <3>1, LocalsTyped
    <3>4. CASE row[claim[c].run].state = "leased"
      BY <1>0, <2>6, <3>1, <3>2, <3>4
         DEF ClaimAnswer, TypeOK, RunsKnown, Phases
    <3>5. CASE row[claim[c].run].state # "leased"
      BY <1>0, <2>6, <3>2, <3>5 DEF ClaimAnswer, TypeOK, RunsKnown, Phases
    <3>. QED
      BY <3>4, <3>5
  <2>7. ASSUME NEW t \in Instants, Renew(c, t)
        PROVE  TypeOK' /\ RunsKnown'
    <3>1. held[c].run \in Runs /\ held[c].lease \in Nat
      BY <1>0, <2>7 DEF Renew, RunsKnown, Delivery
    <3>3. row' \in [Runs -> Row] /\ events' \in [Runs -> Seq(Event)]
      BY <2>7, <3>1, PersistTyped, RowsTyped, InstantsBound DEF Renew, EventTags
    <3>4. held' \in [Consumers -> Delivery] /\ \A d \in Consumers : held'[d].run = held[d].run
      <4>1. t + LeaseDuration \in Nat
        BY InstantsBound
      <4>2. held[c] \in Delivery
        BY <1>0
      <4>3. [held[c] EXCEPT !.until = t + LeaseDuration] \in Delivery
        BY <4>1, <4>2 DEF Delivery
      <4>4. [held[c] EXCEPT !.until = t + LeaseDuration].run = held[c].run
        BY <4>2 DEF Delivery
      <4>. QED
        BY <1>0, <2>7, <4>3, <4>4 DEF Renew
    <3>. QED
      BY <1>0, <2>7, <3>3, <3>4 DEF Renew, TypeOK, RunsKnown
  <2>8. ASSUME NEW t \in Instants, RenewRefused(c, t)
        PROVE  TypeOK' /\ RunsKnown'
    <3>1. held[c].run \in Runs /\ held[c].lease \in Nat
      BY <1>0, <2>8 DEF RenewRefused, RunsKnown, Delivery
    <3>2. row' = row /\ events' \in [Runs -> Seq(Event)]
      BY <2>8, <3>1, PersistEventOnlyTyped, InstantsBound DEF RenewRefused, EventTags
    <3>. QED
      BY <1>0, <2>8, <3>2 DEF RenewRefused, TypeOK, RunsKnown
  <2>9. ASSUME NEW t \in Instants, NEW new \in Row, NEW tag \in EventTags,
               SettleLease(c, t, tag, new)
        PROVE  TypeOK' /\ RunsKnown'
    <3>1. held[c].run \in Runs /\ held[c].lease \in Nat
      BY <1>0, <2>9 DEF SettleLease, RunsKnown, Delivery
    <3>2. row' \in [Runs -> Row] /\ events' \in [Runs -> Seq(Event)]
      BY <2>9, <3>1, PersistTyped, InstantsBound DEF SettleLease
    <3>. QED
      BY <1>0, <2>9, <3>2, LocalsTyped DEF SettleLease, Drop, TypeOK, RunsKnown, Phases
  <2>10. ASSUME NEW t \in Instants, Acknowledge(c, t)
         PROVE  TypeOK' /\ RunsKnown'
    <3>1. held[c].run \in Runs
      BY <2>10 DEF Acknowledge, SettleLease, RunsKnown
    <3>2. FinishedRow(held[c].run, "acknowledged", t) \in Row
      BY <3>1, RowsTyped, InstantsBound DEF DeliveryStates
    <3>. QED
      BY <2>9, <2>10, <3>2 DEF Acknowledge, EventTags
  <2>11. ASSUME NEW t \in Instants, DeadLetter(c, t)
         PROVE  TypeOK' /\ RunsKnown'
    <3>1. held[c].run \in Runs
      BY <2>11 DEF DeadLetter, SettleLease, RunsKnown
    <3>2. FinishedRow(held[c].run, "dead_letter", t) \in Row
      BY <3>1, RowsTyped, InstantsBound DEF DeliveryStates
    <3>. QED
      BY <2>9, <2>11, <3>2 DEF DeadLetter, EventTags
  <2>12. ASSUME NEW t \in Instants, NEW delay \in RetryDelays, Release(c, t, delay)
         PROVE  TypeOK' /\ RunsKnown'
    <3>1. held[c].run \in Runs
      BY <2>12 DEF Release, SettleLease, RunsKnown
    <3>2. ReleasedRow(held[c].run, t, delay) \in Row
      BY <3>1, RowsTyped, InstantsBound
    <3>. QED
      BY <2>9, <2>12, <3>2 DEF Release, EventTags
  <2>13. CASE Forget(c)
    BY <1>0, <2>13, LocalsTyped DEF Forget, Drop, TypeOK, RunsKnown, Phases
  <2>. QED
    BY <1>3, <2>1, <2>2, <2>3, <2>4, <2>5, <2>6, <2>7, <2>8, <2>10, <2>11,
       <2>12, <2>13 DEF ConsumerStep
<1>4. CASE UNCHANGED vars
  BY <1>0, <1>4 DEF vars, TypeOK, RunsKnown
<1>. QED
  BY <1>1, <1>2, <1>3, <1>4 DEF Next

(* Every reachable state of the queue is well typed. *)
THEOREM TypeCorrect == Spec => [](TypeOK /\ RunsKnown)
<1>1. Init => TypeOK /\ RunsKnown
  BY DEF Init, TypeOK, RunsKnown, Row, NoRow, DeliveryStates, Event, Claim,
         NoClaim, Delivery, NoDelivery, Phases, Redrive
<1>2. TypeOK /\ RunsKnown /\ [Next]_vars => TypeOK' /\ RunsKnown'
  BY TypeStep
<1>. QED
  BY <1>1, <1>2, PTL DEF Spec

-----------------------------------------------------------------------------
(* What a committed batch leaves in the rows. *)
LEMMA PersistWrites ==
  ASSUME TypeOK, NEW r \in Runs, NEW new, NEW tag, NEW lease, NEW t,
         Persist(r, new, tag, lease, t)
  PROVE  row'[r] = new /\ \A s \in Runs : s # r => row'[s] = row[s]
BY DEF Persist, TypeOK

(* The fields of the rows the operations write that matter to leases. *)
LEMMA RowFields ==
  ASSUME TypeOK
  PROVE  /\ \A t \in Nat : EnqueuedRow(t).state = "queued" /\ EnqueuedRow(t).lease = 0
         /\ \A r \in Runs, l \in Nat, t \in Nat :
              /\ ClaimedRow(r, l, t).state = "leased"
              /\ ClaimedRow(r, l, t).lease = l
              /\ ClaimedRow(r, l, t).expiresAt = t + LeaseDuration
         /\ \A r \in Runs, t \in Nat :
              /\ RenewedRow(r, t).state = row[r].state
              /\ RenewedRow(r, t).lease = row[r].lease
              /\ RenewedRow(r, t).expiresAt = t + LeaseDuration
         /\ \A r \in Runs, to \in DeliveryStates, t \in Nat :
              FinishedRow(r, to, t).state = to /\ FinishedRow(r, to, t).lease = row[r].lease
         /\ \A r \in Runs, t \in Nat, d \in RetryDelays :
              /\ ReleasedRow(r, t, d).state = "queued"
              /\ ReleasedRow(r, t, d).lease = row[r].lease
         /\ \A r \in Runs, t \in Nat :
              RedrivenRow(r, t).state = "queued" /\ RedrivenRow(r, t).lease = 0
<1>1. row \in [Runs -> Row]
  BY DEF TypeOK
<1>2. \A t \in Nat : EnqueuedRow(t).state = "queued" /\ EnqueuedRow(t).lease = 0
  BY DEF EnqueuedRow, NoRow
<1>3. \A r \in Runs, l \in Nat, t \in Nat :
        /\ ClaimedRow(r, l, t).state = "leased"
        /\ ClaimedRow(r, l, t).lease = l
        /\ ClaimedRow(r, l, t).expiresAt = t + LeaseDuration
  BY <1>1 DEF ClaimedRow, Row
<1>4. \A r \in Runs, t \in Nat :
        /\ RenewedRow(r, t).state = row[r].state
        /\ RenewedRow(r, t).lease = row[r].lease
        /\ RenewedRow(r, t).expiresAt = t + LeaseDuration
  BY <1>1 DEF RenewedRow, Row
<1>5. \A r \in Runs, to \in DeliveryStates, t \in Nat :
        FinishedRow(r, to, t).state = to /\ FinishedRow(r, to, t).lease = row[r].lease
  BY <1>1 DEF FinishedRow, Row
<1>6. \A r \in Runs, t \in Nat, d \in RetryDelays :
        /\ ReleasedRow(r, t, d).state = "queued"
        /\ ReleasedRow(r, t, d).lease = row[r].lease
  BY <1>1 DEF ReleasedRow, Row
<1>7. \A r \in Runs, t \in Nat :
        RedrivenRow(r, t).state = "queued" /\ RedrivenRow(r, t).lease = 0
  BY <1>1 DEF RedrivenRow, Row
<1>. QED
  BY <1>2, <1>3, <1>4, <1>5, <1>6, <1>7

LEMMA FinishedFields ==
  ASSUME TypeOK, NEW r \in Runs, NEW to \in DeliveryStates, NEW t \in Nat
  PROVE  FinishedRow(r, to, t).state = to /\ FinishedRow(r, to, t).lease = row[r].lease
BY RowFields

(* The numbers a state is made of. *)
LEMMA FieldsTyped ==
  ASSUME TypeOK
  PROVE  /\ now \in Nat /\ lastLease \in Nat
         /\ \A r \in Runs : /\ row[r].lease \in Nat
                            /\ row[r].expiresAt \in Nat
                            /\ row[r].state \in DeliveryStates
         /\ \A c \in Consumers : /\ claim[c].started \in Nat
                                 /\ claim[c].at \in Nat
                                 /\ held[c].lease \in Nat
                                 /\ held[c].until \in Nat
                                 /\ phase[c] \in Phases
BY DEF TypeOK, Row, Claim, Delivery

(* The lease of a claim() that has not been answered yet has longer to live *)
(* than the skew: no other consumer's clock can see it expired.             *)
LEMMA AnswerPendingLive ==
  ASSUME PromptClaims, FencingInv, NEW c \in Consumers, phase[c] = "answering"
  PROVE  row[claim[c].run].expiresAt > now + MaxSkew
<1>1. /\ now <= claim[c].started + MaxStall
      /\ claim[c].started <= claim[c].at + MaxSkew
  BY DEF FencingInv, ClaimTimely, Claiming
<1>2. claim[c].run \in Runs /\ row[claim[c].run].expiresAt >= claim[c].at + LeaseDuration
  BY DEF FencingInv, AnswerPending, WorkingOnRun
<1>3. /\ now \in Nat /\ claim[c].started \in Nat /\ claim[c].at \in Nat
      /\ row[claim[c].run].expiresAt \in Nat
  BY <1>2, FieldsTyped DEF FencingInv
<1>4. LeaseDuration \in Nat
  OBVIOUS
<1>. QED
  BY <1>1, <1>2, <1>3, <1>4 DEF PromptClaims

(* Steps that write no row and make nobody start or end its work. *)
LEMMA FencingLocalStep ==
  ASSUME FencingInv, TypeOK', NEW c \in Consumers,
         UNCHANGED <<now, row, lastLease, held>>,
         \A d \in Consumers : d # c => phase'[d] = phase[d] /\ claim'[d] = claim[d],
         phase'[c] \in {"idle", "selecting", "committing"},
         phase'[c] \in {"selecting", "committing"} =>
           /\ claim'[c].started <= now /\ now <= claim'[c].started + MaxStall
           /\ claim'[c].at <= claim'[c].started + MaxSkew
           /\ claim'[c].started <= claim'[c].at + MaxSkew,
         phase'[c] = "committing" => claim'[c].run \in Runs
  PROVE  FencingInv'
<1> USE DEF FencingInv
<1>1. ClaimTimely'
  BY DEF ClaimTimely, Claiming
<1>2. LeaseIdsFresh'
  BY DEF LeaseIdsFresh
<1>3. WorkingOnRun'
  BY DEF WorkingOnRun
<1>4. AnswerPending'
  BY DEF AnswerPending
<1>5. TokenExclusive'
  BY DEF TokenExclusive
<1>6. LeaseHonoured'
  BY DEF LeaseHonoured, StillLeased
<1>7. LeaseBounded'
  BY DEF LeaseBounded
<1>. QED
  BY <1>1, <1>2, <1>3, <1>4, <1>5, <1>6, <1>7

(* Steps of the producers: a row that is not leased stays without a lease   *)
(* in force.                                                                *)
LEMMA FencingProducerStep ==
  ASSUME FencingInv, TypeOK', NEW r \in Runs,
         UNCHANGED <<now, lastLease, phase, claim, held>>,
         \A s \in Runs : s # r => row'[s] = row[s],
         row[r].state # "leased", row'[r].state # "leased",
         row'[r].lease \in {0, row[r].lease}
  PROVE  FencingInv'
<1> USE DEF FencingInv
<1>0. /\ \A s \in Runs : row[s].lease \in Nat
      /\ \A c \in Consumers : held[c].lease \in Nat
  BY FieldsTyped
<1>1. ClaimTimely'
  BY DEF ClaimTimely, Claiming
<1>2. LeaseIdsFresh'
  BY <1>0, FieldsTyped DEF LeaseIdsFresh
<1>3. WorkingOnRun'
  BY <1>0 DEF WorkingOnRun
<1>4. AnswerPending'
  BY DEF AnswerPending, WorkingOnRun
<1>5. TokenExclusive'
  BY DEF TokenExclusive
<1>6. LeaseHonoured'
  BY DEF LeaseHonoured, StillLeased, WorkingOnRun
<1>7. LeaseBounded'
  BY DEF LeaseBounded
<1>. QED
  BY <1>1, <1>2, <1>3, <1>4, <1>5, <1>6, <1>7

(* Steps in which the consumer that holds the lease in force writes its row: *)
(* it renews and goes on, or it settles and stops.                           *)
LEMMA FencingHolderStep ==
  ASSUME FencingInv, TypeOK', NEW c \in Consumers, NEW r \in Runs,
         phase[c] = "working", held[c].run = r,
         row[r].state = "leased", row[r].lease = held[c].lease,
         UNCHANGED <<now, lastLease, claim>>,
         \A s \in Runs : s # r => row'[s] = row[s],
         row'[r].lease = row[r].lease,
         \A d \in Consumers : d # c => phase'[d] = phase[d] /\ held'[d] = held[d],
         \/ /\ phase'[c] = "working" /\ held'[c].run = r
            /\ held'[c].lease = held[c].lease
            /\ row'[r].state = "leased"
            /\ row'[r].expiresAt = held'[c].until
            /\ row'[r].expiresAt <= now + MaxSkew + LeaseDuration
         \/ phase'[c] = "idle" /\ row'[r].state # "leased"
  PROVE  FencingInv'
<1> USE DEF FencingInv
<1>1. ClaimTimely'
  BY DEF ClaimTimely, Claiming
<1>2. LeaseIdsFresh'
  BY DEF LeaseIdsFresh
<1>3. WorkingOnRun'
  BY DEF WorkingOnRun
<1>4. AnswerPending'
  <2>1. \A d \in Consumers : phase'[d] = "answering" =>
          d # c /\ phase[d] = "answering" /\ claim[d].run \in Runs /\ claim[d].run # r
    BY DEF AnswerPending, WorkingOnRun
  <2>. QED
    BY <2>1 DEF AnswerPending
<1>5. TokenExclusive'
  BY DEF TokenExclusive
<1>6. LeaseHonoured'
  <2>1. \A d \in Consumers : d # c /\ StillLeased(d)' => StillLeased(d) /\ held[d].run # r
    BY DEF LeaseHonoured, StillLeased, TokenExclusive
  <2>2. \A d \in Consumers : d # c => (StillLeased(d)' =>
          /\ row'[held'[d].run].state = "leased"
          /\ row'[held'[d].run].lease = held'[d].lease
          /\ row'[held'[d].run].expiresAt >= held'[d].until)
    BY <2>1 DEF LeaseHonoured, StillLeased, WorkingOnRun
  <2>3. StillLeased(c)' =>
          /\ row'[held'[c].run].state = "leased"
          /\ row'[held'[c].run].lease = held'[c].lease
          /\ row'[held'[c].run].expiresAt >= held'[c].until
    <3>1. held'[c].until \in Nat
      BY DEF TypeOK, Delivery
    <3>. QED
      BY <3>1 DEF StillLeased
  <2>. QED
    BY <2>2, <2>3 DEF LeaseHonoured
<1>7. LeaseBounded'
  BY DEF LeaseBounded
<1>. QED
  BY <1>1, <1>2, <1>3, <1>4, <1>5, <1>6, <1>7

(* What the batch of a claim() writes into the row it takes. *)
LEMMA ClaimedRowFields ==
  ASSUME TypeOK, NEW s \in Runs, NEW l \in Nat, NEW t \in Nat
  PROVE  /\ ClaimedRow(s, l, t).state = "leased"
         /\ ClaimedRow(s, l, t).lease = l
         /\ ClaimedRow(s, l, t).expiresAt = t + LeaseDuration
  BY RowFields

(* The batch of a claim() takes a row whose lease nobody counts on. *)
LEMMA FencingClaimCommit ==
  ASSUME PromptClaims, FencingInv, TypeOK', NEW c \in Consumers, ClaimCommit(c)
  PROVE  FencingInv'
<1> DEFINE r == claim[c].run
<1> USE DEF FencingInv
<1>0. /\ r \in Runs /\ claim[c].at \in Nat /\ lastLease + 1 \in Nat
      /\ phase[c] = "committing"
      /\ phase' = [phase EXCEPT ![c] = "answering"]
      /\ lastLease' = lastLease + 1
      /\ UNCHANGED <<now, claim, held, redriving>>
      /\ Ready(r, claim[c].at)
  BY FieldsTyped DEF ClaimCommit, WorkingOnRun, CandidateUnchanged
<1>1. /\ row'[r].state = "leased" /\ row'[r].lease = lastLease + 1
      /\ row'[r].expiresAt = claim[c].at + LeaseDuration
      /\ \A s \in Runs : s # r => row'[s] = row[s]
  <2>1. PICK l \in Nat : l = lastLease + 1
    BY <1>0
  <2>2. Persist(r, ClaimedRow(r, l, claim[c].at), ClaimTag(c), l, claim[c].at)
    BY <2>1 DEF ClaimCommit
  <2>3. /\ row'[r] = ClaimedRow(r, l, claim[c].at)
        /\ \A s \in Runs : s # r => row'[s] = row[s]
    BY <1>0, <2>2, PersistWrites
  <2>4. /\ ClaimedRow(r, l, claim[c].at).state = "leased"
        /\ ClaimedRow(r, l, claim[c].at).lease = l
        /\ ClaimedRow(r, l, claim[c].at).expiresAt = claim[c].at + LeaseDuration
    <3>1. TypeOK /\ r \in Runs /\ claim[c].at \in Nat
      BY <1>0
    <3> HIDE DEF r, FencingInv
    <3>. QED
      BY <3>1, ClaimedRowFields
  <2>. QED
    BY <2>1, <2>3, <2>4
<1>2. phase \in [Consumers -> Phases]
  BY DEF TypeOK
<1>3. claim[c].at <= now + MaxSkew
  BY <1>0, FieldsTyped DEF ClaimTimely, Claiming
<1>4. row[r].state = "leased" => row[r].expiresAt <= now + MaxSkew
  BY <1>0, <1>3, FieldsTyped DEF Ready
<1>5. \A d \in Consumers : phase[d] = "answering" => claim[d].run # r
  <2> SUFFICES ASSUME NEW d \in Consumers, phase[d] = "answering", claim[d].run = r
               PROVE  FALSE
    OBVIOUS
  <2>1. row[r].state = "leased" /\ row[r].expiresAt > now + MaxSkew
    BY AnswerPendingLive DEF AnswerPending
  <2>. QED
    BY <1>0, <1>4, <2>1, FieldsTyped
<1>6. \A d \in Consumers : StillLeased(d) => held[d].run # r
  BY <1>0, <1>4, FieldsTyped DEF LeaseHonoured, StillLeased
<1>7. \A s \in Runs : row[s].lease < lastLease + 1
  BY FieldsTyped DEF LeaseIdsFresh
<1>8. \A d \in Consumers : phase[d] = "working" => d # c /\ held[d].lease < lastLease + 1
  BY <1>0, FieldsTyped DEF WorkingOnRun
<1>11. ClaimTimely'
  BY <1>0, <1>2 DEF ClaimTimely, Claiming
<1>12. LeaseIdsFresh'
  BY <1>0, <1>1, <1>7, FieldsTyped DEF LeaseIdsFresh
<1>13. WorkingOnRun'
  BY <1>0, <1>1, <1>2, <1>8, FieldsTyped DEF WorkingOnRun
<1>14. AnswerPending'
  <2>1. \A d \in Consumers : d # c => phase'[d] = phase[d]
    BY <1>0, <1>2
  <2>2. phase'[c] = "answering"
    BY <1>0, <1>2
  <2>3. \A d \in Consumers : d # c /\ phase[d] = "answering" => row'[claim[d].run] = row[claim[d].run]
    BY <1>1, <1>5 DEF WorkingOnRun
  <2>4. row'[r].expiresAt >= claim[c].at + LeaseDuration
    <3>1. claim[c].at + LeaseDuration \in Nat
      BY <1>0
    <3>. QED
      BY <1>1, <3>1
  <2>5. \A d \in Consumers : phase[d] = "working" => held[d].lease # row'[r].lease
    BY <1>1, <1>8, FieldsTyped
  <2>. QED
    BY <1>0, <1>1, <1>5, <2>1, <2>2, <2>3, <2>4, <2>5 DEF AnswerPending
<1>15. TokenExclusive'
  BY <1>0, <1>2 DEF TokenExclusive
<1>16. LeaseHonoured'
  <2>1. \A d \in Consumers : StillLeased(d)' =>
          StillLeased(d) /\ held'[d] = held[d] /\ held[d].run \in Runs /\ held[d].run # r
    BY <1>0, <1>2, <1>6 DEF StillLeased, WorkingOnRun
  <2>. QED
    BY <1>1, <2>1 DEF LeaseHonoured
<1>17. LeaseBounded'
  <2>1. row'[r].expiresAt <= now + MaxSkew + LeaseDuration
    BY <1>0, <1>1, <1>3, FieldsTyped
  <2>. QED
    BY <1>0, <1>1, <2>1 DEF LeaseBounded
<1>. QED
  BY <1>11, <1>12, <1>13, <1>14, <1>15, <1>16, <1>17

(* The answer of a claim() hands out the lease its batch wrote. *)
LEMMA FencingClaimAnswer ==
  ASSUME FencingInv, TypeOK', NEW c \in Consumers, ClaimAnswer(c)
  PROVE  FencingInv'
<1> DEFINE r == claim[c].run
<1> USE DEF FencingInv
<1>0. /\ r \in Runs /\ row[r].state = "leased" /\ phase[c] = "answering"
      /\ \A d \in Consumers : phase[d] = "working" => held[d].lease # row[r].lease
      /\ \A d \in Consumers : phase[d] = "answering" /\ claim[d].run = r => d = c
  BY DEF ClaimAnswer, WorkingOnRun, AnswerPending
<1>1. /\ phase'[c] = "working" /\ held'[c] = DeliveryOf(r)
      /\ UNCHANGED <<now, row, lastLease>>
      /\ \A d \in Consumers : d # c =>
           /\ phase'[d] = phase[d] /\ held'[d] = held[d] /\ claim'[d] = claim[d]
  BY <1>0 DEF ClaimAnswer, TypeOK
<1>2. /\ held'[c].run = r /\ held'[c].lease = row[r].lease
      /\ held'[c].until = row[r].expiresAt
  BY <1>1 DEF DeliveryOf
<1>11. ClaimTimely'
  BY <1>1 DEF ClaimTimely, Claiming
<1>12. LeaseIdsFresh'
  BY <1>1 DEF LeaseIdsFresh
<1>13. WorkingOnRun'
  <2>1. row[r].lease \in 1..lastLease
    BY <1>0, FieldsTyped DEF LeaseIdsFresh
  <2>2. \A s \in Runs : row[s].lease = row[r].lease => s = r
    BY <1>0, FieldsTyped DEF LeaseIdsFresh
  <2>. QED
    BY <1>0, <1>1, <1>2, <2>1, <2>2 DEF WorkingOnRun
<1>14. AnswerPending'
  <2>1. \A d \in Consumers : phase'[d] = "answering" =>
          /\ d # c /\ phase[d] = "answering" /\ claim'[d] = claim[d]
          /\ claim[d].run \in Runs /\ claim[d].run # r
    BY <1>0, <1>1 DEF WorkingOnRun
  <2>2. \A d \in Consumers : phase[d] = "answering" /\ claim[d].run # r =>
          row[claim[d].run].lease # row[r].lease
    BY <1>0, FieldsTyped DEF LeaseIdsFresh, WorkingOnRun
  <2>. QED
    BY <1>1, <1>2, <2>1, <2>2 DEF AnswerPending
<1>15. TokenExclusive'
  BY <1>0, <1>1, <1>2 DEF TokenExclusive
<1>16. LeaseHonoured'
  BY <1>0, <1>1, <1>2, FieldsTyped DEF LeaseHonoured, StillLeased
<1>17. LeaseBounded'
  BY <1>1 DEF LeaseBounded
<1>. QED
  BY <1>11, <1>12, <1>13, <1>14, <1>15, <1>16, <1>17

(* A step of a consumer on its lease, once the lease is known to be in force. *)
LEMMA FencingSettle ==
  ASSUME FencingInv, TypeOK', NEW c \in Consumers, NEW t, NEW tag, NEW new,
         SettleLease(c, t, tag, new), new.lease = row[held[c].run].lease,
         new.state # "leased"
  PROVE  FencingInv'
<1>1. /\ phase[c] = "working" /\ held[c].run \in Runs
      /\ row[held[c].run].state = "leased"
      /\ row[held[c].run].lease = held[c].lease
  BY DEF SettleLease, LeaseInForce, FencingInv, WorkingOnRun
<1>2. /\ row'[held[c].run] = new
      /\ \A s \in Runs : s # held[c].run => row'[s] = row[s]
  BY <1>1, PersistWrites DEF SettleLease, FencingInv
<1>3. /\ UNCHANGED <<now, lastLease, claim>>
      /\ phase'[c] = "idle"
      /\ \A d \in Consumers : d # c => phase'[d] = phase[d] /\ held'[d] = held[d]
  BY DEF SettleLease, Drop, FencingInv, TypeOK
<1>. QED
  BY <1>1, <1>2, <1>3, FencingHolderStep

(* Every step preserves the invariant. *)
LEMMA FencingStep ==
  ASSUME PromptClaims, FencingInv, TypeOK', [Next]_vars
  PROVE  FencingInv'
<1>0. /\ TypeOK
      /\ phase \in [Consumers -> Phases] /\ claim \in [Consumers -> Claim]
      /\ held \in [Consumers -> Delivery] /\ now \in Nat
  BY DEF FencingInv, TypeOK
<1>1. CASE Tick
  <2>1. now' = now + 1 /\ UNCHANGED <<row, lastLease, phase, claim, held>>
    BY <1>1 DEF Tick
  <2>2. ClaimTimely'
    BY <1>0, <1>1, <2>1, FieldsTyped DEF FencingInv, ClaimTimely, Claiming, Tick
  <2>3. LeaseIdsFresh' /\ WorkingOnRun' /\ AnswerPending' /\ TokenExclusive'
    BY <2>1 DEF FencingInv, LeaseIdsFresh, WorkingOnRun, AnswerPending, TokenExclusive
  <2>4. LeaseHonoured'
    BY <1>0, <2>1, FieldsTyped DEF FencingInv, LeaseHonoured, StillLeased
  <2>5. LeaseBounded'
    BY <1>0, <2>1, FieldsTyped DEF FencingInv, LeaseBounded
  <2>. QED
    BY <2>2, <2>3, <2>4, <2>5 DEF FencingInv
<1>2. CASE ProducerStep
  <2>1. ASSUME NEW r \in Runs, NEW t \in Instants, Enqueue(r, t) PROVE FencingInv'
    BY <1>0, <2>1, PersistWrites, RowFields, InstantsBound, FencingProducerStep DEF Enqueue
  <2>2. ASSUME NEW r \in Runs, NEW t \in Instants, CancelQueued(r, t) PROVE FencingInv'
    <3>1. row'[r].state # "leased" /\ row'[r].lease = row[r].lease
      BY <1>0, <2>2, PersistWrites, RowFields, InstantsBound DEF CancelQueued, DeliveryStates
    <3>. QED
      BY <1>0, <2>2, <3>1, PersistWrites, FencingProducerStep DEF CancelQueued
  <2>3. ASSUME NEW d \in redriving, RedriveCommit(d) PROVE FencingInv'
    <3>1. d.run \in Runs /\ d.at \in Nat
      BY <1>0 DEF TypeOK, Redrive
    <3>2. row'[d.run].state = "queued" /\ row'[d.run].lease = 0
      BY <1>0, <2>3, <3>1, PersistWrites, RowFields DEF RedriveCommit
    <3>3. /\ row[d.run].state = "dead_letter"
          /\ UNCHANGED <<now, lastLease, phase, claim, held>>
          /\ \A s \in Runs : s # d.run => row'[s] = row[s]
      BY <1>0, <2>3, <3>1, PersistWrites DEF RedriveCommit
    <3>. QED
      BY <3>1, <3>2, <3>3, FencingProducerStep
  <2>4. ASSUME UNCHANGED <<now, row, lastLease, phase, claim, held>> PROVE FencingInv'
    BY <2>4 DEF FencingInv, ClaimTimely, Claiming, LeaseIdsFresh, WorkingOnRun,
               AnswerPending, TokenExclusive, LeaseHonoured, StillLeased, LeaseBounded
  <2>5. ASSUME NEW r \in Runs, NEW t \in Instants, RedriveRead(r, t) PROVE FencingInv'
    BY <2>4, <2>5 DEF RedriveRead
  <2>6. ASSUME NEW d \in redriving, RedriveConflict(d) \/ RedriveAbort(d) PROVE FencingInv'
    BY <2>4, <2>6 DEF RedriveConflict, RedriveAbort, PersistEventOnly
  <2>. QED
    BY <1>2, <2>1, <2>2, <2>3, <2>5, <2>6 DEF ProducerStep
<1>3. ASSUME NEW c \in Consumers, ConsumerStep(c) PROVE FencingInv'
  <2>1. ASSUME NEW t \in ClockReadings, ClaimStart(c, t) PROVE FencingInv'
    <3>1. /\ claim'[c].started = now /\ claim'[c].at = t /\ phase'[c] = "selecting"
      BY <1>0, <2>1 DEF ClaimStart, NewClaim, NoClaim
    <3>2. /\ UNCHANGED <<now, row, lastLease, held>>
          /\ \A d \in Consumers : d # c => phase'[d] = phase[d] /\ claim'[d] = claim[d]
      BY <1>0, <2>1 DEF ClaimStart
    <3>3. now <= now + MaxStall /\ t <= now + MaxSkew /\ now <= t + MaxSkew
      BY <1>0, InstantsBound
    <3>4. /\ claim'[c].started <= now /\ now <= claim'[c].started + MaxStall
          /\ claim'[c].at <= claim'[c].started + MaxSkew
          /\ claim'[c].started <= claim'[c].at + MaxSkew
      BY <1>0, <3>1, <3>3
    <3>. QED
      BY <3>1, <3>2, <3>4, FencingLocalStep
  <2>2. ASSUME NEW r \in Runs, ClaimSelect(c, r) PROVE FencingInv'
    <3>1. /\ UNCHANGED <<now, row, lastLease, held>>
          /\ phase[c] = "selecting" /\ phase'[c] = "committing"
          /\ claim'[c] = Candidate(c, r)
          /\ \A d \in Consumers : d # c => phase'[d] = phase[d] /\ claim'[d] = claim[d]
      BY <1>0, <2>2 DEF ClaimSelect
    <3>2. Candidate(c, r).started = claim[c].started /\ Candidate(c, r).at = claim[c].at
          /\ Candidate(c, r).run = r
      BY <1>0 DEF Candidate, Claim
    <3>. QED
      BY <3>1, <3>2, FencingLocalStep DEF FencingInv, ClaimTimely, Claiming
  <2>3. CASE ClaimNothing(c)
    BY <1>0, <2>3, FencingLocalStep DEF ClaimNothing
  <2>4. CASE ClaimConflict(c)
    <3>1. /\ UNCHANGED <<now, row, lastLease, held>>
          /\ phase[c] = "committing"
          /\ phase'[c] \in {"selecting", "idle"}
          /\ phase'[c] = "selecting" => claim' = claim
          /\ \A d \in Consumers : d # c => phase'[d] = phase[d] /\ claim'[d] = claim[d]
      BY <1>0, <2>4 DEF ClaimConflict
    <3>. QED
      BY <3>1, FencingLocalStep DEF FencingInv, ClaimTimely, Claiming
  <2>5. CASE ClaimCommit(c)
    BY <2>5, FencingClaimCommit
  <2>6. CASE ClaimAnswer(c)
    BY <2>6, FencingClaimAnswer
  <2>7. ASSUME NEW t \in Instants, Renew(c, t) PROVE FencingInv'
    <3> DEFINE r == held[c].run
    <3>1. /\ phase[c] = "working" /\ r \in Runs
          /\ row[r].state = "leased" /\ row[r].lease = held[c].lease
      BY <2>7 DEF Renew, Renewable, LeaseInForce, FencingInv, WorkingOnRun
    <3>2. t \in Nat
      BY <1>0, InstantsBound
    <3>3. /\ row'[r] = RenewedRow(r, t)
          /\ \A s \in Runs : s # r => row'[s] = row[s]
      BY <1>0, <2>7, <3>1, PersistWrites DEF Renew
    <3>4. /\ row'[r].state = "leased" /\ row'[r].lease = row[r].lease
          /\ row'[r].expiresAt = t + LeaseDuration
      BY <1>0, <3>1, <3>2, <3>3, RowFields
    <3>5. /\ UNCHANGED <<now, lastLease, claim, phase>>
          /\ held' = [held EXCEPT ![c] = [held[c] EXCEPT !.until = t + LeaseDuration]]
      BY <2>7 DEF Renew
    <3>6. held'[c].run = r /\ held'[c].lease = held[c].lease
          /\ held'[c].until = t + LeaseDuration
      BY <1>0, <3>5 DEF Delivery
    <3>7. \A d \in Consumers : d # c => held'[d] = held[d]
      BY <1>0, <3>5
    <3>8. t + LeaseDuration <= now + MaxSkew + LeaseDuration
      BY <1>0, <3>2, InstantsBound
    <3>. QED
      BY <3>1, <3>3, <3>4, <3>5, <3>6, <3>7, <3>8, FencingHolderStep
  <2>8. ASSUME NEW t \in Instants, RenewRefused(c, t) PROVE FencingInv'
    BY <2>8 DEF RenewRefused, PersistEventOnly, FencingInv, ClaimTimely, Claiming,
               LeaseIdsFresh, WorkingOnRun, AnswerPending, TokenExclusive,
               LeaseHonoured, StillLeased, LeaseBounded
  <2>9. ASSUME NEW t \in Instants, Acknowledge(c, t) PROVE FencingInv'
    <3>1. held[c].run \in Runs /\ t \in Nat
      BY <1>0, <2>9, InstantsBound DEF Acknowledge, SettleLease, FencingInv, WorkingOnRun
    <3>2. /\ FinishedRow(held[c].run, "acknowledged", t).lease = row[held[c].run].lease
          /\ FinishedRow(held[c].run, "acknowledged", t).state = "acknowledged"
      <4>1. TypeOK /\ "acknowledged" \in DeliveryStates
        BY <1>0 DEF DeliveryStates
      <4>2. PICK r \in Runs : held[c].run = r
        BY <3>1
      <4>. QED
        BY <3>1, <4>1, <4>2, FinishedFields
    <3>. QED
      BY <2>9, <3>2, FencingSettle DEF Acknowledge
  <2>10. ASSUME NEW t \in Instants, DeadLetter(c, t) PROVE FencingInv'
    <3>1. held[c].run \in Runs /\ t \in Nat
      BY <1>0, <2>10, InstantsBound DEF DeadLetter, SettleLease, FencingInv, WorkingOnRun
    <3>2. /\ FinishedRow(held[c].run, "dead_letter", t).lease = row[held[c].run].lease
          /\ FinishedRow(held[c].run, "dead_letter", t).state = "dead_letter"
      <4>1. TypeOK /\ "dead_letter" \in DeliveryStates
        BY <1>0 DEF DeliveryStates
      <4>2. PICK r \in Runs : held[c].run = r
        BY <3>1
      <4>. QED
        BY <3>1, <4>1, <4>2, FinishedFields
    <3>. QED
      BY <2>10, <3>2, FencingSettle DEF DeadLetter
  <2>11. ASSUME NEW t \in Instants, NEW delay \in RetryDelays, Release(c, t, delay)
         PROVE  FencingInv'
    <3>1. held[c].run \in Runs /\ t \in Nat
      BY <1>0, <2>11, InstantsBound DEF Release, SettleLease, FencingInv, WorkingOnRun
    <3>2. /\ ReleasedRow(held[c].run, t, delay).lease = row[held[c].run].lease
          /\ ReleasedRow(held[c].run, t, delay).state # "leased"
      BY <1>0, <3>1, RowFields
    <3>. QED
      BY <2>11, <3>2, FencingSettle DEF Release
  <2>12. CASE Forget(c)
    <3>1. /\ UNCHANGED <<now, row, lastLease>> /\ phase'[c] = "idle"
          /\ \A d \in Consumers : d # c =>
               phase'[d] = phase[d] /\ claim'[d] = claim[d] /\ held'[d] = held[d]
      BY <1>0, <2>12 DEF Forget, Drop
    <3>. QED
      BY <3>1 DEF FencingInv, ClaimTimely, Claiming, LeaseIdsFresh, WorkingOnRun,
                  AnswerPending, TokenExclusive, LeaseHonoured, StillLeased,
                  LeaseBounded
  <2>. QED
    BY <1>3, <2>1, <2>2, <2>3, <2>4, <2>5, <2>6, <2>7, <2>8, <2>9, <2>10, <2>11, <2>12
       DEF ConsumerStep
<1>4. CASE UNCHANGED vars
  BY <1>4 DEF vars, FencingInv, ClaimTimely, Claiming, LeaseIdsFresh, WorkingOnRun,
             AnswerPending, TokenExclusive, LeaseHonoured, StillLeased, LeaseBounded
<1>. QED
  BY <1>1, <1>2, <1>3, <1>4 DEF Next

(* The fencing invariant holds in the initial state of the queue. *)
LEMMA FencingInit == Init => FencingInv
BY DEF Init, FencingInv, TypeOK, Row, NoRow, DeliveryStates, Event, Claim, NoClaim,
       Delivery, NoDelivery, Phases, Redrive, ClaimTimely, Claiming, LeaseIdsFresh,
       WorkingOnRun, AnswerPending, TokenExclusive, LeaseHonoured, StillLeased,
       LeaseBounded

(* If claim() is prompt, no two processes hold the same lease identifier,  *)
(* a lease with longer to live than the clock skew is in force, and no row *)
(* is leased for longer than one lease.                                    *)
THEOREM Fencing ==
  ASSUME PromptClaims
  PROVE  Spec => []FencingInv
<1>1. FencingInv => TypeOK /\ RunsKnown
  BY DEF FencingInv, WorkingOnRun, RunsKnown
<1>2. FencingInv /\ [Next]_vars => FencingInv'
  BY <1>1, TypeStep, FencingStep
<1>. QED
  BY <1>2, FencingInit, PTL DEF Spec

(* Then two processes never both hold a lease of one Run that has longer to *)
(* live than the clock skew.                                                *)
THEOREM Exclusion ==
  ASSUME PromptClaims
  PROVE  Spec => []LeaseExclusive
<1>1. FencingInv => LeaseExclusive
  BY DEF FencingInv, TokenExclusive, LeaseHonoured, LeaseExclusive, StillLeased
<1>. QED
  BY <1>1, Fencing, PTL

-----------------------------------------------------------------------------
(* The log.  What its last event says of the row, whatever came before.    *)
Tells(e, r) ==
  /\ e.state = row[r].state
  /\ e.attempt = row[r].attempts
  /\ e.at = row[r].updatedAt
  /\ e.lease \in {0, row[r].lease}
  /\ row[r].state = "leased" => e.lease = row[r].lease

LegalLog(r) ==
  \A i \in 1..Len(events[r]) :
    IF i = 1 THEN events[r][1].tag = "enqueued"
             ELSE LegalSuccessor(events[r][i - 1], events[r][i])

LogOf(r) ==
  /\ events[r] = << >> <=> row[r].state = "absent"
  /\ events[r] # << >> => Tells(Last(events[r]), r)
  /\ LegalLog(r)
  /\ row[r].lease <= lastLease

LogInv == \A r \in Runs : LogOf(r)

(* An event that may follow the last one, and tells the row of its batch,   *)
(* keeps the log of the Run legal.                                          *)
LEMMA LogAppend ==
  ASSUME TypeOK, LogInv, NEW r \in Runs, NEW new \in Row, NEW tag \in EventTags,
         NEW lease \in Nat, NEW t \in Nat,
         row' = [row EXCEPT ![r] = new],
         events' = [events EXCEPT ![r] = Append(@, EventOf(tag, lease, new, t))],
         lastLease' \in Nat, lastLease <= lastLease', new.lease <= lastLease',
         new.state # "absent", new.updatedAt = t, lease \in {0, new.lease},
         new.state = "leased" => lease = new.lease,
         row[r].state = "absent" => tag = "enqueued",
         row[r].state # "absent" =>
           \A e \in Event : Tells(e, r) => LegalSuccessor(e, EventOf(tag, lease, new, t))
  PROVE  LogInv'
<1> DEFINE f == EventOf(tag, lease, new, t)
           s == events[r]
<1>0. /\ row \in [Runs -> Row] /\ events \in [Runs -> Seq(Event)] /\ s \in Seq(Event)
      /\ lastLease \in Nat /\ \A q \in Runs : row[q].lease \in Nat
  BY DEF TypeOK, Row
<1>1. /\ f \in Event /\ f.tag = tag /\ f.state = new.state /\ f.attempt = new.attempts
      /\ f.lease = lease /\ f.at = t
  BY DEF EventOf, Event, Row
<1>2. row'[r] = new /\ events'[r] = Append(s, f)
  BY <1>0
<1>3. /\ LogOf(r)
      /\ s # << >> => Last(s) = s[Len(s)] /\ s[Len(s)] \in Event
  BY <1>0 DEF LogInv, Last
<1> HIDE DEF f
<1>4. Last(events'[r]) = f /\ events'[r] # << >>
  <2>1. /\ Len(s) \in Nat /\ Len(Append(s, f)) = Len(s) + 1
        /\ Append(s, f)[Len(s) + 1] = f /\ Append(s, f) # << >>
    BY <1>0, <1>1
  <2>. QED
    BY <1>2, <2>1 DEF Last
<1>5. Tells(f, r)'
  <2>1. /\ f.state = new.state /\ f.attempt = new.attempts /\ f.at = new.updatedAt
        /\ f.lease \in {0, new.lease} /\ (new.state = "leased" => f.lease = new.lease)
    BY <1>1
  <2> HIDE DEF s
  <2>. QED
    BY <1>2, <2>1 DEF Tells
<1>6. LegalLog(r)'
  <2> DEFINE a == Append(s, f)
  <2>1. /\ Len(s) \in Nat /\ Len(a) = Len(s) + 1
        /\ \A i \in 1..Len(s) : a[i] = s[i]
        /\ a[Len(s) + 1] = f
    BY <1>0, <1>1
  <2>2. \A i \in 1..Len(s) : IF i = 1 THEN s[1].tag = "enqueued"
                                      ELSE LegalSuccessor(s[i - 1], s[i])
    BY <1>3 DEF LogOf, LegalLog
  <2>3. IF Len(s) = 0 THEN f.tag = "enqueued" ELSE LegalSuccessor(s[Len(s)], f)
    <3>1. CASE s = << >>
      BY <1>1, <1>3, <3>1 DEF LogOf
    <3>2. CASE s # << >>
      <4>1. Tells(s[Len(s)], r) /\ row[r].state # "absent" /\ s[Len(s)] \in Event
        BY <1>3, <3>2 DEF LogOf
      <4>2. LegalSuccessor(s[Len(s)], f)
        BY <4>1 DEF f
      <4>3. Len(s) # 0
        BY <1>0, <3>2
      <4>. QED
        BY <4>2, <4>3
    <3>. QED
      BY <3>1, <3>2
  <2> HIDE DEF a
  <2>4. ASSUME NEW i \in 1..Len(a)
        PROVE  IF i = 1 THEN a[1].tag = "enqueued" ELSE LegalSuccessor(a[i - 1], a[i])
    <3>1. CASE i <= Len(s)
      <4>1. i \in 1..Len(s) /\ a[i] = s[i] /\ (i # 1 => a[i - 1] = s[i - 1])
        BY <2>1, <3>1
      <4>. QED
        BY <2>2, <4>1
    <3>2. CASE i = Len(s) + 1
      <4>1. a[i] = f /\ (i # 1 => a[i - 1] = s[Len(s)]) /\ (i = 1 <=> Len(s) = 0)
        BY <2>1, <3>2
      <4>. QED
        BY <2>3, <4>1
    <3>. QED
      BY <2>1, <3>1, <3>2
  <2>5. events'[r] = a
    BY <1>2 DEF a
  <2>. QED
    BY <2>4, <2>5 DEF LegalLog
<1>7. LogOf(r)'
  BY <1>2, <1>4, <1>5, <1>6 DEF LogOf
<1>8. \A q \in Runs : q # r => LogOf(q)'
  <2> SUFFICES ASSUME NEW q \in Runs, q # r PROVE LogOf(q)'
    OBVIOUS
  <2>1. row'[q] = row[q] /\ events'[q] = events[q] /\ LogOf(q)
    BY <1>0 DEF LogInv
  <2>2. row[q].lease <= lastLease'
    BY <1>0, <2>1 DEF LogOf
  <2>. QED
    BY <2>1, <2>2 DEF LogOf, Tells, LegalLog, LegalSuccessor, Last
<1>. QED
  BY <1>7, <1>8 DEF LogInv

(* What the operations write into the columns the log speaks of. *)
LEMMA LoggedFields ==
  ASSUME TypeOK
  PROVE  /\ \A t \in Nat : EnqueuedRow(t).updatedAt = t
         /\ \A r \in Runs, l \in Nat, t \in Nat :
              /\ ClaimedRow(r, l, t).attempts = row[r].attempts + 1
              /\ ClaimedRow(r, l, t).updatedAt = t
         /\ \A r \in Runs, t \in Nat :
              /\ RenewedRow(r, t).attempts = row[r].attempts
              /\ RenewedRow(r, t).updatedAt = t
         /\ \A r \in Runs, to \in DeliveryStates, t \in Nat :
              /\ FinishedRow(r, to, t).attempts = row[r].attempts
              /\ FinishedRow(r, to, t).updatedAt = t
         /\ \A r \in Runs, t \in Nat, d \in RetryDelays :
              /\ ReleasedRow(r, t, d).attempts = row[r].attempts
              /\ ReleasedRow(r, t, d).updatedAt = t
         /\ \A r \in Runs, t \in Nat :
              /\ RedrivenRow(r, t).attempts = 0
              /\ RedrivenRow(r, t).updatedAt = t
<1>1. row \in [Runs -> Row]
  BY DEF TypeOK
<1>2. \A t \in Nat : EnqueuedRow(t).updatedAt = t
  BY DEF EnqueuedRow, NoRow
<1>3. \A r \in Runs, l \in Nat, t \in Nat :
        /\ ClaimedRow(r, l, t).attempts = row[r].attempts + 1
        /\ ClaimedRow(r, l, t).updatedAt = t
  BY <1>1 DEF ClaimedRow, Row
<1>4. \A r \in Runs, t \in Nat :
        RenewedRow(r, t).attempts = row[r].attempts /\ RenewedRow(r, t).updatedAt = t
  BY <1>1 DEF RenewedRow, Row
<1>5. \A r \in Runs, to \in DeliveryStates, t \in Nat :
        /\ FinishedRow(r, to, t).attempts = row[r].attempts
        /\ FinishedRow(r, to, t).updatedAt = t
  BY <1>1 DEF FinishedRow, Row
<1>6. \A r \in Runs, t \in Nat, d \in RetryDelays :
        /\ ReleasedRow(r, t, d).attempts = row[r].attempts
        /\ ReleasedRow(r, t, d).updatedAt = t
  BY <1>1 DEF ReleasedRow, Row
<1>7. \A r \in Runs, t \in Nat :
        RedrivenRow(r, t).attempts = 0 /\ RedrivenRow(r, t).updatedAt = t
  BY <1>1 DEF RedrivenRow, Row
<1>. QED
  BY <1>2, <1>3, <1>4, <1>5, <1>6, <1>7

(* What the event of a batch says. *)
LEMMA EventFields ==
  ASSUME NEW tag, NEW lease, NEW new, NEW t
  PROVE  /\ EventOf(tag, lease, new, t).tag = tag
         /\ EventOf(tag, lease, new, t).state = new.state
         /\ EventOf(tag, lease, new, t).lease = lease
         /\ EventOf(tag, lease, new, t).attempt = new.attempts
         /\ EventOf(tag, lease, new, t).at = t
BY DEF EventOf

(* The renewal or the end of the lease in force may follow any event of it. *)
LEMMA LeaseEventLegal ==
  ASSUME TypeOK, NEW r \in Runs, row[r].state = "leased", NEW new,
         NEW tag \in {"lease_renewed", "released", "acknowledged", "dead_lettered"},
         NEW t, new.attempts = row[r].attempts
  PROVE  \A e \in Event : Tells(e, r) =>
           LegalSuccessor(e, EventOf(tag, row[r].lease, new, t))
BY EventFields DEF Tells, LegalSuccessor

(* The rows of a lease being renewed or given up: one lemma for every call. *)
LEMMA LogLease ==
  ASSUME TypeOK, LogInv, NEW r \in Runs, NEW new \in Row, NEW t \in Nat,
         NEW tag \in {"lease_renewed", "released", "acknowledged", "dead_lettered"},
         row[r].state = "leased", Persist(r, new, tag, row[r].lease, t),
         UNCHANGED lastLease,
         new.state # "absent", new.updatedAt = t, new.lease = row[r].lease,
         new.attempts = row[r].attempts
  PROVE  LogInv'
<1>1. row[r].lease \in Nat /\ lastLease \in Nat /\ row[r].lease <= lastLease
  BY DEF TypeOK, Row, LogInv, LogOf
<1>2. tag \in EventTags
  BY DEF EventTags
<1>3. /\ row' = [row EXCEPT ![r] = new]
      /\ events' = [events EXCEPT ![r] = Append(@, EventOf(tag, row[r].lease, new, t))]
  BY DEF Persist
<1>4. lastLease' \in Nat /\ lastLease <= lastLease' /\ new.lease <= lastLease'
  BY <1>1
<1>5. \A e \in Event : Tells(e, r) =>
        LegalSuccessor(e, EventOf(tag, row[r].lease, new, t))
  BY LeaseEventLegal
<1>. QED
  BY <1>1, <1>2, <1>3, <1>4, <1>5, LogAppend

(* Every step keeps every log a legal history of its row. *)
LEMMA LogStep ==
  ASSUME TypeOK, RunsKnown, LogInv, [Next]_vars
  PROVE  LogInv'
<1>0. /\ lastLease \in Nat
      /\ \A r \in Runs : /\ row[r] \in Row /\ row[r].lease \in Nat
                         /\ row[r].attempts \in Nat /\ row[r].lease <= lastLease
  BY DEF TypeOK, Row, LogInv, LogOf
<1>1. ASSUME UNCHANGED <<row, events, lastLease>> PROVE LogInv'
  BY <1>1 DEF LogInv, LogOf, Tells, LegalLog, LegalSuccessor, Last
<1>2. CASE Tick
  BY <1>1, <1>2 DEF Tick
<1>3. CASE ProducerStep
  <2>1. ASSUME NEW r \in Runs, NEW t \in Instants, Enqueue(r, t) PROVE LogInv'
    <3> DEFINE new == EnqueuedRow(t)
    <3>1. t \in Nat /\ row[r].state = "absent" /\ Persist(r, new, "enqueued", 0, t)
          /\ lastLease' = lastLease
      BY <2>1, InstantsBound DEF Enqueue
    <3>2. new \in Row /\ new.state = "queued" /\ new.lease = 0 /\ new.updatedAt = t
      BY <3>1, RowsTyped, RowFields, LoggedFields
    <3> HIDE DEF new
    <3>3. /\ row' = [row EXCEPT ![r] = new]
          /\ events' = [events EXCEPT ![r] = Append(@, EventOf("enqueued", 0, new, t))]
      BY <3>1 DEF Persist
    <3>4. /\ "enqueued" \in EventTags /\ 0 \in Nat /\ 0 \in {0, new.lease}
          /\ lastLease <= lastLease' /\ new.lease <= lastLease' /\ lastLease' \in Nat
      BY <1>0, <3>1, <3>2 DEF EventTags
    <3>. QED
      BY <3>1, <3>2, <3>3, <3>4, LogAppend
  <2>2. ASSUME NEW r \in Runs, NEW t \in Instants, CancelQueued(r, t) PROVE LogInv'
    <3> DEFINE new == FinishedRow(r, "cancelled", t)
    <3>1. t \in Nat /\ row[r].state = "queued" /\ Persist(r, new, "cancelled", 0, t)
          /\ lastLease' = lastLease /\ "cancelled" \in DeliveryStates
      BY <2>2, InstantsBound DEF CancelQueued, DeliveryStates
    <3>2. /\ new \in Row /\ new.state = "cancelled" /\ new.lease = row[r].lease
          /\ new.updatedAt = t /\ new.attempts = row[r].attempts
      BY <3>1, RowsTyped, RowFields, LoggedFields
    <3> HIDE DEF new
    <3>3. /\ row' = [row EXCEPT ![r] = new]
          /\ events' = [events EXCEPT ![r] = Append(@, EventOf("cancelled", 0, new, t))]
      BY <3>1 DEF Persist
    <3>4. /\ "cancelled" \in EventTags /\ 0 \in Nat /\ 0 \in {0, new.lease}
          /\ lastLease <= lastLease' /\ new.lease <= lastLease' /\ lastLease' \in Nat
      BY <1>0, <3>1, <3>2 DEF EventTags
    <3>5. \A e \in Event : Tells(e, r) => LegalSuccessor(e, EventOf("cancelled", 0, new, t))
      BY <3>1, <3>2, EventFields DEF Tells, LegalSuccessor
    <3>. QED
      BY <3>1, <3>2, <3>3, <3>4, <3>5, LogAppend
  <2>3. ASSUME NEW r \in Runs, NEW t \in Instants, RedriveRead(r, t) PROVE LogInv'
    BY <1>1, <2>3 DEF RedriveRead
  <2>4. ASSUME NEW d \in redriving, RedriveCommit(d) PROVE LogInv'
    <3> DEFINE r == d.run
               new == RedrivenRow(r, d.at)
    <3>1. r \in Runs /\ d.at \in Nat
      BY DEF TypeOK, Redrive
    <3>2. /\ row[r].state = "dead_letter" /\ Persist(r, new, "redriven", 0, d.at)
          /\ lastLease' = lastLease
      BY <2>4 DEF RedriveCommit
    <3>3. /\ new \in Row /\ new.state = "queued" /\ new.lease = 0
          /\ new.updatedAt = d.at /\ new.attempts = 0
      BY <3>1, RowsTyped, RowFields, LoggedFields
    <3> HIDE DEF new
    <3>4. /\ row' = [row EXCEPT ![r] = new]
          /\ events' = [events EXCEPT ![r] = Append(@, EventOf("redriven", 0, new, d.at))]
      BY <3>2 DEF Persist
    <3>5. /\ "redriven" \in EventTags /\ 0 \in Nat /\ 0 \in {0, new.lease}
          /\ lastLease <= lastLease' /\ new.lease <= lastLease' /\ lastLease' \in Nat
      BY <1>0, <3>2, <3>3 DEF EventTags
    <3>6. \A e \in Event : Tells(e, r) => LegalSuccessor(e, EventOf("redriven", 0, new, d.at))
      BY <3>2, <3>3, EventFields DEF Tells, LegalSuccessor
    <3> HIDE DEF r
    <3>. QED
      BY <3>1, <3>2, <3>3, <3>4, <3>5, <3>6, LogAppend
  <2>5. ASSUME NEW d \in redriving, RedriveConflict(d) PROVE LogInv'
    <3> DEFINE r == d.run
    <3>1. r \in Runs /\ d.at \in Nat /\ row \in [Runs -> Row]
      BY DEF TypeOK, Redrive
    <3>2. CASE UNCHANGED <<row, events>>
      BY <1>1, <2>5, <3>2 DEF RedriveConflict
    <3>3. CASE /\ row[r].state = "queued" /\ row[r].updatedAt = d.at
               /\ PersistEventOnly(r, "redriven", 0, d.at)
      <4>1. /\ row' = [row EXCEPT ![r] = row[r]] /\ lastLease' = lastLease
            /\ events' = [events EXCEPT ![r] = Append(@, EventOf("redriven", 0, row[r], d.at))]
        BY <2>5, <3>1, <3>3 DEF PersistEventOnly, RedriveConflict
      <4>2. /\ "redriven" \in EventTags /\ 0 \in Nat /\ 0 \in {0, row[r].lease}
            /\ lastLease <= lastLease' /\ row[r].lease <= lastLease' /\ lastLease' \in Nat
        BY <1>0, <3>1, <4>1 DEF EventTags
      <4>3. \A e \in Event : Tells(e, r) => LegalSuccessor(e, EventOf("redriven", 0, row[r], d.at))
        BY <3>3, EventFields DEF Tells, LegalSuccessor
      <4>4. row[r] \in Row
        BY <3>1
      <4> HIDE DEF r
      <4>. QED
        BY <3>1, <3>3, <4>1, <4>2, <4>3, <4>4, LogAppend
    <3>. QED
      BY <2>5, <3>2, <3>3 DEF RedriveConflict
  <2>6. ASSUME NEW d \in redriving, RedriveAbort(d) PROVE LogInv'
    BY <1>1, <2>6 DEF RedriveAbort
  <2>. QED
    BY <1>3, <2>1, <2>2, <2>3, <2>4, <2>5, <2>6 DEF ProducerStep
<1>4. ASSUME NEW c \in Consumers, ConsumerStep(c) PROVE LogInv'
  <2>1. CASE \/ \E t \in ClockReadings : ClaimStart(c, t)
             \/ \E r \in Runs : ClaimSelect(c, r)
             \/ ClaimNothing(c) \/ ClaimConflict(c) \/ ClaimAnswer(c) \/ Forget(c)
    BY <1>1, <2>1 DEF ClaimStart, ClaimSelect, ClaimNothing, ClaimConflict, ClaimAnswer, Forget
  <2>2. CASE ClaimCommit(c)
    <3> DEFINE r == claim[c].run
               t == claim[c].at
    <3>1. r \in Runs /\ t \in Nat
      BY <2>2 DEF ClaimCommit, RunsKnown, TypeOK, Claim
    <3>2. PICK l \in Nat : l = lastLease + 1
      BY <1>0
    <3> DEFINE new == ClaimedRow(r, l, t)
    <3>3. /\ Persist(r, new, ClaimTag(c), l, t) /\ lastLease' = l
          /\ row[r].state \in {"queued", "leased"}
      BY <2>2, <3>2 DEF ClaimCommit, CandidateUnchanged, Ready
    <3>4. /\ new \in Row /\ new.state = "leased" /\ new.lease = l
          /\ new.updatedAt = t /\ new.attempts = row[r].attempts + 1
      <4> HIDE DEF r, t
      <4>1. new \in Row
        BY <3>1, RowsTyped
      <4>2. new.state = "leased" /\ new.lease = l
        BY <3>1, RowFields
      <4>3. new.updatedAt = t /\ new.attempts = row[r].attempts + 1
        BY <3>1, LoggedFields
      <4>. QED
        BY <4>1, <4>2, <4>3
    <3> HIDE DEF new
    <3>5. /\ row' = [row EXCEPT ![r] = new]
          /\ events' = [events EXCEPT ![r] = Append(@, EventOf(ClaimTag(c), l, new, t))]
      BY <3>3 DEF Persist
    <3>6. /\ ClaimTag(c) \in {"lease_claimed", "lease_reclaimed"}
          /\ ClaimTag(c) \in EventTags
      BY DEF EventTags, ClaimTag
    <3>7. \A e \in Event : Tells(e, r) => LegalSuccessor(e, EventOf(ClaimTag(c), l, new, t))
      <4>1. \A e \in Event : Tells(e, r) =>
              e.state \in {"queued", "leased"} /\ e.attempt = row[r].attempts /\ l > e.lease
        BY <1>0, <3>1, <3>2, <3>3 DEF Tells
      <4>. QED
        BY <3>4, <3>6, <4>1, EventFields DEF LegalSuccessor
    <3>8. lastLease' \in Nat /\ lastLease <= lastLease' /\ new.lease <= lastLease'
      BY <1>0, <3>2, <3>3, <3>4
    <3>9. row[r].state # "absent" /\ new.state # "absent" /\ l \in {0, new.lease}
      BY <3>3, <3>4
    <3> HIDE DEF r, t
    <3>. QED
      BY <3>1, <3>4, <3>5, <3>6, <3>7, <3>8, <3>9, LogAppend
  <2>3. ASSUME NEW t \in Instants, Renew(c, t) PROVE LogInv'
    <3> DEFINE r == held[c].run
               new == RenewedRow(r, t)
    <3>1. /\ r \in Runs /\ t \in Nat
          /\ row[r].state = "leased" /\ row[r].lease = held[c].lease
          /\ Persist(r, new, "lease_renewed", row[r].lease, t) /\ UNCHANGED lastLease
      BY <2>3, InstantsBound DEF Renew, Renewable, LeaseInForce, RunsKnown
    <3>2. /\ new \in Row /\ new.state = "leased" /\ new.lease = row[r].lease
          /\ new.updatedAt = t /\ new.attempts = row[r].attempts
      BY <3>1, RowsTyped, RowFields, LoggedFields
    <3> HIDE DEF r, new
    <3>. QED
      BY <3>1, <3>2, LogLease
  <2>4. ASSUME NEW t \in Instants, RenewRefused(c, t) PROVE LogInv'
    <3> DEFINE r == held[c].run
    <3>1. /\ r \in Runs /\ t \in Nat /\ row[r].state = "leased"
          /\ row[r].lease = held[c].lease /\ row[r].updatedAt = t
          /\ PersistEventOnly(r, "lease_renewed", row[r].lease, t) /\ UNCHANGED lastLease
      BY <2>4, InstantsBound DEF RenewRefused, RunsKnown
    <3>2. /\ row' = [row EXCEPT ![r] = row[r]]
          /\ events' = [events EXCEPT ![r] =
                          Append(@, EventOf("lease_renewed", row[r].lease, row[r], t))]
      BY <3>1 DEF PersistEventOnly, TypeOK
    <3>3. \A e \in Event : Tells(e, r) =>
            LegalSuccessor(e, EventOf("lease_renewed", row[r].lease, row[r], t))
      BY <3>1, LeaseEventLegal
    <3>4. /\ "lease_renewed" \in EventTags /\ row[r].lease \in {0, row[r].lease}
          /\ row[r] \in Row /\ row[r].lease \in Nat
          /\ lastLease <= lastLease' /\ row[r].lease <= lastLease' /\ lastLease' \in Nat
      BY <1>0, <3>1 DEF EventTags
    <3> HIDE DEF r
    <3>. QED
      BY <3>1, <3>2, <3>3, <3>4, LogAppend
  <2>5. ASSUME NEW t \in Nat, NEW to \in {"acknowledged", "dead_letter"},
               NEW tag \in {"acknowledged", "dead_lettered"},
               SettleLease(c, t, tag, FinishedRow(held[c].run, to, t))
        PROVE  LogInv'
    <3> DEFINE r == held[c].run
               new == FinishedRow(r, to, t)
    <3>1. /\ r \in Runs /\ row[r].state = "leased" /\ row[r].lease = held[c].lease
          /\ Persist(r, new, tag, row[r].lease, t) /\ UNCHANGED lastLease
          /\ to \in DeliveryStates
      BY <2>5 DEF SettleLease, LeaseInForce, RunsKnown, DeliveryStates
    <3>2. /\ new \in Row /\ new.state = to /\ new.lease = row[r].lease
          /\ new.updatedAt = t /\ new.attempts = row[r].attempts
      BY <3>1, RowsTyped, RowFields, LoggedFields
    <3> HIDE DEF r, new
    <3>. QED
      BY <3>1, <3>2, LogLease
  <2>6. ASSUME NEW t \in Instants, Acknowledge(c, t) \/ DeadLetter(c, t) PROVE LogInv'
    BY <2>5, <2>6, InstantsBound DEF Acknowledge, DeadLetter
  <2>7. ASSUME NEW t \in Instants, NEW delay \in RetryDelays, Release(c, t, delay)
        PROVE  LogInv'
    <3> DEFINE r == held[c].run
               new == ReleasedRow(r, t, delay)
    <3>1. /\ r \in Runs /\ t \in Nat /\ row[r].state = "leased"
          /\ row[r].lease = held[c].lease
          /\ Persist(r, new, "released", row[r].lease, t) /\ UNCHANGED lastLease
      BY <2>7, InstantsBound DEF Release, SettleLease, LeaseInForce, RunsKnown
    <3>2. /\ new \in Row /\ new.state = "queued" /\ new.lease = row[r].lease
          /\ new.updatedAt = t /\ new.attempts = row[r].attempts
      <4> HIDE DEF r
      <4>1. new \in Row
        BY <3>1, RowsTyped
      <4>2. new.state = "queued" /\ new.lease = row[r].lease
        BY <3>1, RowFields
      <4>3. new.updatedAt = t /\ new.attempts = row[r].attempts
        BY <3>1, LoggedFields
      <4>. QED
        BY <4>1, <4>2, <4>3
    <3> HIDE DEF r, new
    <3>. QED
      BY <3>1, <3>2, LogLease
  <2>. QED
    BY <1>4, <2>1, <2>2, <2>3, <2>4, <2>6, <2>7 DEF ConsumerStep
<1>5. CASE UNCHANGED vars
  BY <1>1, <1>5 DEF vars
<1>. QED
  BY <1>2, <1>3, <1>4, <1>5 DEF Next

(* The last event of a log names the state, the attempt and the lease of   *)
(* its row, and the log alone is a possible delivery history, whatever the *)
(* clocks of the callers say.                                              *)
THEOREM History == Spec => []LogTellsRow
<1>1. Init => LogInv
  BY DEF Init, LogInv, LogOf, LegalLog, NoRow
<1>2. TypeOK /\ RunsKnown /\ LogInv /\ [Next]_vars => LogInv'
  BY LogStep
<1>3. LogInv => LogTellsRow
  BY DEF LogInv, LogOf, Tells, LegalLog, LogTellsRow, LogMatchesRow, HistoryLegal
<1>. QED
  BY <1>1, <1>2, <1>3, TypeCorrect, PTL DEF Spec

-----------------------------------------------------------------------------
(* What DeliveryContract sees of the rows. *)
StatusOf(new) ==
  CASE new.state = "queued" -> "ready"
    [] new.state = "leased" -> "held"
    [] new.state = "acknowledged" -> "done"
    [] new.state = "dead_letter" -> "parked"
    [] new.state = "cancelled" -> "withdrawn"
    [] OTHER -> "absent"

SeenStatus   == [r \in Runs |-> StatusOf(row[r])]
SeenToken    == [r \in Runs |-> row[r].lease]
SeenAttempts == [r \in Runs |-> row[r].attempts]

(* A lease on a row is one that was handed out, and a message that was     *)
(* never enqueued has none.                                                *)
TokenKnown(r) ==
  /\ row[r].lease <= lastLease
  /\ row[r].state = "leased" => row[r].lease >= 1
  /\ row[r].state = "absent" => row[r].lease = 0 /\ row[r].attempts = 0

TokensKnown == \A r \in Runs : TokenKnown(r)

(* A batch changes what the contract sees of its own Run only. *)
LEMMA SeenWrites ==
  ASSUME TypeOK, NEW r \in Runs, NEW new, NEW tag, NEW lease, NEW t,
         Persist(r, new, tag, lease, t)
  PROVE  /\ SeenStatus' = [SeenStatus EXCEPT ![r] = StatusOf(new)]
         /\ SeenToken' = [SeenToken EXCEPT ![r] = new.lease]
         /\ SeenAttempts' = [SeenAttempts EXCEPT ![r] = new.attempts]
<1>1. row' = [row EXCEPT ![r] = new] /\ row \in [Runs -> Row]
  BY DEF Persist, TypeOK
<1>. QED
  BY <1>1 DEF SeenStatus, SeenToken, SeenAttempts, StatusOf

(* A batch keeps the leases known when the row it writes has a known one. *)
LEMMA KnownWrites ==
  ASSUME TypeOK, TokensKnown, lastLease' \in Nat, lastLease <= lastLease',
         NEW r \in Runs, NEW new \in Row, NEW tag, NEW lease, NEW t,
         Persist(r, new, tag, lease, t),
         new.state # "absent", new.lease <= lastLease',
         new.state = "leased" => new.lease >= 1
  PROVE  TokensKnown'
<1>1. row'[r] = new /\ \A s \in Runs : s # r => row'[s] = row[s]
  BY PersistWrites
<1>2. lastLease \in Nat /\ \A s \in Runs : row[s].lease \in Nat
  BY DEF TypeOK, Row
<1>. QED
  BY <1>1, <1>2 DEF TokensKnown, TokenKnown

(* The holder of the lease in force settles with it. *)
LEMMA ContractSettle ==
  ASSUME TypeOK, TokensKnown, NEW r \in Runs, row[r].state = "leased",
         NEW new \in Row, NEW tag, NEW lease, NEW t, Persist(r, new, tag, lease, t),
         new.state \in {"queued", "acknowledged", "dead_letter"},
         new.lease = row[r].lease, new.attempts = row[r].attempts,
         lastLease' = lastLease
  PROVE  Contract!Next /\ TokensKnown'
<1>1. row[r].lease \in 1..lastLease /\ lastLease \in Nat
  BY DEF TokensKnown, TokenKnown, TypeOK, Row
<1>2. TokensKnown'
  BY <1>1, KnownWrites
<1>3. /\ SeenStatus' = [SeenStatus EXCEPT ![r] = StatusOf(new)]
      /\ SeenToken' = SeenToken /\ SeenAttempts' = SeenAttempts
      /\ SeenStatus[r] = "held" /\ SeenToken[r] = row[r].lease
  <2>1. SeenStatus[r] = "held"
    BY DEF SeenStatus, StatusOf
  <2>2. SeenToken[r] = new.lease /\ SeenToken = [SeenToken EXCEPT ![r] = new.lease]
    BY DEF SeenToken
  <2>3. SeenAttempts = [SeenAttempts EXCEPT ![r] = new.attempts]
    BY DEF SeenAttempts
  <2>. QED
    BY <2>1, <2>2, <2>3, SeenWrites
<1>4. CASE new.state = "queued"
  <2>1. Contract!Return(r, row[r].lease)
    BY <1>3, <1>4 DEF Contract!Return, Contract!Settle, SeenStatus, SeenToken,
       SeenAttempts, StatusOf
  <2>. QED
    BY <1>1, <1>2, <2>1 DEF Contract!Next
<1>5. CASE new.state = "acknowledged"
  <2>1. Contract!Finish(r, row[r].lease)
    BY <1>3, <1>5 DEF Contract!Finish, Contract!Settle, SeenStatus, SeenToken,
       SeenAttempts, StatusOf
  <2>. QED
    BY <1>1, <1>2, <2>1 DEF Contract!Next
<1>6. CASE new.state = "dead_letter"
  <2>1. Contract!Park(r, row[r].lease)
    BY <1>3, <1>6 DEF Contract!Park, Contract!Settle, SeenStatus, SeenToken,
       SeenAttempts, StatusOf
  <2>. QED
    BY <1>1, <1>2, <2>1 DEF Contract!Next
<1>. QED
  BY <1>4, <1>5, <1>6

(* Every step is a step of the contract, or changes nothing it sees. *)
LEMMA ContractStep ==
  ASSUME TypeOK, RunsKnown, TokensKnown, [Next]_vars
  PROVE  [Contract!Next]_(Contract!contractVars) /\ TokensKnown'
<1>0. /\ lastLease \in Nat
      /\ \A r \in Runs : /\ row[r] \in Row /\ row[r].lease \in Nat
                         /\ row[r].attempts \in Nat /\ row[r].lease <= lastLease
  BY DEF TypeOK, Row, TokensKnown, TokenKnown
<1> DEFINE Kept == [Contract!Next]_(Contract!contractVars) /\ TokensKnown'
<1>1. ASSUME UNCHANGED <<row, lastLease>> PROVE Kept
  BY <1>1 DEF TokensKnown, TokenKnown, Contract!contractVars
<1>2. CASE Tick
  BY <1>1, <1>2 DEF Tick
<1>3. CASE ProducerStep
  <2>1. ASSUME NEW r \in Runs, NEW t \in Instants, Enqueue(r, t) PROVE Kept
    <3> DEFINE new == EnqueuedRow(t)
    <3>1. /\ t \in Nat /\ row[r].state = "absent" /\ Persist(r, new, "enqueued", 0, t)
          /\ lastLease' = lastLease
      BY <2>1, InstantsBound DEF Enqueue
    <3>2. /\ new \in Row /\ new.state = "queued" /\ new.lease = 0 /\ new.attempts = 0
          /\ row[r].lease = 0 /\ row[r].attempts = 0
      BY <3>1, RowsTyped, RowFields DEF EnqueuedRow, NoRow, TokensKnown, TokenKnown
    <3> HIDE DEF new
    <3>3. TokensKnown'
      BY <1>0, <3>1, <3>2, KnownWrites
    <3>4. /\ SeenStatus[r] = "absent"
          /\ SeenToken = [SeenToken EXCEPT ![r] = 0]
          /\ SeenAttempts = [SeenAttempts EXCEPT ![r] = 0]
      BY <3>1, <3>2 DEF SeenStatus, SeenToken, SeenAttempts, StatusOf
    <3>5. /\ SeenStatus' = [SeenStatus EXCEPT ![r] = "ready"]
          /\ SeenToken' = SeenToken /\ SeenAttempts' = SeenAttempts
      BY <3>1, <3>2, <3>4, SeenWrites DEF StatusOf
    <3>6. Contract!Submit(r)
      BY <3>1, <3>4, <3>5 DEF Contract!Submit, SeenStatus, SeenToken, SeenAttempts, StatusOf
    <3>. QED
      BY <3>3, <3>6 DEF Contract!Next
  <2>2. ASSUME NEW r \in Runs, NEW t \in Instants, CancelQueued(r, t) PROVE Kept
    <3> DEFINE new == FinishedRow(r, "cancelled", t)
    <3>1. /\ t \in Nat /\ row[r].state = "queued" /\ Persist(r, new, "cancelled", 0, t)
          /\ lastLease' = lastLease
      BY <2>2, InstantsBound DEF CancelQueued
    <3>2. /\ new \in Row /\ new.state = "cancelled" /\ new.lease = row[r].lease
          /\ new.attempts = row[r].attempts
      BY <3>1, RowsTyped, RowFields, LoggedFields DEF DeliveryStates
    <3> HIDE DEF new
    <3>3. TokensKnown'
      BY <1>0, <3>1, <3>2, KnownWrites
    <3>4. /\ SeenStatus[r] = "ready"
          /\ SeenToken = [SeenToken EXCEPT ![r] = row[r].lease]
          /\ SeenAttempts = [SeenAttempts EXCEPT ![r] = row[r].attempts]
      BY <3>1 DEF SeenStatus, SeenToken, SeenAttempts, StatusOf
    <3>5. /\ SeenStatus' = [SeenStatus EXCEPT ![r] = "withdrawn"]
          /\ SeenToken' = SeenToken /\ SeenAttempts' = SeenAttempts
      BY <3>1, <3>2, <3>4, SeenWrites DEF StatusOf
    <3>6. Contract!Withdraw(r)
      BY <3>1, <3>4, <3>5 DEF Contract!Withdraw, SeenStatus, SeenToken, SeenAttempts, StatusOf
    <3>. QED
      BY <3>3, <3>6 DEF Contract!Next
  <2>3. ASSUME NEW d \in redriving, RedriveCommit(d) PROVE Kept
    <3> DEFINE r == d.run
               new == RedrivenRow(r, d.at)
    <3>1. /\ r \in Runs /\ d.at \in Nat /\ row[r].state = "dead_letter"
          /\ Persist(r, new, "redriven", 0, d.at) /\ lastLease' = lastLease
      BY <2>3 DEF RedriveCommit, TypeOK, Redrive
    <3> HIDE DEF r
    <3>2. new \in Row /\ new.state = "queued" /\ new.lease = 0 /\ new.attempts = 0
      BY <3>1, RowsTyped, RowFields, LoggedFields
    <3> HIDE DEF new
    <3>3. TokensKnown'
      BY <1>0, <3>1, <3>2, KnownWrites
    <3>4. /\ SeenStatus[r] = "parked"
          /\ SeenStatus' = [SeenStatus EXCEPT ![r] = "ready"]
          /\ SeenToken' = [SeenToken EXCEPT ![r] = 0]
          /\ SeenAttempts' = [SeenAttempts EXCEPT ![r] = 0]
      <4>1. SeenStatus[r] = "parked"
        BY <3>1 DEF SeenStatus, StatusOf
      <4>. QED
        BY <4>1, <3>1, <3>2, SeenWrites DEF StatusOf
    <3>5. Contract!Reopen(r)
      BY <3>1, <3>4 DEF Contract!Reopen, SeenStatus, SeenToken, SeenAttempts, StatusOf
    <3>. QED
      BY <3>1, <3>3, <3>5 DEF Contract!Next
  <2>4. ASSUME NEW d \in redriving, RedriveConflict(d) PROVE Kept
    BY <1>1, <2>4 DEF RedriveConflict, PersistEventOnly
  <2>. QED
    BY <1>1, <1>3, <2>1, <2>2, <2>3, <2>4 DEF ProducerStep, RedriveRead, RedriveAbort
<1>4. ASSUME NEW c \in Consumers, ConsumerStep(c) PROVE Kept
  <2>1. CASE ClaimCommit(c)
    <3>0. PICK r \in Runs, l \in Nat, t \in Nat :
            r = claim[c].run /\ l = lastLease + 1 /\ t = claim[c].at
      <4>1. claim[c].run \in Runs
        BY <2>1 DEF ClaimCommit, RunsKnown
      <4>2. lastLease + 1 \in Nat
        BY <1>0
      <4>3. claim[c].at \in Nat
        BY DEF TypeOK, Claim
      <4>. QED
        BY <4>1, <4>2, <4>3
    <3> DEFINE new == ClaimedRow(r, l, t)
    <3>1. /\ row[r].state \in {"queued", "leased"}
          /\ Persist(r, new, ClaimTag(c), l, t)
          /\ lastLease < MaxLeases /\ lastLease' = lastLease + 1 /\ lastLease' = l
      BY <2>1, <3>0 DEF ClaimCommit, CandidateUnchanged, Ready
    <3>2. /\ new \in Row /\ new.state = "leased" /\ new.lease = lastLease + 1
          /\ new.attempts = row[r].attempts + 1
      <4>1. new \in Row
        BY RowsTyped
      <4>2. new.state = "leased" /\ new.lease = l
        BY ClaimedRowFields
      <4>3. new.attempts = row[r].attempts + 1
        BY LoggedFields
      <4>. QED
        BY <3>0, <4>1, <4>2, <4>3
    <3> HIDE DEF new
    <3>3. TokensKnown'
      BY <1>0, <3>0, <3>1, <3>2, KnownWrites
    <3>4. SeenStatus[r] \in {"ready", "held"} /\ SeenAttempts[r] = row[r].attempts
      BY <3>1 DEF SeenStatus, SeenAttempts, StatusOf
    <3>5. /\ SeenStatus' = [SeenStatus EXCEPT ![r] = "held"]
          /\ SeenToken' = [SeenToken EXCEPT ![r] = lastLease + 1]
          /\ SeenAttempts' = [SeenAttempts EXCEPT ![r] = @ + 1]
      BY <3>1, <3>2, <3>4, SeenWrites DEF StatusOf
    <3>6. Contract!Grant(r)
      BY <3>1, <3>4, <3>5 DEF Contract!Grant, SeenStatus, SeenToken, SeenAttempts, StatusOf
    <3>. QED
      BY <3>3, <3>6 DEF Contract!Next
  <2>2. ASSUME NEW t \in Instants, Renew(c, t) PROVE Kept
    <3> DEFINE r == held[c].run
               new == RenewedRow(r, t)
    <3>1. /\ r \in Runs /\ t \in Nat /\ row[r].state = "leased"
          /\ Persist(r, new, "lease_renewed", held[c].lease, t) /\ lastLease' = lastLease
      BY <2>2, InstantsBound DEF Renew, Renewable, LeaseInForce, RunsKnown
    <3> HIDE DEF r
    <3>2. /\ new \in Row /\ new.state = row[r].state /\ new.lease = row[r].lease
          /\ new.attempts = row[r].attempts
      BY <3>1, RowsTyped, RowFields, LoggedFields
    <3> HIDE DEF new
    <3>3. TokensKnown'
      <4>1. row[r].lease >= 1
        BY <3>1 DEF TokensKnown, TokenKnown
      <4>. QED
        BY <4>1, <1>0, <3>1, <3>2, KnownWrites
    <3>4. /\ SeenStatus = [SeenStatus EXCEPT ![r] = StatusOf(new)]
          /\ SeenToken = [SeenToken EXCEPT ![r] = new.lease]
          /\ SeenAttempts = [SeenAttempts EXCEPT ![r] = new.attempts]
      BY <3>1, <3>2 DEF SeenStatus, SeenToken, SeenAttempts, StatusOf
    <3>5. UNCHANGED <<SeenStatus, SeenToken, SeenAttempts, lastLease>>
      BY <3>1, <3>4, SeenWrites
    <3>6. UNCHANGED Contract!contractVars
      BY <3>5 DEF Contract!contractVars, SeenStatus, SeenToken, SeenAttempts, StatusOf
    <3>. QED
      BY <3>3, <3>6
  <2>3. ASSUME NEW t \in Instants, RenewRefused(c, t) PROVE Kept
    BY <1>1, <2>3 DEF RenewRefused, PersistEventOnly
  <2>4. ASSUME NEW t \in Nat, NEW to \in {"acknowledged", "dead_letter"}, NEW tag,
               SettleLease(c, t, tag, FinishedRow(held[c].run, to, t))
        PROVE  Kept
    <3> DEFINE r == held[c].run
               new == FinishedRow(r, to, t)
    <3>1. /\ r \in Runs /\ row[r].state = "leased" /\ to \in DeliveryStates
          /\ Persist(r, new, tag, held[c].lease, t) /\ lastLease' = lastLease
      BY <2>4 DEF SettleLease, LeaseInForce, RunsKnown, DeliveryStates
    <3> HIDE DEF r
    <3>2. /\ new \in Row /\ new.state = to /\ new.lease = row[r].lease
          /\ new.attempts = row[r].attempts
      BY <3>1, RowsTyped, FinishedFields, LoggedFields
    <3> HIDE DEF new
    <3>. QED
      BY <3>1, <3>2, ContractSettle
  <2>5. ASSUME NEW t \in Instants, Acknowledge(c, t) \/ DeadLetter(c, t) PROVE Kept
    BY <2>4, <2>5, InstantsBound DEF Acknowledge, DeadLetter
  <2>6. ASSUME NEW t \in Instants, NEW delay \in RetryDelays, Release(c, t, delay)
        PROVE  Kept
    <3> DEFINE r == held[c].run
               new == ReleasedRow(r, t, delay)
    <3>1. /\ r \in Runs /\ t \in Nat /\ row[r].state = "leased"
          /\ Persist(r, new, "released", held[c].lease, t) /\ lastLease' = lastLease
      BY <2>6, InstantsBound DEF Release, SettleLease, LeaseInForce, RunsKnown
    <3> HIDE DEF r
    <3>2. /\ new \in Row /\ new.state = "queued" /\ new.lease = row[r].lease
          /\ new.attempts = row[r].attempts
      BY <3>1, RowsTyped, RowFields, LoggedFields
    <3> HIDE DEF new
    <3>. QED
      BY <3>1, <3>2, ContractSettle
  <2>. QED
    BY <1>1, <1>4, <2>1, <2>2, <2>3, <2>5, <2>6
       DEF ConsumerStep, ClaimStart, ClaimSelect, ClaimNothing, ClaimConflict,
           ClaimAnswer, Forget
<1>5. CASE UNCHANGED vars
  BY <1>1, <1>5 DEF vars
<1>. QED
  BY <1>2, <1>3, <1>4, <1>5 DEF Next

(* The queue delivers as DeliveryContract promises: a fresh fencing token    *)
(* per delivery, settled by its newest token only, whatever the clocks say  *)
(* (the guarded batches of d1-runner-lease-queue.mjs).                      *)
THEOREM QueueKeepsContract == Spec => ImplementsContract
<1>1. Init => Contract!Init /\ TokensKnown
  BY DEF Init, Contract!Init, TokensKnown, TokenKnown, NoRow
<1>2. TypeOK /\ RunsKnown /\ TokensKnown /\ [Next]_vars =>
        [Contract!Next]_(Contract!contractVars) /\ TokensKnown'
  BY ContractStep
<1>. QED
  BY <1>1, <1>2, TypeCorrect, PTL DEF Spec, ImplementsContract, Contract!Spec
=============================================================================
