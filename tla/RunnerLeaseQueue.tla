-------------------------- MODULE RunnerLeaseQueue --------------------------
(***************************************************************************)
(* services/lean-runner/d1-runner-lease-queue.mjs: the durable queue from  *)
(* which trusted Runner processes claim signed jobs under a fenced lease.  *)
(*                                                                         *)
(* A method of the class is one or more database round trips, and the      *)
(* process awaits between them.  database.batch() is one atomic write      *)
(* transaction, so an action is one round trip: claim() is the clock       *)
(* reading, the SELECT, the guarded batch and the read that builds the     *)
(* answer, each its own action, and anything may happen in between.        *)
(*                                                                         *)
(* Clocks.  Instants are natural numbers and `now` is real time.  A caller *)
(* passes its own clock reading, off by at most MaxSkew, and the batch     *)
(* that carries it commits at most MaxLag later; a claim() call takes at   *)
(* most MaxStall from its clock reading to its answer.                     *)
(***************************************************************************)
EXTENDS Integers, Sequences, FiniteSets

CONSTANTS
  Runs,           \* Runs whose message may be enqueued
  Consumers,      \* trusted Runner processes
  Serves,         \* Serves[c]: Runs that c's environmentKey / runId filters admit
  LeaseDuration,  \* leaseDurationSeconds, at least 30 in the code
  RetryDelays,    \* availableAt - releasedAt of a release
  MaxSkew,        \* how far a process clock may be from real time
  MaxLag,         \* real time from the clock reading of another call to its commit
  MaxStall,       \* real time a claim() call takes at most, from clock to answer
  MaxRedrivers,   \* bound: concurrent redrive() calls
  MaxTime,        \* bound: real time
  MaxLeases,      \* bound: lease identifiers ever created
  MaxEvents,      \* bound: events in the log of one Run
  NoRun           \* the Run of a consumer that has none

ASSUME QueueAssumption ==
  /\ Serves \in [Consumers -> SUBSET Runs]
  /\ LeaseDuration \in Nat \ {0}
  /\ RetryDelays \subseteq Nat
  /\ MaxSkew \in Nat
  /\ MaxLag \in Nat
  /\ MaxStall \in Nat
  /\ MaxRedrivers \in Nat
  /\ MaxTime \in Nat
  /\ MaxLeases \in Nat
  /\ MaxEvents \in Nat
  /\ NoRun \notin Runs

VARIABLES
  now,        \* real time
  row,        \* row[r]: the runner_queue_messages row of Run r
  events,     \* events[r]: its runner_queue_events, in event_sequence order
  lastLease,  \* lease identifiers created so far; identifiers are 1, 2, ...
  phase,      \* phase[c]: what consumer c awaits
  claim,      \* claim[c]: the local variables of c's claim() call
  held,       \* held[c]: the delivery c works on
  redriving   \* redrive() calls that have read their row and not written yet

vars == <<now, row, events, lastLease, phase, claim, held, redriving>>

-----------------------------------------------------------------------------
(* Data *)

DeliveryStates ==
  {"absent", "queued", "leased", "acknowledged", "cancelled", "dead_letter"}

(* Lease 0 stands for NULL; expiresAt means something only while leased. *)
Row == [state: DeliveryStates, availableAt: Nat, lease: Nat,
        claimedAt: Nat, expiresAt: Nat, attempts: Nat,
        enqueuedAt: Nat, updatedAt: Nat]

NoRow == [state |-> "absent", availableAt |-> 0, lease |-> 0,
          claimedAt |-> 0, expiresAt |-> 0, attempts |-> 0,
          enqueuedAt |-> 0, updatedAt |-> 0]

(* The tag is the event's kind in its deduplication key; the event_type     *)
(* column stores "redriven" as "enqueued", the others under their own name. *)
EventTags == {"enqueued", "redriven", "lease_claimed", "lease_reclaimed",
              "lease_renewed", "released", "acknowledged", "dead_lettered",
              "cancelled"}

Event == [tag: EventTags, state: DeliveryStates, lease: Nat,
          attempt: Nat, at: Nat]

Phases == {"idle", "selecting", "committing", "answering", "working"}

Claim == [started: Nat, at: Nat, run: Runs \cup {NoRun},
          attempts: Nat, state: DeliveryStates]
NoClaim == [started |-> 0, at |-> 0, run |-> NoRun,
            attempts |-> 0, state |-> "absent"]

Delivery == [run: Runs \cup {NoRun}, lease: Nat, until: Nat]
NoDelivery == [run |-> NoRun, lease |-> 0, until |-> 0]

Redrive == [run: Runs, at: Nat]

TypeOK ==
  /\ now \in Nat
  /\ row \in [Runs -> Row]
  /\ events \in [Runs -> Seq(Event)]
  /\ lastLease \in Nat
  /\ phase \in [Consumers -> Phases]
  /\ claim \in [Consumers -> Claim]
  /\ held \in [Consumers -> Delivery]
  /\ redriving \subseteq Redrive

-----------------------------------------------------------------------------
(* Clocks *)

(* A clock read now, by a process that uses it at once. *)
ClockReadings == {t \in 0..(now + MaxSkew) : now <= t + MaxSkew}

(* A clock read on a call that commits now. *)
Instants == {t \in 0..(now + MaxSkew) : now <= t + MaxSkew + MaxLag}

(* Real time passes, but no claim() call takes longer than MaxStall. *)
Tick ==
  /\ now < MaxTime
  /\ \A c \in Consumers :
       phase[c] \in {"selecting", "committing", "answering"} =>
         now < claim[c].started + MaxStall
  /\ now' = now + 1
  /\ UNCHANGED <<row, events, lastLease, phase, claim, held, redriving>>

-----------------------------------------------------------------------------
(* Writes *)

(* The unique index on deduplication_key: only a renewal and a redrive carry *)
(* their instant in the key.                                                 *)
SameKey(e, f) ==
  /\ e.tag = f.tag
  /\ e.lease = f.lease
  /\ e.tag \in {"lease_renewed", "redriven"} => e.at = f.at

FreshKey(r, e) == \A i \in 1..Len(events[r]) : ~SameKey(events[r][i], e)

(* eventInsert copies delivery_attempts from the row as the batch left it. *)
EventOf(tag, lease, new, t) ==
  [tag |-> tag, state |-> new.state, lease |-> lease,
   attempt |-> new.attempts, at |-> t]

(* Mutant: the event is inserted before the row is updated. *)
PersistEventFirst(r, new, tag, lease, t) ==
  LET e == EventOf(tag, lease, row[r], t)
  IN  /\ Len(events[r]) < MaxEvents
      /\ FreshKey(r, e)
      /\ row' = [row EXCEPT ![r] = new]
      /\ events' = [events EXCEPT ![r] = Append(@, e)]

(* One batch: the projection row and its event, or nothing. *)
Persist(r, new, tag, lease, t) ==
  LET e == EventOf(tag, lease, new, t)
  IN  /\ Len(events[r]) < MaxEvents
      /\ FreshKey(r, e)
      /\ row' = [row EXCEPT ![r] = new]
      /\ events' = [events EXCEPT ![r] = Append(@, e)]

(* The batch's UPDATE matched no row but its event INSERT still did. *)
PersistEventOnly(r, tag, lease, t) ==
  LET e == EventOf(tag, lease, row[r], t)
  IN  /\ Len(events[r]) < MaxEvents
      /\ FreshKey(r, e)
      /\ events' = [events EXCEPT ![r] = Append(@, e)]
      /\ UNCHANGED row

-----------------------------------------------------------------------------
EnqueuedRow(t) ==
  [NoRow EXCEPT !.state = "queued", !.availableAt = t,
                !.enqueuedAt = t, !.updatedAt = t]

(* enqueue(): a message already present is compared and left alone. *)
Enqueue(r, t) ==
  /\ row[r].state = "absent"
  /\ Persist(r, EnqueuedRow(t), "enqueued", 0, t)
  /\ UNCHANGED <<now, lastLease, phase, claim, held, redriving>>

-----------------------------------------------------------------------------
(* claim() *)

Ready(r, t) ==
  \/ row[r].state = "queued" /\ row[r].availableAt <= t
  \/ row[r].state = "leased" /\ row[r].expiresAt <= t

(* The first ORDER BY expression. *)
ReadySince(r) ==
  IF row[r].state = "queued" THEN row[r].availableAt ELSE row[r].expiresAt

Before(r, s) ==
  \/ ReadySince(r) < ReadySince(s)
  \/ ReadySince(r) = ReadySince(s) /\ row[r].enqueuedAt <= row[s].enqueuedAt

Candidates(c) == {r \in Serves[c] : Ready(r, claim[c].at)}

NewClaim(t) == [NoClaim EXCEPT !.started = now, !.at = t]

Candidate(c, r) ==
  [claim[c] EXCEPT !.run = r, !.attempts = row[r].attempts,
                   !.state = row[r].state]

(* processNext() reads the clock and calls claim(). *)
ClaimStart(c, t) ==
  /\ phase[c] = "idle"
  /\ phase' = [phase EXCEPT ![c] = "selecting"]
  /\ claim' = [claim EXCEPT ![c] = NewClaim(t)]
  /\ UNCHANGED <<now, row, events, lastLease, held, redriving>>

(* SELECT ... LIMIT 1.  Rows tied on both instants are ordered by run_id;  *)
(* the model lets either be first.                                         *)
ClaimSelect(c, r) ==
  /\ phase[c] = "selecting"
  /\ r \in Candidates(c)
  /\ \A s \in Candidates(c) : Before(r, s)
  /\ phase' = [phase EXCEPT ![c] = "committing"]
  /\ claim' = [claim EXCEPT ![c] = Candidate(c, r)]
  /\ UNCHANGED <<now, row, events, lastLease, held, redriving>>

ClaimNothing(c) ==
  /\ phase[c] = "selecting"
  /\ Candidates(c) = {}
  /\ phase' = [phase EXCEPT ![c] = "idle"]
  /\ claim' = [claim EXCEPT ![c] = NoClaim]
  /\ UNCHANGED <<now, row, events, lastLease, held, redriving>>

(* Mutant: the UPDATE does not look at the expiry again. *)
CandidateSameAttempts(c) == row[claim[c].run].attempts = claim[c].attempts

(* The WHERE clause of the claiming UPDATE. *)
CandidateUnchanged(c) ==
  LET r == claim[c].run
  IN  row[r].attempts = claim[c].attempts /\ Ready(r, claim[c].at)

(* Mutants: a new delivery keeps the lease of the old one, or its attempt. *)
ClaimedRowSameLease(r, lease, t) ==
  [row[r] EXCEPT !.state = "leased", !.lease = IF @ = 0 THEN lease ELSE @,
                 !.claimedAt = t, !.expiresAt = t + LeaseDuration,
                 !.attempts = @ + 1, !.updatedAt = t]

ClaimedRowUncounted(r, lease, t) ==
  [row[r] EXCEPT !.state = "leased", !.lease = lease, !.claimedAt = t,
                 !.expiresAt = t + LeaseDuration, !.updatedAt = t]

ClaimedRow(r, lease, t) ==
  [row[r] EXCEPT !.state = "leased", !.lease = lease, !.claimedAt = t,
                 !.expiresAt = t + LeaseDuration, !.attempts = @ + 1,
                 !.updatedAt = t]

(* The event is named after the state the SELECT saw. *)
ClaimTag(c) ==
  IF claim[c].state = "leased" THEN "lease_reclaimed" ELSE "lease_claimed"

ClaimCommit(c) ==
  LET r == claim[c].run
  IN  /\ phase[c] = "committing"
      /\ CandidateUnchanged(c)
      /\ lastLease < MaxLeases
      /\ lastLease' = lastLease + 1
      /\ Persist(r, ClaimedRow(r, lastLease + 1, claim[c].at),
                 ClaimTag(c), lastLease + 1, claim[c].at)
      /\ phase' = [phase EXCEPT ![c] = "answering"]
      /\ UNCHANGED <<now, claim, held, redriving>>

(* Another writer came first: select again, or give up after claimRetries. *)
ClaimConflict(c) ==
  /\ phase[c] = "committing"
  /\ ~CandidateUnchanged(c)
  /\ \/ /\ phase' = [phase EXCEPT ![c] = "selecting"]
        /\ UNCHANGED claim
     \/ /\ phase' = [phase EXCEPT ![c] = "idle"]
        /\ claim' = [claim EXCEPT ![c] = NoClaim]
  /\ UNCHANGED <<now, row, events, lastLease, held, redriving>>

DeliveryOf(r) ==
  [run |-> r, lease |-> row[r].lease, until |-> row[r].expiresAt]

(* claim() answers with the lease of the row as a new read finds it.  A row *)
(* that is not leased any more makes the caller fail on its missing lease.  *)
ClaimAnswer(c) ==
  LET r == claim[c].run
      leased == row[r].state = "leased"
  IN  /\ phase[c] = "answering"
      /\ phase' = [phase EXCEPT ![c] = IF leased THEN "working" ELSE "idle"]
      /\ held' = IF leased THEN [held EXCEPT ![c] = DeliveryOf(r)] ELSE held
      /\ claim' = [claim EXCEPT ![c] = NoClaim]
      /\ UNCHANGED <<now, row, events, lastLease, redriving>>

-----------------------------------------------------------------------------
(* Calls on a lease *)

(* The common WHERE clause of renew(), release() and finishLease(). *)
LeaseInForce(r, lease, t) ==
  /\ row[r].state = "leased"
  /\ row[r].lease = lease
  /\ row[r].claimedAt <= t
  /\ row[r].expiresAt > t

Renewable(r, lease, t) ==
  LeaseInForce(r, lease, t) /\ row[r].expiresAt < t + LeaseDuration

RenewedRow(r, t) ==
  [row[r] EXCEPT !.expiresAt = t + LeaseDuration, !.updatedAt = t]

Renew(c, t) ==
  LET r == held[c].run
  IN  /\ phase[c] = "working"
      /\ Renewable(r, held[c].lease, t)
      /\ Persist(r, RenewedRow(r, t), "lease_renewed", held[c].lease, t)
      /\ held' = [held EXCEPT ![c] = [@ EXCEPT !.until = t + LeaseDuration]]
      /\ UNCHANGED <<now, lastLease, phase, claim, redriving>>

(* A renewal refused by its UPDATE whose event is inserted nevertheless:   *)
(* the row carries the same updated_at, as just after the claim.  The call *)
(* throws; the caller goes on to its failure path.                         *)
RenewRefused(c, t) ==
  LET r == held[c].run
  IN  /\ phase[c] = "working"
      /\ ~Renewable(r, held[c].lease, t)
      /\ row[r].state = "leased"
      /\ row[r].lease = held[c].lease
      /\ row[r].updatedAt = t
      /\ PersistEventOnly(r, "lease_renewed", held[c].lease, t)
      /\ UNCHANGED <<now, lastLease, phase, claim, held, redriving>>

(* The consumer is done with its delivery, one way or the other. *)
Drop(c) ==
  /\ phase' = [phase EXCEPT ![c] = "idle"]
  /\ held' = [held EXCEPT ![c] = NoDelivery]

SettleLease(c, t, tag, new) ==
  /\ phase[c] = "working"
  /\ LeaseInForce(held[c].run, held[c].lease, t)
  /\ Persist(held[c].run, new, tag, held[c].lease, t)
  /\ Drop(c)
  /\ UNCHANGED <<now, lastLease, claim, redriving>>

FinishedRow(r, to, t) == [row[r] EXCEPT !.state = to, !.updatedAt = t]

ReleasedRow(r, t, delay) ==
  [row[r] EXCEPT !.state = "queued", !.availableAt = t + delay, !.updatedAt = t]

Acknowledge(c, t) ==
  SettleLease(c, t, "acknowledged", FinishedRow(held[c].run, "acknowledged", t))

DeadLetter(c, t) ==
  SettleLease(c, t, "dead_lettered", FinishedRow(held[c].run, "dead_letter", t))

Release(c, t, delay) ==
  SettleLease(c, t, "released", ReleasedRow(held[c].run, t, delay))

(* A settling call refused, an answer that never came, or the process gone: *)
(* the consumer forgets its call and its delivery, the database keeps both. *)
Forget(c) ==
  /\ phase[c] # "idle"
  /\ Drop(c)
  /\ claim' = [claim EXCEPT ![c] = NoClaim]
  /\ UNCHANGED <<now, row, events, lastLease, redriving>>

-----------------------------------------------------------------------------
(* redrive(): a read, then the batch. *)
RedriveRead(r, t) ==
  /\ row[r].state = "dead_letter"
  /\ Cardinality(redriving) < MaxRedrivers
  /\ redriving' = redriving \cup {[run |-> r, at |-> t]}
  /\ UNCHANGED <<now, row, events, lastLease, phase, claim, held>>

RedrivenRow(r, t) ==
  [row[r] EXCEPT !.state = "queued", !.availableAt = t, !.attempts = 0,
                 !.lease = 0, !.claimedAt = 0, !.expiresAt = 0,
                 !.updatedAt = t]

RedriveCommit(d) ==
  /\ row[d.run].state = "dead_letter"
  /\ Persist(d.run, RedrivenRow(d.run, d.at), "redriven", 0, d.at)
  /\ redriving' = redriving \ {d}
  /\ UNCHANGED <<now, lastLease, phase, claim, held>>

(* Another redrive came first.  The event INSERT asks for a queued row with *)
(* the same updated_at and no particular lease, and may find one.           *)
RedriveConflict(d) ==
  /\ row[d.run].state # "dead_letter"
  /\ \/ /\ row[d.run].state = "queued" /\ row[d.run].updatedAt = d.at
        /\ PersistEventOnly(d.run, "redriven", 0, d.at)
     \/ /\ ~(row[d.run].state = "queued" /\ row[d.run].updatedAt = d.at)
        /\ UNCHANGED <<row, events>>
  /\ redriving' = redriving \ {d}
  /\ UNCHANGED <<now, lastLease, phase, claim, held>>

(* The batch hit the unique index and was rolled back. *)
RedriveAbort(d) ==
  /\ ~FreshKey(d.run, EventOf("redriven", 0, row[d.run], d.at))
  /\ redriving' = redriving \ {d}
  /\ UNCHANGED <<now, row, events, lastLease, phase, claim, held>>

(* cancelQueued() *)
CancelQueued(r, t) ==
  /\ row[r].state = "queued"
  /\ Persist(r, FinishedRow(r, "cancelled", t), "cancelled", 0, t)
  /\ UNCHANGED <<now, lastLease, phase, claim, held, redriving>>

-----------------------------------------------------------------------------
Init ==
  /\ now = 0
  /\ row = [r \in Runs |-> NoRow]
  /\ events = [r \in Runs |-> << >>]
  /\ lastLease = 0
  /\ phase = [c \in Consumers |-> "idle"]
  /\ claim = [c \in Consumers |-> NoClaim]
  /\ held = [c \in Consumers |-> NoDelivery]
  /\ redriving = {}

ConsumerStep(c) ==
  \/ \E t \in ClockReadings : ClaimStart(c, t)
  \/ \E r \in Runs : ClaimSelect(c, r)
  \/ ClaimNothing(c)
  \/ ClaimCommit(c)
  \/ ClaimConflict(c)
  \/ ClaimAnswer(c)
  \/ \E t \in Instants : Renew(c, t)
  \/ \E t \in Instants : RenewRefused(c, t)
  \/ \E t \in Instants : Acknowledge(c, t)
  \/ \E t \in Instants : DeadLetter(c, t)
  \/ \E t \in Instants, delay \in RetryDelays : Release(c, t, delay)
  \/ Forget(c)

ProducerStep ==
  \/ \E r \in Runs, t \in Instants : Enqueue(r, t)
  \/ \E r \in Runs, t \in Instants : CancelQueued(r, t)
  \/ \E r \in Runs, t \in Instants : RedriveRead(r, t)
  \/ \E d \in redriving : RedriveCommit(d)
  \/ \E d \in redriving : RedriveConflict(d)
  \/ \E d \in redriving : RedriveAbort(d)

Next == Tick \/ ProducerStep \/ \E c \in Consumers : ConsumerStep(c)

Spec == Init /\ [][Next]_vars

-----------------------------------------------------------------------------
(* Properties *)

Last(s) == s[Len(s)]

(* Fencing.  The identifier of a lease is held by one process at most: a   *)
(* process whose lease was superseded keeps its old identifier, so none of *)
(* its calls can renew or settle the newer delivery (class comment, and    *)
(* the WHERE clause of every call on a lease).                             *)
TokenExclusive ==
  \A c, d \in Consumers :
    phase[c] = "working" /\ phase[d] = "working"
      /\ held[c].lease = held[d].lease => c = d

(* Mutual exclusion in real time.  Two processes never both hold a lease   *)
(* of one Run that has longer to live than the clock skew, so two Lean     *)
(* executions of a Run overlap only after the first lost its lease.        *)
StillLeased(c) == phase[c] = "working" /\ held[c].until > now + MaxSkew

LeaseExclusive ==
  \A c, d \in Consumers :
    StillLeased(c) /\ StillLeased(d) /\ held[c].run = held[d].run => c = d

(* A lease that has longer to live than the clock skew is in force: the    *)
(* process that holds it is never refused, whatever the others do.         *)
LeaseHonoured ==
  \A c \in Consumers :
    StillLeased(c) =>
      /\ row[held[c].run].state = "leased"
      /\ row[held[c].run].lease = held[c].lease
      /\ row[held[c].run].expiresAt >= held[c].until

(* The append-only log and the mutable row never disagree: the last event  *)
(* names the state, the attempt and the lease the row has.                 *)
LogMatchesRow ==
  \A r \in Runs :
    IF events[r] = << >>
    THEN row[r].state = "absent"
    ELSE LET e == Last(events[r])
         IN  /\ e.state = row[r].state
             /\ e.attempt = row[r].attempts
             /\ e.lease \in {0, row[r].lease}

(* One step of the delivery history that listEvents() returns. *)
LegalSuccessor(e, f) ==
  \/ /\ f.tag \in {"lease_claimed", "lease_reclaimed"}
     /\ e.state \in {"queued", "leased"}
     /\ f.attempt = e.attempt + 1 /\ f.lease > e.lease
  \/ /\ f.tag \in {"lease_renewed", "released", "acknowledged", "dead_lettered"}
     /\ e.state = "leased"
     /\ f.attempt = e.attempt /\ f.lease = e.lease
  \/ f.tag = "redriven" /\ e.state = "dead_letter" /\ f.attempt = 0
  \/ f.tag = "redriven" /\ e.state = "queued" /\ f.attempt = e.attempt /\ f.at = e.at
  \/ f.tag = "cancelled" /\ e.state = "queued" /\ f.attempt = e.attempt

(* The log alone tells a possible delivery history: it starts with the     *)
(* enqueue, every delivery counts one attempt under a newer lease, only    *)
(* the newest lease renews or settles, and a dead letter is redriven with  *)
(* a fresh budget.  A redrive() that lost its race may leave an event that *)
(* changes nothing, at the very instant the message was queued.            *)
HistoryLegal ==
  \A r \in Runs :
    \A i \in 1..Len(events[r]) :
      IF i = 1 THEN events[r][1].tag = "enqueued"
               ELSE LegalSuccessor(events[r][i - 1], events[r][i])

(* The log and the row tell one story (eventInsert, listEvents).           *)
LogTellsRow == LogMatchesRow /\ HistoryLegal

(* No message is lost in a lease: a consumer that never comes back blocks  *)
(* its Run for one lease duration and the skew of its clock, no longer.    *)
LeaseBounded ==
  \A r \in Runs :
    row[r].state = "leased" => row[r].expiresAt <= now + MaxSkew + LeaseDuration

(* The state of a row as DeliveryContract names it. *)
Contract == INSTANCE DeliveryContract WITH
  status <- [r \in Runs |->
    CASE row[r].state = "queued" -> "ready"
      [] row[r].state = "leased" -> "held"
      [] row[r].state = "acknowledged" -> "done"
      [] row[r].state = "dead_letter" -> "parked"
      [] row[r].state = "cancelled" -> "withdrawn"
      [] OTHER -> "absent"],
  token <- [r \in Runs |-> row[r].lease],
  attempts <- [r \in Runs |-> row[r].attempts],
  issued <- lastLease

(* Read without its clocks, its rows and its log, the queue is the fenced  *)
(* at-least-once delivery of DeliveryContract.                             *)
ImplementsContract == Contract!Spec
-----------------------------------------------------------------------------
(* The inductive invariant behind TokenExclusive, LeaseHonoured and LeaseBounded *)

Claiming(c) == phase[c] \in {"selecting", "committing", "answering"}

(* A claim() call is never older than MaxStall, its clock never wrong by    *)
(* more than MaxSkew.                                                       *)
ClaimTimely ==
  \A c \in Consumers :
    Claiming(c) =>
      /\ claim[c].started <= now /\ now <= claim[c].started + MaxStall
      /\ claim[c].at <= claim[c].started + MaxSkew
      /\ claim[c].started <= claim[c].at + MaxSkew

(* Lease identifiers: created in order, and never on two rows. *)
LeaseIdsFresh ==
  /\ \A r \in Runs : row[r].lease <= lastLease
  /\ \A r \in Runs : row[r].state = "leased" => row[r].lease >= 1
  /\ \A r, s \in Runs : row[r].lease = row[s].lease /\ row[r].lease >= 1 => r = s

WorkingOnRun ==
  /\ \A c \in Consumers : phase[c] \in {"committing", "answering"} => claim[c].run \in Runs
  /\ \A c \in Consumers :
       phase[c] = "working" =>
         /\ held[c].run \in Runs
         /\ held[c].lease \in 1..lastLease
         /\ \A r \in Runs : row[r].lease = held[c].lease => r = held[c].run

(* Between its batch and its answer the lease of a claim() is still the one *)
(* the batch wrote, and nobody else was told of it.                         *)
AnswerPending ==
  \A c \in Consumers :
    phase[c] = "answering" =>
      /\ row[claim[c].run].state = "leased"
      /\ row[claim[c].run].expiresAt >= claim[c].at + LeaseDuration
      /\ \A d \in Consumers :
           /\ phase[d] = "working" => held[d].lease # row[claim[c].run].lease
           /\ phase[d] = "answering" /\ claim[d].run = claim[c].run => d = c

(* What fences a delivery off: a lease identifier has one holder, a lease  *)
(* that has longer to live than the skew is in force, and no row is leased *)
(* for longer than one lease; with what these rest on.                     *)
FencingInv ==
  /\ TypeOK
  /\ ClaimTimely
  /\ LeaseIdsFresh
  /\ WorkingOnRun
  /\ AnswerPending
  /\ TokenExclusive
  /\ LeaseHonoured
  /\ LeaseBounded
=============================================================================
