------------------------------ MODULE Receipts ------------------------------
(***************************************************************************)
(* Contribution Receipts: services/receipts (the coordinator that closes a *)
(* Bundle, the store of Receipts and of their lifecycle events, the        *)
(* registry of issuer keys), the credit settlement they trigger            *)
(* (services/credits), and their way into the anchor queue.                *)
(*                                                                         *)
(* An operation is a sequence of round trips to the database: each that    *)
(* matters is an action, a batch is atomic, and what was read stays in     *)
(* call[c].  A process may die, or a request be refused, at any point: a   *)
(* call can always be given up.  So two reads of which the later can pass  *)
(* only if the earlier does are one action, at the earlier; a call refused *)
(* by its first read is no step.                                           *)
(*                                                                         *)
(* Reviews come from the stores of VerificationMarket, seen through what   *)
(* they promise (ReviewLedger).  A Bundle names the Receipts it builds on  *)
(* by their hash: they were issued before it existed.                      *)
(***************************************************************************)
EXTENDS Naturals, FiniteSets

CONSTANTS
  Bundles,      \* staged Artifact Bundles with an accepted Lean run
  Claims,       \* contributionReceiptRequiredClaimTypes
  Persons,
  OwnerOf,      \* OwnerOf[b]: the Person whose Attempt made Bundle b
  AttemptOf,    \* AttemptOf[b]: that Attempt
  DepsOf,       \* DepsOf[b]: the Bundles whose Receipts Bundle b declares
  Public,       \* Bundles classified as public research
  IdOf,         \* IdOf[w]: the id of the attestation of review w
  MaxActive,    \* open reviews per Person (packages/domain/attempt-policy)
  Keys,         \* issuer keys
  ActivatedAt,  \* ActivatedAt[k]: what the coordinator deployed with k says
  NoKey, NoBundle,
  Callers,      \* concurrent operations
  Revocable,    \* bound: Persons whose delegation may be revoked
  MaxEvents,    \* bound: lifecycle events
  MaxTime       \* bound: real time

VARIABLES
  now,          \* real time, from 1: instant 0 stands for NULL
  standing,     \* the reviews (ReviewLedger)
  verdict,      \* and their signed decisions
  until,        \* until[p]: when the authority of reviewer p ends
  keys,         \* rows of contribution_receipt_issuer_keys
  keyLog,       \* rows of contribution_receipt_issuer_key_events
  receipts,     \* rows of contribution_receipts
  events,       \* rows of contribution_receipt_lifecycle_events
  queued,       \* Bundles whose Receipt is in anchor_records
  credited,     \* rows of receipt_credit_settlements
  call          \* call[c]: local variables of operation c

reviews == <<standing, verdict, until>>
registry == <<keys, keyLog>>
book == <<receipts, events>>
effects == <<queued, credited>>
vars == <<now, reviews, registry, book, effects, call>>

Verdicts == [decision: {"attested", "rejected"}, at: 1..MaxTime]
NoVerdict == [decision |-> "none", at |-> 0]

Ledger == INSTANCE ReviewLedger WITH ClaimTypes <- Claims

Work == Ledger!Work

ASSUME ReceiptsAssumption ==
  /\ OwnerOf \in [Bundles -> Persons]
  /\ DepsOf \in [Bundles -> SUBSET Bundles]
  /\ Public \subseteq Bundles
  /\ IdOf \in [Work -> Nat]
  /\ \A w, v \in Work : IdOf[w] = IdOf[v] /\ w.bundle = v.bundle
                          /\ w.claim = v.claim => w = v
  /\ ActivatedAt \in [Keys -> Nat \ {0}]
  /\ NoKey \notin Keys /\ NoBundle \notin Bundles
  /\ Revocable \subseteq Persons
  /\ Claims # {}
  /\ MaxEvents \in Nat /\ MaxTime \in Nat \ {0}

-----------------------------------------------------------------------------
(* Data *)

KeyRow == [status: {"none", "active", "retired", "revoked"},
           from: Nat, retiredAt: Nat, revokedAt: Nat]
NoKeyRow == [status |-> "none", from |-> 0, retiredAt |-> 0, revokedAt |-> 0]

(* Mutant: the status is not one that freezeKey() knows. *)
FreshUnknown(t) == [NoKeyRow EXCEPT !.status = "current", !.from = t]

Fresh(t) == [NoKeyRow EXCEPT !.status = "active", !.from = t]

KeyEvent == [type: {"activated", "retired", "revoked"}, key: Keys]

Receipt == [at: Nat, key: Keys \cup {NoKey}, cites: SUBSET Work]
NoReceipt == [at |-> 0, key |-> NoKey, cites |-> {}]

Terminal == {"superseded", "retracted"}
Event == [bundle: Bundles, type: {"corrected"} \cup Terminal,
          by: Bundles \cup {NoBundle}, at: 1..MaxTime, key: Keys]

Phases == {"idle", "registering", "gathering", "judging", "inserting",
           "announcing", "settling", "crediting",
           "comparing", "recording", "rotating"}

(* bundle, key and draft: of an issuance; event: of a lifecycle event; key *)
(* and successor, at: of a rotation.                                       *)
Call == [phase: Phases, bundle: Bundles \cup {NoBundle},
         key: Keys \cup {NoKey}, successor: Keys \cup {NoKey}, at: Nat,
         draft: Receipt, event: Event \cup {NoBundle}]
NoCall == [phase |-> "idle", bundle |-> NoBundle, key |-> NoKey,
           successor |-> NoKey, at |-> 0, draft |-> NoReceipt,
           event |-> NoBundle]

TypeOK ==
  /\ now \in Nat
  /\ standing \in [Work -> {"none", "open", "declined", "closed"}]
  /\ verdict \in [Work -> Verdicts \cup {NoVerdict}]
  /\ until \in [Persons -> Nat]
  /\ keys \in [Keys -> KeyRow]
  /\ keyLog \subseteq KeyEvent
  /\ receipts \in [Bundles -> Receipt]
  /\ events \subseteq Event
  /\ queued \subseteq Bundles
  /\ credited \subseteq Bundles
  /\ call \in [Callers -> Call]

-----------------------------------------------------------------------------
Issued(b) == receipts[b] # NoReceipt

(* Mutant: a retired key still passes. *)
CanIssueRetired(k, t) ==
  keys[k].status \in {"active", "retired"} /\ keys[k].from <= t

(* assertCanIssue() *)
CanIssue(k, t) == keys[k].status = "active" /\ keys[k].from <= t

(* assertHistoricallyTrusted() *)
Trusted(k, t) ==
  /\ keys[k].status \in {"active", "retired"}
  /\ keys[k].from <= t
  /\ keys[k].retiredAt # 0 => t <= keys[k].retiredAt

TrustedReceipt(b) == Issued(b) /\ Trusted(receipts[b].key, receipts[b].at)

EventsOf(b) == {e \in events : e.bundle = b}
Over(b) == \E e \in EventsOf(b) : e.type \in Terminal

Begin(c, rec) == call' = [call EXCEPT ![c] = rec]
Become(c, phase) == call' = [call EXCEPT ![c].phase = phase]
End(c) == call' = [call EXCEPT ![c] = NoCall]

-----------------------------------------------------------------------------
(* Reviews *)

(* A review ends with a decision signed some time ago. *)
Review(w, d, t) ==
  /\ t \in 1..now
  /\ \A dep \in DepsOf[w.bundle] : Issued(dep)
  /\ Ledger!Conclude(w, [decision |-> d, at |-> t])
  /\ UNCHANGED <<now, until, registry, book, effects, call>>

(* The delegation of a reviewer, or the key that signed it, is revoked,    *)
(* possibly from an earlier instant on.                                    *)
Disown(p, t) ==
  /\ p \in Revocable
  /\ t \in 1..now /\ t < until[p]
  /\ until' = [until EXCEPT ![p] = t]
  /\ UNCHANGED <<now, standing, verdict, registry, book, effects, call>>

DecidedOn(b, cl) == {w \in Work : w.bundle = b /\ w.claim = cl
                                            /\ verdict[w].decision # "none"}

(* latestReviewDecisions(): by instant, then by id. *)
Latest(b, cl) ==
  CHOOSE w \in DecidedOn(b, cl) :
    \A v \in DecidedOn(b, cl) :
      \/ verdict[v].at < verdict[w].at
      \/ verdict[v].at = verdict[w].at /\ IdOf[v] <= IdOf[w]

(* loadReviewEvidence() refuses a Bundle any decision on which is by its   *)
(* author or was signed without authority.                                 *)
Admissible(b) ==
  \A w \in UNION {DecidedOn(b, cl) : cl \in Claims} :
    w.person # OwnerOf[b] /\ verdict[w].at < until[w.person]

Blocked(b) ==
  \E cl \in Claims :
    DecidedOn(b, cl) # {} /\ verdict[Latest(b, cl)].decision = "rejected"

Complete(b) == \A cl \in Claims : DecidedOn(b, cl) # {}

(* Mutant: a positive decision is looked for, not the latest one. *)
ClosableByAny(b) ==
  Admissible(b) /\ \A cl \in Claims :
    \E w \in DecidedOn(b, cl) : verdict[w].decision = "attested"

Closable(b) == Admissible(b) /\ Complete(b) /\ ~ Blocked(b)

Cites(b) == {Latest(b, cl) : cl \in Claims}

(* reviewState().closedAt *)
ClosedAt(b) ==
  CHOOSE t \in {verdict[w].at : w \in Cites(b)} :
    \A w \in Cites(b) : verdict[w].at <= t

Later(s, t) == IF t > s THEN t ELSE s

-----------------------------------------------------------------------------
(* tryIssueForBundle(), run after every recorded decision, and again when  *)
(* the reviewer retries.  The coordinator was deployed with key k.         *)
Close(c, b, k) ==
  /\ call[c].phase = "idle"
  /\ ~ Issued(b) /\ Closable(b)
  /\ Begin(c, [NoCall EXCEPT
                 !.phase = "registering", !.bundle = b, !.key = k,
                 !.draft = [at |-> Later(ActivatedAt[k], ClosedAt(b)),
                            key |-> k, cites |-> {}]])
  /\ UNCHANGED <<now, reviews, registry, book, effects>>

(* A Bundle that has its Receipt is only settled; the backfill script      *)
(* settles every Receipt.                                                  *)
Resettle(c, b) ==
  /\ call[c].phase = "idle"
  /\ Issued(b)
  /\ Begin(c, [NoCall EXCEPT !.phase = "settling", !.bundle = b])
  /\ UNCHANGED <<now, reviews, registry, book, effects>>

(* registerInitial(): the primary key and the index of the active key say  *)
(* the same as the two reads before the batch.                             *)
Register(c) ==
  LET k == call[c].key
      row == Fresh(ActivatedAt[k])
  IN  /\ call[c].phase = "registering"
      /\ \/ keys[k] = row /\ UNCHANGED registry
         \/ /\ keys[k] = NoKeyRow
            /\ \A j \in Keys : keys[j].status # "active"
            /\ keys' = [keys EXCEPT ![k] = row]
            /\ keyLog' = keyLog \cup {[type |-> "activated", key |-> k]}
      /\ Become(c, "gathering")
      /\ UNCHANGED <<now, reviews, book, effects>>

(* loadEvidence() *)
Gather(c) ==
  /\ call[c].phase = "gathering"
  /\ Closable(call[c].bundle)
  /\ call' = [call EXCEPT ![c].phase = "judging",
                          ![c].draft.cites = Cites(call[c].bundle)]
  /\ UNCHANGED <<now, reviews, registry, book, effects>>

(* findExistingForDraft() finds another Receipt, the same, or none. *)
SameReceipt(c) ==
  receipts[call[c].bundle] = call[c].draft /\ TrustedReceipt(call[c].bundle)

(* Mutant: the instants of the dependencies are not compared. *)
DependenciesExist(c) ==
  \A d \in DepsOf[call[c].bundle] : TrustedReceipt(d)

(* loadDependencyEvidence() *)
DependenciesHold(c) ==
  \A d \in DepsOf[call[c].bundle] :
    TrustedReceipt(d) /\ receipts[d].at <= call[c].draft.at

Judge(c) ==
  /\ call[c].phase = "judging"
  /\ DependenciesHold(c)
  /\ \/ SameReceipt(c) /\ Become(c, "announcing")
     \/ /\ ~ Issued(call[c].bundle)
        /\ CanIssue(call[c].key, call[c].draft.at)
        /\ Become(c, "inserting")
  /\ UNCHANGED <<now, reviews, registry, book, effects>>

(* The batch of the Receipt, its publication and its dependency edges; the *)
(* loser of a race returns the winner's Receipt if it is the same.         *)
Insert(c) ==
  /\ call[c].phase = "inserting"
  /\ \/ /\ ~ Issued(call[c].bundle)
        /\ receipts' = [receipts EXCEPT ![call[c].bundle] = call[c].draft]
     \/ SameReceipt(c) /\ UNCHANGED receipts
  /\ Become(c, "announcing")
  /\ UNCHANGED <<now, reviews, registry, events, effects>>

(* enqueueReceiptForAnchoring(): best effort. *)
Announce(c) ==
  /\ call[c].phase = "announcing"
  /\ queued' \in {queued, queued \cup ({call[c].bundle} \cap Public)}
  /\ Become(c, "settling")
  /\ UNCHANGED <<now, reviews, registry, book, credited>>

-----------------------------------------------------------------------------
(* settleReceipt() *)

(* Mutant: only the Receipt itself is asked for, not what it builds on. *)
CreditableAlone(b) ==
  b \in Public /\ TrustedReceipt(b) /\ ~ Over(b)

Creditable(b) ==
  /\ b \in Public
  /\ \A r \in {b} \cup DepsOf[b] : TrustedReceipt(r) /\ ~ Over(r)

CheckSettle(c) ==
  /\ call[c].phase = "settling"
  /\ Creditable(call[c].bundle)
  /\ call[c].bundle \notin credited
  /\ Become(c, "crediting")
  /\ UNCHANGED <<now, reviews, registry, book, effects>>

Credit(c) ==
  /\ call[c].phase = "crediting"
  /\ credited' = credited \cup {call[c].bundle}
  /\ End(c)
  /\ UNCHANGED <<now, reviews, registry, book, queued>>

-----------------------------------------------------------------------------
(* recordLifecycleEvent(), for an event e under a new id *)

(* Mutants: the history of the Receipt is not asked for, and a replacement *)
(* may be as old as what it replaces.                                      *)
TransitionUnchecked(e) == TRUE
ReplacesAsOld(e) ==
  /\ TrustedReceipt(e.by)
  /\ AttemptOf[e.by] = AttemptOf[e.bundle]
  /\ receipts[e.by].at \in receipts[e.bundle].at .. e.at

(* assertLifecycleTransition() *)
Transition(e) ==
  /\ ~ Over(e.bundle)
  /\ \A f \in EventsOf(e.bundle) :
       /\ Trusted(f.key, f.at)
       /\ f.type = "corrected" => e.type = "retracted"

Replaces(e) ==
  /\ TrustedReceipt(e.by)
  /\ AttemptOf[e.by] = AttemptOf[e.bundle]
  /\ receipts[e.by].at \in receipts[e.bundle].at + 1 .. e.at

(* assertNoReplacementCycle(): what replaces e.by, and so on, never comes  *)
(* back to e.bundle.                                                       *)
NoCycle(e) ==
  \E S \in SUBSET (Bundles \ {e.bundle}) :
    /\ e.by \in S
    /\ \A f \in events : f.bundle \in S => f.by \in S \cup {NoBundle}

Remark(c, e) ==
  /\ call[c].phase = "idle"
  /\ Cardinality(events) < MaxEvents
  /\ e.at \in 1..now
  /\ (e.by = NoBundle) = (e.type = "retracted")
  /\ TrustedReceipt(e.bundle)
  /\ CanIssue(e.key, e.at)
  /\ receipts[e.bundle].at <= e.at
  /\ Transition(e)
  /\ Begin(c, [NoCall EXCEPT
                 !.phase = IF e.by = NoBundle THEN "recording" ELSE "comparing",
                 !.event = e])
  /\ UNCHANGED <<now, reviews, registry, book, effects>>

Compare(c) ==
  /\ call[c].phase = "comparing"
  /\ Replaces(call[c].event)
  /\ NoCycle(call[c].event)
  /\ Become(c, "recording")
  /\ UNCHANGED <<now, reviews, registry, book, effects>>

(* A Receipt has one event of each type, by the indexes of drizzle/0015.   *)
Record(c) ==
  LET e == call[c].event
  IN  /\ call[c].phase = "recording"
      /\ \A f \in EventsOf(e.bundle) : f.type # e.type
      /\ events' = events \cup {e}
      /\ End(c)
      /\ UNCHANGED <<now, reviews, registry, receipts, effects>>

-----------------------------------------------------------------------------
(* The registry of issuer keys; the operator gives the instants. *)

(* rotate() finds no successor and an active predecessor. *)
Rotate(c, k, successor, t) ==
  /\ call[c].phase = "idle"
  /\ keys[k].status = "active" /\ keys[successor].status = "none"
  /\ t \in keys[k].from..now
  /\ Begin(c, [NoCall EXCEPT !.phase = "rotating", !.key = k,
                             !.successor = successor, !.at = t])
  /\ UNCHANGED <<now, reviews, registry, book, effects>>

Retire(row, t) ==
  IF row.status = "active"
  THEN [row EXCEPT !.status = "retired", !.retiredAt = t]
  ELSE row

(* The batch aborts when the successor or one of the events is there, or   *)
(* when another key would be active too.                                   *)
RotateBatch(c) ==
  LET k == call[c].key
      successor == call[c].successor
      t == call[c].at
      entries == {[type |-> "retired", key |-> k],
                  [type |-> "activated", key |-> successor]}
  IN  /\ call[c].phase = "rotating"
      /\ keys[successor].status = "none"
      /\ \A j \in Keys \ {k} : keys[j].status # "active"
      /\ entries \cap keyLog = {}
      /\ keys' = [keys EXCEPT ![k] = Retire(@, t), ![successor] = Fresh(t)]
      /\ keyLog' = keyLog \cup entries
      /\ End(c)
      /\ UNCHANGED <<now, reviews, book, effects>>

(* revoke(): the key of the event says the same as the read before.        *)
Revoke(k, t) ==
  /\ keys[k].status \in {"active", "retired"}
  /\ t \in keys[k].from..now
  /\ keys' = [keys EXCEPT ![k].status = "revoked", ![k].revokedAt = t]
  /\ keyLog' = keyLog \cup {[type |-> "revoked", key |-> k]}
  /\ UNCHANGED <<now, reviews, book, effects, call>>

-----------------------------------------------------------------------------
(* The anchor worker *)

(* Mutant: the intake joins the settlements. *)
EligibleCredited(b) == b \in credited

Eligible(b) == Issued(b) /\ b \in Public

(* enqueuePublicAnchorRecords(): once a minute, what is not there yet.     *)
Intake(b) ==
  /\ Eligible(b) /\ b \notin queued
  /\ queued' = queued \cup {b}
  /\ UNCHANGED <<now, reviews, registry, book, credited, call>>

-----------------------------------------------------------------------------
(* The process dies, or the operation is refused or fails. *)
GiveUp(c) ==
  /\ call[c].phase # "idle"
  /\ End(c)
  /\ UNCHANGED <<now, reviews, registry, book, effects>>

Tick ==
  /\ now < MaxTime
  /\ now' = now + 1
  /\ UNCHANGED <<reviews, registry, book, effects, call>>

Init ==
  /\ now = 1
  /\ Ledger!Init
  /\ until = [p \in Persons |-> MaxTime + 1]
  /\ keys = [k \in Keys |-> NoKeyRow]
  /\ keyLog = {}
  /\ receipts = [b \in Bundles |-> NoReceipt]
  /\ events = {} /\ queued = {} /\ credited = {}
  /\ call = [c \in Callers |-> NoCall]

Request(c) ==
  \/ \E b \in Bundles, k \in Keys : Close(c, b, k)
  \/ \E b \in Bundles : Resettle(c, b)
  \/ \E e \in Event : Remark(c, e)
  \/ \E k, successor \in Keys, t \in 1..now : Rotate(c, k, successor, t)

Proceed(c) ==
  \/ Register(c) \/ Gather(c) \/ Judge(c) \/ Insert(c) \/ Announce(c)
  \/ CheckSettle(c) \/ Credit(c)
  \/ Compare(c) \/ Record(c) \/ RotateBatch(c)
  \/ GiveUp(c)

World ==
  \/ Tick
  \/ \E w \in Work, d \in {"attested", "rejected"}, t \in 1..now : Review(w, d, t)
  \/ \E p \in Persons, t \in 1..now : Disown(p, t)
  \/ \E k \in Keys, t \in 1..now : Revoke(k, t)

Next ==
  \/ World
  \/ \E c \in Callers : Request(c) \/ Proceed(c)
  \/ \E b \in Bundles : Intake(b)

Spec == Init /\ [][Next]_vars /\ \A b \in Bundles : WF_vars(Intake(b))

-----------------------------------------------------------------------------
(* Properties *)

Rejected(b) == Blocked(b) \/ ~ Admissible(b)

GatheredFor(b) ==
  \E c \in Callers : call[c].bundle = b /\ call[c].phase \in {"judging", "inserting"}

(* A decision against a Bundle, or the loss of a reviewer's authority,     *)
(* stops every issuance that has not yet read the evidence, for as long as *)
(* it stands.                                                              *)
BlockHolds ==
  [][\A b \in Bundles :
       ~ Issued(b) /\ Rejected(b) /\ ~ GatheredFor(b) =>
         ~ Issued(b)' /\ (GatheredFor(b)' => ~ Rejected(b)')]_vars

JudgedWith(k) ==
  \E c \in Callers :
    \/ call[c].phase = "inserting" /\ call[c].key = k
    \/ call[c].phase \in {"comparing", "recording"} /\ call[c].event.key = k

SignedWith(k) ==
  {b \in Bundles : receipts[b].key = k} \cup {e \in events : e.key = k}

Silent(k) == keys[k].status \in {"retired", "revoked"} /\ ~ JudgedWith(k)

(* A key that was retired or revoked signs nothing new, except for the     *)
(* operations that had checked it before.                                  *)
RetiredKeysSilent ==
  [][\A k \in Keys : Silent(k) => Silent(k)' /\ SignedWith(k)' = SignedWith(k)]_vars

Finished(b) ==
  /\ Over(b)
  /\ \A c \in Callers :
       call[c].phase \in {"comparing", "recording"} => call[c].event.bundle # b

Uncredited(b) ==
  /\ b \notin credited
  /\ \E r \in {b} \cup DepsOf[b] : Over(r)
  /\ \A c \in Callers : call[c].phase = "crediting" => call[c].bundle # b

(* Once a Receipt is superseded or retracted, no operation that begins     *)
(* later adds to its history, or gives credit for it or for what builds on *)
(* it, however often settlements are retried.                              *)
EndedHolds ==
  [][\A b \in Bundles :
       /\ Finished(b) => Finished(b)' /\ EventsOf(b)' = EventsOf(b)
       /\ Uncredited(b) => Uncredited(b)']_vars

(* What readers are promised. *)
Book == INSTANCE ReceiptBook
ImplementsBook == Book!Spec

(* Every public Receipt reaches the anchor queue, though the coordinator   *)
(* that issued it may die or fail to queue it.                             *)
ReceiptsQueued == \A b \in Public : Issued(b) ~> b \in queued

(* The readers refuse the history of a Receipt in which an event follows a *)
(* supersession or retraction (assertLifecycleSequence()).                 *)
HistoryReadable ==
  \A b \in Bundles : \A e, f \in EventsOf(b) :
    e.type \in Terminal /\ f # e => f.type \notin Terminal /\ f.at <= e.at
=============================================================================
