------------------------- MODULE VerificationMarket -------------------------
(***************************************************************************)
(* Independent review: services/verification/d1-verification-market-store  *)
(* (public jobs and their claims) and d1-verification-store (assignments,  *)
(* their event log and the signed attestations), over one problem revision *)
(* with one credit pool.                                                   *)
(*                                                                         *)
(* An operation is a sequence of round trips to the database; each is an   *)
(* action, a batch is atomic, and other operations run in between.  What   *)
(* an operation read stays in call[c].  An operation refused by its first  *)
(* read leaves no trace and is no step.                                    *)
(*                                                                         *)
(* A work (Bundle, claim type, Person) has at most one assignment row, by  *)
(* the unique index of drizzle/0010; its id says which of the two stores   *)
(* made it.  Ids that callers choose are taken to be distinct.             *)
(***************************************************************************)
EXTENDS Naturals, Sequences, FiniteSets

CONSTANTS
  Bundles,      \* staged Artifact Bundles
  ClaimOrder,   \* the claim types of the market, in order of publication
  ReplayClaims, \* those a positive attestation of which needs a replay
  Persons,
  OwnerOf,      \* OwnerOf[b]: the Person whose Attempt made Bundle b
  Nobody,
  MaxActive,    \* open reviews per Person (packages/domain/attempt-policy)
  Callers,      \* concurrent requests
  Unclosed,     \* works an early release attested without closing them
  Duties,       \* bound: the kinds of requests made
  Revocations,  \* bound: those that may happen
  MaxTime       \* bound: real time

ClaimTypes == {ClaimOrder[i] : i \in 1..Len(ClaimOrder)}

Work == [bundle: Bundles, claim: ClaimTypes, person: Persons]
Job == [bundle: Bundles, claim: ClaimTypes]

ASSUME MarketAssumption ==
  /\ ClaimOrder \in Seq(STRING) /\ ClaimOrder # << >>
  /\ ReplayClaims \subseteq ClaimTypes
  /\ OwnerOf \in [Bundles -> Persons]
  /\ Nobody \notin Persons
  /\ MaxActive \in Nat /\ MaxTime \in Nat \ {0}
  /\ Revocations \subseteq [revoked: {"delegation", "key"}, at: Nat]
  /\ Unclosed \subseteq {w \in Work : w.person # OwnerOf[w.bundle]}
  /\ \A p \in Persons : /\ IsFiniteSet({w \in Unclosed : w.person = p})
                        /\ Cardinality({w \in Unclosed : w.person = p}) <= MaxActive

VARIABLES
  now,          \* real time, from 1: instant 0 stands for NULL
  pool,         \* state of the credit pool
  proved,       \* Bundles with an accepted Lean result
  jobs,         \* rows of verification_market_jobs
  jobLog,       \* jobLog[j]: rows of verification_market_job_events
  claimant,     \* claimant[j]: row of verification_market_job_claims
  asg,          \* asg[w]: row of verification_assignments
  log,          \* log[w]: rows of verification_assignment_events
  att,          \* att[w]: row of verification_attestations
  replay,       \* replay[w]: when fresh replay evidence was recorded
  authority,    \* authority[p]: the review delegation of Person p
  call          \* call[c]: local variables of request c

outside == <<pool, proved, replay, authority>>
market == <<jobs, jobLog, claimant>>
desk == <<asg, log, att>>
vars == <<now, outside, market, desk, call>>

-----------------------------------------------------------------------------
(* Data *)

PoolStates == {"draft", "active", "locked", "settled", "cancelled"}
Statuses == {"none", "assigned", "accepted", "declined", "completed"}
Active == {"assigned", "accepted"}

Row == [status: Statuses, via: {"none", "market", "direct"},
        assignedAt: Nat, acceptedAt: Nat, endedAt: Nat]
NoRow == [status |-> "none", via |-> "none",
          assignedAt |-> 0, acceptedAt |-> 0, endedAt |-> 0]

(* The type of an event stands for its id: ids are unique per assignment. *)
Entry == [type: {"created", "accepted", "declined", "attested"}, at: Nat]
Event(type, t) == [type |-> type, at |-> t]

Verdict == [decision: {"attested", "rejected"}, at: Nat]
NoVerdict == [decision |-> "none", at |-> 0]

(* Delegations are revoked with an instant, past or future; so are the     *)
(* keys they were signed with.                                             *)
Authority == [revoked: {"no", "delegation", "key"}, at: Nat]
Granted == [revoked |-> "no", at |-> 0]

Phases == {"idle", "lean", "publishing",
           "pool", "delegation", "capacity", "claiming", "assigning",
           "deciding", "numbering", "moving",
           "reviewing", "comparing", "history", "authority", "evidence",
           "recording", "raced", "closing", "closing_history", "closing_write"}

(* n is a loop counter or the number of the event to append. *)
Call == [phase: Phases, work: Work \cup {Nobody}, at: Nat, to: Statuses,
         read: Row, n: Nat, known: BOOLEAN, verdict: Verdict \cup {NoVerdict}]
NoCall == [phase |-> "idle", work |-> Nobody, at |-> 0, to |-> "none",
           read |-> NoRow, n |-> 0, known |-> FALSE, verdict |-> NoVerdict]

TypeOK ==
  /\ now \in Nat
  /\ pool \in PoolStates
  /\ proved \subseteq Bundles
  /\ jobs \subseteq Job
  /\ jobLog \in [Job -> Seq({"published", "claimed"})]
  /\ claimant \in [Job -> Persons \cup {Nobody}]
  /\ asg \in [Work -> Row]
  /\ log \in [Work -> Seq(Entry)]
  /\ att \in [Work -> Verdict \cup {NoVerdict}]
  /\ replay \in [Work -> Nat]
  /\ authority \in [Persons -> Authority]
  /\ call \in [Callers -> Call]

-----------------------------------------------------------------------------
JobOf(w) == [bundle |-> w.bundle, claim |-> w.claim]

Independent(w) == w.person # OwnerOf[w.bundle]

ActiveOf(p) == {w \in Work : w.person = p /\ asg[w].status \in Active}
HasCapacity(p) == Cardinality(ActiveOf(p)) < MaxActive

(* activeReviewDelegationSelect() *)
Delegated(p, t) ==
  \/ authority[p].revoked = "no"
  \/ authority[p].revoked = "delegation" /\ authority[p].at > t

(* assertReviewDelegation(): of a key, too, the instant counts. *)
DelegatedAt(p, t) == authority[p].revoked = "no" \/ authority[p].at > t

Begin(c, w, phase) ==
  call' = [call EXCEPT
             ![c] = [NoCall EXCEPT !.phase = phase, !.work = w, !.at = now]]
Become(c, phase) == call' = [call EXCEPT ![c].phase = phase]
End(c) == call' = [call EXCEPT ![c] = NoCall]

(* A check that lets the call go on to its next phase, or ends it. *)
Check(c, from, test, to) ==
  /\ call[c].phase = from
  /\ IF test THEN Become(c, to) ELSE End(c)
  /\ UNCHANGED <<now, outside, market, desk>>

-----------------------------------------------------------------------------
(* publishJobsForBundle(): one batch per claim type, after three reads. *)
Publish(c, b) ==
  /\ call[c].phase = "idle"
  /\ pool = "active"
  /\ Begin(c, [bundle |-> b, claim |-> ClaimOrder[1], person |-> OwnerOf[b]], "lean")
  /\ UNCHANGED <<now, outside, market, desk>>

CheckLean(c) == Check(c, "lean", call[c].work.bundle \in proved, "publishing")

(* INSERT OR IGNORE against UNIQUE (job_id, sequence). *)
Published(j) == IF jobLog[j] = << >> THEN <<"published">> ELSE jobLog[j]

PublishNext(c) ==
  LET next == call[c].n + 1
      j == [bundle |-> call[c].work.bundle, claim |-> ClaimOrder[next]]
  IN  /\ call[c].phase = "publishing"
      /\ jobs' = jobs \cup {j}
      /\ jobLog' = [jobLog EXCEPT ![j] = Published(j)]
      /\ IF next = Len(ClaimOrder) THEN End(c)
         ELSE call' = [call EXCEPT ![c].n = next]
      /\ UNCHANGED <<now, outside, claimant, desk>>

-----------------------------------------------------------------------------
(* claimJob(): it finds no claim, reads everything the batch will read     *)
(* again, and makes the assignment, its two events and the claim at once.  *)
Claim(c, w) ==
  /\ call[c].phase = "idle"
  /\ JobOf(w) \in jobs
  /\ claimant[JobOf(w)] = Nobody
  /\ Independent(w)
  /\ Begin(c, w, "pool")
  /\ UNCHANGED <<now, outside, market, desk>>

CheckPool(c) == Check(c, "pool", pool = "active", "delegation")
CheckDelegation(c) ==
  Check(c, "delegation", Delegated(call[c].work.person, call[c].at), "capacity")
CheckCapacity(c) ==
  Check(c, "capacity", HasCapacity(call[c].work.person), "claiming")

(* Mutants: the batch relies on what was read before it. *)
ClaimableOverCapacity(w, t) ==
  /\ Independent(w) /\ claimant[JobOf(w)] = Nobody
  /\ Delegated(w.person, t) /\ pool = "active"
ClaimableTwice(w, t) ==
  /\ Independent(w) /\ HasCapacity(w.person)
  /\ Delegated(w.person, t) /\ pool = "active"

(* The WHERE clause of the first INSERT. *)
Claimable(w, t) ==
  /\ Independent(w)
  /\ claimant[JobOf(w)] = Nobody
  /\ HasCapacity(w.person)
  /\ Delegated(w.person, t)
  /\ pool = "active"

(* When nothing is inserted the other statements insert nothing, or abort  *)
(* on the primary key of an event; a row for the work made by assign()     *)
(* aborts the batch on the unique index.  The call then answers from the   *)
(* claim it finds.                                                         *)
ClaimBatch(c) ==
  LET w == call[c].work
      t == call[c].at
      j == JobOf(w)
  IN  /\ call[c].phase = "claiming"
      /\ IF Claimable(w, t) /\ asg[w].status = "none"
         THEN /\ asg' = [asg EXCEPT ![w] =
                          [status |-> "accepted", via |-> "market",
                           assignedAt |-> t, acceptedAt |-> t, endedAt |-> 0]]
              /\ log' = [log EXCEPT
                           ![w] = <<Event("created", t), Event("accepted", t)>>]
              /\ claimant' = [claimant EXCEPT ![j] = w.person]
              /\ jobLog' = [jobLog EXCEPT ![j] = Append(@, "claimed")]
         ELSE UNCHANGED <<asg, log, claimant, jobLog>>
      /\ End(c)
      /\ UNCHANGED <<now, outside, jobs, att>>

-----------------------------------------------------------------------------
(* D1VerificationStore.assign() *)
Assign(c, w) ==
  /\ call[c].phase = "idle"
  /\ Independent(w)
  /\ asg[w].status = "none"
  /\ Begin(c, w, "assigning")
  /\ UNCHANGED <<now, outside, market, desk>>

AssignBatch(c) ==
  LET w == call[c].work
      t == call[c].at
  IN  /\ call[c].phase = "assigning"
      /\ IF HasCapacity(w.person) /\ asg[w].status = "none"
         THEN /\ asg' = [asg EXCEPT ![w] = [NoRow EXCEPT !.status = "assigned",
                                            !.via = "direct", !.assignedAt = t]]
              /\ log' = [log EXCEPT ![w] = <<Event("created", t)>>]
         ELSE UNCHANGED <<asg, log>>
      /\ End(c)
      /\ UNCHANGED <<now, outside, market, att>>

-----------------------------------------------------------------------------
(* accept() and decline(), after the read of acceptForPerson() and         *)
(* declineForPerson() in db/repositories/reviews.ts.                       *)

(* Mutant: the row keeps no instant. *)
MovedWithoutInstant(row, to, t) == [row EXCEPT !.status = to]

Moved(row, to, t) ==
  IF to = "accepted" THEN [row EXCEPT !.status = to, !.acceptedAt = t]
  ELSE [row EXCEPT !.status = to, !.endedAt = t]

TypeOf(status) == CASE status = "accepted"  -> "accepted"
                    [] status = "declined"  -> "declined"
                    [] status = "completed" -> "attested"

Decide(c, w, to) ==
  /\ call[c].phase = "idle"
  /\ asg[w].status = "assigned"
  /\ call' = [call EXCEPT ![c] = [NoCall EXCEPT !.phase = "deciding", !.work = w,
                                                !.at = now, !.to = to]]
  /\ UNCHANGED <<now, outside, market, desk>>

(* Any other status is a conflict, or the call's own transition made by    *)
(* another one at the same instant.                                        *)
ReadAssigned(c) ==
  LET row == asg[call[c].work]
  IN  /\ call[c].phase = "deciding"
      /\ IF row.status = "assigned" /\ call[c].at >= row.assignedAt
         THEN call' = [call EXCEPT ![c].phase = "numbering", ![c].read = row]
         ELSE End(c)
      /\ UNCHANGED <<now, outside, market, desk>>

(* nextEventSequence() *)
Number(c) ==
  /\ call[c].phase = "numbering"
  /\ call' = [call EXCEPT ![c].phase = "moving",
                          ![c].n = Len(log[call[c].work]) + 1]
  /\ UNCHANGED <<now, outside, market, desk>>

(* Mutant: UPDATE ... WHERE id = ?. *)
UpdatesAny(w, row) == TRUE

(* updateAssignmentStatement(): ... WHERE id = ? AND status = ? *)
Updates(w, row) == asg[w].status = row.status

(* The event is inserted under the number read before, and only beside the *)
(* row that the UPDATE leaves; otherwise the batch aborts.                 *)
Move(c) ==
  LET w == call[c].work
      next == Moved(call[c].read, call[c].to, call[c].at)
  IN  /\ call[c].phase = "moving"
      /\ IF Updates(w, call[c].read) /\ call[c].n = Len(log[w]) + 1
         THEN /\ asg' = [asg EXCEPT ![w] = next]
              /\ log' = [log EXCEPT
                           ![w] = Append(@, Event(TypeOf(next.status), call[c].at))]
         ELSE UNCHANGED <<asg, log>>
      /\ End(c)
      /\ UNCHANGED <<now, outside, market, att>>

-----------------------------------------------------------------------------
(* submitVerificationAttestation() of the gateway, which asks for a        *)
(* delegation that is not revoked at all, and recordAttestation().  The    *)
(* Agent has signed the verdict with an instant of its own.                *)
Attest(c, w, v) ==
  /\ call[c].phase = "idle"
  /\ asg[w].status # "none"
  /\ authority[w.person].revoked = "no"
  /\ v.at <= now
  /\ call' = [call EXCEPT ![c] = [NoCall EXCEPT !.phase = "reviewing", !.work = w,
                                                !.at = now, !.verdict = v]]
  /\ UNCHANGED <<now, outside, market, desk>>

ReadReview(c) ==
  /\ call[c].phase = "reviewing"
  /\ call' = [call EXCEPT ![c].phase = "comparing", ![c].read = asg[call[c].work]]
  /\ UNCHANGED <<now, outside, market, desk>>

(* The stored attestation, when there is one, must be this very one. *)
Compare(c) ==
  LET w == call[c].work
      known == att[w] # NoVerdict
      row == call[c].read
  IN  /\ call[c].phase = "comparing"
      /\ IF /\ known => att[w] = call[c].verdict
            /\ row.status = "accepted" \/ (known /\ row.status = "completed")
            /\ call[c].verdict.at >= row.acceptedAt
         THEN call' = [call EXCEPT ![c].phase = "history", ![c].known = known]
         ELSE End(c)
      /\ UNCHANGED <<now, outside, market, desk>>

AcceptedLog(row) ==
  <<Event("created", row.assignedAt), Event("accepted", row.acceptedAt)>>

(* assertCanonicalAcceptanceHistory(), assertCanonicalCompletedHistory() *)
Canonical(w, row, v) ==
  IF row.status = "accepted" THEN log[w] = AcceptedLog(row)
  ELSE /\ row.endedAt = v.at
       /\ log[w] = Append(AcceptedLog(row), Event("attested", v.at))

CheckHistory(c) ==
  Check(c, "history",
        Canonical(call[c].work, call[c].read, call[c].verdict), "authority")

CheckAuthority(c) ==
  Check(c, "authority",
        DelegatedAt(call[c].work.person, call[c].verdict.at), "evidence")

(* Mutant: a replay recorded after the signature will do. *)
AnyReplay(w, v) ==
  w.claim \in ReplayClaims /\ v.decision = "attested" => replay[w] # 0

(* assertFreshReplayEvidence() *)
FreshReplay(w, v) ==
  w.claim \in ReplayClaims /\ v.decision = "attested" =>
    /\ replay[w] >= asg[w].acceptedAt
    /\ replay[w] # 0 /\ replay[w] <= v.at

CheckEvidence(c) ==
  Check(c, "evidence", FreshReplay(call[c].work, call[c].verdict),
        IF call[c].known THEN "closing" ELSE "recording")

-----------------------------------------------------------------------------
(* Mutant: a state the stores do not know.                                 *)
ClosesMisspelt(w, v) ==
  /\ asg' = [asg EXCEPT ![w] = [@ EXCEPT !.status = "complete", !.endedAt = v.at]]
  /\ log' = [log EXCEPT ![w] = Append(@, Event("attested", v.at))]

(* The row and the event with which an attestation closes its assignment. *)
Closed(w, v) ==
  /\ asg' = [asg EXCEPT ![w] = [@ EXCEPT !.status = "completed", !.endedAt = v.at]]
  /\ log' = [log EXCEPT ![w] = Append(@, Event("attested", v.at))]

(* The UPDATE asks for the status that was read, "accepted", and the event *)
(* for the row it leaves and for the third place in the log.               *)
Closable(w, row) == asg[w] = row /\ Len(log[w]) = 2

Record(c) ==
  LET w == call[c].work
      v == call[c].verdict
  IN  /\ call[c].phase = "recording"
      /\ IF att[w] = NoVerdict /\ Closable(w, call[c].read)
         THEN att' = [att EXCEPT ![w] = v] /\ Closed(w, v) /\ End(c)
         ELSE Become(c, "raced") /\ UNCHANGED desk
      /\ UNCHANGED <<now, outside, market>>

(* The batch failed: another request may have stored the same attestation. *)
ReadWinner(c) == Check(c, "raced", att[call[c].work] = call[c].verdict, "closing")

(* ensureAttestationClosure(): at most three rounds. *)
Close(c) ==
  LET row == asg[call[c].work]
  IN  /\ call[c].phase = "closing"
      /\ IF row.status = "accepted"
         THEN call' = [call EXCEPT ![c].phase = "closing_history", ![c].read = row]
         ELSE End(c)
      /\ UNCHANGED <<now, outside, market, desk>>

CloseHistory(c) ==
  Check(c, "closing_history",
        Canonical(call[c].work, call[c].read, call[c].verdict), "closing_write")

CloseWrite(c) ==
  LET w == call[c].work
  IN  /\ call[c].phase = "closing_write"
      /\ IF Closable(w, call[c].read) THEN Closed(w, call[c].verdict)
         ELSE UNCHANGED <<asg, log>>
      /\ IF call[c].n = 2 THEN End(c)
         ELSE call' = [call EXCEPT ![c].phase = "closing", ![c].n = @ + 1]
      /\ UNCHANGED <<now, outside, market, att>>

-----------------------------------------------------------------------------
(* What the requests do not decide. *)

(* A request dies between two round trips. *)
Abandon(c) ==
  /\ call[c].phase # "idle"
  /\ End(c)
  /\ UNCHANGED <<now, outside, market, desk>>

(* nextPoolStates of packages/protocol/credit-market.mjs *)
PoolMoves(to) ==
  /\ \/ pool = "draft" /\ to \in {"active", "cancelled"}
     \/ pool = "active" /\ to \in {"locked", "cancelled"}
     \/ pool = "locked" /\ to = "settled"
  /\ pool' = to
  /\ UNCHANGED <<now, proved, replay, authority, market, desk, call>>

Prove(b) ==
  /\ b \notin proved
  /\ proved' = proved \cup {b}
  /\ UNCHANGED <<now, pool, replay, authority, market, desk, call>>

(* A replay asked for after the acceptance ends well, with its evidence. *)
Replay(w) ==
  /\ asg[w].acceptedAt # 0
  /\ replay[w] = 0
  /\ replay' = [replay EXCEPT ![w] = now]
  /\ UNCHANGED <<now, pool, proved, authority, market, desk, call>>

Revoke(p, a) ==
  /\ authority[p].revoked = "no"
  /\ authority' = [authority EXCEPT ![p] = a]
  /\ UNCHANGED <<now, pool, proved, replay, market, desk, call>>

Tick ==
  /\ now < MaxTime
  /\ now' = now + 1
  /\ UNCHANGED <<outside, market, desk, call>>

(* A work of Unclosed may have been attested before the batch existed: its *)
(* row and its log still say accepted.                                     *)
AcceptedAtFirst == [status |-> "accepted", via |-> "direct",
                    assignedAt |-> 1, acceptedAt |-> 1, endedAt |-> 0]

Legacy(old) ==
  /\ asg = [w \in Work |-> IF w \in old THEN AcceptedAtFirst ELSE NoRow]
  /\ log = [w \in Work |->
              IF w \in old THEN AcceptedLog(AcceptedAtFirst) ELSE << >>]
  /\ att = [w \in Work |->
              IF w \in old THEN [decision |-> "attested", at |-> 1]
              ELSE NoVerdict]
  /\ replay = [w \in Work |-> IF w \in old THEN 1 ELSE 0]

Init ==
  /\ now = 1
  /\ pool = "draft"
  /\ proved = {}
  /\ jobs = {}
  /\ jobLog = [j \in Job |-> << >>]
  /\ claimant = [j \in Job |-> Nobody]
  /\ \E old \in SUBSET Unclosed : Legacy(old)
  /\ authority = [p \in Persons |-> Granted]
  /\ call = [c \in Callers |-> NoCall]

AttestStep(c) ==
  \/ ReadReview(c) \/ Compare(c) \/ CheckHistory(c) \/ CheckAuthority(c)
  \/ CheckEvidence(c) \/ Record(c) \/ ReadWinner(c)
  \/ Close(c) \/ CloseHistory(c) \/ CloseWrite(c)

RequestStep(c) ==
  \/ CheckLean(c) \/ PublishNext(c)
  \/ CheckPool(c) \/ CheckDelegation(c) \/ CheckCapacity(c) \/ ClaimBatch(c)
  \/ AssignBatch(c)
  \/ ReadAssigned(c) \/ Number(c) \/ Move(c)
  \/ AttestStep(c)

(* A Person signs verdicts as of some instant up to now. *)
Signable == [decision: {"attested", "rejected"}, at: 1..now]

Request(c) ==
  \/ "market" \in Duties /\ \E b \in Bundles : Publish(c, b)
  \/ "market" \in Duties /\ \E w \in Work : Claim(c, w)
  \/ "assign" \in Duties /\ \E w \in Work : Assign(c, w)
  \/ /\ "decide" \in Duties
     /\ \E w \in Work, to \in {"accepted", "declined"} : Decide(c, w, to)
  \/ "attest" \in Duties /\ \E w \in Work, v \in Signable : Attest(c, w, v)

Outside ==
  \/ "market" \in Duties /\ \E to \in PoolStates : PoolMoves(to)
  \/ "market" \in Duties /\ \E b \in Bundles : Prove(b)
  \/ "attest" \in Duties /\ \E w \in Work : Replay(w)
  \/ \E w \in Work, a \in Revocations : Independent(w) /\ Revoke(w.person, a)
  \/ Tick

Next ==
  \/ \E c \in Callers : Request(c) \/ RequestStep(c) \/ Abandon(c)
  \/ Outside

Spec == Init /\ [][Next]_vars
-----------------------------------------------------------------------------
(* Properties *)

(* No interleaving of market claims and direct assignments leaves a Person *)
(* with more open reviews than the alpha limit, although every operation   *)
(* counted before its batch.                                               *)
OpenReviewsBounded == \A p \in Persons : Cardinality(ActiveOf(p)) <= MaxActive

(* The log of an assignment and its row tell the same story, instant by    *)
(* instant and in the order of time: what assertCanonicalAcceptanceHistory *)
(* and assertCanonicalCompletedHistory() demand holds of every row, so     *)
(* they never lock a reviewer out.                                         *)
ToldByRow(row) ==
  CASE row.status = "none"      -> << >>
    [] row.status = "assigned"  -> <<Event("created", row.assignedAt)>>
    [] row.status = "declined"  -> <<Event("created", row.assignedAt),
                                     Event("declined", row.endedAt)>>
    [] row.status = "accepted"  -> AcceptedLog(row)
    [] row.status = "completed" -> Append(AcceptedLog(row),
                                          Event("attested", row.endedAt))

LogTellsRow ==
  \A w \in Work :
    /\ log[w] = ToldByRow(asg[w])
    /\ \A i \in 2..Len(log[w]) : log[w][i - 1].at <= log[w][i].at

(* A completed row and its attestation come together, with one instant: no *)
(* crash leaves a signed verdict that the Receipt store would trip over.   *)
(* And a positive attestation of a replayed claim rests on a replay made   *)
(* after this reviewer accepted and before it was signed, whatever was     *)
(* recorded between the checks and the batch.                              *)
ReplayBacks(w) ==
  w.claim \in ReplayClaims /\ att[w].decision = "attested" =>
    asg[w].acceptedAt <= replay[w] /\ replay[w] # 0 /\ replay[w] <= att[w].at

VerdictCloses ==
  \A w \in Work :
    /\ asg[w].status = "completed" =>
         att[w] # NoVerdict /\ att[w].at = asg[w].endedAt
    /\ att[w] # NoVerdict /\ w \notin Unclosed => asg[w].status = "completed"
    /\ ReplayBacks(w)

(* A claim is whole: the job has its claim, its claimed event and the      *)
(* assignment of that Person, or none of them; and no market assignment    *)
(* takes up a Person's capacity without holding its job.                   *)
ClaimsWhole ==
  /\ \A j \in Job :
       jobLog[j] = IF j \notin jobs THEN << >>
                   ELSE IF claimant[j] = Nobody THEN <<"published">>
                   ELSE <<"published", "claimed">>
  /\ \A w \in Work : asg[w].via = "market" <=> claimant[JobOf(w)] = w.person

Standing(row) ==
  CASE row.status = "none" -> "none"
    [] row.status \in Active -> "open"
    [] row.status = "declined" -> "declined"
    [] row.status = "completed" -> "closed"

(* The stores keep the promise the issuer of Receipts builds on. *)
Ledger == INSTANCE ReviewLedger WITH
  Verdicts <- [decision: {"attested", "rejected"}, at: 1..MaxTime],
  standing <- [w \in Work |-> Standing(asg[w])],
  verdict <- [w \in Work |->
                IF asg[w].status = "completed" THEN att[w] ELSE NoVerdict]

ImplementsLedger == Ledger!Spec
=============================================================================
