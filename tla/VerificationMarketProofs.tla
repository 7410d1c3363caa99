---------------------- MODULE VerificationMarketProofs ----------------------
(***************************************************************************)
(* Theorems about VerificationMarket, for any Bundles, Persons and claim   *)
(* types, any number of requests, and any revocations.                     *)
(***************************************************************************)
EXTENDS VerificationMarket, FiniteSetTheorems, SequenceTheorems, TLAPS

USE MarketAssumption

-----------------------------------------------------------------------------
(* Typing.  Beside TypeOK: a request that is on its way is about a work,   *)
(* and holds what its phase makes use of.                                  *)
Attesting == {"reviewing", "comparing", "history", "authority", "evidence",
              "recording", "raced", "closing", "closing_history", "closing_write"}

Typed(x, t) ==
  /\ x \in Call
  /\ x.phase # "idle" => x.work \in Work
  /\ x.phase \in {"lean", "publishing"} => x.n < Len(ClaimOrder)
  /\ x.phase \in {"deciding", "numbering", "moving"} => x.to \in {"accepted", "declined"}
  /\ x.phase \in {"numbering", "moving"} => x.read.status = "assigned"
  /\ x.phase \in Attesting => x.verdict \in Verdict /\ x.verdict.at \in 1..t

CallsTyped ==
  /\ call \in [Callers -> Call]
  /\ \A c \in Callers : Typed(call[c], now)

TypeInv == TypeOK /\ CallsTyped

LEMMA ClaimTypesTyped ==
  /\ \A i \in 1..Len(ClaimOrder) : ClaimOrder[i] \in ClaimTypes
  /\ Len(ClaimOrder) \in Nat \ {0}
BY DEF ClaimTypes

LEMMA JobTyped == \A w \in Work : JobOf(w) \in Job
BY DEF Work, Job, JobOf

(* The fields of a request.                                                *)
LEMMA CallFields ==
  ASSUME NEW x \in Call
  PROVE  /\ x.phase \in Phases /\ x.work \in Work \cup {Nobody} /\ x.at \in Nat
         /\ x.to \in Statuses /\ x.read \in Row /\ x.n \in Nat /\ x.known \in BOOLEAN
         /\ x.verdict \in Verdict \cup {NoVerdict}
BY DEF Call

LEMMA RowFields ==
  ASSUME NEW x \in Row
  PROVE  /\ x.status \in Statuses /\ x.via \in {"none", "market", "direct"}
         /\ x.assignedAt \in Nat /\ x.acceptedAt \in Nat /\ x.endedAt \in Nat
BY DEF Row

LEMMA NoCallTyped ==
  NoCall \in Call /\ NoCall.phase = "idle" /\ NoCall.n = 0
BY DEF NoCall, Call, Phases, Statuses, NoRow, Row

LEMMA NoRowTyped == NoRow \in Row /\ NoRow.status = "none" /\ NoRow.via = "none"
BY DEF NoRow, Row, Statuses

(* How a request changes its local variables.                              *)
Others(c) == \A d \in Callers \ {c} : call'[d] = call[d]

LEMMA SetCall ==
  ASSUME CallsTyped, NEW c \in Callers, NEW x \in Call, call' = [call EXCEPT ![c] = x]
  PROVE  call'[c] = x /\ Others(c) /\ call' \in [Callers -> Call]
BY DEF CallsTyped, Others

LEMMA EndCall ==
  ASSUME CallsTyped, NEW c \in Callers, End(c)
  PROVE  call'[c] = NoCall /\ Others(c) /\ call' \in [Callers -> Call]
BY SetCall, NoCallTyped DEF End

LEMMA BecomeCall ==
  ASSUME CallsTyped, NEW c \in Callers, NEW phase \in Phases, Become(c, phase)
  PROVE  /\ call'[c] \in Call
         /\ call'[c] = [call[c] EXCEPT !.phase = phase]
         /\ call'[c].phase = phase /\ call'[c].work = call[c].work /\ call'[c].at = call[c].at
         /\ call'[c].to = call[c].to /\ call'[c].read = call[c].read /\ call'[c].n = call[c].n
         /\ call'[c].known = call[c].known /\ call'[c].verdict = call[c].verdict
         /\ Others(c) /\ call' \in [Callers -> Call]
<1> DEFINE x == [call[c] EXCEPT !.phase = phase]
<1>1. call[c] \in Call
  BY DEF CallsTyped
<1>2. /\ x \in Call /\ x.phase = phase /\ x.work = call[c].work /\ x.at = call[c].at
      /\ x.to = call[c].to /\ x.read = call[c].read /\ x.n = call[c].n
      /\ x.known = call[c].known /\ x.verdict = call[c].verdict
  BY <1>1 DEF Call
<1>3. call' = [call EXCEPT ![c] = x]
  BY DEF Become
<1> HIDE DEF x
<1>4. call'[c] = x /\ Others(c) /\ call' \in [Callers -> Call]
  BY <1>2, <1>3, SetCall
<1> QED
  BY <1>2, <1>4 DEF x

LEMMA BeginCall ==
  ASSUME CallsTyped, now \in Nat, NEW c \in Callers, NEW w \in Work,
         NEW phase \in Phases, Begin(c, w, phase)
  PROVE  /\ call'[c] \in Call
         /\ call'[c].phase = phase /\ call'[c].work = w /\ call'[c].at = now
         /\ call'[c].n = 0
         /\ Others(c) /\ call' \in [Callers -> Call]
<1> DEFINE x == [NoCall EXCEPT !.phase = phase, !.work = w, !.at = now]
<1>1. x \in Call /\ x.phase = phase /\ x.work = w /\ x.at = now /\ x.n = 0
  BY NoCallTyped DEF NoCall, Call
<1>2. call' = [call EXCEPT ![c] = x]
  BY DEF Begin
<1> HIDE DEF x
<1>3. call'[c] = x /\ Others(c) /\ call' \in [Callers -> Call]
  BY <1>1, <1>2, SetCall
<1> QED
  BY <1>1, <1>3 DEF x

(* Who writes which table.                                                 *)
LEMMA Frames ==
  ASSUME [Next]_vars
  PROVE  /\ now' = now \/ Tick
         /\ pool' = pool \/ \E to \in PoolStates : PoolMoves(to)
         /\ proved' = proved \/ \E b \in Bundles : Prove(b)
         /\ replay' = replay \/ \E w \in Work : Replay(w)
         /\ authority' = authority \/ \E w \in Work, a \in Revocations : Revoke(w.person, a)
         /\ jobs' = jobs \/ \E c \in Callers : PublishNext(c)
         /\ jobLog' = jobLog \/ \E c \in Callers : PublishNext(c) \/ ClaimBatch(c)
         /\ claimant' = claimant \/ \E c \in Callers : ClaimBatch(c)
         /\ \/ UNCHANGED <<asg, log>>
            \/ \E c \in Callers : ClaimBatch(c) \/ AssignBatch(c) \/ Move(c) \/ Record(c)
                                  \/ CloseWrite(c)
         /\ att' = att \/ \E c \in Callers : Record(c)
         /\ call' = call \/ \E c \in Callers : Request(c) \/ RequestStep(c) \/ Abandon(c)
<1>1. ASSUME NEW c \in Callers, Request(c) \/ Abandon(c)
      PROVE  UNCHANGED <<now, outside, market, desk>>
  BY <1>1 DEF Request, Publish, Claim, Assign, Decide, Attest, Abandon
<1>2. ASSUME NEW c \in Callers, RequestStep(c),
             ~ (PublishNext(c) \/ ClaimBatch(c) \/ AssignBatch(c) \/ Move(c) \/ Record(c)
                \/ CloseWrite(c))
      PROVE  UNCHANGED <<now, outside, market, desk>>
  BY <1>2
     DEF RequestStep, AttestStep, CheckLean, CheckPool, CheckDelegation, CheckCapacity,
         ReadAssigned, Number, ReadReview, Compare, CheckHistory, CheckAuthority,
         CheckEvidence, ReadWinner, Close, CloseHistory, Check
<1>3. CASE \E c \in Callers : Request(c) \/ RequestStep(c) \/ Abandon(c)
  <2>1. PICK c \in Callers : Request(c) \/ RequestStep(c) \/ Abandon(c)
    BY <1>3
  <2>2. CASE UNCHANGED <<now, outside, market, desk>>
    BY <2>1, <2>2 DEF outside, market, desk
  <2>3. CASE PublishNext(c) \/ ClaimBatch(c) \/ AssignBatch(c) \/ Move(c) \/ Record(c)
             \/ CloseWrite(c)
    BY <2>1, <2>3
       DEF PublishNext, ClaimBatch, AssignBatch, Move, Record, CloseWrite,
           outside, market, desk
  <2> QED BY <1>1, <1>2, <2>1, <2>2, <2>3
<1>4. CASE Outside
  BY <1>4 DEF Outside, PoolMoves, Prove, Replay, Revoke, Tick, outside, market, desk
<1>5. CASE UNCHANGED vars
  BY <1>5 DEF vars, outside, market, desk
<1> QED
  BY <1>3, <1>4, <1>5 DEF Next

(* A request that only goes on to another phase, or ends.                  *)
Deciding == {"deciding", "numbering", "moving"}

LEMMA Advance ==
  ASSUME TypeInv, NEW c \in Callers, NEW to \in Phases, Become(c, to) \/ End(c), now' = now,
         to # "idle" => call[c].work \in Work,
         to \in {"lean", "publishing"} => call[c].n < Len(ClaimOrder),
         to \notin Deciding,
         to \in Attesting => call[c].verdict \in Verdict /\ call[c].verdict.at \in 1..now
  PROVE  Typed(call'[c], now') /\ Others(c) /\ call' \in [Callers -> Call]
<1> CallsTyped
  BY DEF TypeInv
<1>1. CASE Become(c, to)
  <2>1. /\ call'[c] \in Call /\ call'[c].phase = to /\ call'[c].work = call[c].work
        /\ call'[c].n = call[c].n /\ call'[c].verdict = call[c].verdict
        /\ Others(c) /\ call' \in [Callers -> Call]
    BY <1>1, BecomeCall
  <2>2. to \notin {"deciding", "numbering", "moving"} /\ to \notin {"numbering", "moving"}
    BY DEF Deciding
  <2>3. Typed(call'[c], now)
    BY <2>1, <2>2 DEF Typed
  <2> QED BY <2>1, <2>3
<1>2. CASE End(c)
  BY <1>2, EndCall, NoCallTyped DEF Typed, Attesting
<1> QED
  BY <1>1, <1>2

LEMMA Answer ==
  ASSUME CallsTyped, NEW c \in Callers, End(c)
  PROVE  Typed(call'[c], now') /\ Others(c) /\ call' \in [Callers -> Call]
BY EndCall, NoCallTyped DEF Typed, Attesting

LEMMA RequestTyped ==
  ASSUME TypeInv, NEW c \in Callers, Request(c)
  PROVE  Typed(call'[c], now') /\ Others(c) /\ call' \in [Callers -> Call]
<1> now \in Nat /\ CallsTyped
  BY DEF TypeInv, TypeOK
<1>1. ASSUME NEW b \in Bundles, Publish(c, b)
      PROVE  Typed(call'[c], now') /\ Others(c) /\ call' \in [Callers -> Call]
  <2> DEFINE w == [bundle |-> b, claim |-> ClaimOrder[1], person |-> OwnerOf[b]]
  <2>1. w \in Work /\ Begin(c, w, "lean")
    BY <1>1, ClaimTypesTyped DEF Publish, Work
  <2> HIDE DEF w
  <2>2. "lean" \in Phases
    BY DEF Phases
  <2>3. /\ call'[c] \in Call /\ call'[c].phase = "lean" /\ call'[c].work = w /\ call'[c].n = 0
        /\ Others(c) /\ call' \in [Callers -> Call]
    BY <2>1, <2>2, BeginCall
  <2>4. 0 < Len(ClaimOrder)
    BY ClaimTypesTyped
  <2> QED BY <2>1, <2>3, <2>4 DEF Typed, Attesting
<1>2. ASSUME NEW w \in Work, Claim(c, w) \/ Assign(c, w)
      PROVE  Typed(call'[c], now') /\ Others(c) /\ call' \in [Callers -> Call]
  <2>1. PICK phase \in {"pool", "assigning"} : Begin(c, w, phase)
    BY <1>2 DEF Claim, Assign
  <2>2. phase \in Phases
    BY DEF Phases
  <2>3. /\ call'[c] \in Call /\ call'[c].phase = phase /\ call'[c].work = w
        /\ Others(c) /\ call' \in [Callers -> Call]
    BY <2>1, <2>2, BeginCall
  <2> QED BY <2>3 DEF Typed, Attesting
<1>3. ASSUME NEW w \in Work, NEW to \in {"accepted", "declined"}, Decide(c, w, to)
      PROVE  Typed(call'[c], now') /\ Others(c) /\ call' \in [Callers -> Call]
  <2> DEFINE x == [NoCall EXCEPT !.phase = "deciding", !.work = w, !.at = now, !.to = to]
  <2>1. x \in Call /\ x.phase = "deciding" /\ x.work = w /\ x.to = to
    BY NoCallTyped DEF NoCall, Call, Phases, Statuses
  <2>2. call' = [call EXCEPT ![c] = x]
    BY <1>3 DEF Decide
  <2> HIDE DEF x
  <2> QED BY <2>1, <2>2, SetCall DEF Typed, Attesting
<1>4. ASSUME NEW w \in Work, NEW v \in Signable, Attest(c, w, v)
      PROVE  Typed(call'[c], now') /\ Others(c) /\ call' \in [Callers -> Call]
  <2> DEFINE x == [NoCall EXCEPT !.phase = "reviewing", !.work = w, !.at = now, !.verdict = v]
  <2>1. v \in Verdict /\ v.at \in 1..now
    BY DEF Signable, Verdict
  <2>2. x \in Call /\ x.phase = "reviewing" /\ x.work = w /\ x.verdict = v
    BY <2>1, NoCallTyped DEF NoCall, Call, Phases
  <2>3. call' = [call EXCEPT ![c] = x] /\ now' = now
    BY <1>4 DEF Attest
  <2> HIDE DEF x
  <2> QED BY <2>1, <2>2, <2>3, SetCall DEF Typed
<1> QED
  BY <1>1, <1>2, <1>3, <1>4 DEF Request

LEMMA StepTyped ==
  ASSUME TypeInv, NEW c \in Callers, RequestStep(c) \/ Abandon(c)
  PROVE  Typed(call'[c], now') /\ Others(c) /\ call' \in [Callers -> Call]
<1> CallsTyped /\ now \in Nat
  BY DEF TypeInv, TypeOK
<1> DEFINE x == call[c]
<1>0. /\ x \in Call /\ Typed(x, now)
      /\ asg \in [Work -> Row]
  BY DEF TypeInv, TypeOK, CallsTyped
<1>1. now' = now
  BY DEF Abandon, RequestStep, AttestStep, CheckLean, CheckPool, CheckDelegation,
         CheckCapacity, ReadAssigned, Number, ReadReview, Compare, CheckHistory,
         CheckAuthority, CheckEvidence, ReadWinner, Close, CloseHistory, Check,
         PublishNext, ClaimBatch, AssignBatch, Move, Record, CloseWrite
<1>2. CASE CheckLean(c) \/ CheckPool(c) \/ CheckDelegation(c) \/ CheckCapacity(c)
  <2>1. PICK to \in {"publishing", "delegation", "capacity", "claiming"} :
          /\ Become(c, to) \/ End(c)
          /\ x.phase # "idle"
          /\ to = "publishing" => x.phase = "lean"
    BY <1>2 DEF CheckLean, CheckPool, CheckDelegation, CheckCapacity, Check
  <2>2. /\ to \in Phases /\ to \notin Deciding /\ to \notin Attesting /\ x.work \in Work
        /\ to \in {"lean", "publishing"} => x.n < Len(ClaimOrder)
    BY <1>0, <2>1 DEF Typed, Phases, Deciding, Attesting
  <2> QED BY <1>1, <2>1, <2>2, Advance
<1>3. CASE CheckHistory(c) \/ CheckAuthority(c) \/ CheckEvidence(c) \/ ReadWinner(c)
           \/ CloseHistory(c)
  <2>1. PICK to \in {"authority", "evidence", "closing", "recording", "closing_write"} :
          /\ Become(c, to) \/ End(c)
          /\ x.phase \in Attesting
    BY <1>3
       DEF CheckHistory, CheckAuthority, CheckEvidence, ReadWinner, CloseHistory, Check, Attesting
  <2>2. /\ to \in Phases /\ to \notin Deciding /\ to \notin {"lean", "publishing"}
        /\ x.work \in Work /\ x.verdict \in Verdict /\ x.verdict.at \in 1..now
    BY <1>0, <2>1 DEF Typed, Phases, Deciding, Attesting
  <2> QED BY <1>1, <2>1, <2>2, Advance
<1>4. CASE ClaimBatch(c) \/ AssignBatch(c) \/ Move(c) \/ Abandon(c)
  BY <1>4, Answer DEF ClaimBatch, AssignBatch, Move, Abandon
<1>5. CASE PublishNext(c)
  <2>1. CASE End(c)
    BY <2>1, Answer
  <2>2. CASE x.n + 1 # Len(ClaimOrder) /\ call' = [call EXCEPT ![c].n = x.n + 1]
    <3> DEFINE y == [x EXCEPT !.n = x.n + 1]
    <3>1. x.phase = "publishing" /\ x.n < Len(ClaimOrder) /\ x.work \in Work /\ x.n \in Nat
      BY <1>0, <1>5, CallFields DEF PublishNext, Typed
    <3>2. y \in Call /\ y.phase = "publishing" /\ y.work = x.work /\ y.n = x.n + 1
      <4> HIDE DEF x
      <4>1. x.n + 1 \in Nat
        BY <3>1
      <4> QED BY <1>0, <3>1, <4>1 DEF Call
    <3>3. y.n < Len(ClaimOrder)
      BY <2>2, <3>1, <3>2, ClaimTypesTyped
    <3>4. call' = [call EXCEPT ![c] = y]
      BY <2>2
    <3> HIDE DEF y
    <3> QED BY <3>1, <3>2, <3>3, <3>4, SetCall DEF Typed, Attesting
  <2> QED BY <1>5, <2>1, <2>2 DEF PublishNext
<1>6. CASE ReadAssigned(c)
  <2>1. CASE End(c)
    BY <2>1, Answer
  <2>2. CASE /\ asg[x.work].status = "assigned"
             /\ call' = [call EXCEPT ![c].phase = "numbering", ![c].read = asg[x.work]]
    <3> DEFINE y == [x EXCEPT !.phase = "numbering", !.read = asg[x.work]]
    <3>1. x.phase = "deciding" /\ x.work \in Work /\ x.to \in {"accepted", "declined"}
      BY <1>0, <1>6 DEF ReadAssigned, Typed
    <3>2. asg[x.work] \in Row
      BY <1>0, <3>1
    <3>3. /\ y \in Call /\ y.phase = "numbering" /\ y.work = x.work /\ y.to = x.to
          /\ y.read = asg[x.work]
      BY <1>0, <3>2 DEF Call, Phases
    <3>4. call' = [call EXCEPT ![c] = y]
      BY <2>2
    <3> HIDE DEF y
    <3> QED BY <2>2, <3>1, <3>3, <3>4, SetCall DEF Typed, Attesting
  <2> QED BY <1>6, <2>1, <2>2 DEF ReadAssigned
<1>7. CASE Number(c)
  <2> DEFINE m == Len(log[x.work]) + 1
             y == [x EXCEPT !.phase = "moving", !.n = m]
  <2>1. /\ x.phase = "numbering" /\ x.work \in Work /\ x.to \in {"accepted", "declined"}
        /\ x.read.status = "assigned"
    BY <1>0, <1>7 DEF Number, Typed
  <2>2. m \in Nat
    BY <2>1 DEF TypeInv, TypeOK
  <2>3. call' = [call EXCEPT ![c] = y]
    BY <1>7 DEF Number
  <2> HIDE DEF m
  <2>4. y \in Call /\ y.phase = "moving" /\ y.work = x.work /\ y.to = x.to /\ y.read = x.read
    BY <1>0, <2>2 DEF Call, Phases
  <2> HIDE DEF y
  <2> QED BY <2>1, <2>3, <2>4, SetCall DEF Typed, Attesting
<1>8. CASE ReadReview(c)
  <2> DEFINE y == [x EXCEPT !.phase = "comparing", !.read = asg[x.work]]
  <2>1. x.work \in Work /\ x.verdict \in Verdict /\ x.verdict.at \in 1..now
    BY <1>0, <1>8 DEF ReadReview, Typed, Attesting
  <2>2. asg[x.work] \in Row
    BY <1>0, <2>1
  <2>3. y \in Call /\ y.phase = "comparing" /\ y.work = x.work /\ y.verdict = x.verdict
    BY <1>0, <2>2 DEF Call, Phases
  <2>4. call' = [call EXCEPT ![c] = y]
    BY <1>8 DEF ReadReview
  <2> HIDE DEF y
  <2> QED BY <1>1, <2>1, <2>3, <2>4, SetCall DEF Typed, Attesting
<1>9. CASE Compare(c)
  <2>1. CASE End(c)
    BY <2>1, Answer
  <2>2. CASE \E known \in BOOLEAN :
               call' = [call EXCEPT ![c].phase = "history", ![c].known = known]
    <3>1. PICK known \in BOOLEAN :
            call' = [call EXCEPT ![c].phase = "history", ![c].known = known]
      BY <2>2
    <3> DEFINE y == [x EXCEPT !.phase = "history", !.known = known]
    <3>2. x.work \in Work /\ x.verdict \in Verdict /\ x.verdict.at \in 1..now
      BY <1>0, <1>9 DEF Compare, Typed, Attesting
    <3>3. y \in Call /\ y.phase = "history" /\ y.work = x.work /\ y.verdict = x.verdict
      BY <1>0, <3>1 DEF Call, Phases
    <3>4. call' = [call EXCEPT ![c] = y]
      BY <3>1
    <3> HIDE DEF y
    <3> QED BY <1>1, <3>2, <3>3, <3>4, SetCall DEF Typed, Attesting
  <2> QED BY <1>9, <2>1, <2>2 DEF Compare
<1>10. CASE Record(c)
  <2>1. /\ x.phase = "recording" /\ (End(c) \/ Become(c, "raced"))
    BY <1>10 DEF Record
  <2>2. x.work \in Work /\ x.verdict \in Verdict /\ x.verdict.at \in 1..now
    BY <1>0, <2>1 DEF Typed, Attesting
  <2>3. "raced" \in Phases /\ "raced" \notin Deciding
    BY DEF Phases, Deciding
  <2> QED BY <1>1, <2>1, <2>2, <2>3, Advance, Answer
<1>11. CASE Close(c)
  <2>1. CASE End(c)
    BY <2>1, Answer
  <2>2. CASE call' = [call EXCEPT ![c].phase = "closing_history", ![c].read = asg[x.work]]
    <3> DEFINE y == [x EXCEPT !.phase = "closing_history", !.read = asg[x.work]]
    <3>1. x.work \in Work /\ x.verdict \in Verdict /\ x.verdict.at \in 1..now
      BY <1>0, <1>11 DEF Close, Typed, Attesting
    <3>2. asg[x.work] \in Row
      BY <1>0, <3>1
    <3>3. y \in Call /\ y.phase = "closing_history" /\ y.work = x.work /\ y.verdict = x.verdict
      BY <1>0, <3>2 DEF Call, Phases
    <3>4. call' = [call EXCEPT ![c] = y]
      BY <2>2
    <3> HIDE DEF y
    <3> QED BY <1>1, <3>1, <3>3, <3>4, SetCall DEF Typed, Attesting
  <2> QED BY <1>11, <2>1, <2>2 DEF Close
<1>12. CASE CloseWrite(c)
  <2>1. CASE End(c)
    BY <2>1, Answer
  <2>2. CASE call' = [call EXCEPT ![c].phase = "closing", ![c].n = x.n + 1]
    <3> DEFINE y == [x EXCEPT !.phase = "closing", !.n = x.n + 1]
    <3>1. x.work \in Work /\ x.verdict \in Verdict /\ x.verdict.at \in 1..now
      BY <1>0, <1>12 DEF CloseWrite, Typed, Attesting
    <3>2. x.n + 1 \in Nat
      BY <1>0, CallFields
    <3>3. y \in Call /\ y.phase = "closing" /\ y.work = x.work /\ y.verdict = x.verdict
      BY <1>0, <3>2 DEF Call, Phases
    <3>4. call' = [call EXCEPT ![c] = y]
      BY <2>2
    <3> HIDE DEF y
    <3> QED BY <1>1, <3>1, <3>3, <3>4, SetCall DEF Typed, Attesting
  <2> QED BY <1>12, <2>1, <2>2 DEF CloseWrite
<1> QED
  BY <1>2, <1>3, <1>4, <1>5, <1>6, <1>7, <1>8, <1>9, <1>10, <1>11, <1>12
     DEF RequestStep, AttestStep

-----------------------------------------------------------------------------
(* The inductive invariant.  A row, its log, its attestation and its replay *)
(* agree, and their instants are in order.                                  *)
FreshFor(w, row, v) ==
  w.claim \in ReplayClaims /\ v.decision = "attested" =>
    row.acceptedAt <= replay[w] /\ replay[w] # 0 /\ replay[w] <= v.at

InOrder(row) ==
  /\ row.status \in {"accepted", "completed"} => row.assignedAt <= row.acceptedAt
  /\ row.status = "completed" => row.acceptedAt <= row.endedAt
  /\ row.status = "declined" => row.assignedAt <= row.endedAt

Attested(w, row, v) ==
  /\ row.status \in {"accepted", "completed"}
  /\ row.status = "accepted" => w \in Unclosed
  /\ row.status = "completed" => v.at = row.endedAt
  /\ row.acceptedAt <= v.at /\ v.at \in 1..now
  /\ FreshFor(w, row, v)

RowOK(w) ==
  /\ asg[w].status = "none" => asg[w].via = "none"
  /\ log[w] = ToldByRow(asg[w])
  /\ InOrder(asg[w])
  /\ asg[w].status = "completed" => att[w] # NoVerdict
  /\ att[w] # NoVerdict => Attested(w, asg[w], att[w])

(* What a request read is still there, but for what may have come after.   *)
Kept(x) ==
  x.read.status = "accepted" =>
    /\ asg[x.work].status \in {"accepted", "completed"}
    /\ asg[x.work].acceptedAt = x.read.acceptedAt

CallOK(x) ==
  /\ x.phase \in {"pool", "delegation", "capacity", "claiming"} => JobOf(x.work) \in jobs
  /\ x.phase = "assigning" => Independent(x.work)
  /\ x.phase \in {"numbering", "moving"} =>
       /\ asg[x.work].status # "none"
       /\ asg[x.work].status = "assigned" => asg[x.work] = x.read
       /\ x.read.assignedAt <= x.at
  /\ x.phase \in {"comparing", "history", "authority", "evidence"} => Kept(x)
  /\ x.phase \in {"history", "authority", "evidence"} =>
       /\ x.read.acceptedAt <= x.verdict.at
       /\ x.known => att[x.work] = x.verdict
       /\ ~ x.known => x.read.status = "accepted"
  /\ x.phase = "recording" =>
       /\ x.read.status = "accepted" /\ x.read.acceptedAt <= x.verdict.at
       /\ FreshFor(x.work, x.read, x.verdict)
  /\ x.phase \in {"closing", "closing_history", "closing_write"} =>
       att[x.work] = x.verdict
  /\ x.phase \in {"closing_history", "closing_write"} => x.read.status = "accepted"

Capacity(p) == IsFiniteSet(ActiveOf(p)) /\ Cardinality(ActiveOf(p)) <= MaxActive

JobOK(j) ==
  /\ jobLog[j] = IF j \notin jobs THEN << >>
                 ELSE IF claimant[j] = Nobody THEN <<"published">>
                 ELSE <<"published", "claimed">>
  /\ claimant[j] # Nobody => j \in jobs

HoldsJob(w) == asg[w].via = "market" <=> claimant[JobOf(w)] = w.person

Rows == \A w \in Work : RowOK(w)
Calls == \A c \in Callers : CallOK(call[c])
Capacities == \A p \in Persons : Capacity(p)
Jobs == (\A j \in Job : JobOK(j)) /\ (\A w \in Work : HoldsJob(w))

IInv == TypeInv /\ now <= MaxTime /\ Rows /\ Calls /\ Capacities /\ Jobs

-----------------------------------------------------------------------------
(* What a step does to the assignments: one of three writes, to one row.   *)
Write(w, row) ==
  /\ asg' = [asg EXCEPT ![w] = row]
  /\ log' = [log EXCEPT ![w] = ToldByRow(row)]

Opened(w, row) ==
  /\ asg[w].status = "none" /\ Independent(w) /\ HasCapacity(w.person)
  /\ row.status \in Active /\ row.via # "none"
  /\ InOrder(row)

Opens(w) == \E row \in Row : Opened(w, row) /\ Write(w, row) /\ att' = att

Decides(w) ==
  \E to \in {"accepted", "declined"}, t \in Nat :
    /\ asg[w].status = "assigned" /\ asg[w].assignedAt <= t
    /\ Write(w, Moved(asg[w], to, t)) /\ att' = att

Ended(row, v) == [row EXCEPT !.status = "completed", !.endedAt = v.at]

Closes(w) ==
  \E v \in Verdict :
    /\ asg[w].status = "accepted" /\ v.at \in 1..now
    /\ asg[w].acceptedAt <= v.at /\ FreshFor(w, asg[w], v)
    /\ att[w] \in {NoVerdict, v}
    /\ Write(w, Ended(asg[w], v)) /\ att' = [att EXCEPT ![w] = v]

LEMMA MovedFields ==
  ASSUME NEW row \in Row, NEW to \in {"accepted", "declined"}, NEW t \in Nat
  PROVE  /\ Moved(row, to, t) \in Row /\ Moved(row, to, t).status = to
         /\ Moved(row, to, t).via = row.via
         /\ Moved(row, to, t).assignedAt = row.assignedAt
         /\ to = "accepted" => Moved(row, to, t).acceptedAt = t
         /\ to = "declined" => Moved(row, to, t).endedAt = t
BY DEF Moved, Row, Statuses

LEMMA EndedFields ==
  ASSUME NEW row \in Row, NEW v \in Verdict
  PROVE  /\ Ended(row, v) \in Row /\ Ended(row, v).status = "completed"
         /\ Ended(row, v).via = row.via
         /\ Ended(row, v).assignedAt = row.assignedAt
         /\ Ended(row, v).acceptedAt = row.acceptedAt
         /\ Ended(row, v).endedAt = v.at
BY DEF Ended, Row, Statuses, Verdict

LEMMA VerdictFields ==
  /\ \A v \in Verdict : v.at \in Nat /\ v.decision \in {"attested", "rejected"} /\ v # NoVerdict
  /\ NoVerdict \notin Verdict /\ NoVerdict.decision = "none"
BY DEF Verdict, NoVerdict

LEMMA EntryTyped ==
  \A type \in {"created", "accepted", "declined", "attested"}, t \in Nat :
    Event(type, t) \in Entry /\ Event(type, t).at = t
BY DEF Event, Entry

(* The story of a row, and how it goes on.                                 *)
LEMMA Story ==
  ASSUME NEW row \in Row
  PROVE  /\ ToldByRow(row) \in Seq(Entry)
         /\ row.status = "none" => ToldByRow(row) = << >>
         /\ row.status = "assigned" => /\ ToldByRow(row) = <<Event("created", row.assignedAt)>>
                                       /\ Len(ToldByRow(row)) = 1
         /\ row.status = "accepted" => /\ ToldByRow(row) = AcceptedLog(row)
                                       /\ Len(ToldByRow(row)) = 2
         /\ row.status = "completed" => Len(ToldByRow(row)) = 3
         /\ row.status = "declined" => Len(ToldByRow(row)) = 2
<1> USE RowFields, EntryTyped
<1>1. CASE row.status \in {"none", "assigned"}
  BY <1>1 DEF ToldByRow
<1>2. CASE row.status = "accepted"
  BY <1>2 DEF ToldByRow, AcceptedLog
<1>3. CASE row.status = "declined"
  BY <1>3 DEF ToldByRow
<1>4. CASE row.status = "completed"
  BY <1>4 DEF ToldByRow, AcceptedLog
<1> QED
  BY <1>1, <1>2, <1>3, <1>4 DEF Statuses

LEMMA SecondEntry ==
  ASSUME NEW S, NEW e \in S, NEW f \in S
  PROVE  Append(<<e>>, f) = <<e, f>>
<1>1. <<e>> \in Seq(S) /\ Len(<<e>>) = 1 /\ <<e>>[1] = e
  OBVIOUS
<1>2. /\ Append(<<e>>, f) \in Seq(S) /\ Len(Append(<<e>>, f)) = 2
      /\ Append(<<e>>, f)[1] = e /\ Append(<<e>>, f)[2] = f
  BY <1>1, AppendProperties
<1>3. <<e, f>> \in Seq(S) /\ Len(<<e, f>>) = 2 /\ <<e, f>>[1] = e /\ <<e, f>>[2] = f
  OBVIOUS
<1>4. \A i \in 1..2 : Append(<<e>>, f)[i] = <<e, f>>[i]
  BY <1>2, <1>3
<1> QED
  BY <1>2, <1>3, <1>4, SeqEqual

LEMMA StoryMoves ==
  ASSUME NEW row \in Row, NEW to \in {"accepted", "declined"}, NEW t \in Nat,
         row.status = "assigned"
  PROVE  Append(ToldByRow(row), Event(TypeOf(to), t)) = ToldByRow(Moved(row, to, t))
<1>1. PICK next : next = Moved(row, to, t)
  OBVIOUS
<1>2. next.status = to /\ next.assignedAt = row.assignedAt
  BY ONLY row \in Row, to \in {"accepted", "declined"}, t \in Nat, <1>1, MovedFields
<1>3. ToldByRow(row) = <<Event("created", row.assignedAt)>>
  BY Story
<1>4. /\ Event("created", row.assignedAt) \in Entry
      /\ Event("accepted", t) \in Entry /\ Event("declined", t) \in Entry
  BY RowFields, EntryTyped
<1>5. CASE to = "accepted"
  <2>1. next.acceptedAt = t
    BY <1>1, <1>5, MovedFields
  <2>2. ToldByRow(next) = <<Event("created", row.assignedAt), Event("accepted", t)>>
    BY <1>2, <1>5, <2>1 DEF ToldByRow, AcceptedLog
  <2>3. TypeOf(to) = "accepted"
    BY <1>5 DEF TypeOf
  <2>4. Append(ToldByRow(row), Event("accepted", t)) = ToldByRow(next)
    BY <1>3, <1>4, <2>2, SecondEntry
  <2> QED BY <1>1, <2>3, <2>4
<1>6. CASE to = "declined"
  <2>1. next.endedAt = t
    BY <1>1, <1>6, MovedFields
  <2>2. ToldByRow(next) = <<Event("created", row.assignedAt), Event("declined", t)>>
    BY <1>2, <1>6, <2>1 DEF ToldByRow
  <2>3. TypeOf(to) = "declined"
    BY <1>6 DEF TypeOf
  <2>4. Append(ToldByRow(row), Event("declined", t)) = ToldByRow(next)
    BY <1>3, <1>4, <2>2, SecondEntry
  <2> QED BY <1>1, <2>3, <2>4
<1> QED
  BY <1>5, <1>6

LEMMA StoryEnds ==
  ASSUME NEW row \in Row, NEW v \in Verdict, row.status = "accepted"
  PROVE  Append(ToldByRow(row), Event("attested", v.at)) = ToldByRow(Ended(row, v))
<1> DEFINE next == Ended(row, v)
<1>1. /\ next.status = "completed" /\ next.assignedAt = row.assignedAt
      /\ next.acceptedAt = row.acceptedAt /\ next.endedAt = v.at
  BY EndedFields
<1> HIDE DEF next
<1>2. ToldByRow(next) = Append(AcceptedLog(row), Event("attested", v.at))
  BY <1>1 DEF ToldByRow, AcceptedLog
<1> QED
  BY <1>2, Story DEF next

LEMMA ActiveStatuses == Active = {"assigned", "accepted"} /\ Active \subseteq Statuses
BY DEF Active, Statuses

(* The part of the invariant that the step of a request starts from.       *)
LEMMA AtHand ==
  ASSUME IInv, NEW c \in Callers, call[c].phase # "idle"
  PROVE  /\ call[c] \in Call /\ Typed(call[c], now) /\ CallOK(call[c])
         /\ call[c].work \in Work /\ asg[call[c].work] \in Row /\ RowOK(call[c].work)
         /\ call[c].at \in Nat /\ call[c].read \in Row
         /\ att[call[c].work] \in Verdict \cup {NoVerdict}
<1>1. call[c] \in Call /\ Typed(call[c], now) /\ CallOK(call[c])
  BY DEF IInv, TypeInv, CallsTyped, Calls
<1>2. call[c].work \in Work
  BY <1>1 DEF Typed
<1>3. /\ asg[call[c].work] \in Row /\ RowOK(call[c].work)
      /\ att[call[c].work] \in Verdict \cup {NoVerdict}
  BY <1>2 DEF IInv, TypeInv, TypeOK, Rows
<1> QED
  BY <1>1, <1>2, <1>3, CallFields

LEMMA ClaimOpens ==
  ASSUME IInv, NEW c \in Callers, ClaimBatch(c)
  PROVE  UNCHANGED desk \/ Opens(call[c].work)
<1> DEFINE w == call[c].work
           t == call[c].at
           row == [status |-> "accepted", via |-> "market",
                   assignedAt |-> t, acceptedAt |-> t, endedAt |-> 0]
           entries == <<Event("created", t), Event("accepted", t)>>
<1>1. w \in Work /\ t \in Nat
  BY AtHand DEF ClaimBatch
<1>2. CASE UNCHANGED <<asg, log>>
  BY <1>2 DEF ClaimBatch, desk
<1>3. CASE Claimable(w, t) /\ asg[w].status = "none" /\ asg' = [asg EXCEPT ![w] = row]
           /\ log' = [log EXCEPT ![w] = entries]
  <2>1. /\ row \in Row /\ row.status = "accepted" /\ row.via = "market"
        /\ row.assignedAt = t /\ row.acceptedAt = t
    BY <1>1 DEF Row, Statuses
  <2>2. asg' = [asg EXCEPT ![w] = row] /\ att' = att
    BY <1>3 DEF ClaimBatch
  <2>3. Independent(w) /\ HasCapacity(w.person)
    BY <1>3 DEF Claimable
  <2> HIDE DEF row
  <2>4. ToldByRow(row) = entries
    BY <2>1 DEF ToldByRow, AcceptedLog
  <2>5. Opened(w, row)
    BY <1>1, <1>3, <2>1, <2>3, ActiveStatuses DEF Opened, InOrder
  <2> QED BY <1>3, <2>1, <2>2, <2>4, <2>5 DEF Opens, Write
<1> QED
  BY <1>2, <1>3 DEF ClaimBatch

LEMMA AssignOpens ==
  ASSUME IInv, NEW c \in Callers, AssignBatch(c)
  PROVE  UNCHANGED desk \/ Opens(call[c].work)
<1> DEFINE w == call[c].work
           t == call[c].at
           row == [NoRow EXCEPT !.status = "assigned", !.via = "direct", !.assignedAt = t]
<1>1. w \in Work /\ t \in Nat /\ Independent(w)
  BY AtHand DEF AssignBatch, CallOK
<1>2. CASE UNCHANGED <<asg, log>>
  BY <1>2 DEF AssignBatch, desk
<1>3. CASE HasCapacity(w.person) /\ asg[w].status = "none" /\ asg' = [asg EXCEPT ![w] = row]
           /\ log' = [log EXCEPT ![w] = <<Event("created", t)>>]
  <2>1. row \in Row /\ row.status = "assigned" /\ row.via = "direct" /\ row.assignedAt = t
    BY <1>1 DEF NoRow, Row, Statuses
  <2>2. asg' = [asg EXCEPT ![w] = row] /\ att' = att
    BY <1>3 DEF AssignBatch
  <2> HIDE DEF row
  <2>3. ToldByRow(row) = <<Event("created", t)>>
    BY <2>1 DEF ToldByRow
  <2>4. Opened(w, row)
    BY <1>1, <1>3, <2>1, ActiveStatuses DEF Opened, InOrder
  <2> QED BY <1>3, <2>1, <2>2, <2>3, <2>4 DEF Opens, Write
<1> QED
  BY <1>2, <1>3 DEF AssignBatch

LEMMA MoveDecides ==
  ASSUME IInv, NEW c \in Callers, Move(c)
  PROVE  UNCHANGED desk \/ Decides(call[c].work)
<1> DEFINE w == call[c].work
           x == call[c]
           next == Moved(x.read, x.to, x.at)
<1>1. /\ w \in Work /\ x.at \in Nat /\ x.to \in {"accepted", "declined"}
      /\ x.read.status = "assigned" /\ x.read \in Row /\ x.read.assignedAt <= x.at
      /\ asg[w].status = "assigned" => asg[w] = x.read
      /\ log[w] = ToldByRow(asg[w])
  BY AtHand DEF Move, CallOK, Typed, RowOK
<1>2. CASE UNCHANGED <<asg, log>>
  BY <1>2 DEF Move, desk
<1>3. CASE /\ Updates(w, x.read) /\ asg' = [asg EXCEPT ![w] = next]
           /\ log' = [log EXCEPT ![w] = Append(@, Event(TypeOf(next.status), x.at))]
  <2>1. asg[w] = x.read /\ asg[w].status = "assigned"
    BY <1>1, <1>3 DEF Updates
  <2>2. next.status = x.to
    BY ONLY <1>1, MovedFields
  <2>3. Append(ToldByRow(x.read), Event(TypeOf(x.to), x.at)) = ToldByRow(next)
    BY ONLY <1>1, StoryMoves
  <2>4. log[w] = ToldByRow(x.read)
    BY <1>1, <2>1
  <2>5. log' = [log EXCEPT ![w] = ToldByRow(next)]
    <3>1. log' = [log EXCEPT ![w] = Append(log[w], Event(TypeOf(next.status), x.at))]
      BY <1>3
    <3> HIDE DEF next, x, w
    <3> QED BY <2>2, <2>3, <2>4, <3>1
  <2>6. att' = att
    BY DEF Move
  <2>7. Write(w, next) /\ next = Moved(asg[w], x.to, x.at)
    BY <1>3, <2>1, <2>5 DEF Write
  <2> HIDE DEF w, x, next
  <2>8. Decides(w)
    BY <1>1, <2>1, <2>6, <2>7 DEF Decides
  <2> QED BY <2>8 DEF w
<1> QED
  BY <1>2, <1>3 DEF Move

(* recordAttestation() and ensureAttestationClosure() close what they read. *)
LEMMA ClosedEnds ==
  ASSUME TypeInv, NEW w \in Work, NEW v \in Verdict, asg[w].status = "accepted",
         log[w] = ToldByRow(asg[w]), Closed(w, v)
  PROVE  Write(w, Ended(asg[w], v))
<1>1. asg[w] \in Row
  BY DEF TypeInv, TypeOK
<1>2. Append(ToldByRow(asg[w]), Event("attested", v.at)) = ToldByRow(Ended(asg[w], v))
  BY <1>1, StoryEnds
<1>3. /\ asg' = [asg EXCEPT ![w] = Ended(asg[w], v)]
      /\ log' = [log EXCEPT ![w] = Append(log[w], Event("attested", v.at))]
  BY DEF Closed, Ended
<1> QED
  BY <1>2, <1>3 DEF Write

LEMMA RecordCloses ==
  ASSUME IInv, NEW c \in Callers, Record(c)
  PROVE  UNCHANGED desk \/ Closes(call[c].work)
<1> DEFINE x == call[c]
           w == x.work
           v == x.verdict
<1>1. /\ w \in Work /\ v \in Verdict /\ v.at \in 1..now
      /\ x.read.status = "accepted" /\ x.read.acceptedAt <= v.at /\ FreshFor(w, x.read, v)
      /\ log[w] = ToldByRow(asg[w])
  BY AtHand DEF Record, CallOK, Typed, RowOK, Attesting
<1>2. CASE UNCHANGED desk
  BY <1>2
<1>3. CASE /\ att[w] = NoVerdict /\ Closable(w, x.read)
           /\ att' = [att EXCEPT ![w] = v] /\ Closed(w, v)
  <2>1. asg[w] = x.read
    BY <1>3 DEF Closable
  <2>2. Write(w, Ended(asg[w], v))
    BY <1>1, <1>3, <2>1, ClosedEnds DEF IInv
  <2>3. /\ asg[w].status = "accepted" /\ asg[w].acceptedAt <= v.at /\ FreshFor(w, asg[w], v)
    BY <1>1, <2>1
  <2>4. att[w] \in {NoVerdict, v} /\ att' = [att EXCEPT ![w] = v]
    BY <1>3
  <2> HIDE DEF w, v
  <2>5. Closes(w)
    BY <1>1, <2>2, <2>3, <2>4 DEF Closes
  <2> QED BY <2>5 DEF w
<1> QED
  BY <1>2, <1>3 DEF Record

LEMMA CloseWriteCloses ==
  ASSUME IInv, NEW c \in Callers, CloseWrite(c)
  PROVE  UNCHANGED desk \/ Closes(call[c].work)
<1> DEFINE x == call[c]
           w == x.work
           v == x.verdict
<1>1. /\ w \in Work /\ v \in Verdict /\ v.at \in 1..now
      /\ x.read.status = "accepted" /\ att[w] = v /\ v # NoVerdict
      /\ log[w] = ToldByRow(asg[w]) /\ Attested(w, asg[w], att[w])
  BY AtHand, VerdictFields DEF CloseWrite, CallOK, Typed, RowOK, Attesting
<1>2. CASE UNCHANGED <<asg, log>>
  BY <1>2 DEF CloseWrite, desk
<1>3. CASE Closable(w, x.read) /\ Closed(w, v)
  <2>1. asg[w].status = "accepted"
    BY <1>1, <1>3 DEF Closable
  <2>2. Write(w, Ended(asg[w], v))
    BY <1>1, <1>3, <2>1, ClosedEnds DEF IInv
  <2>3. asg[w].acceptedAt <= v.at /\ FreshFor(w, asg[w], v)
    BY <1>1 DEF Attested
  <2>4. att \in [Work -> Verdict \cup {NoVerdict}] /\ att' = att
    BY DEF CloseWrite, IInv, TypeInv, TypeOK
  <2>5. att' = [att EXCEPT ![w] = v]
    BY <1>1, <2>4
  <2> HIDE DEF w, v
  <2>6. Closes(w)
    BY <1>1, <2>1, <2>2, <2>3, <2>5 DEF Closes
  <2> QED BY <2>6 DEF w
<1> QED
  BY <1>2, <1>3 DEF CloseWrite

(* So a step of the system opens, decides or closes one review, or leaves  *)
(* all of them as they are.                                                *)
LEMMA DeskStep ==
  ASSUME IInv, [Next]_vars
  PROVE  UNCHANGED desk \/ \E w \in Work : Opens(w) \/ Decides(w) \/ Closes(w)
<1>1. CASE UNCHANGED <<asg, log>> /\ att' = att
  BY <1>1 DEF desk
<1>2. CASE \E c \in Callers : ClaimBatch(c) \/ AssignBatch(c) \/ Move(c) \/ Record(c)
                              \/ CloseWrite(c)
  <2>1. PICK c \in Callers : ClaimBatch(c) \/ AssignBatch(c) \/ Move(c) \/ Record(c)
                             \/ CloseWrite(c)
    BY <1>2
  <2>2. call[c].work \in Work
    BY <2>1, AtHand DEF ClaimBatch, AssignBatch, Move, Record, CloseWrite
  <2> QED
    BY <2>1, <2>2, ClaimOpens, AssignOpens, MoveDecides, RecordCloses, CloseWriteCloses
<1> QED
  BY <1>1, <1>2, Frames

-----------------------------------------------------------------------------
(* No step takes back what a request may have read.                        *)
Grew(u) ==
  /\ asg[u].status # "none" =>
       /\ asg'[u].status # "none"
       /\ asg'[u].status = "assigned" => asg'[u] = asg[u]
  /\ asg[u].status \in {"accepted", "completed"} =>
       /\ asg'[u].status \in {"accepted", "completed"}
       /\ asg'[u].acceptedAt = asg[u].acceptedAt
  /\ att[u] # NoVerdict => att'[u] = att[u]
  /\ replay[u] # 0 => replay'[u] = replay[u]

LEMMA OutsideGrows ==
  ASSUME TypeInv, [Next]_vars
  PROVE  /\ now' \in Nat /\ now' >= now
         /\ now <= MaxTime => now' <= MaxTime
         /\ replay' \in [Work -> Nat]
         /\ \A u \in Work : replay[u] # 0 => replay'[u] = replay[u]
<1>1. now \in Nat /\ replay \in [Work -> Nat]
  BY DEF TypeInv, TypeOK
<1>2. now' \in Nat /\ now' >= now /\ (now <= MaxTime => now' <= MaxTime)
  BY <1>1, Frames DEF Tick
<1>3. /\ replay' \in [Work -> Nat]
      /\ \A u \in Work : replay[u] # 0 => replay'[u] = replay[u]
  BY <1>1, Frames DEF Replay
<1> QED
  BY <1>2, <1>3

LEMMA WriteFields ==
  ASSUME TypeInv, NEW w \in Work, NEW row \in Row, Write(w, row)
  PROVE  /\ asg'[w] = row /\ log'[w] = ToldByRow(row)
         /\ \A u \in Work \ {w} : asg'[u] = asg[u] /\ log'[u] = log[u]
         /\ asg' \in [Work -> Row] /\ log' \in [Work -> Seq(Entry)]
<1>1. asg \in [Work -> Row] /\ log \in [Work -> Seq(Entry)]
  BY DEF TypeInv, TypeOK
<1>2. ToldByRow(row) \in Seq(Entry)
  BY Story
<1> QED
  BY <1>1, <1>2 DEF Write

(* A row that a step leaves alone.                                         *)
LEMMA SameRow ==
  ASSUME IInv, [Next]_vars, NEW u \in Work,
         asg'[u] = asg[u], log'[u] = log[u], att'[u] = att[u]
  PROVE  RowOK(u)' /\ Grew(u)
<1>1. RowOK(u) /\ asg[u] \in Row /\ att[u] \in Verdict \cup {NoVerdict}
  BY DEF IInv, Rows, TypeInv, TypeOK
<1>2. /\ now' \in Nat /\ now \in Nat /\ now' >= now
      /\ replay[u] # 0 => replay'[u] = replay[u]
  BY OutsideGrows DEF IInv, TypeInv, TypeOK
<1>3. ASSUME att[u] # NoVerdict
      PROVE  Attested(u, asg[u], att[u])'
  <2>1. Attested(u, asg[u], att[u]) /\ att[u] \in Verdict /\ att[u].at \in Nat
    BY <1>1, <1>3, VerdictFields DEF RowOK
  <2>2. att[u].at \in 1..now'
    BY <1>2, <2>1 DEF Attested
  <2>3. FreshFor(u, asg[u], att[u])'
    BY <1>2, <2>1 DEF Attested, FreshFor
  <2> QED BY <2>1, <2>2, <2>3 DEF Attested
<1>4. RowOK(u)'
  BY <1>1, <1>3 DEF RowOK
<1>5. Grew(u)
  BY <1>2 DEF Grew
<1> QED
  BY <1>4, <1>5

DeskOK == /\ asg' \in [Work -> Row] /\ log' \in [Work -> Seq(Entry)]
          /\ att' \in [Work -> Verdict \cup {NoVerdict}]
          /\ \A u \in Work : RowOK(u)' /\ Grew(u)

LEMMA OpensOK ==
  ASSUME IInv, [Next]_vars, NEW w \in Work, Opens(w)
  PROVE  DeskOK
<1>1. PICK row \in Row : Opened(w, row) /\ Write(w, row) /\ att' = att
  BY DEF Opens
<1>2. /\ asg'[w] = row /\ log'[w] = ToldByRow(row)
      /\ \A u \in Work \ {w} : asg'[u] = asg[u] /\ log'[u] = log[u]
      /\ asg' \in [Work -> Row] /\ log' \in [Work -> Seq(Entry)]
  BY <1>1, WriteFields DEF IInv
<1>3. att' \in [Work -> Verdict \cup {NoVerdict}]
  BY <1>1 DEF IInv, TypeInv, TypeOK
<1>4. asg[w].status = "none" /\ att[w] = NoVerdict
  BY <1>1 DEF IInv, Rows, RowOK, Attested, Opened
<1>5. row.status \in {"assigned", "accepted"} /\ row.via # "none" /\ InOrder(row)
  BY <1>1, ActiveStatuses DEF Opened
<1>6. RowOK(w)'
  BY <1>1, <1>2, <1>4, <1>5 DEF RowOK
<1>7. Grew(w)
  BY <1>4, OutsideGrows DEF Grew, IInv
<1>8. \A u \in Work \ {w} : RowOK(u)' /\ Grew(u)
  BY <1>1, <1>2, SameRow
<1> QED
  BY <1>2, <1>3, <1>6, <1>7, <1>8 DEF DeskOK

LEMMA DecidesOK ==
  ASSUME IInv, [Next]_vars, NEW w \in Work, Decides(w)
  PROVE  DeskOK
<1>1. PICK to \in {"accepted", "declined"}, t \in Nat :
        /\ asg[w].status = "assigned" /\ asg[w].assignedAt <= t
        /\ Write(w, Moved(asg[w], to, t)) /\ att' = att
  BY DEF Decides
<1>2. PICK row : row = Moved(asg[w], to, t)
  OBVIOUS
<1>3. asg[w] \in Row
  BY DEF IInv, TypeInv, TypeOK
<1>4. /\ row \in Row /\ row.status = to /\ row.via = asg[w].via
      /\ row.assignedAt = asg[w].assignedAt
      /\ to = "accepted" => row.acceptedAt = t
      /\ to = "declined" => row.endedAt = t
  BY ONLY to \in {"accepted", "declined"}, t \in Nat, <1>2, <1>3, MovedFields
<1>5. /\ asg'[w] = row /\ log'[w] = ToldByRow(row)
      /\ \A u \in Work \ {w} : asg'[u] = asg[u] /\ log'[u] = log[u]
      /\ asg' \in [Work -> Row] /\ log' \in [Work -> Seq(Entry)]
  BY <1>1, <1>2, <1>4, WriteFields DEF IInv
<1>6. att' \in [Work -> Verdict \cup {NoVerdict}]
  BY <1>1 DEF IInv, TypeInv, TypeOK
<1>7. att[w] = NoVerdict
  BY <1>1 DEF IInv, Rows, RowOK, Attested
<1>8. InOrder(row)
  BY <1>1, <1>4 DEF InOrder
<1>9. RowOK(w)'
  BY <1>1, <1>4, <1>5, <1>7, <1>8 DEF RowOK
<1>10. Grew(w)
  BY <1>1, <1>4, <1>5, <1>7, OutsideGrows DEF Grew, IInv
<1>11. \A u \in Work \ {w} : RowOK(u)' /\ Grew(u)
  BY <1>1, <1>5, SameRow
<1> QED
  BY <1>5, <1>6, <1>9, <1>10, <1>11 DEF DeskOK

LEMMA ClosesOK ==
  ASSUME IInv, [Next]_vars, NEW w \in Work, Closes(w)
  PROVE  DeskOK
<1>1. PICK v \in Verdict :
        /\ asg[w].status = "accepted" /\ v.at \in 1..now
        /\ asg[w].acceptedAt <= v.at /\ FreshFor(w, asg[w], v)
        /\ att[w] \in {NoVerdict, v}
        /\ Write(w, Ended(asg[w], v)) /\ att' = [att EXCEPT ![w] = v]
  BY DEF Closes
<1>2. PICK row : row = Ended(asg[w], v)
  OBVIOUS
<1>3. /\ asg[w] \in Row /\ InOrder(asg[w]) /\ v.at \in Nat /\ v # NoVerdict
      /\ att \in [Work -> Verdict \cup {NoVerdict}] /\ now \in Nat
  BY VerdictFields DEF IInv, TypeInv, TypeOK, Rows, RowOK
<1>4. /\ row \in Row /\ row.status = "completed" /\ row.via = asg[w].via
      /\ row.assignedAt = asg[w].assignedAt /\ row.acceptedAt = asg[w].acceptedAt
      /\ row.endedAt = v.at
  BY ONLY v \in Verdict, <1>2, <1>3, EndedFields
<1>5. /\ asg'[w] = row /\ log'[w] = ToldByRow(row)
      /\ \A u \in Work \ {w} : asg'[u] = asg[u] /\ log'[u] = log[u]
      /\ asg' \in [Work -> Row] /\ log' \in [Work -> Seq(Entry)]
  BY <1>1, <1>2, <1>4, WriteFields DEF IInv
<1>6. /\ att' \in [Work -> Verdict \cup {NoVerdict}] /\ att'[w] = v
      /\ \A u \in Work \ {w} : att'[u] = att[u]
  BY <1>1, <1>3
<1>7. /\ now' \in Nat /\ now' >= now
      /\ replay[w] # 0 => replay'[w] = replay[w]
  BY OutsideGrows DEF IInv
<1>8. InOrder(row)
  BY <1>1, <1>3, <1>4 DEF InOrder
<1>9. FreshFor(w, row, v)'
  BY <1>1, <1>4, <1>7 DEF FreshFor
<1>10. Attested(w, row, v)'
  BY <1>1, <1>3, <1>4, <1>7, <1>9 DEF Attested
<1>11. RowOK(w)'
  BY <1>3, <1>4, <1>5, <1>6, <1>8, <1>10 DEF RowOK, Attested
<1>12. Grew(w)
  BY <1>1, <1>4, <1>5, <1>6, <1>7 DEF Grew
<1>13. \A u \in Work \ {w} : RowOK(u)' /\ Grew(u)
  BY <1>5, <1>6, SameRow
<1> QED
  BY <1>5, <1>6, <1>11, <1>12, <1>13 DEF DeskOK

LEMMA RowsStep ==
  ASSUME IInv, [Next]_vars
  PROVE  DeskOK
<1>1. CASE UNCHANGED desk
  <2>1. \A u \in Work : RowOK(u)' /\ Grew(u)
    BY <1>1, SameRow DEF desk
  <2> QED BY <1>1, <2>1 DEF DeskOK, desk, IInv, TypeInv, TypeOK
<1> QED
  BY <1>1, DeskStep, OpensOK, DecidesOK, ClosesOK

-----------------------------------------------------------------------------
(* What a request read stays true until it makes use of it.                *)
Reads(c, phase, row) ==
  call' = [call EXCEPT ![c].phase = phase, ![c].read = row]

LEMMA ReadCall ==
  ASSUME CallsTyped, NEW c \in Callers, NEW phase \in Phases, NEW row \in Row,
         Reads(c, phase, row)
  PROVE  /\ call'[c].phase = phase /\ call'[c].read = row /\ call'[c].work = call[c].work
         /\ call'[c].at = call[c].at /\ call'[c].to = call[c].to
         /\ call'[c].verdict = call[c].verdict
<1> DEFINE y == [call[c] EXCEPT !.phase = phase, !.read = row]
<1>1. call[c] \in Call /\ call'[c] = y
  BY DEF CallsTyped, Reads
<1>2. /\ y.phase = phase /\ y.read = row /\ y.work = call[c].work /\ y.at = call[c].at
      /\ y.to = call[c].to /\ y.verdict = call[c].verdict
  BY <1>1 DEF Call
<1> HIDE DEF y
<1> QED
  BY <1>1, <1>2

Counts(c, phase, m) ==
  call' = [call EXCEPT ![c].phase = phase, ![c].n = m]

LEMMA CountCall ==
  ASSUME CallsTyped, NEW c \in Callers, NEW phase \in Phases, NEW m \in Nat,
         Counts(c, phase, m)
  PROVE  /\ call'[c].phase = phase /\ call'[c].n = m /\ call'[c].work = call[c].work
         /\ call'[c].at = call[c].at /\ call'[c].to = call[c].to
         /\ call'[c].verdict = call[c].verdict
         /\ call'[c].read = call[c].read
<1> DEFINE y == [call[c] EXCEPT !.phase = phase, !.n = m]
<1>1. call[c] \in Call /\ call'[c] = y
  BY DEF CallsTyped, Counts
<1>2. /\ y.phase = phase /\ y.n = m /\ y.work = call[c].work /\ y.at = call[c].at
      /\ y.to = call[c].to /\ y.verdict = call[c].verdict
      /\ y.read = call[c].read
  BY <1>1 DEF Call
<1> HIDE DEF y
<1> QED
  BY <1>1, <1>2

Learns(c, phase, known) ==
  call' = [call EXCEPT ![c].phase = phase, ![c].known = known]

LEMMA KnownCall ==
  ASSUME CallsTyped, NEW c \in Callers, NEW phase \in Phases, NEW known \in BOOLEAN,
         Learns(c, phase, known)
  PROVE  /\ call'[c].phase = phase /\ call'[c].known = known /\ call'[c].work = call[c].work
         /\ call'[c].at = call[c].at /\ call'[c].to = call[c].to
         /\ call'[c].verdict = call[c].verdict
         /\ call'[c].read = call[c].read
<1> DEFINE y == [call[c] EXCEPT !.phase = phase, !.known = known]
<1>1. call[c] \in Call /\ call'[c] = y
  BY DEF CallsTyped, Learns
<1>2. /\ y.phase = phase /\ y.known = known /\ y.work = call[c].work /\ y.at = call[c].at
      /\ y.to = call[c].to /\ y.verdict = call[c].verdict
      /\ y.read = call[c].read
  BY <1>1 DEF Call
<1> HIDE DEF y
<1> QED
  BY <1>1, <1>2

Free == {"idle", "lean", "publishing", "deciding", "reviewing", "raced"}

LEMMA FreeCall ==
  ASSUME NEW c \in Callers, call'[c].phase \in Free
  PROVE  CallOK(call[c])'
BY DEF CallOK, Free

LEMMA CallKept ==
  ASSUME IInv, [Next]_vars, NEW d \in Callers, call'[d] = call[d]
  PROVE  CallOK(call[d])'
<1> DEFINE x == call[d]
           w == x.work
<1>1. /\ x \in Call /\ Typed(x, now) /\ CallOK(x)
      /\ x.phase # "idle" => w \in Work
  BY DEF IInv, TypeInv, CallsTyped, Calls, Typed
<1>2. CASE x.phase = "idle"
  BY <1>2, FreeCall DEF Free
<1>3. CASE x.phase # "idle"
  <2>1. Grew(w) /\ att[w] \in Verdict \cup {NoVerdict}
    BY <1>1, <1>3, RowsStep DEF DeskOK, IInv, TypeInv, TypeOK
  <2>2. jobs \subseteq jobs'
    BY Frames DEF PublishNext
  <2>3. /\ x.phase \in Attesting => x.verdict # NoVerdict
        /\ {"history", "authority", "evidence", "recording",
            "closing", "closing_history", "closing_write"} \subseteq Attesting
    BY <1>1, VerdictFields DEF Typed, Attesting
  <2>4. /\ x.phase \in {"pool", "delegation", "capacity", "claiming"} => JobOf(w) \in jobs'
        /\ x.phase = "assigning" => Independent(w)
    BY <1>1, <2>2 DEF CallOK
  <2>5. x.phase \in {"numbering", "moving"} =>
          /\ asg'[w].status # "none"
          /\ asg'[w].status = "assigned" => asg'[w] = x.read
          /\ x.read.assignedAt <= x.at
    BY <1>1, <2>1 DEF CallOK, Grew
  <2>6. x.phase \in {"comparing", "history", "authority", "evidence"} => Kept(x)'
    BY <1>1, <2>1 DEF CallOK, Grew, Kept
  <2>7. x.phase \in {"history", "authority", "evidence"} =>
          /\ x.read.acceptedAt <= x.verdict.at
          /\ x.known => att'[w] = x.verdict
          /\ ~ x.known => x.read.status = "accepted"
    BY <1>1, <2>1, <2>3 DEF CallOK, Grew
  <2>8. x.phase = "recording" =>
          /\ x.read.status = "accepted" /\ x.read.acceptedAt <= x.verdict.at
          /\ FreshFor(w, x.read, x.verdict)'
    BY <1>1, <2>1 DEF CallOK, Grew, FreshFor
  <2>9. /\ x.phase \in {"closing", "closing_history", "closing_write"} =>
             att'[w] = x.verdict
        /\ x.phase \in {"closing_history", "closing_write"} => x.read.status = "accepted"
    BY <1>1, <2>1, <2>3 DEF CallOK, Grew
  <2> QED BY <2>4, <2>5, <2>6, <2>7, <2>8, <2>9 DEF CallOK, Kept, FreshFor
<1> QED
  BY <1>2, <1>3

LEMMA EndedCallOK ==
  ASSUME CallsTyped, NEW c \in Callers, End(c)
  PROVE  CallOK(call[c])'
BY EndCall, NoCallTyped, FreeCall DEF Free

LEMMA RequestOK ==
  ASSUME IInv, [Next]_vars, NEW c \in Callers, Request(c)
  PROVE  CallOK(call[c])'
<1>1. CallsTyped /\ now \in Nat /\ jobs \subseteq jobs'
  BY Frames DEF IInv, TypeInv, TypeOK, PublishNext
<1>2. ASSUME NEW b \in Bundles, Publish(c, b)
      PROVE  CallOK(call[c])'
  <2> DEFINE w == [bundle |-> b, claim |-> ClaimOrder[1], person |-> OwnerOf[b]]
  <2>1. w \in Work /\ Begin(c, w, "lean") /\ "lean" \in Phases
    BY <1>2, ClaimTypesTyped DEF Publish, Work, Phases
  <2> HIDE DEF w
  <2> QED BY <1>1, <2>1, BeginCall, FreeCall DEF Free
<1>3. ASSUME NEW w \in Work, Claim(c, w)
      PROVE  CallOK(call[c])'
  <2>1. Begin(c, w, "pool") /\ JobOf(w) \in jobs' /\ "pool" \in Phases
    BY <1>1, <1>3 DEF Claim, Phases
  <2>2. call'[c].phase = "pool" /\ call'[c].work = w
    BY <1>1, <2>1, BeginCall
  <2> QED BY <2>1, <2>2 DEF CallOK
<1>4. ASSUME NEW w \in Work, Assign(c, w)
      PROVE  CallOK(call[c])'
  <2>1. Begin(c, w, "assigning") /\ Independent(w) /\ "assigning" \in Phases
    BY <1>4 DEF Assign, Phases
  <2>2. call'[c].phase = "assigning" /\ call'[c].work = w
    BY <1>1, <2>1, BeginCall
  <2> QED BY <2>1, <2>2 DEF CallOK
<1>5. ASSUME NEW w \in Work, NEW to \in {"accepted", "declined"}, Decide(c, w, to)
      PROVE  CallOK(call[c])'
  <2> DEFINE y == [NoCall EXCEPT !.phase = "deciding", !.work = w, !.at = now, !.to = to]
  <2>1. call'[c] = y
    BY <1>1, <1>5 DEF Decide, CallsTyped
  <2>2. y.phase = "deciding"
    BY DEF NoCall
  <2> HIDE DEF y
  <2> QED BY <2>1, <2>2, FreeCall DEF Free
<1>6. ASSUME NEW w \in Work, NEW v \in Signable, Attest(c, w, v)
      PROVE  CallOK(call[c])'
  <2> DEFINE y == [NoCall EXCEPT !.phase = "reviewing", !.work = w, !.at = now, !.verdict = v]
  <2>1. call'[c] = y
    BY <1>1, <1>6 DEF Attest, CallsTyped
  <2>2. y.phase = "reviewing"
    BY DEF NoCall
  <2> HIDE DEF y
  <2> QED BY <2>1, <2>2, FreeCall DEF Free
<1> QED
  BY <1>2, <1>3, <1>4, <1>5, <1>6 DEF Request

(* publishJobsForBundle(), claimJob(), assign(), accept() and decline()    *)
LEMMA DeskCallOK ==
  ASSUME IInv, [Next]_vars, NEW c \in Callers,
         \/ CheckLean(c) \/ PublishNext(c) \/ CheckPool(c) \/ CheckDelegation(c)
         \/ CheckCapacity(c) \/ ClaimBatch(c) \/ AssignBatch(c) \/ ReadAssigned(c)
         \/ Number(c) \/ Move(c) \/ Abandon(c)
  PROVE  CallOK(call[c])'
<1> DEFINE x == call[c]
           w == x.work
<1>0. CallsTyped /\ TypeInv /\ jobs \subseteq jobs'
  BY Frames DEF IInv, TypeInv, PublishNext
<1>1. CASE End(c)
  BY <1>0, <1>1, EndedCallOK
<1>2. CASE CheckLean(c)
  <2>1. Become(c, "publishing") \/ End(c)
    BY <1>2 DEF CheckLean, Check
  <2> QED BY <1>0, <1>1, <2>1, BecomeCall, FreeCall DEF Free, Phases
<1>3. CASE PublishNext(c)
  <2>1. End(c) \/ call' = [call EXCEPT ![c].n = x.n + 1]
    BY <1>3 DEF PublishNext
  <2>2. ASSUME call' = [call EXCEPT ![c].n = x.n + 1]
        PROVE  call'[c].phase = x.phase
    BY <1>0, <2>2 DEF CallsTyped, Call
  <2>3. x.phase = "publishing"
    BY <1>3 DEF PublishNext
  <2> QED BY <1>1, <2>1, <2>2, <2>3, FreeCall DEF Free
<1>4. CASE CheckPool(c) \/ CheckDelegation(c) \/ CheckCapacity(c)
  <2>1. PICK to \in {"delegation", "capacity", "claiming"} :
          /\ Become(c, to) \/ End(c)
          /\ x.phase \in {"pool", "delegation", "capacity"}
    BY <1>4 DEF CheckPool, CheckDelegation, CheckCapacity, Check
  <2>2. JobOf(w) \in jobs'
    BY <1>0, <2>1 DEF IInv, Calls, CallOK
  <2>3. ASSUME Become(c, to)
        PROVE  call'[c].phase = to /\ call'[c].work = w
    BY <1>0, <2>3, BecomeCall DEF Phases
  <2>4. ASSUME Become(c, to)
        PROVE  CallOK(call[c])'
    BY <2>2, <2>3, <2>4 DEF CallOK
  <2> QED BY <1>1, <2>1, <2>4
<1>5. CASE ReadAssigned(c)
  <2>1. CASE /\ asg[w].status = "assigned" /\ x.at >= asg[w].assignedAt
             /\ call' = [call EXCEPT ![c].phase = "numbering", ![c].read = asg[w]]
    <3>1. asg[w] \in Row /\ x.at \in Nat /\ asg' = asg
      BY <1>5, AtHand DEF ReadAssigned, desk
    <3>4. Reads(c, "numbering", asg[w]) /\ "numbering" \in Phases
      BY <2>1 DEF Reads, Phases
    <3>2. /\ call'[c].phase = "numbering" /\ call'[c].read = asg[w] /\ call'[c].work = w
          /\ call'[c].at = x.at
      BY <1>0, <3>1, <3>4, ReadCall
    <3>3. asg[w].assignedAt <= x.at
      BY <2>1, <3>1, RowFields
    <3> QED BY <2>1, <3>1, <3>2, <3>3 DEF CallOK
  <2> QED BY <1>1, <1>5, <2>1 DEF ReadAssigned
<1>6. CASE Number(c)
  <2>1. /\ w \in Work /\ x.phase = "numbering" /\ CallOK(x) /\ asg' = asg
        /\ call' = [call EXCEPT ![c].phase = "moving", ![c].n = Len(log[w]) + 1]
    BY <1>6, AtHand DEF Number, desk
  <2>2. Len(log[w]) + 1 \in Nat
    BY <1>0, <2>1 DEF TypeInv, TypeOK
  <2>4. Counts(c, "moving", Len(log[w]) + 1) /\ "moving" \in Phases
    BY <2>1 DEF Counts, Phases
  <2>3. /\ call'[c].phase = "moving" /\ call'[c].read = x.read /\ call'[c].work = w
        /\ call'[c].at = x.at
    BY <1>0, <2>2, <2>4, CountCall
  <2> QED BY <2>1, <2>3 DEF CallOK
<1> QED
  BY <1>1, <1>2, <1>3, <1>4, <1>5, <1>6 DEF ClaimBatch, AssignBatch, Move, Abandon

(* recordAttestation()                                                     *)
LEMMA AttestCallOK ==
  ASSUME IInv, [Next]_vars, NEW c \in Callers, AttestStep(c)
  PROVE  CallOK(call[c])'
<1> DEFINE x == call[c]
           w == x.work
           v == x.verdict
<1>0. /\ CallsTyped
      /\ w \in Work /\ CallOK(x) /\ asg[w] \in Row /\ RowOK(w)
      /\ v \in Verdict /\ v.at \in 1..now /\ v # NoVerdict
      /\ att[w] \in Verdict \cup {NoVerdict} /\ x.read \in Row
  BY AtHand, VerdictFields
     DEF IInv, TypeInv, Typed, Attesting, AttestStep, ReadReview, Compare, CheckHistory,
         CheckAuthority, CheckEvidence, Record, ReadWinner, Close, CloseHistory,
         CloseWrite, Check
<1>p. /\ CallsTyped
      /\ "comparing" \in Phases /\ "history" \in Phases /\ "authority" \in Phases
      /\ "evidence" \in Phases /\ "recording" \in Phases /\ "raced" \in Phases
      /\ "closing" \in Phases /\ "closing_history" \in Phases
      /\ "closing_write" \in Phases
  BY <1>0 DEF Phases
<1>1. CASE End(c)
  BY <1>0, <1>1, EndedCallOK
<1>2. CASE ReadReview(c)
  <2>1. asg' = asg /\ call' = [call EXCEPT ![c].phase = "comparing", ![c].read = asg[w]]
    BY <1>2 DEF ReadReview, desk
  <2>2. /\ call'[c].phase = "comparing" /\ call'[c].read = asg[w] /\ call'[c].work = w
    <3>1. PICK row \in Row : row = asg[w]
      BY <1>0
    <3>2. Reads(c, "comparing", row)
      BY <2>1, <3>1 DEF Reads
    <3>3. /\ call'[c].phase = "comparing" /\ call'[c].read = row
          /\ call'[c].work = call[c].work /\ call'[c].verdict = call[c].verdict
      BY <1>p, <3>2, ReadCall
    <3> QED BY <3>1, <3>3
  <2> QED BY <2>1, <2>2 DEF CallOK, Kept
<1>3. CASE Compare(c) /\ ~ End(c)
  <2> DEFINE known == att[w] # NoVerdict
  <2>1. /\ asg' = asg /\ att' = att /\ x.phase = "comparing"
        /\ known => att[w] = v
        /\ x.read.status = "accepted" \/ (known /\ x.read.status = "completed")
        /\ v.at >= x.read.acceptedAt
        /\ call' = [call EXCEPT ![c].phase = "history", ![c].known = known]
    BY <1>3 DEF Compare, desk
  <2>2. /\ call'[c].phase = "history" /\ call'[c].read = x.read /\ call'[c].work = w
        /\ call'[c].known = known /\ call'[c].verdict = v
    <3>1. known \in BOOLEAN
      OBVIOUS
    <3>2. Learns(c, "history", known)
      BY <2>1 DEF Learns
    <3> HIDE DEF known
    <3> QED BY <1>p, <3>1, <3>2, KnownCall
  <2>3. Kept(x) /\ x.read.acceptedAt <= v.at
    BY <1>0, <2>1, RowFields, VerdictFields DEF CallOK
  <2>4. known => att[w] = v
    BY <2>1
  <2>5. ~ known => x.read.status = "accepted"
    BY <2>1
  <2> HIDE DEF known
  <2> QED BY <2>1, <2>2, <2>3, <2>4, <2>5 DEF CallOK, Kept
<1>4. CASE (CheckHistory(c) \/ CheckAuthority(c)) /\ ~ End(c)
  <2>1. PICK to \in {"authority", "evidence"} :
          /\ asg' = asg /\ att' = att /\ x.phase \in {"history", "authority"}
          /\ Become(c, to)
    BY <1>4 DEF CheckHistory, CheckAuthority, Check, desk
  <2>2. /\ call'[c].phase = to /\ call'[c].read = x.read /\ call'[c].work = w
        /\ call'[c].known = x.known /\ call'[c].verdict = v
    BY <1>p, <2>1, BecomeCall
  <2> QED BY <1>0, <2>1, <2>2 DEF CallOK, Kept
<1>5. CASE CheckEvidence(c) /\ ~ End(c)
  <2>1. /\ asg' = asg /\ att' = att /\ replay' = replay /\ x.phase = "evidence"
        /\ FreshReplay(w, v)
        /\ Become(c, IF x.known THEN "closing" ELSE "recording")
    BY <1>5 DEF CheckEvidence, Check, desk, outside
  <2>2. PICK to \in {"closing", "recording"} :
          /\ Become(c, to)
          /\ to = "closing" => x.known
          /\ to = "recording" => ~ x.known
    BY <2>1
  <2>3. /\ call'[c].phase = to /\ call'[c].read = x.read /\ call'[c].work = w
        /\ call'[c].verdict = v
    BY <1>p, <2>2, BecomeCall
  <2>4. CASE to = "closing"
    BY <1>0, <2>1, <2>2, <2>3, <2>4 DEF CallOK
  <2>5. CASE to = "recording"
    <3>1. /\ x.read.status = "accepted" /\ x.read.acceptedAt <= v.at
          /\ asg[w].acceptedAt = x.read.acceptedAt
      BY <1>0, <2>1, <2>2, <2>5 DEF CallOK, Kept
    <3>2. replay \in [Work -> Nat] /\ asg[w].acceptedAt \in Nat
      BY <1>0, RowFields DEF IInv, TypeInv, TypeOK
    <3>3. FreshFor(w, x.read, v)
      BY <1>0, <2>1, <3>1, <3>2 DEF FreshReplay, FreshFor
    <3> QED BY <2>1, <2>3, <2>5, <3>1, <3>3 DEF CallOK, FreshFor
  <2> QED BY <2>4, <2>5
<1>6. CASE Record(c) /\ ~ End(c)
  <2>1. Become(c, "raced")
    BY <1>6 DEF Record
  <2> QED BY <1>p, <2>1, BecomeCall, FreeCall DEF Free
<1>7. CASE ReadWinner(c) /\ ~ End(c)
  <2>1. att' = att /\ att[w] = v /\ Become(c, "closing")
    BY <1>7 DEF ReadWinner, Check, desk
  <2>2. call'[c].phase = "closing" /\ call'[c].work = w /\ call'[c].verdict = v
    BY <1>p, <2>1, BecomeCall
  <2> QED BY <2>1, <2>2 DEF CallOK
<1>10. CASE CloseHistory(c) /\ ~ End(c)
  <2>1. /\ att' = att /\ x.phase = "closing_history" /\ Become(c, "closing_write")
    BY <1>10 DEF CloseHistory, Check, desk
  <2>2. att[w] = v /\ x.read.status = "accepted"
    BY <1>0, <2>1 DEF CallOK
  <2>3. /\ call'[c].phase = "closing_write" /\ call'[c].read = x.read
        /\ call'[c].work = w /\ call'[c].verdict = v
    BY <1>p, <2>1, BecomeCall
  <2> QED BY <2>1, <2>2, <2>3 DEF CallOK
<1>8. CASE Close(c) /\ ~ End(c)
  <2>1. /\ asg[w].status = "accepted" /\ att' = att /\ att[w] = v
        /\ call' = [call EXCEPT ![c].phase = "closing_history", ![c].read = asg[w]]
    BY <1>0, <1>8 DEF Close, desk, CallOK
  <2>2. /\ call'[c].phase = "closing_history" /\ call'[c].read = asg[w] /\ call'[c].work = w
        /\ call'[c].verdict = v
    <3>1. PICK row \in Row : row = asg[w]
      BY <1>0
    <3>2. Reads(c, "closing_history", row)
      BY <2>1, <3>1 DEF Reads
    <3>3. /\ call'[c].phase = "closing_history" /\ call'[c].read = row
          /\ call'[c].work = call[c].work /\ call'[c].verdict = call[c].verdict
      BY <1>p, <3>2, ReadCall
    <3> QED BY <3>1, <3>3
  <2> QED BY <2>1, <2>2 DEF CallOK
<1>9. CASE CloseWrite(c) /\ ~ End(c)
  <2>1. /\ att' = att /\ att[w] = v
        /\ call' = [call EXCEPT ![c].phase = "closing", ![c].n = x.n + 1]
    BY <1>0, <1>9 DEF CloseWrite, CallOK
  <2>2. x.n + 1 \in Nat
    BY <1>0, CallFields DEF CallsTyped
  <2>4. Counts(c, "closing", x.n + 1)
    BY <2>1 DEF Counts
  <2>3. call'[c].phase = "closing" /\ call'[c].work = w /\ call'[c].verdict = v
    BY <1>p, <2>2, <2>4, CountCall
  <2> QED BY <2>1, <2>3 DEF CallOK
<1> QED
  BY <1>1, <1>2, <1>3, <1>4, <1>5, <1>6, <1>7, <1>8, <1>9, <1>10 DEF AttestStep

LEMMA CallsStep ==
  ASSUME IInv, [Next]_vars
  PROVE  CallsTyped' /\ Calls'
<1>1. TypeInv /\ CallsTyped /\ now' >= now /\ now \in Nat /\ now' \in Nat
  BY OutsideGrows DEF IInv, TypeInv, TypeOK
<1>2. CASE call' = call
  <2>1. CallsTyped'
    BY <1>1, <1>2 DEF CallsTyped, Typed
  <2> QED BY <1>2, <2>1, CallKept DEF Calls
<1>3. CASE \E c \in Callers : Request(c) \/ RequestStep(c) \/ Abandon(c)
  <2>1. PICK c \in Callers : Request(c) \/ RequestStep(c) \/ Abandon(c)
    BY <1>3
  <2>2. Typed(call'[c], now') /\ Others(c) /\ call' \in [Callers -> Call]
    BY <1>1, <2>1, RequestTyped, StepTyped
  <2>3. CallOK(call[c])'
    BY <2>1, RequestOK, DeskCallOK, AttestCallOK DEF RequestStep
  <2>4. \A d \in Callers \ {c} : call'[d] = call[d]
    BY <2>2 DEF Others
  <2>5. ASSUME NEW d \in Callers
        PROVE  Typed(call'[d], now')
    <3>1. Typed(call[d], now)
      BY <1>1 DEF CallsTyped
    <3>2. CASE d # c
      BY <1>1, <2>4, <3>1, <3>2 DEF Typed
    <3> QED BY <2>2, <3>2
  <2>6. CallsTyped'
    BY <2>2, <2>5 DEF CallsTyped
  <2>7. Calls'
    BY <2>3, <2>4, CallKept DEF Calls
  <2> QED BY <2>6, <2>7
<1> QED
  BY <1>2, <1>3, Frames

-----------------------------------------------------------------------------
(* The open reviews of a Person: only a Person with room gets one more.    *)
LEMMA FewerOpen ==
  ASSUME IInv, NEW p \in Persons, ActiveOf(p)' \subseteq ActiveOf(p)
  PROVE  Capacity(p)'
<1>1. IsFiniteSet(ActiveOf(p)) /\ Cardinality(ActiveOf(p)) <= MaxActive
  BY DEF IInv, Capacities, Capacity
<1>2. /\ IsFiniteSet(ActiveOf(p)') /\ Cardinality(ActiveOf(p)') <= Cardinality(ActiveOf(p))
      /\ Cardinality(ActiveOf(p)') \in Nat /\ Cardinality(ActiveOf(p)) \in Nat
  BY <1>1, FS_Subset, FS_CardinalityType
<1> QED
  BY <1>1, <1>2 DEF Capacity

LEMMA OneMoreOpen ==
  ASSUME IInv, NEW w \in Work, HasCapacity(w.person),
         ActiveOf(w.person)' \subseteq ActiveOf(w.person) \cup {w}
  PROVE  Capacity(w.person)'
<1> DEFINE old == ActiveOf(w.person)
           new == ActiveOf(w.person)'
<1>1. IsFiniteSet(old) /\ Cardinality(old) < MaxActive /\ Cardinality(old) \in Nat
  BY FS_CardinalityType DEF IInv, Capacities, Capacity, HasCapacity, Work
<1> HIDE DEF old
<1>2. /\ IsFiniteSet(old \cup {w}) /\ Cardinality(old \cup {w}) \in Nat
      /\ Cardinality(old \cup {w}) <= Cardinality(old) + 1
  <2>1. /\ IsFiniteSet(old \cup {w})
        /\ Cardinality(old \cup {w}) = Cardinality(old) \/ Cardinality(old \cup {w}) = Cardinality(old) + 1
    BY <1>1, FS_AddElement
  <2> QED BY <1>1, <2>1
<1> HIDE DEF new
<1>3. new \subseteq old \cup {w}
  BY DEF old, new
<1>4. IsFiniteSet(new) /\ Cardinality(new) <= Cardinality(old \cup {w}) /\ Cardinality(new) \in Nat
  BY <1>2, <1>3, FS_Subset, FS_CardinalityType
<1>5. IsFiniteSet(new) /\ Cardinality(new) <= MaxActive
  BY <1>1, <1>2, <1>4
<1> QED
  BY <1>5 DEF Capacity, new

LEMMA CapacitiesStep ==
  ASSUME IInv, [Next]_vars
  PROVE  Capacities'
<1>1. ASSUME NEW w \in Work, Opens(w)
      PROVE  Capacities'
  <2>1. PICK row \in Row : Opened(w, row) /\ Write(w, row)
    BY <1>1 DEF Opens
  <2>2. \A u \in Work \ {w} : asg'[u] = asg[u]
    BY <2>1, WriteFields DEF IInv
  <2>3. ActiveOf(w.person)' \subseteq ActiveOf(w.person) \cup {w}
    BY <2>2 DEF ActiveOf
  <2>4. \A p \in Persons \ {w.person} : ActiveOf(p)' \subseteq ActiveOf(p)
    BY <2>2 DEF ActiveOf
  <2> QED BY <2>1, <2>3, <2>4, OneMoreOpen, FewerOpen DEF Opened, Capacities
<1>2. ASSUME NEW w \in Work, Decides(w) \/ Closes(w)
      PROVE  Capacities'
  <2>1. PICK row \in Row : Write(w, row)
    <3>1. asg[w] \in Row
      BY DEF IInv, TypeInv, TypeOK
    <3> QED BY <1>2, <3>1, MovedFields, EndedFields DEF Decides, Closes
  <2>2. asg[w].status \in Active
    BY <1>2, ActiveStatuses DEF Decides, Closes
  <2>3. \A u \in Work \ {w} : asg'[u] = asg[u]
    BY <2>1, WriteFields DEF IInv
  <2>4. \A p \in Persons : ActiveOf(p)' \subseteq ActiveOf(p)
    BY <2>2, <2>3 DEF ActiveOf
  <2> QED BY <2>4, FewerOpen DEF Capacities
<1>3. CASE UNCHANGED desk
  <2>1. \A p \in Persons : ActiveOf(p)' \subseteq ActiveOf(p)
    BY <1>3 DEF ActiveOf, desk
  <2> QED BY <2>1, FewerOpen DEF Capacities
<1> QED
  BY <1>1, <1>2, <1>3, DeskStep

-----------------------------------------------------------------------------
(* The market: a job, its log and its claim.                               *)
LEMMA JobsKept ==
  ASSUME IInv, UNCHANGED market, \A u \in Work : asg'[u].via = asg[u].via
  PROVE  Jobs'
BY DEF IInv, Jobs, JobOK, HoldsJob, market

LEMMA PublishesJob ==
  ASSUME IInv, NEW c \in Callers, PublishNext(c)
  PROVE  \E j \in Job : /\ jobs' = jobs \cup {j}
                        /\ jobLog' = [jobLog EXCEPT ![j] = Published(j)]
                        /\ claimant' = claimant /\ asg' = asg
<1> DEFINE j == [bundle |-> call[c].work.bundle, claim |-> ClaimOrder[call[c].n + 1]]
<1>1. Typed(call[c], now) /\ call[c].work \in Work /\ call[c].n \in Nat
  BY AtHand, CallFields DEF PublishNext
<1>2. call[c].n < Len(ClaimOrder)
  BY <1>1 DEF PublishNext, Typed
<1>3. call[c].n + 1 \in 1..Len(ClaimOrder)
  BY <1>1, <1>2, ClaimTypesTyped
<1>4. j \in Job
  BY <1>1, <1>3, ClaimTypesTyped DEF Job, Work
<1> QED
  BY <1>4 DEF PublishNext, desk

LEMMA PublishedJob ==
  ASSUME IInv, NEW c \in Callers, PublishNext(c)
  PROVE  Jobs'
<1>1. PICK j \in Job : /\ jobs' = jobs \cup {j}
                       /\ jobLog' = [jobLog EXCEPT ![j] = Published(j)]
                       /\ claimant' = claimant /\ asg' = asg
  BY PublishesJob
<1>2. jobLog \in [Job -> Seq({"published", "claimed"})]
  BY DEF IInv, TypeInv, TypeOK
<1>3. JobOK(j)'
  <2>1. JobOK(j)
    BY DEF IInv, Jobs
  <2>2. j \in jobs' /\ jobLog'[j] = Published(j)
    BY <1>1, <1>2
  <2>3. CASE j \in jobs
    BY <1>1, <2>1, <2>2, <2>3 DEF JobOK, Published
  <2>4. CASE j \notin jobs
    BY <1>1, <2>1, <2>2, <2>4 DEF JobOK, Published
  <2> QED BY <2>3, <2>4
<1>4. \A i \in Job \ {j} : JobOK(i)'
  BY <1>1, <1>2 DEF IInv, Jobs, JobOK
<1>5. \A w \in Work : HoldsJob(w)'
  BY <1>1 DEF IInv, Jobs, HoldsJob
<1> QED
  BY <1>3, <1>4, <1>5 DEF Jobs

LEMMA ClaimedJob ==
  ASSUME IInv, NEW c \in Callers, ClaimBatch(c)
  PROVE  Jobs'
<1>0. PICK w \in Work : w = call[c].work
  BY AtHand DEF ClaimBatch
<1> DEFINE t == call[c].at
           j == JobOf(w)
           row == [status |-> "accepted", via |-> "market",
                   assignedAt |-> t, acceptedAt |-> t, endedAt |-> 0]
<1>1. CASE UNCHANGED <<asg, claimant, jobLog>>
  BY <1>1, JobsKept DEF ClaimBatch, market
<1>2. CASE /\ Claimable(w, t) /\ asg' = [asg EXCEPT ![w] = row]
           /\ claimant' = [claimant EXCEPT ![j] = w.person]
           /\ jobLog' = [jobLog EXCEPT ![j] = Append(@, "claimed")]
  <2>1. /\ w \in Work /\ w.person \in Persons /\ w.person # Nobody /\ j \in Job /\ j \in jobs
        /\ claimant[j] = Nobody /\ jobs' = jobs
    BY <1>0, <1>2, AtHand, JobTyped DEF ClaimBatch, CallOK, Claimable, Work
  <2>2. jobLog[j] = <<"published">>
    BY <2>1 DEF IInv, Jobs, JobOK
  <2>3. /\ asg \in [Work -> Row] /\ claimant \in [Job -> Persons \cup {Nobody}]
        /\ jobLog \in [Job -> Seq({"published", "claimed"})]
    BY DEF IInv, TypeInv, TypeOK
  <2>4. /\ claimant'[j] = w.person /\ jobLog'[j] = Append(<<"published">>, "claimed")
        /\ \A i \in Job \ {j} : claimant'[i] = claimant[i] /\ jobLog'[i] = jobLog[i]
    BY <1>2, <2>1, <2>2, <2>3
  <2>5. Append(<<"published">>, "claimed") = <<"published", "claimed">>
    BY "published" \in {"published", "claimed"}, "claimed" \in {"published", "claimed"},
       SecondEntry
  <2>6. JobOK(j)'
    BY <2>1, <2>4, <2>5 DEF JobOK
  <2>7. \A i \in Job \ {j} : JobOK(i)'
    BY <2>1, <2>4 DEF IInv, Jobs, JobOK
  <2>8. asg'[w].via = "market" /\ \A u \in Work \ {w} : asg'[u] = asg[u]
    BY <1>2, <2>1, <2>3
  <2>9. ASSUME NEW u \in Work
        PROVE  HoldsJob(u)'
    <3>1. JobOf(u) \in Job /\ u.person \in Persons /\ HoldsJob(u)
      BY JobTyped DEF Work, IInv, Jobs
    <3>2. CASE u = w
      BY <2>4, <2>8, <3>2 DEF HoldsJob
    <3>3. CASE u # w /\ JobOf(u) = j
      <4>1. u.person # w.person
        BY <2>1, <3>3 DEF JobOf, Work
      <4>2. asg[u].via # "market"
        BY <2>1, <3>1, <3>3 DEF HoldsJob
      <4> QED BY <2>4, <2>8, <3>3, <4>1, <4>2 DEF HoldsJob
    <3>4. CASE u # w /\ JobOf(u) # j
      BY <2>4, <2>8, <3>1, <3>4 DEF HoldsJob
    <3> QED BY <3>2, <3>3, <3>4
  <2> QED BY <2>6, <2>7, <2>9 DEF Jobs
<1> QED
  BY <1>0, <1>1, <1>2 DEF ClaimBatch

LEMMA AssignedJob ==
  ASSUME IInv, NEW c \in Callers, AssignBatch(c)
  PROVE  Jobs'
<1> DEFINE w == call[c].work
           row == [NoRow EXCEPT !.status = "assigned", !.via = "direct",
                                !.assignedAt = call[c].at]
<1>1. CASE UNCHANGED asg
  BY <1>1, JobsKept DEF AssignBatch
<1>2. CASE asg[w].status = "none" /\ asg' = [asg EXCEPT ![w] = row]
  <2>1. w \in Work /\ RowOK(w) /\ asg \in [Work -> Row]
    BY AtHand DEF AssignBatch, IInv, TypeInv, TypeOK
  <2>2. row.via = "direct"
    BY DEF NoRow
  <2>3. asg[w].via = "none"
    BY <1>2, <2>1 DEF RowOK
  <2> HIDE DEF row
  <2>4. asg'[w].via = "direct" /\ \A u \in Work \ {w} : asg'[u] = asg[u]
    BY <1>2, <2>1, <2>2
  <2>5. \A u \in Work : asg'[u].via = "market" <=> asg[u].via = "market"
    BY <2>3, <2>4
  <2> QED BY <2>5 DEF AssignBatch, market, IInv, Jobs, JobOK, HoldsJob
<1> QED
  BY <1>1, <1>2 DEF AssignBatch

LEMMA JobsStep ==
  ASSUME IInv, [Next]_vars
  PROVE  Jobs'
<1>1. CASE \E c \in Callers : PublishNext(c) \/ ClaimBatch(c) \/ AssignBatch(c)
  BY <1>1, PublishedJob, ClaimedJob, AssignedJob
<1>2. CASE ~ \E c \in Callers : PublishNext(c) \/ ClaimBatch(c) \/ AssignBatch(c)
  <2>1. UNCHANGED market
    BY <1>2, Frames DEF market
  <2>2. CASE \E w \in Work : Decides(w) \/ Closes(w)
    <3>1. PICK w \in Work : Decides(w) \/ Closes(w)
      BY <2>2
    <3>2. asg[w] \in Row
      BY DEF IInv, TypeInv, TypeOK
    <3>3. PICK row \in Row : row.via = asg[w].via /\ Write(w, row)
      <4>1. CASE Decides(w)
        <5>1. PICK to \in {"accepted", "declined"}, t \in Nat : Write(w, Moved(asg[w], to, t))
          BY <4>1 DEF Decides
        <5>2. Moved(asg[w], to, t) \in Row /\ Moved(asg[w], to, t).via = asg[w].via
          BY ONLY to \in {"accepted", "declined"}, t \in Nat, <3>2, MovedFields
        <5> QED BY <5>1, <5>2
      <4>2. CASE Closes(w)
        BY <3>2, <4>2, EndedFields DEF Closes
      <4> QED BY <3>1, <4>1, <4>2
    <3>4. \A u \in Work : asg'[u].via = asg[u].via
      BY <3>3, WriteFields DEF IInv
    <3> QED BY <2>1, <3>4, JobsKept
  <2>3. CASE UNCHANGED asg
    BY <2>1, <2>3, JobsKept
  <2>4. UNCHANGED asg \/ \E w \in Work : Decides(w) \/ Closes(w)
    <3>1. CASE \E c \in Callers : Move(c) \/ Record(c) \/ CloseWrite(c)
      <4>1. PICK c \in Callers : Move(c) \/ Record(c) \/ CloseWrite(c)
        BY <3>1
      <4>2. call[c].work \in Work
        BY <4>1, AtHand DEF Move, Record, CloseWrite
      <4> QED BY <4>1, <4>2, MoveDecides, RecordCloses, CloseWriteCloses DEF desk
    <3> QED BY <1>2, <3>1, Frames
  <2> QED BY <2>2, <2>3, <2>4
<1> QED
  BY <1>1, <1>2

-----------------------------------------------------------------------------
LEMMA TypeStep ==
  ASSUME IInv, [Next]_vars
  PROVE  TypeOK'
<1>0. TypeOK
  BY DEF IInv, TypeInv
<1>1. now' \in Nat /\ replay' \in [Work -> Nat]
  BY OutsideGrows DEF IInv
<1>2. pool' \in PoolStates
  BY <1>0, Frames DEF TypeOK, PoolMoves
<1>3. proved' \subseteq Bundles
  BY <1>0, Frames DEF TypeOK, Prove
<1>4. /\ asg' \in [Work -> Row] /\ log' \in [Work -> Seq(Entry)]
      /\ att' \in [Work -> Verdict \cup {NoVerdict}]
  BY RowsStep DEF DeskOK
<1>5. authority' \in [Persons -> Authority]
  <2>1. ASSUME NEW p \in Persons, NEW a \in Revocations, Revoke(p, a)
        PROVE  authority' \in [Persons -> Authority]
    <3>1. a \in Authority
      BY MarketAssumption DEF Authority
    <3> QED BY <1>0, <2>1, <3>1 DEF TypeOK, Revoke
  <2> QED BY <1>0, <2>1, Frames DEF TypeOK, Work
<1>6. call' \in [Callers -> Call]
  BY CallsStep DEF CallsTyped
<1>7. /\ jobs' \subseteq Job /\ jobLog' \in [Job -> Seq({"published", "claimed"})]
      /\ claimant' \in [Job -> Persons \cup {Nobody}]
  <2>1. ASSUME NEW c \in Callers, PublishNext(c)
        PROVE  /\ jobs' \subseteq Job /\ claimant' = claimant
               /\ jobLog' \in [Job -> Seq({"published", "claimed"})]
    <3>1. PICK j \in Job : /\ jobs' = jobs \cup {j} /\ claimant' = claimant
                           /\ jobLog' = [jobLog EXCEPT ![j] = Published(j)]
      BY <2>1, PublishesJob
    <3>2. Published(j) \in Seq({"published", "claimed"})
      <4>1. <<"published">> \in Seq({"published", "claimed"})
        OBVIOUS
      <4>2. jobLog[j] \in Seq({"published", "claimed"})
        BY <1>0 DEF TypeOK
      <4> QED BY <4>1, <4>2 DEF Published
    <3> QED BY <1>0, <3>1, <3>2 DEF TypeOK
  <2>2. ASSUME NEW c \in Callers, ClaimBatch(c)
        PROVE  /\ jobLog' \in [Job -> Seq({"published", "claimed"})]
               /\ claimant' \in [Job -> Persons \cup {Nobody}] /\ jobs' = jobs
    <3>1. JobOf(call[c].work) \in Job /\ call[c].work.person \in Persons
      BY <2>2, AtHand, JobTyped DEF ClaimBatch, Work
    <3>2. Append(jobLog[JobOf(call[c].work)], "claimed") \in Seq({"published", "claimed"})
      BY <1>0, <3>1 DEF TypeOK
    <3> QED BY <1>0, <2>2, <3>1, <3>2 DEF TypeOK, ClaimBatch
  <2> QED BY <1>0, <2>1, <2>2, Frames DEF TypeOK
<1> QED
  BY <1>1, <1>2, <1>3, <1>4, <1>5, <1>6, <1>7 DEF TypeOK

LEMMA LegacyOK ==
  ASSUME NEW old \in SUBSET Unclosed, Legacy(old), now = 1
  PROVE  /\ asg \in [Work -> Row] /\ log \in [Work -> Seq(Entry)]
         /\ att \in [Work -> Verdict \cup {NoVerdict}] /\ replay \in [Work -> Nat]
         /\ \A w \in Work \ old : asg[w] = NoRow
         /\ \A w \in Work : asg[w].via # "market"
         /\ Rows
<1> DEFINE v1 == [decision |-> "attested", at |-> 1]
           story == AcceptedLog(AcceptedAtFirst)
<1>1. /\ AcceptedAtFirst \in Row /\ AcceptedAtFirst.status = "accepted"
      /\ AcceptedAtFirst.via = "direct"
      /\ AcceptedAtFirst.assignedAt = 1 /\ AcceptedAtFirst.acceptedAt = 1
  BY DEF AcceptedAtFirst, Row, Statuses
<1>2. v1 \in Verdict /\ v1.at = 1
  BY DEF Verdict
<1>3. ToldByRow(AcceptedAtFirst) = story /\ story \in Seq(Entry)
  BY <1>1, Story
<1>4. ToldByRow(NoRow) = << >> /\ << >> \in Seq(Entry)
  BY NoRowTyped, Story
<1>5. old \subseteq Work
  OBVIOUS
<1> HIDE DEF story
<1>6. /\ asg = [w \in Work |-> IF w \in old THEN AcceptedAtFirst ELSE NoRow]
      /\ log = [w \in Work |-> IF w \in old THEN story ELSE << >>]
      /\ att = [w \in Work |-> IF w \in old THEN v1 ELSE NoVerdict]
      /\ replay = [w \in Work |-> IF w \in old THEN 1 ELSE 0]
  BY DEF Legacy, story
<1> HIDE DEF v1
<1>7. /\ asg \in [Work -> Row] /\ log \in [Work -> Seq(Entry)]
      /\ att \in [Work -> Verdict \cup {NoVerdict}] /\ replay \in [Work -> Nat]
  BY <1>1, <1>2, <1>3, <1>4, <1>6, NoRowTyped
<1>8. ASSUME NEW w \in old
      PROVE  RowOK(w) /\ asg[w].via = "direct"
  <2>1. w \in Work /\ w \in Unclosed
    BY <1>5
  <2>2. asg[w] = AcceptedAtFirst /\ log[w] = story /\ att[w] = v1 /\ replay[w] = 1
    BY <1>6, <2>1
  <2>3. InOrder(asg[w])
    BY <1>1, <2>2 DEF InOrder
  <2>4. Attested(w, asg[w], att[w])
    BY <1>1, <1>2, <2>1, <2>2 DEF Attested, FreshFor
  <2> QED BY <1>1, <1>3, <2>2, <2>3, <2>4 DEF RowOK
<1>9. ASSUME NEW w \in Work \ old
      PROVE  RowOK(w) /\ asg[w] = NoRow
  <2>1. asg[w] = NoRow /\ log[w] = << >> /\ att[w] = NoVerdict
    BY <1>6
  <2> QED BY <1>4, <2>1, NoRowTyped DEF RowOK, InOrder
<1> QED
  BY <1>7, <1>8, <1>9, NoRowTyped DEF Rows

LEMMA InitIInv == Init => IInv
<1> SUFFICES ASSUME Init PROVE IInv
  OBVIOUS
<1>1. PICK old \in SUBSET Unclosed : Legacy(old)
  BY DEF Init
<1>2. /\ asg \in [Work -> Row] /\ log \in [Work -> Seq(Entry)]
      /\ att \in [Work -> Verdict \cup {NoVerdict}] /\ replay \in [Work -> Nat]
      /\ \A w \in Work \ old : asg[w] = NoRow
      /\ \A w \in Work : asg[w].via # "market"
      /\ Rows
  BY <1>1, LegacyOK DEF Init
<1>3. TypeOK
  <2>1. Granted \in Authority
    BY DEF Granted, Authority
  <2>2. << >> \in Seq({"published", "claimed"})
    OBVIOUS
  <2> QED BY <1>2, <2>1, <2>2, NoCallTyped DEF Init, TypeOK, PoolStates
<1>4. CallsTyped /\ Calls
  <2>1. /\ call \in [Callers -> Call]
        /\ \A c \in Callers : call[c] = NoCall
    BY NoCallTyped DEF Init
  <2>2. \A c \in Callers : Typed(call[c], now) /\ CallOK(call[c])
    BY <2>1, NoCallTyped DEF Typed, CallOK, Attesting
  <2> QED BY <2>1, <2>2 DEF CallsTyped, Calls
<1>5. ASSUME NEW p \in Persons
      PROVE  Capacity(p)
  <2> DEFINE before == {w \in Unclosed : w.person = p}
  <2>1. IsFiniteSet(before) /\ Cardinality(before) <= MaxActive
    BY DEF MarketAssumption
  <2>2. "none" \notin Active
    BY DEF Active
  <2>3. ActiveOf(p) \subseteq before
    BY <1>2, <2>2, NoRowTyped DEF ActiveOf
  <2> HIDE DEF before
  <2>4. /\ IsFiniteSet(ActiveOf(p)) /\ Cardinality(ActiveOf(p)) <= Cardinality(before)
        /\ Cardinality(ActiveOf(p)) \in Nat /\ Cardinality(before) \in Nat
    BY <2>1, <2>3, FS_Subset, FS_CardinalityType
  <2> QED BY <2>1, <2>4 DEF Capacity
<1>6. Jobs
  <2>1. \A j \in Job : jobLog[j] = << >> /\ claimant[j] = Nobody /\ j \notin jobs
    BY DEF Init
  <2>2. \A w \in Work : JobOf(w) \in Job /\ w.person # Nobody
    BY JobTyped DEF Work
  <2> QED BY <1>2, <2>1, <2>2 DEF Jobs, JobOK, HoldsJob
<1> QED
  BY <1>2, <1>3, <1>4, <1>5, <1>6 DEF IInv, TypeInv, Capacities, Init

LEMMA NextIInv == IInv /\ [Next]_vars => IInv'
<1> SUFFICES ASSUME IInv, [Next]_vars PROVE IInv'
  OBVIOUS
<1>1. now' <= MaxTime
  BY OutsideGrows DEF IInv
<1>2. Rows'
  BY RowsStep DEF DeskOK, Rows
<1> QED
  BY <1>1, <1>2, TypeStep, CallsStep, CapacitiesStep, JobsStep
     DEF IInv, TypeInv

THEOREM Inductive == Spec => []IInv
BY InitIInv, NextIInv, PTL DEF Spec

(* Every table and every request holds what its type says, in every state. *)
THEOREM TypeCorrect == Spec => []TypeOK
<1>1. IInv => TypeOK
  BY DEF IInv, TypeInv
<1> QED
  BY <1>1, Inductive, PTL

(* However many requests count and claim or assign at the same time, no    *)
(* Person ends up with more open reviews than the alpha limit.             *)
THEOREM OpenReviews == Spec => []OpenReviewsBounded
<1>1. IInv => OpenReviewsBounded
  BY DEF IInv, Capacities, Capacity, OpenReviewsBounded
<1> QED
  BY <1>1, Inductive, PTL

(* A market claim is all there or not at all.                              *)
THEOREM WholeClaims == Spec => []ClaimsWhole
<1>1. IInv => ClaimsWhole
  BY DEF IInv, Jobs, JobOK, HoldsJob, ClaimsWhole
<1> QED
  BY <1>1, Inductive, PTL

(* The row and the log of an assignment tell the same story, in the order  *)
(* of time.                                                                *)
THEOREM OneStory == Spec => []LogTellsRow
<1>1. IInv => LogTellsRow
  <2> SUFFICES ASSUME IInv, NEW w \in Work
               PROVE  /\ log[w] = ToldByRow(asg[w])
                      /\ \A i \in 2..Len(log[w]) : log[w][i - 1].at <= log[w][i].at
    BY DEF LogTellsRow
  <2> DEFINE row == asg[w]
  <2>1. row \in Row /\ log[w] = ToldByRow(row) /\ InOrder(row)
    BY DEF IInv, TypeInv, TypeOK, Rows, RowOK
  <2>2. /\ row.assignedAt \in Nat /\ row.acceptedAt \in Nat /\ row.endedAt \in Nat
        /\ row.status \in Statuses
    BY <2>1, RowFields
  <2> HIDE DEF row
  <2>3. CASE row.status \in {"none", "assigned"}
    <3>1. Len(log[w]) \in {0, 1}
      BY <2>1, <2>3, Story
    <3> QED BY <2>1, <3>1 DEF row
  <2>4. CASE row.status \in {"accepted", "declined"}
    <3>1. /\ Len(log[w]) = 2 /\ log[w][1].at = row.assignedAt
          /\ row.status = "accepted" => log[w][2].at = row.acceptedAt
          /\ row.status = "declined" => log[w][2].at = row.endedAt
      BY <2>1, <2>2, <2>4 DEF ToldByRow, AcceptedLog, Event
    <3>2. log[w][1].at <= log[w][2].at
      BY <2>1, <2>4, <3>1 DEF InOrder
    <3> QED BY <2>1, <3>1, <3>2 DEF row
  <2>5. CASE row.status = "completed"
    <3> DEFINE first == AcceptedLog(row)
               last == Event("attested", row.endedAt)
    <3>1. first \in Seq(Entry) /\ last \in Entry
      BY <2>2, EntryTyped DEF AcceptedLog
    <3>2. /\ Len(first) = 2 /\ first[1].at = row.assignedAt /\ first[2].at = row.acceptedAt
          /\ last.at = row.endedAt
      BY <2>2 DEF AcceptedLog, Event
    <3> HIDE DEF first, last
    <3>3. log[w] = Append(first, last)
      BY <2>1, <2>5 DEF ToldByRow, first, last
    <3>4. /\ Len(log[w]) = 3
          /\ log[w][1] = first[1] /\ log[w][2] = first[2] /\ log[w][3] = last
      <4>1. /\ Len(Append(first, last)) = Len(first) + 1
            /\ \A i \in 1..Len(first) : Append(first, last)[i] = first[i]
            /\ Append(first, last)[Len(first) + 1] = last
        BY <3>1, AppendProperties
      <4> QED BY <3>2, <3>3, <4>1
    <3>5. log[w][1].at <= log[w][2].at /\ log[w][2].at <= log[w][3].at
      BY <2>1, <2>5, <3>2, <3>4 DEF InOrder
    <3> QED BY <2>1, <3>4, <3>5 DEF row
  <2> QED BY <2>2, <2>3, <2>4, <2>5 DEF Statuses
<1> QED
  BY <1>1, Inductive, PTL

(* A verdict and the end of its review come together, and a positive one   *)
(* rests on a fresh replay.                                                *)
THEOREM VerdictsClose == Spec => []VerdictCloses
<1>1. IInv => VerdictCloses
  <2> SUFFICES ASSUME IInv, NEW w \in Work
               PROVE  /\ asg[w].status = "completed" =>
                           att[w] # NoVerdict /\ att[w].at = asg[w].endedAt
                      /\ att[w] # NoVerdict /\ w \notin Unclosed =>
                           asg[w].status = "completed"
                      /\ ReplayBacks(w)
    BY DEF VerdictCloses
  <2>1. RowOK(w)
    BY DEF IInv, Rows
  <2>2. att[w].decision = "attested" => att[w] # NoVerdict
    BY VerdictFields
  <2> QED BY <2>1, <2>2 DEF RowOK, Attested, FreshFor, ReplayBacks
<1> QED
  BY <1>1, Inductive, PTL

-----------------------------------------------------------------------------
(* The refinement: the stores keep the promise of ReviewLedger.            *)
standingOf == [w \in Work |-> Standing(asg[w])]
verdictOf == [w \in Work |-> IF asg[w].status = "completed" THEN att[w] ELSE NoVerdict]

LEMMA StandingIs ==
  ASSUME NEW row \in Row
  PROVE  /\ Standing(row) \in {"none", "open", "declined", "closed"}
         /\ row.status = "none" <=> Standing(row) = "none"
         /\ row.status \in Active <=> Standing(row) = "open"
         /\ row.status = "declined" <=> Standing(row) = "declined"
         /\ row.status = "completed" <=> Standing(row) = "closed"
BY RowFields, ActiveStatuses DEF Standing, Statuses

LEMMA LedgerWork == Ledger!Work = Work
BY DEF Ledger!Work, Work

(* The ledger counts with an instance of FiniteSets of its own.            *)
LEMMA LedgerCounts == \A S : Ledger!Cardinality(S) = Cardinality(S)
BY Zenon DEF Ledger!Cardinality, Cardinality

LEMMA LedgerOpen ==
  ASSUME IInv, NEW p \in Persons
  PROVE  Ledger!OpenOf(p) = ActiveOf(p)
<1>1. \A w \in Work : standingOf[w] = "open" <=> asg[w].status \in Active
  BY StandingIs DEF standingOf, IInv, TypeInv, TypeOK
<1> QED
  BY <1>1, LedgerWork DEF Ledger!OpenOf, ActiveOf, standingOf

LEMMA StandingWrite ==
  ASSUME IInv, NEW w \in Work, NEW row \in Row, Write(w, row)
  PROVE  standingOf' = [standingOf EXCEPT ![w] = Standing(row)]
<1>1. asg'[w] = row /\ \A u \in Work \ {w} : asg'[u] = asg[u]
  BY WriteFields DEF IInv
<1>2. standingOf' = [u \in Work |-> Standing(asg'[u])]
  BY DEF standingOf, Standing, Active
<1>3. \A u \in Work : Standing(asg'[u]) = IF u = w THEN Standing(row) ELSE Standing(asg[u])
  BY <1>1
<1> QED
  BY <1>2, <1>3 DEF standingOf

LEMMA VerdictKept ==
  ASSUME IInv, NEW w \in Work, NEW row \in Row, Write(w, row), att' = att,
         asg[w].status # "completed", row.status # "completed"
  PROVE  verdictOf' = verdictOf
<1>1. asg'[w] = row /\ \A u \in Work \ {w} : asg'[u] = asg[u]
  BY WriteFields DEF IInv
<1>2. \A u \in Work : asg'[u].status = "completed" <=> asg[u].status = "completed"
  BY <1>1
<1> QED
  BY <1>2 DEF verdictOf

LEMMA TakesReview ==
  ASSUME IInv, NEW w \in Work, Opens(w)
  PROVE  Ledger!Take(w)
<1>1. PICK row \in Row : Opened(w, row) /\ Write(w, row) /\ att' = att
  BY DEF Opens
<1>2. asg[w] \in Row /\ w.person \in Persons
  BY DEF IInv, TypeInv, TypeOK, Work
<1>3. /\ asg[w].status = "none" /\ row.status \in Active /\ Independent(w)
      /\ HasCapacity(w.person)
  BY <1>1 DEF Opened
<1>4. standingOf[w] = "none" /\ Standing(row) = "open"
  BY <1>2, <1>3, StandingIs DEF standingOf
<1>5. standingOf' = [standingOf EXCEPT ![w] = "open"]
  BY <1>1, <1>4, StandingWrite
<1>6. row.status # "completed"
  BY <1>3, ActiveStatuses
<1>7. verdictOf' = verdictOf
  BY <1>1, <1>3, <1>6, VerdictKept
<1>8. Cardinality(Ledger!OpenOf(w.person)) < MaxActive
  BY <1>2, <1>3, LedgerOpen DEF HasCapacity
<1>9. w.person # OwnerOf[w.bundle]
  BY <1>3 DEF Independent
<1>10. Ledger!Cardinality(Ledger!OpenOf(w.person)) < MaxActive
  BY <1>8, LedgerCounts
<1> QED
  BY <1>4, <1>5, <1>7, <1>9, <1>10 DEF Ledger!Take, standingOf, verdictOf

LEMMA DecidesReview ==
  ASSUME IInv, NEW w \in Work, Decides(w)
  PROVE  Ledger!Refuse(w) \/ UNCHANGED <<standingOf, verdictOf>>
<1>1. PICK to \in {"accepted", "declined"}, t \in Nat :
        /\ asg[w].status = "assigned" /\ Write(w, Moved(asg[w], to, t)) /\ att' = att
  BY DEF Decides
<1>2. PICK row : row = Moved(asg[w], to, t)
  OBVIOUS
<1>3. asg[w] \in Row
  BY DEF IInv, TypeInv, TypeOK
<1>4. row \in Row /\ row.status = to
  BY ONLY to \in {"accepted", "declined"}, t \in Nat, <1>2, <1>3, MovedFields
<1>5. /\ standingOf' = [standingOf EXCEPT ![w] = Standing(row)]
      /\ verdictOf' = verdictOf
  BY <1>1, <1>2, <1>4, StandingWrite, VerdictKept
<1>6. standingOf[w] = "open"
  BY <1>1, <1>3, ActiveStatuses, StandingIs DEF standingOf
<1>7. CASE to = "accepted"
  <2>1. Standing(row) = "open"
    BY <1>4, <1>7, ActiveStatuses, StandingIs
  <2>2. standingOf' = standingOf
    BY <1>5, <1>6, <2>1 DEF standingOf
  <2> QED BY <1>5, <2>2
<1>8. CASE to = "declined"
  <2>1. Standing(row) = "declined"
    BY <1>4, <1>8, StandingIs
  <2> QED BY <1>5, <1>6, <2>1 DEF Ledger!Refuse, standingOf, verdictOf
<1> QED
  BY <1>7, <1>8

LEMMA ClosesReview ==
  ASSUME IInv, NEW w \in Work, Closes(w)
  PROVE  \E v \in [decision: {"attested", "rejected"}, at: 1..MaxTime] : Ledger!Conclude(w, v)
<1>1. PICK v \in Verdict :
        /\ asg[w].status = "accepted" /\ v.at \in 1..now
        /\ Write(w, Ended(asg[w], v)) /\ att' = [att EXCEPT ![w] = v]
  BY DEF Closes
<1>2. PICK row : row = Ended(asg[w], v)
  OBVIOUS
<1>3. /\ asg[w] \in Row /\ att \in [Work -> Verdict \cup {NoVerdict}]
      /\ now \in Nat /\ now <= MaxTime
  BY DEF IInv, TypeInv, TypeOK
<1>4. row \in Row /\ row.status = "completed"
  BY ONLY v \in Verdict, <1>2, <1>3, EndedFields
<1>5. Standing(row) = "closed" /\ standingOf[w] = "open"
  BY <1>1, <1>3, <1>4, ActiveStatuses, StandingIs DEF standingOf
<1>6. standingOf' = [standingOf EXCEPT ![w] = "closed"]
  BY <1>1, <1>2, <1>4, <1>5, StandingWrite
<1>7. /\ asg'[w] = row /\ \A u \in Work \ {w} : asg'[u] = asg[u]
  BY <1>1, <1>2, <1>4, WriteFields DEF IInv
<1>8. verdictOf' = [verdictOf EXCEPT ![w] = v]
  BY <1>1, <1>3, <1>4, <1>7 DEF verdictOf
<1>9. v \in [decision: {"attested", "rejected"}, at: 1..MaxTime]
  BY <1>1, <1>3, MarketAssumption DEF Verdict
<1>10. Ledger!Conclude(w, v)
  BY <1>5, <1>6, <1>8 DEF Ledger!Conclude, standingOf, verdictOf
<1> QED
  BY <1>9, <1>10

LEMMA LedgerStep ==
  ASSUME IInv, [Next]_vars
  PROVE  [Ledger!Next]_<<standingOf, verdictOf>>
<1>1. CASE UNCHANGED desk
  BY <1>1 DEF desk, standingOf, verdictOf
<1>2. CASE \E w \in Work : Opens(w) \/ Decides(w) \/ Closes(w)
  <2>1. PICK w \in Work : Opens(w) \/ Decides(w) \/ Closes(w)
    BY <1>2
  <2>2. w \in Ledger!Work
    BY LedgerWork
  <2> QED
    BY <2>1, <2>2, TakesReview, DecidesReview, ClosesReview DEF Ledger!Next
<1> QED
  BY <1>1, <1>2, DeskStep

LEMMA LedgerInit == Init => Ledger!Init
<1> SUFFICES ASSUME Init PROVE Ledger!Init
  OBVIOUS
<1>1. PICK old \in SUBSET Unclosed : Legacy(old)
  BY DEF Init
<1>2. /\ asg = [w \in Work |-> IF w \in old THEN AcceptedAtFirst ELSE NoRow]
      /\ AcceptedAtFirst \in Row /\ AcceptedAtFirst.status = "accepted"
  BY <1>1 DEF Legacy, AcceptedAtFirst, Row, Statuses
<1>3. Standing(AcceptedAtFirst) = "open" /\ Standing(NoRow) = "none"
  BY <1>2, NoRowTyped, StandingIs, ActiveStatuses
<1>4. standingOf = [w \in Work |-> IF w \in old THEN "open" ELSE "none"]
  BY <1>2, <1>3 DEF standingOf
<1>5. \A w \in old : w.person # OwnerOf[w.bundle]
  BY DEF MarketAssumption
<1>6. verdictOf = [w \in Work |-> NoVerdict]
  BY <1>2, NoRowTyped DEF verdictOf
<1>7. /\ standingOf \in [Work -> {"none", "open"}]
      /\ \A w \in Work : standingOf[w] = "open" => w.person # OwnerOf[w.bundle]
  BY <1>4, <1>5
<1> QED
  BY <1>6, <1>7, LedgerWork DEF Ledger!Init, standingOf, verdictOf

(* The market and the desk together keep the promise the issuer of         *)
(* Receipts relies on.                                                     *)
THEOREM KeepsPromise == Spec => ImplementsLedger
<1>1. Init => Ledger!Init
  BY LedgerInit
<1>2. IInv /\ [Next]_vars => [Ledger!Next]_<<standingOf, verdictOf>>
  BY LedgerStep
<1> QED
  BY <1>1, <1>2, Inductive, PTL DEF Spec, ImplementsLedger, Ledger!Spec, standingOf, verdictOf
=============================================================================
