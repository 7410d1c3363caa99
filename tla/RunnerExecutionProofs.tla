------------------------ MODULE RunnerExecutionProofs ------------------------
(***************************************************************************)
(* Proofs about RunnerExecution, for any Runs, workers, requests, outputs  *)
(* and bounds.                                                             *)
(***************************************************************************)
EXTENDS HostedRunner, TLAPS

USE ExecutionAssumption, ProductAssumption, HostAssumption

-----------------------------------------------------------------------------
(* The inductive invariant *)

(* The Run was started: it runs, or it has run and has its result. *)
Begun(r) == state[r] \in Life!ActiveStates \/ outcome[r] # None

(* No delivery is needed any more, see AcknowledgedIsOver. *)
Settled(r) == Life!Over(r) \/ state[r] = "cancel_requested"

HoldsProduct == {"fencing", "storing", "replay", "recording", "publishing"}

(* What a worker may rely on in a phase, whatever others did since it came *)
(* there.                                                                  *)
Fits(w, phase) ==
  /\ phase \in HoldsProduct => worker[w].product \in Product
  /\ phase \in {"staging", "starting"} => state[Job(w)] # "queued"
  /\ phase \in Executing => Begun(Job(w))
  /\ phase = "recording" /\ Job(w) \in Replays => evidence[Job(w)] = worker[w].product
  /\ phase = "publishing" => state[Job(w)] = "succeeded"
  /\ phase = "acknowledging" => Settled(Job(w))

Grounded(w) ==
  /\ ~ At(w, "idle") =>
       /\ Job(w) \in Runs
       /\ state[Job(w)] # "absent"
       /\ worker[w].lease \in 1..issued
  /\ Fits(w, worker[w].phase)

(* A request delivers Runs that are persisted only. *)
Persisted(d) ==
  dispatch[d].phase # "idle" =>
    dispatch[d].run \in Runs /\ state[dispatch[d].run] # "absent"

(* A message is about a persisted Run. *)
MessagesPersisted == \A r \in Runs : status[r] # "absent" => state[r] # "absent"

ExecutionInv ==
  /\ TypeOK
  /\ EvidenceBacksResult
  /\ AcknowledgedIsOver
  /\ MessagesPersisted
  /\ \A d \in Dispatchers : Persisted(d)
  /\ \A w \in Workers : Grounded(w)

-----------------------------------------------------------------------------
(* The store moves forward *)

(* A product is a signed result whose status ends a Run, and None is none. *)
LEMMA ProductFacts ==
  /\ None \notin Product
  /\ \A x \in Product :
       x.status \in {"succeeded", "failed", "cancelled"} /\ x.output \in Outputs
BY DEF Product

(* A Run with a result is over: the result's status is its state. *)
LEMMA ResultEndsRun ==
  ASSUME TypeOK, EvidenceBacksResult
  PROVE  \A r \in Runs : outcome[r] # None => Life!Over(r)
<1>. TAKE r \in Runs
<1>. SUFFICES ASSUME outcome[r] # None PROVE Life!Over(r)
  OBVIOUS
<1>1. outcome[r] \in Product
  BY DEF TypeOK, Life!LifecycleTypeOK
<1>2. state[r] = outcome[r].status
  BY DEF EvidenceBacksResult
<1>. QED
  BY <1>1, <1>2, ProductFacts DEF Life!Over, Life!RunnerStatuses

(* What no step takes back about a Run. *)
Forward(r) ==
  /\ state[r] # "absent" => state'[r] # "absent"
  /\ state[r] \notin {"absent", "queued"} => state'[r] \notin {"absent", "queued"}
  /\ Begun(r) => Begun(r)'
  /\ Settled(r) => Settled(r)'
  /\ Life!Over(r) => state'[r] = state[r] /\ outcome'[r] = outcome[r]

(* The steps of RunLifecycle go forward. *)
LEMMA MovesForward ==
  ASSUME TypeOK, EvidenceBacksResult, NEW r \in Runs,
         \/ Life!Queue(r) \/ Life!Prepare(r) \/ Life!Start(r) \/ Life!Cancel(r)
         \/ \E x \in Product : Life!Record(r, x)
  PROVE  /\ \A q \in Runs : Forward(q)
         /\ Life!LifecycleTypeOK'
<1>. USE DEF Life!Over, Life!RunnerStatuses, Life!ActiveStates, Begun, Settled, Forward
<1>1. /\ state \in [Runs -> Life!States]
      /\ outcome \in [Runs -> Product \cup {None}]
  BY DEF TypeOK, Life!LifecycleTypeOK
<1>2. \A q \in Runs : outcome[q] # None => state[q] \in Life!RunnerStatuses
  BY ResultEndsRun
<1>3. ASSUME NEW from, NEW to \in Life!States, Life!Move(r, from, to),
             from \cap Life!RunnerStatuses = {},
             to \notin {"absent"}, to = "queued" => from = {"absent"},
             "running" \in from => from = {"running"} /\ to = "cancel_requested",
             "cancel_requested" \notin from
      PROVE  (\A q \in Runs : Forward(q)) /\ Life!LifecycleTypeOK'
  <2>1. /\ state[r] \in from
        /\ state' = [state EXCEPT ![r] = to]
        /\ outcome' = outcome
    BY <1>3 DEF Life!Move
  <2>2. Life!LifecycleTypeOK'
    BY <1>1, <1>3, <2>1 DEF Life!LifecycleTypeOK
  <2>3. state[r] \notin Life!RunnerStatuses
    BY <1>3, <2>1
  <2>4. Forward(r)
    BY <1>1, <1>2, <1>3, <2>1, <2>3
  <2>5. \A q \in Runs : q # r => Forward(q)
    BY <1>1, <2>1
  <2>. QED
    BY <2>2, <2>4, <2>5
<1>4. CASE Life!Queue(r)
  <2>1. Life!Move(r, {"absent"}, "queued")
    BY <1>4 DEF Life!Queue
  <2>. QED
    BY <1>3, <2>1 DEF Life!States
<1>5. CASE Life!Prepare(r)
  <2>1. Life!Move(r, {"queued"}, "preparing")
    BY <1>5 DEF Life!Prepare
  <2>. QED
    BY <1>3, <2>1 DEF Life!States
<1>6. CASE Life!Start(r)
  <2>1. Life!Move(r, {"preparing"}, "running")
    BY <1>6 DEF Life!Start
  <2>. QED
    BY <1>3, <2>1 DEF Life!States
<1>7. CASE Life!CancelAtOnce(r)
  <2>1. Life!Move(r, {"queued", "preparing"}, "cancelled")
    BY <1>7 DEF Life!CancelAtOnce
  <2>. QED
    BY <1>3, <2>1 DEF Life!States
<1>8. CASE Life!CancelRequest(r)
  <2>1. Life!Move(r, {"running"}, "cancel_requested")
    BY <1>8 DEF Life!CancelRequest
  <2>. QED
    BY <1>3, <2>1 DEF Life!States
<1>9. ASSUME NEW x \in Product, Life!Record(r, x)
      PROVE  (\A q \in Runs : Forward(q)) /\ Life!LifecycleTypeOK'
  <2>1. /\ state[r] \in Life!ActiveStates
        /\ state' = [state EXCEPT ![r] = x.status]
        /\ outcome' = [outcome EXCEPT ![r] = x]
    BY <1>9 DEF Life!Record, Life!Recordable, StatusIn
  <2>2. x.status \in Life!RunnerStatuses
    BY ProductFacts
  <2>3. Life!LifecycleTypeOK'
    BY <1>1, <2>1, <2>2 DEF Life!LifecycleTypeOK, Life!States
  <2>4. Forward(r)
    BY <1>1, <2>1, <2>2, ProductFacts
  <2>5. \A q \in Runs : q # r => Forward(q)
    BY <1>1, <2>1
  <2>. QED
    BY <2>3, <2>4, <2>5
<1>. QED
  BY <1>4, <1>5, <1>6, <1>7, <1>8, <1>9 DEF Life!Cancel

-----------------------------------------------------------------------------
(* Steps *)

(* Who does not move stays grounded while others do. *)
LEMMA StaysGrounded ==
  ASSUME ExecutionInv, NEW w \in Workers, worker'[w] = worker[w], Grounded(w),
         \A r \in Runs : Forward(r),
         \A r \in Runs : evidence[r] # None => evidence'[r] = evidence[r],
         issued' \in Nat, issued <= issued'
  PROVE  Grounded(w)'
<1>. DEFINE r == Job(w)
<1>0. issued \in Nat /\ worker[w] \in Worker /\ Job(w)' = r
  BY DEF ExecutionInv, TypeOK, Delivery!ContractTypeOK, Job
<1>1. CASE At(w, "idle")
  BY <1>1 DEF Grounded, Fits, At, HoldsProduct, Executing
<1>2. CASE ~ At(w, "idle")
  <2>1. r \in Runs /\ state[r] # "absent" /\ worker[w].lease \in 1..issued
    BY <1>2 DEF Grounded
  <2>2. r \in Runs /\ state'[r] # "absent" /\ worker[w].lease \in 1..issued'
    BY <1>0, <2>1 DEF Forward
  <2>3. worker[w].phase \in {"staging", "starting"} => state'[r] # "queued"
    BY <2>1 DEF Grounded, Fits, Forward
  <2>4. worker[w].phase \in Executing => Begun(r)'
    BY <1>0, <2>1 DEF Grounded, Fits, Forward, Begun
  <2>5. At(w, "recording") /\ r \in Replays => evidence'[r] = worker[w].product
    <3>. SUFFICES ASSUME At(w, "recording"), r \in Replays
                  PROVE  evidence'[r] = worker[w].product
      OBVIOUS
    <3>1. worker[w].product \in Product /\ evidence[r] = worker[w].product
      BY DEF Grounded, Fits, At, HoldsProduct
    <3>. QED
      BY <2>1, <3>1, ProductFacts
  <2>6. At(w, "publishing") => state'[r] = "succeeded"
    BY <2>1 DEF Grounded, Fits, At, Forward, Life!Over, Life!RunnerStatuses
  <2>7. At(w, "acknowledging") => Settled(r)'
    BY <1>0, <2>1 DEF Grounded, Fits, At, Forward, Settled, Life!Over
  <2>8. worker[w].phase \in HoldsProduct => worker[w].product \in Product
    BY DEF Grounded, Fits
  <2>. QED
    BY <1>0, <1>2, <2>2, <2>3, <2>4, <2>5, <2>6, <2>7, <2>8
    DEF Grounded, Fits, At, Begun, Settled, Life!Over
<1>. QED
  BY <1>1, <1>2

(* A step that changes neither the store nor the evidence nor a request. *)
LEMMA QuietStep ==
  ASSUME ExecutionInv, UNCHANGED <<storeVars, evidenceVars, dispatch>>,
         Delivery!ContractTypeOK', issued <= issued',
         \A r \in Runs : status'[r] # "absent" => status[r] # "absent",
         \A r \in Runs : status'[r] = "done" => status[r] = "done" \/ Settled(r),
         worker' \in [Workers -> Worker], lapses' \in Nat, redrives' \in Nat,
         \A w \in Workers : worker'[w] = worker[w] \/ Grounded(w)'
  PROVE  ExecutionInv'
<1>. USE DEF ExecutionInv
<1>1. TypeOK'
  BY DEF TypeOK, storeVars, evidenceVars, Life!LifecycleTypeOK
<1>2. EvidenceBacksResult'
  BY DEF EvidenceBacksResult, storeVars, evidenceVars
<1>3. AcknowledgedIsOver'
  BY DEF AcknowledgedIsOver, Settled, storeVars, Life!Over
<1>4. MessagesPersisted'
  BY DEF MessagesPersisted, storeVars
<1>5. \A d \in Dispatchers : Persisted(d)'
  BY DEF Persisted, storeVars
<1>6. \A r \in Runs : Forward(r)
  BY DEF Forward, storeVars, Begun, Settled, Life!Over
<1>7. \A w \in Workers : Grounded(w)'
  <2>. TAKE w \in Workers
  <2>1. issued' \in Nat
    BY DEF Delivery!ContractTypeOK
  <2>2. worker'[w] = worker[w] => Grounded(w)'
    BY <1>6, <2>1, StaysGrounded DEF evidenceVars
  <2>. QED
    BY <2>2
<1>. QED
  BY <1>1, <1>2, <1>3, <1>4, <1>5, <1>7

(* A worker that goes on by itself. *)
LEMMA WorkerMoves ==
  ASSUME ExecutionInv, NEW w \in Workers, NEW rec \in Worker,
         worker' = [worker EXCEPT ![w] = rec], Grounded(w)',
         UNCHANGED <<queueVars, storeVars, evidenceVars, dispatch, boundVars>>
  PROVE  ExecutionInv'
<1>1. /\ worker \in [Workers -> Worker] /\ lapses \in Nat /\ redrives \in Nat
      /\ Delivery!ContractTypeOK
  BY DEF ExecutionInv, TypeOK
<1>2. /\ worker' \in [Workers -> Worker]
      /\ \A v \in Workers : worker'[v] = worker[v] \/ Grounded(v)'
  BY <1>1
<1>3. Delivery!ContractTypeOK' /\ issued <= issued'
  BY <1>1 DEF queueVars, Delivery!ContractTypeOK
<1>. QED
  BY <1>1, <1>2, <1>3, QuietStep DEF queueVars, boundVars

(* A worker that takes up another phase that fits. *)
LEMMA WorkerGoes ==
  ASSUME ExecutionInv, NEW w \in Workers, NEW phase \in WorkerPhases,
         ~ At(w, "idle"), Goto(w, phase), Fits(w, phase),
         UNCHANGED <<queueVars, storeVars, evidenceVars, dispatch, boundVars>>
  PROVE  ExecutionInv'
<1>. DEFINE rec == [worker[w] EXCEPT !.phase = phase]
<1>1. worker \in [Workers -> Worker] /\ Grounded(w)
  BY DEF ExecutionInv, TypeOK
<1>2. rec \in Worker
  BY <1>1 DEF Worker
<1>3. worker' = [worker EXCEPT ![w] = rec]
  BY <1>1 DEF Goto
<1>4. worker'[w] = rec /\ rec.phase = phase /\ rec.product = worker[w].product
      /\ rec.run = worker[w].run /\ rec.lease = worker[w].lease
  BY <1>1, <1>3 DEF Worker
<1>5. Grounded(w)'
  BY <1>1, <1>4 DEF Grounded, Fits, At, Job, Begun, Settled, Life!Over,
                    queueVars, storeVars, evidenceVars
<1>. QED
  BY <1>2, <1>3, <1>5, WorkerMoves

(* A worker that gives its delivery back, whatever becomes of the message. *)
LEMMA WorkerQuits ==
  ASSUME ExecutionInv, NEW w \in Workers, Quit(w),
         UNCHANGED <<storeVars, evidenceVars, dispatch>>,
         Delivery!ContractTypeOK', issued' = issued,
         \A r \in Runs : status'[r] # "absent" => status[r] # "absent",
         \A r \in Runs : status'[r] = "done" => status[r] = "done" \/ Settled(r),
         lapses' \in Nat, redrives' \in Nat
  PROVE  ExecutionInv'
<1>1. worker \in [Workers -> Worker] /\ issued \in Nat
  BY DEF ExecutionInv, TypeOK, Delivery!ContractTypeOK
<1>2. Idle \in Worker
  BY DEF Idle, Worker, WorkerPhases, Life!States
<1>3. worker' = [worker EXCEPT ![w] = Idle]
  BY DEF Quit
<1>4. Grounded(w)'
  BY <1>1, <1>3 DEF Grounded, Fits, At, Idle, HoldsProduct, Executing
<1>5. /\ worker' \in [Workers -> Worker]
      /\ \A v \in Workers : worker'[v] = worker[v] \/ Grounded(v)'
  BY <1>1, <1>2, <1>3, <1>4
<1>. QED
  BY <1>1, <1>5, QuietStep

(* Settling a message leaves every other one as it is. *)
LEMMA SettleFacts ==
  ASSUME ExecutionInv, NEW r \in Runs, NEW k, NEW to \in {"ready", "done", "parked"},
         Delivery!Settle(r, k, to), to = "done" => Settled(r)
  PROVE  /\ Delivery!ContractTypeOK' /\ issued' = issued
         /\ \A q \in Runs : status'[q] # "absent" => status[q] # "absent"
         /\ \A q \in Runs : status'[q] = "done" => status[q] = "done" \/ Settled(q)
<1>1. /\ status \in [Runs -> Delivery!Statuses] /\ status[r] = "held"
      /\ status' = [status EXCEPT ![r] = to]
      /\ UNCHANGED <<token, attempts, issued>>
  BY DEF ExecutionInv, TypeOK, Delivery!ContractTypeOK, Delivery!Settle
<1>2. Delivery!ContractTypeOK
  BY DEF ExecutionInv, TypeOK
<1>3. Delivery!ContractTypeOK'
  BY <1>1, <1>2 DEF Delivery!ContractTypeOK, Delivery!Statuses
<1>. QED
  BY <1>1, <1>3

(* A step of the store, and of whoever makes it. *)
LEMMA StoreStep ==
  ASSUME ExecutionInv, NEW r \in Runs,
         \/ Life!Queue(r) \/ Life!Prepare(r) \/ Life!Start(r) \/ Life!Cancel(r),
         UNCHANGED <<queueVars, evidenceVars, boundVars>>,
         dispatch' \in [Dispatchers -> Dispatch], worker' \in [Workers -> Worker],
         \A d \in Dispatchers : dispatch'[d] = dispatch[d] \/ Persisted(d)',
         \A w \in Workers : worker'[w] = worker[w] \/ Grounded(w)'
  PROVE  ExecutionInv'
<1>. USE DEF ExecutionInv
<1>1. (\A q \in Runs : Forward(q)) /\ Life!LifecycleTypeOK'
  BY MovesForward
<1>2. outcome' = outcome
  BY DEF Life!Queue, Life!Prepare, Life!Start, Life!Cancel, Life!CancelAtOnce,
         Life!CancelRequest, Life!Move
<1>3. TypeOK'
  BY <1>1 DEF TypeOK, Delivery!ContractTypeOK, queueVars, evidenceVars, boundVars
<1>4. EvidenceBacksResult'
  <2>1. \A q \in Runs : Life!Over(q) => state'[q] = state[q]
    BY <1>1 DEF Forward
  <2>2. \A q \in Runs : outcome[q] # None => Life!Over(q)
    BY ResultEndsRun
  <2>3. \A q \in Runs : q \in published => Life!Over(q)
    BY DEF EvidenceBacksResult, Life!Over, Life!RunnerStatuses
  <2>. QED
    BY <1>2, <2>1, <2>2, <2>3 DEF EvidenceBacksResult, evidenceVars
<1>5. AcknowledgedIsOver'
  BY <1>1 DEF AcknowledgedIsOver, Forward, Settled, queueVars
<1>6. MessagesPersisted'
  BY <1>1 DEF MessagesPersisted, Forward, queueVars
<1>7. \A d \in Dispatchers : Persisted(d)'
  BY <1>1 DEF Persisted, Forward
<1>8. issued' \in Nat /\ issued <= issued'
  BY DEF TypeOK, Delivery!ContractTypeOK, queueVars
<1>9. \A w \in Workers : Grounded(w)'
  <2>. TAKE w \in Workers
  <2>1. worker'[w] = worker[w] => Grounded(w)'
    BY <1>1, <1>8, StaysGrounded DEF evidenceVars
  <2>. QED
    BY <2>1
<1>. QED
  BY <1>3, <1>4, <1>5, <1>6, <1>7, <1>9

LEMMA ClaimKeeps ==
  ASSUME ExecutionInv, NEW w \in Workers, NEW r \in Runs, Claim(w, r)
  PROVE  ExecutionInv'
<1>. DEFINE p == IF attempts[r] < MaxDeliveries THEN "preflight" ELSE "exhausted"
            rec == [Idle EXCEPT !.phase = p, !.run = r, !.lease = issued + 1,
                                !.attempt = attempts[r] + 1]
<1>1. /\ worker \in [Workers -> Worker] /\ lapses \in Nat /\ redrives \in Nat
      /\ Delivery!ContractTypeOK
  BY DEF ExecutionInv, TypeOK
<1>2. issued \in Nat /\ attempts[r] \in Nat /\ status \in [Runs -> Delivery!Statuses]
  BY <1>1 DEF Delivery!ContractTypeOK
<1>3. /\ status[r] \in {"ready", "held"}
      /\ issued' = issued + 1
      /\ status' = [status EXCEPT ![r] = "held"]
      /\ token' = [token EXCEPT ![r] = issued + 1]
      /\ attempts' = [attempts EXCEPT ![r] = @ + 1]
      /\ worker' = [worker EXCEPT ![w] = rec]
      /\ UNCHANGED <<storeVars, evidenceVars, dispatch, redrives>>
      /\ lapses' \in Nat
  BY <1>1 DEF Claim, Delivery!Grant
<1>4. Delivery!ContractTypeOK' /\ issued <= issued'
  BY <1>1, <1>2, <1>3 DEF Delivery!ContractTypeOK, Delivery!Statuses
<1>5. /\ \A q \in Runs : status'[q] # "absent" => status[q] # "absent"
      /\ \A q \in Runs : status'[q] = "done" => status[q] = "done" \/ Settled(q)
  BY <1>2, <1>3
<1>6. rec \in Worker /\ rec.phase \in {"preflight", "exhausted"}
      /\ rec.run = r /\ rec.lease = issued + 1
  <2>1. issued + 1 \in Nat /\ attempts[r] + 1 \in Nat
    BY <1>2
  <2>2. p \in {"preflight", "exhausted"} /\ p \in WorkerPhases
    BY DEF WorkerPhases
  <2>3. "absent" \in Life!States
    BY DEF Life!States
  <2>. HIDE DEF p
  <2>. QED
    BY <2>1, <2>2, <2>3 DEF Idle, Worker
<1>7. Grounded(w)'
  <2>1. state[r] # "absent"
    BY <1>3 DEF ExecutionInv, MessagesPersisted
  <2>2. worker'[w] = rec
    BY <1>1, <1>3
  <2>3. rec.lease \in 1..issued'
    BY <1>2, <1>3, <1>6
  <2>. QED
    BY <1>3, <1>6, <2>1, <2>2, <2>3
    DEF Grounded, Fits, At, Job, HoldsProduct, Executing, storeVars
<1>8. /\ worker' \in [Workers -> Worker]
      /\ \A v \in Workers : worker'[v] = worker[v] \/ Grounded(v)'
  BY <1>1, <1>3, <1>6, <1>7
<1>. HIDE DEF rec
<1>. QED
  BY <1>1, <1>3, <1>4, <1>5, <1>8, QuietStep

(* What a worker does next with its delivery. *)
LEMMA AdvanceKeeps ==
  ASSUME ExecutionInv, NEW w \in Workers, Advance(w)
  PROVE  ExecutionInv'
<1>. DEFINE r == Job(w)
            x == worker[w].product
<1>1. /\ TypeOK /\ worker[w] \in Worker /\ Grounded(w)
      /\ EvidenceBacksResult /\ worker \in [Workers -> Worker]
      /\ lapses \in Nat /\ redrives \in Nat
  BY DEF ExecutionInv, TypeOK
<1>2. ~ At(w, "idle")
  BY DEF Advance, At, Preflight, PrepareRun, PrepareLost, Stage, StartRun, StartSkipped,
         Execute, Fence, StoreOutput, OutputsStored, OutputsRefused, KeepEvidence,
         EvidenceRefused, RecordResult, RecordRefused, Publish, Acknowledge, DeadLetter,
         GivesUp, Release, LeaseLost
<1>3. r \in Runs /\ state[r] \in Life!States \ {"absent"} /\ Fits(w, worker[w].phase)
  BY <1>1, <1>2 DEF Grounded, TypeOK, Life!LifecycleTypeOK
<1>4. ASSUME NEW f \in WorkerPhases, Goto(w, f)
      PROVE  /\ worker' \in [Workers -> Worker]
             /\ worker'[w] = [worker[w] EXCEPT !.phase = f]
             /\ \A v \in Workers : v # w => worker'[v] = worker[v]
  BY <1>1, <1>4 DEF Goto, Worker
<1>5. ASSUME Preflight(w) PROVE ExecutionInv'
  <2>1. ASSUME NEW f \in {"preparing", "staging", "restaging", "acknowledging"},
               Goto(w, f), Fits(w, f)
        PROVE  ExecutionInv'
    BY <1>2, <1>5, <2>1, WorkerGoes DEF Preflight, WorkerPhases
  <2>2. CASE state[r] = "queued"
    BY <1>5, <2>1, <2>2 DEF Preflight, Fits, HoldsProduct, Executing
  <2>3. CASE state[r] = "preparing"
    BY <1>5, <2>1, <2>3 DEF Preflight, Fits, HoldsProduct, Executing
  <2>4. CASE state[r] = "running"
    BY <1>5, <2>1, <2>4
    DEF Preflight, Fits, HoldsProduct, Executing, Begun, Life!ActiveStates
  <2>5. CASE state[r] \notin {"queued", "preparing", "running"}
    <3>1. Settled(r)
      BY <1>3, <2>5 DEF Settled, Life!Over, Life!States, Life!ActiveStates
    <3>2. Goto(w, "acknowledging")
      BY <1>5, <2>5 DEF Preflight
    <3>. QED
      BY <2>1, <3>1, <3>2 DEF Fits, HoldsProduct, Executing
  <2>. QED
    BY <2>2, <2>3, <2>4, <2>5
<1>6. ASSUME PrepareLost(w) PROVE ExecutionInv'
  <2>1. Fits(w, "preflight")
    BY DEF Fits, HoldsProduct, Executing
  <2>. QED
    BY <1>2, <1>6, <2>1, WorkerGoes DEF PrepareLost, WorkerPhases
<1>7. ASSUME Stage(w) PROVE ExecutionInv'
  <2>1. At(w, "staging") => Fits(w, "starting")
    BY <1>3 DEF Fits, At, HoldsProduct, Executing
  <2>2. At(w, "restaging") => Fits(w, "executing")
    BY <1>3 DEF Fits, At, HoldsProduct, Executing
  <2>. QED
    BY <1>2, <1>7, <2>1, <2>2, WorkerGoes DEF Stage, WorkerPhases
<1>8. ASSUME StartSkipped(w) PROVE ExecutionInv'
  <2>1. state[r] # "queued" /\ state[r] # "preparing"
    BY <1>3, <1>8 DEF StartSkipped, Fits, At
  <2>2. state[r] = "running" => Fits(w, "executing")
    BY DEF Fits, HoldsProduct, Executing, Begun, Life!ActiveStates
  <2>3. state[r] # "running" => Fits(w, "acknowledging")
    BY <1>3, <2>1 DEF Fits, HoldsProduct, Executing, Settled, Life!Over,
                      Life!States, Life!ActiveStates
  <2>. QED
    BY <1>2, <1>8, <2>2, <2>3, WorkerGoes DEF StartSkipped, WorkerPhases
<1>9. ASSUME OutputsStored(w) PROVE ExecutionInv'
  <2>1. Fits(w, IF r \in Replays THEN "replay" ELSE "recording")
    BY <1>3, <1>9 DEF OutputsStored, Fits, At, HoldsProduct, Executing
  <2>. QED
    BY <1>2, <1>9, <2>1, WorkerGoes DEF OutputsStored, WorkerPhases
<1>10. Fits(w, "failing")
  BY DEF Fits, HoldsProduct, Executing
<1>11. ASSUME OutputsRefused(w) \/ EvidenceRefused(w) \/ RecordRefused(w)
       PROVE  ExecutionInv'
  BY <1>2, <1>10, <1>11, WorkerGoes
  DEF OutputsRefused, EvidenceRefused, RecordRefused, WorkerPhases
<1>12. ASSUME PrepareRun(w) \/ StartRun(w) PROVE ExecutionInv'
  <2>. DEFINE f == IF PrepareRun(w) THEN "staging" ELSE "executing"
  <2>1. /\ Life!Prepare(r) \/ Life!Start(r)
        /\ state' = [state EXCEPT ![r] = IF PrepareRun(w) THEN "preparing" ELSE "running"]
        /\ Goto(w, f)
        /\ UNCHANGED <<queueVars, outcome, evidenceVars, dispatch, boundVars>>
    BY <1>12 DEF PrepareRun, StartRun, Life!Prepare, Life!Start, Life!Move
  <2>2. /\ worker' \in [Workers -> Worker]
        /\ worker'[w] = [worker[w] EXCEPT !.phase = f]
        /\ \A v \in Workers : v # w => worker'[v] = worker[v]
    BY <1>4, <2>1 DEF WorkerPhases
  <2>3. Grounded(w)'
    <3>1. state'[r] = IF PrepareRun(w) THEN "preparing" ELSE "running"
      BY <1>1, <1>3, <2>1 DEF TypeOK, Life!LifecycleTypeOK
    <3>2. worker'[w].phase = f /\ worker'[w].run = r /\ worker'[w].lease = worker[w].lease
      BY <1>1, <2>2 DEF Worker, Job
    <3>. QED
      BY <1>1, <1>2, <1>3, <2>1, <3>1, <3>2
      DEF Grounded, Fits, At, Job, HoldsProduct, Executing, Begun, Life!ActiveStates, queueVars
  <2>4. dispatch' \in [Dispatchers -> Dispatch]
    BY <1>1, <2>1 DEF TypeOK
  <2>. QED
    BY <1>3, <2>1, <2>2, <2>3, <2>4, StoreStep
<1>13. ASSUME NEW verdict \in {"succeeded", "failed", "cancelled"}, NEW out \in Outputs,
              Execute(w, verdict, out)
       PROVE  ExecutionInv'
  <2>. DEFINE y == [lease |-> worker[w].lease, status |-> verdict, output |-> out]
              rec == [worker[w] EXCEPT !.phase = "fencing", !.product = y]
  <2>1. y \in Product
    BY <1>1 DEF Product, Worker
  <2>. HIDE DEF y
  <2>2. /\ rec \in Worker /\ rec.phase = "fencing" /\ rec.product = y
        /\ rec.run = r /\ rec.lease = worker[w].lease
    BY <1>1, <2>1 DEF Worker, WorkerPhases, Job
  <2>3. /\ worker' = [worker EXCEPT ![w] = rec]
        /\ UNCHANGED <<queueVars, storeVars, evidenceVars, dispatch, boundVars>>
        /\ At(w, "executing")
    BY <1>1, <1>13 DEF Execute, y
  <2>4. worker'[w] = rec
    BY <1>1, <2>3
  <2>. HIDE DEF rec
  <2>5. Grounded(w)'
    BY <1>1, <1>2, <1>3, <2>1, <2>2, <2>3, <2>4
    DEF Grounded, Fits, At, Job, Executing, Begun, queueVars, storeVars
  <2>. QED
    BY <2>2, <2>3, <2>5, WorkerMoves
<1>14. ASSUME Fence(w) PROVE ExecutionInv'
  <2>. DEFINE rec == [worker[w] EXCEPT !.phase = "storing", !.seen = state[r]]
  <2>1. /\ rec \in Worker /\ rec.phase = "storing" /\ rec.product = x
        /\ rec.run = r /\ rec.lease = worker[w].lease
    BY <1>1, <1>3 DEF Worker, WorkerPhases, Job
  <2>2. /\ worker' = [worker EXCEPT ![w] = rec]
        /\ UNCHANGED <<queueVars, storeVars, evidenceVars, dispatch, boundVars>>
        /\ At(w, "fencing")
    BY <1>1, <1>14 DEF Fence
  <2>3. worker'[w] = rec
    BY <1>1, <2>2
  <2>. HIDE DEF rec
  <2>4. Grounded(w)'
    BY <1>1, <1>2, <1>3, <2>1, <2>2, <2>3
    DEF Grounded, Fits, At, Job, HoldsProduct, Executing, Begun, queueVars, storeVars
  <2>. QED
    BY <2>1, <2>2, <2>4, WorkerMoves
<1>15. ASSUME NEW f \in Roles, StoreOutput(w, f) PROVE ExecutionInv'
  <2>1. /\ stored' = [stored EXCEPT ![r][f] = x.output]
        /\ stored[r][f] = None /\ state[r] \in Life!ActiveStates /\ At(w, "storing")
        /\ UNCHANGED <<queueVars, storeVars, evidence, published, worker, dispatch, boundVars>>
    BY <1>15 DEF StoreOutput
  <2>2. x.output \in Outputs
    BY <1>3, <2>1, ProductFacts DEF Fits, At, HoldsProduct
  <2>3. stored' \in [Runs -> [Roles -> Outputs \cup {None}]]
    BY <1>1, <1>3, <2>1, <2>2 DEF TypeOK
  <2>4. TypeOK'
    BY <1>1, <2>1, <2>3 DEF TypeOK, Delivery!ContractTypeOK, Life!LifecycleTypeOK,
                            queueVars, storeVars, boundVars
  <2>5. outcome[r] = None
    BY <1>1, <1>3, <2>1, ResultEndsRun DEF Life!Over, Life!ActiveStates, Life!RunnerStatuses
  <2>6. \A q \in Runs : q # r => stored'[q] = stored[q]
    BY <1>1, <2>1 DEF TypeOK
  <2>7. EvidenceBacksResult'
    BY <1>1, <2>1, <2>5, <2>6 DEF EvidenceBacksResult, storeVars
  <2>8. /\ AcknowledgedIsOver' /\ MessagesPersisted'
        /\ \A d \in Dispatchers : Persisted(d)'
    BY <2>1 DEF ExecutionInv, AcknowledgedIsOver, MessagesPersisted, Persisted,
                queueVars, storeVars, Life!Over
  <2>9. \A v \in Workers : Grounded(v)'
    BY <2>1 DEF ExecutionInv, Grounded, Fits, At, Job, Begun, Settled, Life!Over,
                queueVars, storeVars
  <2>. QED
    BY <2>4, <2>7, <2>8, <2>9 DEF ExecutionInv
<1>16. ASSUME KeepEvidence(w) PROVE ExecutionInv'
  <2>1. /\ evidence' = [evidence EXCEPT ![r] = x]
        /\ evidence[r] = None /\ At(w, "replay") /\ Goto(w, "recording")
        /\ UNCHANGED <<queueVars, storeVars, stored, published, dispatch, boundVars>>
    BY <1>16 DEF KeepEvidence
  <2>2. x \in Product /\ Begun(r)
    BY <1>3, <2>1 DEF Fits, At, HoldsProduct, Executing
  <2>3. /\ evidence' \in [Runs -> Product \cup {None}] /\ evidence'[r] = x
        /\ \A q \in Runs : q # r => evidence'[q] = evidence[q]
    BY <1>1, <1>3, <2>1, <2>2 DEF TypeOK
  <2>4. /\ worker' \in [Workers -> Worker]
        /\ worker'[w] = [worker[w] EXCEPT !.phase = "recording"]
        /\ \A v \in Workers : v # w => worker'[v] = worker[v]
    BY <1>4, <2>1 DEF WorkerPhases
  <2>5. TypeOK'
    BY <1>1, <2>1, <2>3, <2>4 DEF TypeOK, Delivery!ContractTypeOK, Life!LifecycleTypeOK,
                                  queueVars, storeVars, boundVars
  <2>6. EvidenceBacksResult'
    <3>1. r \in Replays => outcome[r] = None
      BY <1>1, <1>3, <2>1, ProductFacts DEF EvidenceBacksResult, TypeOK, Life!LifecycleTypeOK
    <3>. QED
      BY <1>1, <2>1, <2>3, <3>1 DEF EvidenceBacksResult, storeVars
  <2>7. /\ AcknowledgedIsOver' /\ MessagesPersisted'
        /\ \A d \in Dispatchers : Persisted(d)'
    BY <2>1 DEF ExecutionInv, AcknowledgedIsOver, MessagesPersisted, Persisted,
                queueVars, storeVars, Life!Over
  <2>8. /\ worker'[w].phase = "recording" /\ worker'[w].run = r
        /\ worker'[w].lease = worker[w].lease /\ worker'[w].product = x
    BY <1>1, <2>4 DEF Worker, Job
  <2>9. Grounded(w)'
    BY <1>1, <1>2, <1>3, <2>1, <2>2, <2>3, <2>8
    DEF Grounded, Fits, At, Job, Begun, queueVars, storeVars
  <2>10. ASSUME NEW v \in Workers, v # w PROVE Grounded(v)'
    <3>1. \A q \in Runs : Forward(q)
      BY <2>1 DEF Forward, Begun, Settled, Life!Over, storeVars
    <3>2. issued' \in Nat /\ issued <= issued'
      BY <1>1, <2>1 DEF TypeOK, Delivery!ContractTypeOK, queueVars
    <3>3. Grounded(v) /\ worker'[v] = worker[v]
      BY <2>4, <2>10 DEF ExecutionInv
    <3>. QED
      BY <2>1, <2>3, <3>1, <3>2, <3>3, StaysGrounded
  <2>. QED
    BY <2>5, <2>6, <2>7, <2>9, <2>10 DEF ExecutionInv
<1>17. ASSUME RecordResult(w) PROVE ExecutionInv'
  <2>. DEFINE f == IF x.status = "succeeded" THEN "publishing" ELSE "acknowledging"
  <2>1. /\ At(w, "recording") /\ Life!Record(r, x) /\ Goto(w, f)
        /\ \A g \in Roles : stored[r][g] = x.output
        /\ UNCHANGED <<queueVars, evidenceVars, dispatch, boundVars>>
    BY <1>17 DEF RecordResult, Stored
  <2>2. x \in Product /\ (r \in Replays => evidence[r] = x)
    BY <1>3, <2>1 DEF Fits, At, HoldsProduct
  <2>3. state' = [state EXCEPT ![r] = x.status] /\ outcome' = [outcome EXCEPT ![r] = x]
    BY <2>1 DEF Life!Record, StatusIn
  <2>4. (\A q \in Runs : Forward(q)) /\ Life!LifecycleTypeOK'
    BY <1>1, <1>3, <2>1, <2>2, MovesForward
  <2>5. /\ worker' \in [Workers -> Worker]
        /\ worker'[w] = [worker[w] EXCEPT !.phase = f]
        /\ \A v \in Workers : v # w => worker'[v] = worker[v]
    BY <1>4, <2>1 DEF WorkerPhases
  <2>6. TypeOK'
    BY <1>1, <2>1, <2>4, <2>5 DEF TypeOK, Delivery!ContractTypeOK,
                                  queueVars, evidenceVars, boundVars
  <2>7. /\ state'[r] = x.status /\ outcome'[r] = x
        /\ \A q \in Runs : q # r => state'[q] = state[q] /\ outcome'[q] = outcome[q]
    BY <1>1, <1>3, <2>3 DEF TypeOK, Life!LifecycleTypeOK
  <2>8. EvidenceBacksResult'
    <3>1. state[r] # "succeeded"
      BY <2>1 DEF Life!Record, Life!Recordable, Life!ActiveStates
    <3>. QED
      BY <1>1, <2>1, <2>2, <2>7, <3>1 DEF EvidenceBacksResult, evidenceVars
  <2>9. AcknowledgedIsOver' /\ MessagesPersisted' /\ \A d \in Dispatchers : Persisted(d)'
    BY <2>1, <2>4 DEF ExecutionInv, AcknowledgedIsOver, MessagesPersisted, Persisted,
                      Forward, Settled, queueVars
  <2>10. /\ worker'[w].phase = f /\ worker'[w].run = r
         /\ worker'[w].lease = worker[w].lease /\ worker'[w].product = x
    BY <1>1, <2>5 DEF Worker, Job
  <2>11. Grounded(w)'
    <3>1. x.status \in Life!RunnerStatuses
      BY <2>2, ProductFacts DEF Life!RunnerStatuses
    <3>. QED
      BY <1>1, <1>2, <1>3, <2>1, <2>2, <2>7, <2>10, <3>1, ProductFacts
      DEF Grounded, Fits, At, Job, Begun, Settled, Life!Over, Life!RunnerStatuses,
          Executing, queueVars
  <2>12. ASSUME NEW v \in Workers, v # w PROVE Grounded(v)'
    <3>1. issued' \in Nat /\ issued <= issued' /\ evidence' = evidence
      BY <1>1, <2>1 DEF TypeOK, Delivery!ContractTypeOK, queueVars, evidenceVars
    <3>2. Grounded(v) /\ worker'[v] = worker[v]
      BY <2>5, <2>12 DEF ExecutionInv
    <3>. QED
      BY <2>4, <3>1, <3>2, StaysGrounded
  <2>. QED
    BY <2>6, <2>8, <2>9, <2>11, <2>12 DEF ExecutionInv
<1>18. ASSUME Publish(w) PROVE ExecutionInv'
  <2>1. /\ At(w, "publishing") /\ Goto(w, "acknowledging")
        /\ published' = published \cup {r}
        /\ UNCHANGED <<queueVars, storeVars, stored, evidence, dispatch, boundVars>>
    BY <1>18 DEF Publish
  <2>2. state[r] = "succeeded"
    BY <1>3, <2>1 DEF Fits, At
  <2>3. /\ worker' \in [Workers -> Worker]
        /\ worker'[w] = [worker[w] EXCEPT !.phase = "acknowledging"]
        /\ \A v \in Workers : v # w => worker'[v] = worker[v]
    BY <1>4, <2>1 DEF WorkerPhases
  <2>4. TypeOK'
    BY <1>1, <1>3, <2>1, <2>3 DEF TypeOK, Delivery!ContractTypeOK, Life!LifecycleTypeOK,
                                  queueVars, storeVars, boundVars
  <2>5. EvidenceBacksResult'
    BY <1>1, <2>1, <2>2 DEF EvidenceBacksResult, storeVars
  <2>6. /\ AcknowledgedIsOver' /\ MessagesPersisted'
        /\ \A d \in Dispatchers : Persisted(d)'
    BY <2>1 DEF ExecutionInv, AcknowledgedIsOver, MessagesPersisted, Persisted,
                queueVars, storeVars, Life!Over
  <2>7. /\ worker'[w].phase = "acknowledging" /\ worker'[w].run = r
        /\ worker'[w].lease = worker[w].lease
    BY <1>1, <2>3 DEF Worker, Job
  <2>8. Grounded(w)'
    BY <1>1, <1>2, <1>3, <2>1, <2>2, <2>7
    DEF Grounded, Fits, At, Job, HoldsProduct, Executing, Settled, Life!Over,
        Life!RunnerStatuses, queueVars, storeVars
  <2>9. ASSUME NEW v \in Workers, v # w PROVE Grounded(v)'
    BY <2>1, <2>3, <2>9 DEF ExecutionInv, Grounded, Fits, At, Job, Begun, Settled,
                            Life!Over, queueVars, storeVars
  <2>. QED
    BY <2>4, <2>5, <2>6, <2>8, <2>9 DEF ExecutionInv
<1>19. ASSUME Acknowledge(w) \/ DeadLetter(w) \/ Release(w) PROVE ExecutionInv'
  <2>. DEFINE to == IF Acknowledge(w) THEN "done" ELSE IF DeadLetter(w) THEN "parked" ELSE "ready"
  <2>1. /\ Delivery!Settle(r, worker[w].lease, to) /\ Quit(w)
        /\ UNCHANGED <<storeVars, evidenceVars, dispatch, boundVars>>
    BY <1>19 DEF Acknowledge, DeadLetter, Release, Delivery!Finish, Delivery!Park,
                 Delivery!Return
  <2>2. to = "done" => Settled(r)
    BY <1>3 DEF Acknowledge, Fits, At
  <2>3. to \in {"ready", "done", "parked"}
    OBVIOUS
  <2>. HIDE DEF to
  <2>. QED
    BY <1>1, <1>3, <2>1, <2>2, <2>3, SettleFacts, WorkerQuits DEF boundVars
<1>20. ASSUME LeaseLost(w) PROVE ExecutionInv'
  <2>1. CASE Goto(w, "failing")
    BY <1>2, <1>10, <1>20, <2>1, WorkerGoes DEF LeaseLost, WorkerPhases
  <2>2. CASE Quit(w)
    <3>1. /\ UNCHANGED <<storeVars, evidenceVars, dispatch>>
          /\ UNCHANGED queueVars /\ UNCHANGED boundVars
      BY <1>20 DEF LeaseLost
    <3>2. Delivery!ContractTypeOK' /\ issued' = issued /\ status' = status
      BY <1>1, <3>1 DEF TypeOK, Delivery!ContractTypeOK, queueVars
    <3>. QED
      BY <1>1, <2>2, <3>1, <3>2, WorkerQuits DEF boundVars
  <2>. QED
    BY <1>20, <2>1, <2>2 DEF LeaseLost
<1>. QED
  BY <1>5, <1>6, <1>7, <1>8, <1>9, <1>11, <1>12, <1>13, <1>14, <1>15, <1>16, <1>17,
     <1>18, <1>19, <1>20 DEF Advance

(* A failing await, or a crash. *)
LEMMA FailureKeeps ==
  ASSUME ExecutionInv, NEW w \in Workers, Trouble(w) \/ Crash(w)
  PROVE  ExecutionInv'
<1>1. lapses \in Nat /\ redrives \in Nat /\ Delivery!ContractTypeOK
  BY DEF ExecutionInv, TypeOK
<1>2. CASE Trouble(w)
  <2>1. Fits(w, "failing") /\ Fits(w, "rejecting")
    BY DEF Fits, HoldsProduct, Executing
  <2>2. ~ At(w, "idle")
    BY <1>2 DEF Trouble, At
  <2>. QED
    BY <1>2, <2>1, <2>2, WorkerGoes DEF Trouble, WorkerPhases
<1>3. CASE Crash(w)
  <2>1. /\ Quit(w) /\ lapses' = lapses + 1
        /\ UNCHANGED <<queueVars, storeVars, evidenceVars, dispatch, redrives>>
    BY <1>3 DEF Crash
  <2>2. Delivery!ContractTypeOK' /\ issued' = issued /\ status' = status
    BY <1>1, <2>1 DEF Delivery!ContractTypeOK, queueVars
  <2>. QED
    BY <1>1, <2>1, <2>2, WorkerQuits
<1>. QED
  BY <1>2, <1>3

(* A request that is taken up at another point. *)
LEMMA RequestGoes ==
  ASSUME ExecutionInv, NEW d \in Dispatchers, NEW rec \in Dispatch,
         dispatch' = [dispatch EXCEPT ![d] = rec],
         rec.phase # "idle" => rec.run \in Runs /\ state[rec.run] # "absent",
         UNCHANGED <<storeVars, evidenceVars, worker, lapses>>, redrives' \in Nat,
         Delivery!ContractTypeOK', issued' = issued,
         \A r \in Runs : status'[r] # "absent" => state[r] # "absent",
         \A r \in Runs : status'[r] = "done" => status[r] = "done"
  PROVE  ExecutionInv'
<1>1. /\ dispatch \in [Dispatchers -> Dispatch]
      /\ \A e \in Dispatchers : e # d => dispatch'[e] = dispatch[e]
      /\ dispatch' \in [Dispatchers -> Dispatch] /\ dispatch'[d] = rec
  BY DEF ExecutionInv, TypeOK
<1>2. TypeOK'
  BY <1>1 DEF ExecutionInv, TypeOK, Life!LifecycleTypeOK, storeVars, evidenceVars
<1>3. \A e \in Dispatchers : Persisted(e)'
  BY <1>1 DEF ExecutionInv, Persisted, storeVars
<1>4. EvidenceBacksResult' /\ AcknowledgedIsOver' /\ MessagesPersisted'
  BY DEF ExecutionInv, EvidenceBacksResult, AcknowledgedIsOver, MessagesPersisted,
         storeVars, evidenceVars, Life!Over
<1>5. \A w \in Workers : Grounded(w)'
  BY DEF ExecutionInv, Grounded, Fits, At, Job, Begun, Settled, Life!Over,
         storeVars, evidenceVars
<1>. QED
  BY <1>2, <1>3, <1>4, <1>5 DEF ExecutionInv

(* What a request does. *)
LEMMA DispatchKeeps ==
  ASSUME ExecutionInv, NEW d \in Dispatchers, DispatchStep(d)
  PROVE  ExecutionInv'
<1>. DEFINE r == dispatch[d].run
<1>1. /\ dispatch \in [Dispatchers -> Dispatch] /\ worker \in [Workers -> Worker]
      /\ Delivery!ContractTypeOK /\ redrives \in Nat
      /\ status \in [Runs -> Delivery!Statuses] /\ issued \in Nat
      /\ \A q \in Runs : status[q] # "absent" => state[q] # "absent"
  BY DEF ExecutionInv, TypeOK, Delivery!ContractTypeOK, MessagesPersisted
<1>2. dispatch[d].phase # "idle" => r \in Runs /\ state[r] # "absent"
  BY DEF ExecutionInv, Persisted
<1>3. NoDispatch \in Dispatch /\ NoDispatch.phase = "idle"
  BY DEF NoDispatch, Dispatch, DispatchPhases
<1>4. \A q \in Runs, f \in DispatchPhases : [phase |-> f, run |-> q] \in Dispatch
  BY DEF Dispatch
<1>5. ASSUME dispatch[d].phase # "idle", NEW f \in {"enqueueing", "redriving"},
              NEW rec \in {NoDispatch, [phase |-> f, run |-> r]}
       PROVE  rec \in Dispatch /\ (rec.phase # "idle" => rec.run \in Runs /\ state[rec.run] # "absent")
  <2>1. CASE rec = NoDispatch
    BY <1>3, <2>1
  <2>2. CASE rec = [phase |-> f, run |-> r]
    <3>1. rec.run = r /\ f \in DispatchPhases
      BY <2>2 DEF DispatchPhases
    <3>. QED
      BY <1>2, <1>4, <1>5, <2>2, <3>1
  <2>. QED
    BY <1>5, <2>1, <2>2
<1>6. ASSUME NEW q \in Runs, QueueRun(d, q) PROVE ExecutionInv'
  <2>1. UNCHANGED <<queueVars, evidenceVars, worker, boundVars>>
    BY <1>6 DEF QueueRun
  <2>2. CASE Life!Queue(q) /\ Continue(d, q, "enqueueing")
    <3>1. dispatch' = [dispatch EXCEPT ![d] = [phase |-> "enqueueing", run |-> q]]
      BY <2>2 DEF Continue
    <3>2. [phase |-> "enqueueing", run |-> q] \in Dispatch
      BY <1>4 DEF DispatchPhases
    <3>3. /\ dispatch' \in [Dispatchers -> Dispatch]
          /\ dispatch'[d] = [phase |-> "enqueueing", run |-> q]
          /\ \A e \in Dispatchers : e # d => dispatch'[e] = dispatch[e]
      BY <1>1, <3>1, <3>2
    <3>4. state'[q] # "absent"
      BY <2>2 DEF ExecutionInv, TypeOK, Life!LifecycleTypeOK, Life!Queue, Life!Move
    <3>5. \A e \in Dispatchers : dispatch'[e] = dispatch[e] \/ Persisted(e)'
      BY <3>3, <3>4 DEF Persisted
    <3>. QED
      BY <1>1, <2>1, <2>2, <3>3, <3>5, StoreStep
  <2>3. CASE ~ (Life!Queue(q) /\ Continue(d, q, "enqueueing"))
    <3>1. /\ state[q] # "absent" /\ UNCHANGED storeVars
          /\ Continue(d, q, "enqueueing") \/ Continue(d, q, "inspecting")
      BY <1>6, <2>3 DEF QueueRun
    <3>2. PICK f \in {"enqueueing", "inspecting"} : Continue(d, q, f)
      BY <3>1
    <3>3. [phase |-> f, run |-> q] \in Dispatch
      BY <1>4 DEF DispatchPhases
    <3>4. Delivery!ContractTypeOK' /\ issued' = issued /\ status' = status
      BY <1>1, <2>1 DEF Delivery!ContractTypeOK, queueVars
    <3>. QED
      BY <1>1, <2>1, <3>1, <3>2, <3>3, <3>4, RequestGoes DEF Continue, boundVars
  <2>. QED
    BY <2>2, <2>3
<1>7. ASSUME InspectDelivery(d) \/ Interrupt(d) PROVE ExecutionInv'
  <2>1. /\ dispatch[d].phase # "idle"
        /\ UNCHANGED <<queueVars, storeVars, evidenceVars, worker, boundVars>>
        /\ Reply(d) \/ Continue(d, r, "enqueueing")
    BY <1>7 DEF InspectDelivery, Interrupt
  <2>2. PICK rec \in {NoDispatch, [phase |-> "enqueueing", run |-> r]} :
          dispatch' = [dispatch EXCEPT ![d] = rec]
    BY <2>1 DEF Reply, Continue
  <2>3. rec \in Dispatch /\ (rec.phase # "idle" => rec.run \in Runs /\ state[rec.run] # "absent")
    BY <1>5, <2>1
  <2>4. Delivery!ContractTypeOK' /\ issued' = issued /\ status' = status
    BY <1>1, <2>1 DEF Delivery!ContractTypeOK, queueVars
  <2>. QED
    BY <1>1, <2>1, <2>2, <2>3, <2>4, RequestGoes DEF boundVars
<1>8. ASSUME EnqueueMessage(d) PROVE ExecutionInv'
  <2>1. /\ dispatch[d].phase # "idle"
        /\ UNCHANGED <<storeVars, evidenceVars, worker, boundVars>>
        /\ Reply(d) \/ Continue(d, r, "redriving")
        /\ Delivery!Submit(r) \/ UNCHANGED queueVars
    BY <1>8 DEF EnqueueMessage
  <2>2. PICK rec \in {NoDispatch, [phase |-> "redriving", run |-> r]} :
          dispatch' = [dispatch EXCEPT ![d] = rec]
    BY <2>1 DEF Reply, Continue
  <2>3. rec \in Dispatch /\ (rec.phase # "idle" => rec.run \in Runs /\ state[rec.run] # "absent")
    BY <1>5, <2>1
  <2>4. /\ Delivery!ContractTypeOK' /\ issued' = issued
        /\ \A q \in Runs : status'[q] # "absent" => state[q] # "absent"
        /\ \A q \in Runs : status'[q] = "done" => status[q] = "done"
    BY <1>1, <1>2, <2>1 DEF Delivery!ContractTypeOK, Delivery!Submit, Delivery!Statuses,
                            queueVars
  <2>. QED
    BY <1>1, <2>1, <2>2, <2>3, <2>4, RequestGoes DEF boundVars
<1>9. ASSUME Redrive(d) PROVE ExecutionInv'
  <2>1. /\ dispatch[d].phase # "idle" /\ Reply(d)
        /\ UNCHANGED <<storeVars, evidenceVars, worker, lapses>>
        /\ redrives' \in Nat
        /\ Delivery!Reopen(r) \/ UNCHANGED queueVars
    BY <1>1, <1>9 DEF Redrive
  <2>2. /\ Delivery!ContractTypeOK' /\ issued' = issued
        /\ \A q \in Runs : status'[q] # "absent" => state[q] # "absent"
        /\ \A q \in Runs : status'[q] = "done" => status[q] = "done"
    BY <1>1, <1>2, <2>1 DEF Delivery!ContractTypeOK, Delivery!Reopen, Delivery!Statuses,
                            queueVars
  <2>. QED
    BY <1>3, <2>1, <2>2, RequestGoes DEF Reply
<1>. QED
  BY <1>6, <1>7, <1>8, <1>9 DEF DispatchStep

LEMMA ExecutionInvInit == Init => ExecutionInv
<1>. SUFFICES ASSUME Init PROVE ExecutionInv
  OBVIOUS
<1>. USE DEF Init
<1>1. TypeOK
  <2>1. Idle \in Worker
    BY DEF Idle, Worker, WorkerPhases, Life!States
  <2>2. NoDispatch \in Dispatch
    BY DEF NoDispatch, Dispatch, DispatchPhases
  <2>. QED
    BY <2>1, <2>2 DEF TypeOK, Delivery!Init, Delivery!ContractTypeOK, Delivery!Statuses,
                      Life!Init, Life!LifecycleTypeOK, Life!States
<1>2. EvidenceBacksResult /\ AcknowledgedIsOver /\ MessagesPersisted
  BY DEF EvidenceBacksResult, AcknowledgedIsOver, MessagesPersisted, Delivery!Init, Life!Init
<1>3. \A d \in Dispatchers : Persisted(d)
  BY DEF Persisted, NoDispatch
<1>4. \A w \in Workers : Grounded(w)
  BY DEF Grounded, Fits, At, Idle, HoldsProduct, Executing
<1>. QED
  BY <1>1, <1>2, <1>3, <1>4 DEF ExecutionInv

LEMMA ExecutionInvStep == ExecutionInv /\ [Next]_vars => ExecutionInv'
<1>. SUFFICES ASSUME ExecutionInv, [Next]_vars PROVE ExecutionInv'
  OBVIOUS
<1>1. ASSUME NEW w \in Workers, WorkerStep(w) PROVE ExecutionInv'
  BY <1>1, ClaimKeeps, AdvanceKeeps, FailureKeeps DEF WorkerStep
<1>2. ASSUME NEW d \in Dispatchers, DispatchStep(d) PROVE ExecutionInv'
  BY <1>2, DispatchKeeps
<1>3. ASSUME NEW r \in Runs, CancelRun(r) PROVE ExecutionInv'
  <2>1. /\ Life!Cancel(r)
        /\ UNCHANGED <<queueVars, evidenceVars, worker, dispatch, boundVars>>
    BY <1>3 DEF CancelRun
  <2>2. dispatch \in [Dispatchers -> Dispatch] /\ worker \in [Workers -> Worker]
    BY DEF ExecutionInv, TypeOK
  <2>. QED
    BY <2>1, <2>2, StoreStep
<1>4. CASE UNCHANGED vars
  BY <1>4 DEF ExecutionInv, TypeOK, EvidenceBacksResult, AcknowledgedIsOver,
     MessagesPersisted, Persisted, Grounded, Fits, At, Job, Begun, Settled, Life!Over,
     Delivery!ContractTypeOK, Life!LifecycleTypeOK,
     vars, queueVars, storeVars, evidenceVars, boundVars
<1>. QED
  BY <1>1, <1>2, <1>3, <1>4 DEF Next

LEMMA ExecutionInvHolds == Spec => []ExecutionInv
BY ExecutionInvInit, ExecutionInvStep, PTL DEF Spec

-----------------------------------------------------------------------------
(* Theorems *)

(* Every table, worker and request of the execution path keeps its type    *)
(* (TypeOK), whatever the Runs, the workers and the failures.              *)
THEOREM ExecutionTypeCorrect == Spec => []TypeOK
<1>1. ExecutionInv => TypeOK
  BY DEF ExecutionInv
<1>. QED
  BY <1>1, ExecutionInvHolds, PTL

(* EvidenceBacksResult: a recorded result is backed by the stored outputs, *)
(* and a replay by its evidence, however many executions of the Run write  *)
(* parts of them, crash and are retried (finalize()).                      *)
THEOREM EvidenceAlwaysBacksResult == Spec => []EvidenceBacksResult
<1>1. ExecutionInv => EvidenceBacksResult
  BY DEF ExecutionInv
<1>. QED
  BY <1>1, ExecutionInvHolds, PTL

(* NothingRunsAfterCancel: once a Run was cancelled before its start, no   *)
(* worker executes it or finishes an execution of it, although the         *)
(* cancellation asks the store only and the queue keeps its message.       *)
(* A Run in cancel_requested, which was started, is not covered.           *)
THEOREM CancelledBeforeStartNeverRuns == Spec => []NothingRunsAfterCancel
<1>1. ExecutionInv => NothingRunsAfterCancel
  <2>. SUFFICES ASSUME ExecutionInv, NEW r \in Runs, NEW w \in Workers,
                       state[r] = "cancelled", outcome[r] = None, Job(w) = r,
                       worker[w].phase \in Executing
                PROVE  FALSE
    BY DEF NothingRunsAfterCancel
  <2>1. Begun(r)
    BY DEF ExecutionInv, Grounded, Fits
  <2>. QED
    BY <2>1 DEF Begun, Life!ActiveStates
<1>. QED
  BY <1>1, ExecutionInvHolds, PTL

(* AcknowledgedIsOver: when the message of a Run is acknowledged, the Run  *)
(* is over or in cancel_requested, and it stays in one of the two, whoever *)
(* delivers, cancels or finishes it meanwhile.  It need not be over: a     *)
(* cancellation that was requested and is never acknowledged is allowed.   *)
THEOREM AcknowledgedAreOverOrStopping == Spec => []AcknowledgedIsOver
<1>1. ExecutionInv => AcknowledgedIsOver
  BY DEF ExecutionInv
<1>. QED
  BY <1>1, ExecutionInvHolds, PTL

(* The processes use the queue as its contract allows: every step is one   *)
(* of DeliveryContract or leaves the queue alone, and a worker settles     *)
(* with a token that was issued.                                           *)
THEOREM ExecutionKeepsContract == Spec => Delivery!Spec
<1>1. Init => Delivery!Init
  BY DEF Init
<1>2. ExecutionInv /\ [Next]_vars => [Delivery!Next]_(Delivery!contractVars)
  <2>. SUFFICES ASSUME ExecutionInv, [Next]_vars
                PROVE  [Delivery!Next]_(Delivery!contractVars)
    OBVIOUS
  <2>. USE DEF Delivery!contractVars
  <2>1. CASE UNCHANGED queueVars
    BY <2>1 DEF queueVars
  <2>2. ASSUME NEW w \in Workers, NEW r \in Runs, Claim(w, r) PROVE Delivery!Next
    BY <2>2 DEF Claim, Delivery!Next
  <2>3. ASSUME NEW w \in Workers, Acknowledge(w) \/ DeadLetter(w) \/ Release(w)
        PROVE  Delivery!Next
    <3>1. /\ Delivery!Finish(Job(w), worker[w].lease) \/ Delivery!Park(Job(w), worker[w].lease)
               \/ Delivery!Return(Job(w), worker[w].lease)
          /\ ~ At(w, "idle")
      BY <2>3 DEF Acknowledge, DeadLetter, Release, GivesUp, At
    <3>2. Job(w) \in Runs /\ worker[w].lease \in 1..issued
      BY <3>1 DEF ExecutionInv, Grounded
    <3>. QED
      BY <3>1, <3>2 DEF Delivery!Next
  <2>4. ASSUME NEW d \in Dispatchers, EnqueueMessage(d) \/ Redrive(d)
        PROVE  Delivery!Next \/ UNCHANGED queueVars
    <3>. DEFINE r == dispatch[d].run
    <3>1. /\ Delivery!Submit(r) \/ Delivery!Reopen(r) \/ UNCHANGED queueVars
          /\ dispatch[d].phase # "idle"
      BY <2>4 DEF EnqueueMessage, Redrive, queueVars
    <3>2. r \in Runs
      BY <3>1 DEF ExecutionInv, Persisted
    <3>. QED
      BY <3>1, <3>2 DEF Delivery!Next
  <2>5. ASSUME NEW w \in Workers, Advance(w)
        PROVE  \/ Acknowledge(w) \/ DeadLetter(w) \/ Release(w)
               \/ UNCHANGED queueVars
    BY <2>5 DEF Advance, Preflight, PrepareRun, PrepareLost, Stage, StartRun, StartSkipped,
      Execute, Fence, StoreOutput, OutputsStored, OutputsRefused, KeepEvidence,
      EvidenceRefused, RecordResult, RecordRefused, Publish, LeaseLost
  <2>6. ASSUME NEW w \in Workers, WorkerStep(w)
        PROVE  Delivery!Next \/ UNCHANGED queueVars
    BY <2>2, <2>3, <2>5, <2>6 DEF WorkerStep, Trouble, Crash
  <2>7. ASSUME NEW d \in Dispatchers, DispatchStep(d)
        PROVE  Delivery!Next \/ UNCHANGED queueVars
    BY <2>4, <2>7 DEF DispatchStep, QueueRun, InspectDelivery, Interrupt
  <2>. QED
    BY <2>1, <2>6, <2>7 DEF Next, CancelRun, vars
<1>. QED
  BY <1>1, <1>2, ExecutionInvHolds, PTL DEF Spec, Delivery!Spec

(* The processes use the store as it promises: every step is one of        *)
(* RunLifecycle or leaves the Runs alone, so that a Run that is over       *)
(* never changes, whatever late workers and requests do.                   *)
THEOREM ExecutionKeepsLifecycle == Spec => Life!Spec
<1>1. Init => Life!Init
  BY DEF Init
<1>2. ExecutionInv /\ [Next]_vars => [Life!Next]_(Life!lifecycleVars)
  <2>. SUFFICES ASSUME ExecutionInv, [Next]_vars
                PROVE  [Life!Next]_(Life!lifecycleVars)
    OBVIOUS
  <2>. USE DEF Life!lifecycleVars
  <2>1. CASE UNCHANGED storeVars
    BY <2>1 DEF storeVars
  <2>2. ASSUME NEW w \in Workers, PrepareRun(w) \/ StartRun(w) \/ RecordResult(w)
        PROVE  Life!Next
    <3>1. /\ Life!Prepare(Job(w)) \/ Life!Start(Job(w)) \/ Life!Record(Job(w), worker[w].product)
          /\ ~ At(w, "idle")
          /\ RecordResult(w) => At(w, "recording")
      BY <2>2 DEF PrepareRun, StartRun, RecordResult, At
    <3>2. Job(w) \in Runs /\ (RecordResult(w) => worker[w].product \in Product)
      BY <3>1 DEF ExecutionInv, Grounded, Fits, At, HoldsProduct
    <3>3. CASE RecordResult(w)
      BY <3>2, <3>3 DEF RecordResult, Life!Next
    <3>4. CASE PrepareRun(w) \/ StartRun(w)
      BY <3>2, <3>4 DEF PrepareRun, StartRun, Life!Next
    <3>. QED
      BY <2>2, <3>3, <3>4
  <2>3. ASSUME NEW w \in Workers, WorkerStep(w)
        PROVE  PrepareRun(w) \/ StartRun(w) \/ RecordResult(w) \/ UNCHANGED storeVars
    BY <2>3 DEF WorkerStep, Claim, Trouble, Crash,
      Advance, Preflight, PrepareLost, Stage, StartSkipped,
      Execute, Fence, StoreOutput, OutputsStored, OutputsRefused, KeepEvidence,
      EvidenceRefused, RecordRefused, Publish, Acknowledge, DeadLetter, Release, LeaseLost
  <2>4. ASSUME NEW d \in Dispatchers, DispatchStep(d)
        PROVE  Life!Next \/ UNCHANGED storeVars
    BY <2>4 DEF DispatchStep, QueueRun, InspectDelivery, EnqueueMessage, Redrive,
      Interrupt, Life!Next
  <2>5. ASSUME NEW r \in Runs, CancelRun(r) PROVE Life!Next
    BY <2>5 DEF CancelRun, Life!Next
  <2>. QED
    BY <2>1, <2>2, <2>3, <2>4, <2>5 DEF Next, vars
<1>. QED
  BY <1>1, <1>2, ExecutionInvHolds, PTL DEF Spec, Life!Spec

-----------------------------------------------------------------------------
(* The hosted process: the inductive invariant *)

(* Runs for which the process has a container or a quarantine entry. *)
Referred == Entries(active) \cup Entries(quarantined)

(* There is room for one of them. *)
OneRun == \A r, q \in Referred : r = q

Free == \A r \in Runs : active[r] = None /\ quarantined[r] = None

(* After an execution and until its result is recorded. *)
Settling == {"fencing", "storing", "replay", "recording"}

(* What the maps and the delivery are while the process awaits something   *)
(* of its sandboxes.                                                       *)
AtRest ==
  /\ box = None
  /\ \A r \in Runs : active[r] # Coming
  /\ \A r \in Runs : active[r] # None => quarantined[r] = None

ContainerFits ==
  /\ step \in {"none", "cleaning", "room"} => AtRest
  /\ step \in {"cleaning", "room"} => Staging /\ active[HostRun] = None
  /\ step = "creating" =>
       Staging /\ box = None /\ active[HostRun] = Coming /\ quarantined[HostRun] = None
  /\ step \in {"booting", "killing"} => Staging /\ box \in Boxes /\ active[HostRun] = Coming
  /\ step = "booting" => quarantined[HostRun] = None
  /\ step = "killing" => quarantined[HostRun] \in {box, None}
  /\ step \in {"open", "ending"} =>
       box \in Boxes /\ active[HostRun] = box /\ quarantined[HostRun] = None
  /\ step = "open" => worker[Host].phase \in {"staging", "restaging", "starting", "executing"}
  /\ step = "ending" => worker[Host].phase \in {"executing", "failing", "rejecting"}
  /\ step = "ended" => At(Host, "executing") /\ box \in Boxes /\ Free
  /\ At(Host, "starting") => step = "open"
  /\ At(Host, "executing") => step \in {"open", "ending", "ended"}
  /\ worker[Host].phase \in Settling => step = "none" /\ Free

(* A kill the process awaits is about what it awaits.  A late one is about *)
(* whatever is under the Run's id when it is answered.                     *)
KillFits(k) ==
  /\ k.by = "end" => step = "ending" /\ k.box = box /\ k.run = HostRun
  /\ k.by = "startup" => step = "killing" /\ k.box = box /\ k.run = HostRun
  /\ k.by = "get" => step = "cleaning" /\ quarantined[k.run] \in {None, k.box}

HostInv ==
  /\ HostTypeOK
  /\ OneRun
  /\ ContainerFits
  /\ \A k \in kills : KillFits(k)

(* While the process awaits a sandbox, it has a delivery. *)
LEMMA HostBusy ==
  ASSUME ExecutionInv, HostInv
  PROVE  /\ worker \in [Workers -> Worker]
         /\ step # "none" => ~ At(Host, "idle")
         /\ ~ At(Host, "idle") => HostRun \in Runs
<1>1. worker \in [Workers -> Worker] /\ Grounded(Host)
  BY DEF ExecutionInv, TypeOK
<1>2. step # "none" => ~ At(Host, "idle")
  BY DEF HostInv, HostTypeOK, Steps, ContainerFits, At, Staging
<1>. QED
  BY <1>1, <1>2 DEF Grounded, HostRun

(* Where only the Host's delivery moves on. *)
LEMMA HostFrame ==
  ASSUME ExecutionInv, HostInv,
         UNCHANGED <<active, quarantined, kills, step, box>>, HostTypeOK',
         \/ worker'[Host] = worker[Host]
         \/ /\ step = "none"
            /\ worker'[Host].phase \notin {"starting", "executing"}
            /\ worker'[Host].phase \in Settling => worker[Host].phase \in Settling
  PROVE  HostInv'
<1>1. OneRun'
  BY DEF HostInv, OneRun, Referred, Entries
<1>2. ContainerFits'
  <2>1. CASE worker'[Host] = worker[Host]
    BY <2>1 DEF HostInv, ContainerFits, AtRest, Free, Staging, HostRun, Job, At
  <2>2. CASE worker'[Host] # worker[Host]
    BY <2>2 DEF HostInv, ContainerFits, AtRest, Free, At
  <2>. QED
    BY <2>1, <2>2
<1>3. \A k \in kills' : KillFits(k)'
  <2>. TAKE k \in kills'
  <2>1. k \in kills /\ KillFits(k)
    BY DEF HostInv
  <2>2. CASE worker'[Host] = worker[Host]
    BY <2>1, <2>2 DEF KillFits, HostRun, Job
  <2>3. CASE worker'[Host] # worker[Host]
    BY <2>1, <2>3 DEF KillFits
  <2>. QED
    BY <2>2, <2>3
<1>. QED
  BY <1>1, <1>2, <1>3 DEF HostInv

-----------------------------------------------------------------------------
(* The hosted process: steps among the sandboxes *)

(* Entries that change for one Run only, which had one or finds room. *)
LEMMA OneEntry ==
  ASSUME HostInv, NEW r \in Runs, r \in Referred \/ Referred = {},
         \A q \in Runs \ {r} : active'[q] = active[q] /\ quarantined'[q] = quarantined[q]
  PROVE  OneRun' /\ \A q \in Runs \ {r} : active'[q] = None /\ quarantined'[q] = None
BY DEF HostInv, OneRun, Referred, Entries

LEMMA GetKeeps ==
  ASSUME ExecutionInv, HostInv, Get \/ CleaningEnds \/ Create \/ Refuse
  PROVE  HostInv'
<1>. USE DEF HostInv
<1>1. /\ worker \in [Workers -> Worker] /\ HostRun \in Runs
      /\ Staging /\ step \in {"none", "cleaning", "room"} /\ AtRest
  <2>1. /\ step \in {"none", "cleaning", "room"} /\ (step = "none" => Staging)
        /\ step # "none" => Staging
    BY DEF Get, CleaningEnds, Create, Refuse, ContainerFits
  <2>. QED
    BY <2>1, HostBusy DEF Staging, At, ContainerFits
<1>2. HostTypeOK /\ active \in [Runs -> Boxes \cup {None, Coming}]
      /\ quarantined \in [Runs -> Boxes \cup {None, Coming}]
  BY DEF HostTypeOK
<1>3. CASE Get
  <2>1. UNCHANGED <<worker, active, quarantined, late, live, lean, faults>> /\ HostRun' = HostRun
    BY <1>3 DEF Get, vars, HostRun, Job
  <2>2. CASE active[HostRun] # None
    <3>1. step' = "open" /\ box' = active[HostRun] /\ kills' = kills /\ step = "none"
      BY <1>3, <2>2 DEF Get
    <3>2. box' \in Boxes /\ quarantined[HostRun] = None
      BY <1>1, <1>2, <2>2, <3>1 DEF AtRest
    <3>3. HostTypeOK'
      BY <1>2, <2>1, <3>1, <3>2 DEF HostTypeOK, Steps
    <3>4. ContainerFits'
      BY <1>1, <2>1, <3>1, <3>2 DEF ContainerFits, Staging, At, Settling
    <3>5. \A k \in kills' : KillFits(k)'
      BY <3>1 DEF KillFits
    <3>. QED
      BY <2>1, <3>3, <3>4, <3>5 DEF OneRun, Referred, Entries
  <2>3. CASE active[HostRun] = None
    <3>1. /\ step' \in {"room", "cleaning"} /\ box' = box /\ step = "none"
          /\ kills' = kills \cup {k \in Kill : k.by = "get" /\ quarantined[k.run] = k.box}
          /\ Entries(quarantined) = {} => step' = "room"
          /\ Entries(quarantined) # {} => step' = "cleaning"
      BY <1>3, <2>3 DEF Get
    <3>3. HostTypeOK'
      BY <1>2, <2>1, <3>1 DEF HostTypeOK, Steps
    <3>4. ContainerFits'
      BY <1>1, <2>1, <2>3, <3>1 DEF ContainerFits, Staging, At, Settling, AtRest
    <3>5. \A k \in kills' : KillFits(k)'
      <4>. TAKE k \in kills'
      <4>1. CASE k \in kills
        BY <3>1, <4>1 DEF KillFits
      <4>2. CASE k \notin kills
        <5>1. k \in Kill /\ k.by = "get" /\ quarantined[k.run] = k.box
          BY <3>1, <4>2
        <5>2. k.run \in Runs /\ k.box \in Boxes
          BY <5>1 DEF Kill
        <5>3. k.run \in Entries(quarantined)
          BY <5>1, <5>2 DEF Entries
        <5>. QED
          BY <2>1, <3>1, <5>1, <5>3 DEF KillFits
      <4>. QED
        BY <4>1, <4>2
    <3>. QED
      BY <2>1, <3>3, <3>4, <3>5 DEF OneRun, Referred, Entries
  <2>. QED
    BY <2>2, <2>3
<1>4. CASE CleaningEnds
  <2>1. /\ UNCHANGED <<worker, active, quarantined, late, kills, live, lean, box, faults>>
        /\ HostRun' = HostRun /\ step = "cleaning" /\ step' = "room" /\ ~ Asked("get")
    BY <1>4 DEF CleaningEnds, vars, factoryVars, HostRun, Job
  <2>2. HostTypeOK'
    BY <1>2, <2>1 DEF HostTypeOK, Steps
  <2>3. ContainerFits'
    BY <1>1, <2>1 DEF ContainerFits, Staging, At, Settling, AtRest
  <2>4. \A k \in kills' : KillFits(k)'
    BY <2>1 DEF KillFits, Asked
  <2>. QED
    BY <2>1, <2>2, <2>3, <2>4 DEF OneRun, Referred, Entries
<1>5. CASE Create
  <2>1. /\ UNCHANGED <<worker, quarantined, late, kills, live, lean, box, faults>>
        /\ HostRun' = HostRun /\ step = "room" /\ step' = "creating" /\ Referred = {}
        /\ active' = [active EXCEPT ![HostRun] = Coming]
    BY <1>5 DEF Create, vars, HostRun, Job, Put, NoRoom, Referred
  <2>2. HostTypeOK'
    BY <1>2, <2>1 DEF HostTypeOK, Steps
  <2>3. quarantined[HostRun] = None
    BY <1>1, <2>1 DEF Referred, Entries
  <2>4. ContainerFits'
    BY <1>1, <1>2, <2>1, <2>3 DEF ContainerFits, Staging, At, Settling, AtRest
  <2>5. \A k \in kills' : KillFits(k)'
    BY <2>1 DEF KillFits
  <2>6. OneRun'
    BY <1>1, <1>2, <2>1, OneEntry
  <2>. QED
    BY <2>2, <2>4, <2>5, <2>6
<1>6. CASE Refuse
  <2>1. /\ UNCHANGED <<active, quarantined, late, kills, live, lean, box, faults>>
        /\ step = "room" /\ step' = "none"
        /\ worker' = [worker EXCEPT ![Host].phase = "failing"]
    BY <1>6 DEF Refuse, Fails, Goto, factoryVars
  <2>2. worker'[Host].phase = "failing"
    BY <1>1, <2>1 DEF Worker
  <2>3. HostTypeOK'
    BY <1>2, <2>1 DEF HostTypeOK, Steps
  <2>4. ContainerFits'
    BY <1>1, <2>1, <2>2 DEF ContainerFits, At, Settling, AtRest
  <2>5. \A k \in kills' : KillFits(k)'
    BY <2>1 DEF KillFits
  <2>. QED
    BY <2>1, <2>3, <2>4, <2>5 DEF OneRun, Referred, Entries
<1>. QED
  BY <1>3, <1>4, <1>5, <1>6

(* What the maps hold, one by one. *)
LEMMA MapFacts ==
  ASSUME HostInv
  PROVE  /\ active \in [Runs -> Boxes \cup {None, Coming}]
         /\ quarantined \in [Runs -> Boxes \cup {None, Coming}]
         /\ late \in [Runs -> Nat] /\ kills \subseteq Kill /\ live \subseteq Boxes
         /\ lean \in [Boxes -> Sessions] /\ step \in Steps /\ box \in Boxes \cup {None}
         /\ faults \in 0..MaxFaults
BY DEF HostInv, HostTypeOK

LEMMA FaultType ==
  ASSUME HostInv, Fault PROVE faults' \in 0..MaxFaults
BY DEF HostInv, HostTypeOK, Fault

(* The sandbox that is awaited, one that comes late, and one that does not *)
(* come.                                                                   *)
LEMMA CreationKeeps ==
  ASSUME ExecutionInv, HostInv,
         \/ \E b \in Boxes : Created(b)
         \/ \E r \in Runs, b \in Boxes : CreatedLate(r, b)
         \/ CreationFails
         \/ \E r \in Runs : CreationFailsLate(r)
  PROVE  HostInv'
<1>. USE DEF HostInv
<1>1. worker \in [Workers -> Worker] /\ (step # "none" => HostRun \in Runs)
  BY HostBusy
<1>2. ASSUME NEW b \in Boxes, Created(b) PROVE HostInv'
  <2>1. /\ UNCHANGED <<worker, active, quarantined, late, kills, faults>>
        /\ HostRun' = HostRun /\ step = "creating" /\ step' = "booting" /\ box' = b
        /\ live' = live \cup {b} /\ lean' = [lean EXCEPT ![b] = "fresh"]
    BY <1>2 DEF Created, Appears, vars, HostRun, Job
  <2>2. HostTypeOK'
    BY <2>1, MapFacts DEF HostTypeOK, Steps, Sessions
  <2>3. ContainerFits'
    BY <1>1, <2>1 DEF ContainerFits, Staging, At, Settling
  <2>4. \A k \in kills' : KillFits(k)'
    BY <2>1 DEF KillFits
  <2>. QED
    BY <2>1, <2>2, <2>3, <2>4 DEF OneRun, Referred, Entries
<1>3. ASSUME NEW r \in Runs, NEW b \in Boxes, CreatedLate(r, b) PROVE HostInv'
  <2>. DEFINE new == [box |-> b, run |-> r, by |-> "late"]
  <2>1. /\ UNCHANGED <<worker, active, step, box, faults>> /\ HostRun' = HostRun
        /\ late' = [late EXCEPT ![r] = @ - 1] /\ late[r] > 0
        /\ live' = live \cup {b} /\ lean' = [lean EXCEPT ![b] = "fresh"]
        /\ kills' = kills \cup {new}
        /\ \/ quarantined' = quarantined
           \/ quarantined[r] = Coming /\ quarantined' = [quarantined EXCEPT ![r] = b]
    BY <1>3 DEF CreatedLate, Appears, Put, vars, HostRun, Job
  <2>2. new \in Kill
    BY DEF Kill
  <2>3. \A q \in Runs : quarantined'[q] # quarantined[q] =>
                          quarantined[q] = Coming /\ quarantined'[q] \in Boxes
    BY <2>1, MapFacts
  <2>4. HostTypeOK'
    <3>1. late' \in [Runs -> Nat]
      BY <2>1, MapFacts
    <3>2. quarantined' \in [Runs -> Boxes \cup {None, Coming}] /\ lean' \in [Boxes -> Sessions]
      BY <2>1, MapFacts DEF Sessions
    <3>. QED
      BY <2>1, <2>2, <3>1, <3>2, MapFacts DEF HostTypeOK
  <2>5. OneRun'
    <3>1. Referred' = Referred
      BY <2>1, <2>3 DEF Referred, Entries
    <3>. QED
      BY <3>1 DEF OneRun
  <2>6. ContainerFits'
    <3>1. AtRest => AtRest'
      BY <2>1, <2>3 DEF AtRest
    <3>2. Free => Free'
      BY <2>1, <2>3 DEF Free
    <3>3. step # "none" => (quarantined[HostRun] \in {box, None} => quarantined'[HostRun] = quarantined[HostRun])
      BY <1>1, <2>1, <2>3, MapFacts
    <3>4. step \in {"creating", "booting", "open", "ending"} =>
            (quarantined[HostRun] = None => quarantined'[HostRun] = None)
      BY <1>1, <2>3
    <3>. QED
      BY <2>1, <3>1, <3>2, <3>3, <3>4 DEF ContainerFits, Staging, At
  <2>7. \A k \in kills' : KillFits(k)'
    <3>. TAKE k \in kills'
    <3>1. CASE k \in kills
      <4>1. k.run \in Runs /\ k.box \in Boxes
        BY <3>1, MapFacts DEF Kill
      <4>. QED
        BY <2>1, <2>3, <3>1, <4>1 DEF KillFits
    <3>2. CASE k = new
      BY <3>2 DEF KillFits
    <3>. QED
      BY <2>1, <3>1, <3>2
  <2>. QED
    BY <2>4, <2>5, <2>6, <2>7
<1>4. CASE CreationFails
  <2>1. /\ UNCHANGED <<quarantined, late, kills, live, lean, box>> /\ Fault
        /\ step = "creating" /\ step' = "none"
        /\ active' = [active EXCEPT ![HostRun] = None]
        /\ worker' = [worker EXCEPT ![Host].phase = "failing"]
    BY <1>4 DEF CreationFails, Fails, Goto, Remove
  <2>2. worker'[Host].phase = "failing"
    BY <1>1, <2>1 DEF Worker
  <2>3. HostTypeOK'
    BY <1>1, <2>1, MapFacts, FaultType DEF HostTypeOK, Steps
  <2>4. HostRun \in Runs /\ active[HostRun] = Coming /\ box = None
    BY <1>1, <2>1 DEF ContainerFits
  <2>5. OneRun' /\ \A q \in Runs \ {HostRun} : active'[q] = None /\ quarantined'[q] = None
    BY <2>1, <2>4, MapFacts, OneEntry DEF Referred, Entries
  <2>6. AtRest'
    BY <2>1, <2>4, <2>5, MapFacts DEF AtRest
  <2>7. ContainerFits'
    BY <2>1, <2>2, <2>6 DEF ContainerFits, At, Settling
  <2>8. \A k \in kills' : KillFits(k)'
    BY <2>1 DEF KillFits
  <2>. QED
    BY <2>3, <2>5, <2>7, <2>8
<1>5. ASSUME NEW r \in Runs, CreationFailsLate(r) PROVE HostInv'
  <2>1. /\ UNCHANGED <<worker, active, kills, live, lean, step, box, faults>> /\ HostRun' = HostRun
        /\ late' = [late EXCEPT ![r] = @ - 1] /\ late[r] > 0
        /\ quarantined' = [quarantined EXCEPT ![r] = None]
    BY <1>5 DEF CreationFailsLate, Remove, vars, HostRun, Job
  <2>2. \A q \in Runs : quarantined'[q] \in {quarantined[q], None}
    BY <2>1, MapFacts
  <2>3. late' \in [Runs -> Nat] /\ quarantined' \in [Runs -> Boxes \cup {None, Coming}]
    BY <2>1, MapFacts
  <2>4. HostTypeOK'
    BY <2>1, <2>3, MapFacts DEF HostTypeOK
  <2>5. OneRun'
    BY <2>1, <2>2 DEF OneRun, Referred, Entries
  <2>6. ContainerFits'
    <3>1. AtRest => AtRest'
      BY <2>1, <2>2 DEF AtRest
    <3>2. Free => Free'
      BY <2>1, <2>2 DEF Free
    <3>3. HostRun \in Runs => quarantined'[HostRun] \in {quarantined[HostRun], None}
      BY <2>2
    <3>. QED
      BY <1>1, <2>1, <3>1, <3>2, <3>3 DEF ContainerFits, Staging, At
  <2>7. \A k \in kills' : KillFits(k)'
    <3>. TAKE k \in kills'
    <3>1. k \in kills /\ k.run \in Runs
      BY <2>1, MapFacts DEF Kill
    <3>. QED
      BY <2>1, <2>2, <3>1 DEF KillFits
  <2>. QED
    BY <2>4, <2>5, <2>6, <2>7
<1>. QED
  BY <1>2, <1>3, <1>4, <1>5

(* The startup succeeds, or fails early or late, ... *)
LEMMA StartupKeeps ==
  ASSUME ExecutionInv, HostInv,
         Boot \/ StartupFailsEarly \/ StartupFails \/ StartupKilled
  PROVE  HostInv'
<1>. USE DEF HostInv
<1>1. worker \in [Workers -> Worker] /\ HostRun \in Runs /\ Staging /\ active[HostRun] = Coming
      /\ step \in {"creating", "booting", "killing"}
  <2>1. step \in {"creating", "booting", "killing"}
    BY DEF Boot, StartupFailsEarly, StartupFails, StartupKilled
  <2>. QED
    BY <2>1, HostBusy DEF ContainerFits
<1>2. HostRun \in Referred
  BY <1>1 DEF Referred, Entries
<1>3. CASE Boot
  <2>1. /\ UNCHANGED <<worker, quarantined, late, kills, live, lean, box, faults>>
        /\ HostRun' = HostRun /\ step = "booting" /\ step' = "open"
        /\ active' = [active EXCEPT ![HostRun] = box]
    BY <1>3 DEF Boot, Put, vars, HostRun, Job
  <2>2. box \in Boxes /\ quarantined[HostRun] = None /\ active'[HostRun] = box
    BY <1>1, <2>1, MapFacts DEF ContainerFits
  <2>3. HostTypeOK'
    BY <1>1, <2>1, <2>2, MapFacts DEF HostTypeOK, Steps
  <2>4. OneRun'
    BY <1>1, <1>2, <2>1, MapFacts, OneEntry
  <2>5. ContainerFits'
    BY <1>1, <2>1, <2>2 DEF ContainerFits, Staging, At, Settling
  <2>6. \A k \in kills' : KillFits(k)'
    BY <2>1 DEF KillFits
  <2>. QED
    BY <2>3, <2>4, <2>5, <2>6
<1>4. CASE StartupFailsEarly
  <2>1. /\ UNCHANGED <<kills, live, lean, box>> /\ Fault
        /\ step = "creating" /\ step' = "none" /\ box = None
        /\ late' = [late EXCEPT ![HostRun] = @ + 1]
        /\ quarantined' = [quarantined EXCEPT ![HostRun] = Coming]
        /\ active' = [active EXCEPT ![HostRun] = None]
        /\ worker' = [worker EXCEPT ![Host].phase = "failing"]
    BY <1>4 DEF StartupFailsEarly, Fails, Goto, Remove, Put, ContainerFits
  <2>2. worker'[Host].phase = "failing"
    BY <1>1, <2>1 DEF Worker
  <2>3. HostTypeOK'
    <3>1. late' \in [Runs -> Nat]
      BY <1>1, <2>1, MapFacts
    <3>2. quarantined' \in [Runs -> Boxes \cup {None, Coming}]
          /\ active' \in [Runs -> Boxes \cup {None, Coming}]
      BY <1>1, <2>1, MapFacts
    <3>. QED
      BY <2>1, <3>1, <3>2, MapFacts, FaultType DEF HostTypeOK, Steps
  <2>4. OneRun' /\ \A q \in Runs \ {HostRun} : active'[q] = None /\ quarantined'[q] = None
    BY <1>1, <1>2, <2>1, MapFacts, OneEntry
  <2>5. AtRest'
    BY <1>1, <2>1, <2>4, MapFacts DEF AtRest
  <2>6. ContainerFits'
    BY <2>1, <2>2, <2>5 DEF ContainerFits, At, Settling
  <2>7. \A k \in kills' : KillFits(k)'
    BY <2>1 DEF KillFits
  <2>. QED
    BY <2>3, <2>4, <2>6, <2>7
<1>5. CASE StartupFails
  <2>. DEFINE new == [box |-> box, run |-> HostRun, by |-> "startup"]
  <2>1. /\ UNCHANGED <<worker, active, late, live, lean, box>> /\ Fault
        /\ HostRun' = HostRun /\ step = "booting" /\ step' = "killing" /\ box \in Boxes
        /\ quarantined' = [quarantined EXCEPT ![HostRun] = box]
        /\ kills' = kills \cup {new}
    BY <1>5 DEF StartupFails, Asks, Put, vars, HostRun, Job, ContainerFits
  <2>2. new \in Kill
    BY <1>1, <2>1 DEF Kill
  <2>3. HostTypeOK'
    <3>1. quarantined' \in [Runs -> Boxes \cup {None, Coming}]
      BY <1>1, <2>1, MapFacts
    <3>. QED
      BY <2>1, <2>2, <3>1, MapFacts, FaultType DEF HostTypeOK, Steps
  <2>4. OneRun'
    BY <1>1, <1>2, <2>1, MapFacts, OneEntry
  <2>5. quarantined'[HostRun] = box
    BY <1>1, <2>1, MapFacts
  <2>6. ContainerFits'
    BY <1>1, <2>1, <2>5 DEF ContainerFits, Staging, At, Settling
  <2>7. \A k \in kills' : KillFits(k)'
    <3>. TAKE k \in kills'
    <3>1. CASE k \in kills
      BY <2>1, <3>1 DEF KillFits
    <3>2. CASE k = new
      BY <2>1, <3>2 DEF KillFits
    <3>. QED
      BY <2>1, <3>1, <3>2
  <2>. QED
    BY <2>3, <2>4, <2>6, <2>7
<1>6. CASE StartupKilled
  <2>1. /\ UNCHANGED <<quarantined, late, kills, live, lean, faults>> /\ ~ Asked("startup")
        /\ step = "killing" /\ step' = "none" /\ box' = None
        /\ active' = [active EXCEPT ![HostRun] = None]
        /\ worker' = [worker EXCEPT ![Host].phase = "failing"]
    BY <1>6 DEF StartupKilled, Fails, Goto, Remove
  <2>2. worker'[Host].phase = "failing"
    BY <1>1, <2>1 DEF Worker
  <2>3. HostTypeOK'
    BY <1>1, <2>1, MapFacts DEF HostTypeOK, Steps
  <2>4. OneRun' /\ \A q \in Runs \ {HostRun} : active'[q] = None /\ quarantined'[q] = None
    BY <1>1, <1>2, <2>1, MapFacts, OneEntry
  <2>5. AtRest'
    BY <1>1, <2>1, <2>4, MapFacts DEF AtRest
  <2>6. ContainerFits'
    BY <2>1, <2>2, <2>5 DEF ContainerFits, At, Settling
  <2>7. \A k \in kills' : KillFits(k)'
    BY <2>1 DEF KillFits, Asked
  <2>. QED
    BY <2>3, <2>4, <2>6, <2>7
<1>. QED
  BY <1>3, <1>4, <1>5, <1>6

(* ... and kills are answered, whichever of them comes first. *)
LEMMA KilledKeeps ==
  ASSUME ExecutionInv, HostInv, NEW k \in kills, Killed(k)
  PROVE  HostInv'
<1>. USE DEF HostInv
<1>1. /\ worker \in [Workers -> Worker] /\ (step # "none" => HostRun \in Runs)
      /\ k.run \in Runs /\ k.box \in Boxes /\ KillFits(k)
  BY HostBusy, MapFacts DEF Kill
<1>2. /\ UNCHANGED <<worker, late, lean, faults>> /\ HostRun' = HostRun
      /\ kills' = kills \ {k} /\ live' = live \ {k.box}
  BY DEF Killed, vars, HostRun, Job
<1>3. CASE k.by = "end"
  <2>1. /\ UNCHANGED quarantined
        /\ active' = [active EXCEPT ![HostRun] = None]
        /\ step = "ending" /\ k.box = box
        /\ IF At(Host, "executing") THEN step' = "ended" /\ box' = box
                                    ELSE step' = "none" /\ box' = None
    BY <1>1, <1>3 DEF Killed, Remove, KillFits
  <2>2. /\ HostRun \in Runs /\ box \in Boxes
        /\ active[HostRun] = box /\ quarantined[HostRun] = None
    BY <1>1, <2>1 DEF ContainerFits
  <2>3. HostTypeOK'
    BY <1>1, <1>2, <2>1, <2>2, MapFacts DEF HostTypeOK, Steps
  <2>4. OneRun' /\ \A q \in Runs \ {HostRun} : active'[q] = None /\ quarantined'[q] = None
    BY <2>1, <2>2, MapFacts, OneEntry DEF Referred, Entries
  <2>5. Free'
    BY <2>1, <2>2, <2>4, MapFacts DEF Free
  <2>6. ContainerFits'
    BY <1>1, <1>2, <2>1, <2>2, <2>5 DEF ContainerFits, AtRest, Free, At, Settling
  <2>7. \A x \in kills' : KillFits(x)'
    <3>. TAKE x \in kills'
    <3>1. x \in kills /\ x # k /\ KillFits(x) /\ x \in Kill /\ k \in Kill
      BY <1>2, MapFacts
    <3>2. x.by # "end"
      <4>1. x.by = "end" => x.box = k.box /\ x.run = k.run /\ x.by = k.by
        BY <1>1, <1>3, <3>1 DEF KillFits
      <4>2. x.by = "end" => x = k
        BY <3>1, <4>1 DEF Kill
      <4>. QED
        BY <3>1, <4>2
    <3>. QED
      BY <2>1, <3>1, <3>2 DEF KillFits
  <2>. QED
    BY <2>3, <2>4, <2>6, <2>7
<1>4. CASE k.by # "end"
  <2>1. /\ UNCHANGED <<active, step, box>>
        /\ quarantined' = [quarantined EXCEPT ![k.run] = None]
    BY <1>4 DEF Killed, Remove
  <2>2. \A q \in Runs : quarantined'[q] \in {quarantined[q], None}
    BY <1>1, <2>1, MapFacts
  <2>3. HostTypeOK'
    BY <1>1, <1>2, <2>1, MapFacts DEF HostTypeOK
  <2>4. OneRun'
    BY <2>1, <2>2 DEF OneRun, Referred, Entries
  <2>5. ContainerFits'
    <3>1. AtRest => AtRest'
      BY <2>1, <2>2 DEF AtRest
    <3>2. Free => Free'
      BY <2>1, <2>2 DEF Free
    <3>3. step # "none" => quarantined'[HostRun] \in {quarantined[HostRun], None}
      BY <1>1, <2>2
    <3>. QED
      BY <1>1, <1>2, <2>1, <3>1, <3>2, <3>3 DEF ContainerFits, Staging, At
  <2>6. \A x \in kills' : KillFits(x)'
    <3>. TAKE x \in kills'
    <3>1. x \in kills /\ x.run \in Runs
      BY <1>2, MapFacts DEF Kill
    <3>. QED
      BY <1>2, <2>1, <2>2, <3>1 DEF KillFits
  <2>. QED
    BY <2>3, <2>4, <2>5, <2>6
<1>. QED
  BY <1>3, <1>4

LEMMA KillFailsKeeps ==
  ASSUME ExecutionInv, HostInv, NEW k \in kills, KillFails(k)
  PROVE  HostInv'
<1>. USE DEF HostInv
<1>1. /\ worker \in [Workers -> Worker] /\ (step # "none" => HostRun \in Runs)
      /\ k.run \in Runs /\ k.box \in Boxes /\ KillFits(k)
  BY HostBusy, MapFacts DEF Kill
<1>2. /\ UNCHANGED <<late, lean>> /\ Fault
      /\ kills' = kills \ {k} /\ live' \in {live, live \ {k.box}}
  BY DEF KillFails
<1>3. CASE k.by = "end"
  <2>1. /\ step = "ending" /\ k.box = box /\ k.run = HostRun
        /\ HostRun \in Runs /\ box \in Boxes
        /\ active[HostRun] = box /\ quarantined[HostRun] = None
        /\ worker[Host].phase \in {"executing", "failing", "rejecting"}
    BY <1>1, <1>3 DEF KillFits, ContainerFits
  <2>2. /\ step' = "none" /\ box' = None
        /\ active' = [active EXCEPT ![HostRun] = None]
        /\ quarantined' = [quarantined EXCEPT ![HostRun] = box]
        /\ \/ At(Host, "executing") /\ worker' = [worker EXCEPT ![Host].phase = "failing"]
           \/ ~ At(Host, "executing") /\ worker' = worker
    BY <1>3, <2>1 DEF KillFails, Remove, Put, Fails, Goto
  <2>3. worker'[Host].phase \in {"failing", "rejecting"}
    BY <1>1, <2>1, <2>2 DEF Worker, At
  <2>4. HostTypeOK'
    <3>1. /\ active' \in [Runs -> Boxes \cup {None, Coming}]
          /\ quarantined' \in [Runs -> Boxes \cup {None, Coming}]
      BY <2>1, <2>2, MapFacts
    <3>. QED
      BY <1>2, <2>2, <3>1, MapFacts, FaultType DEF HostTypeOK, Steps
  <2>5. OneRun' /\ \A q \in Runs \ {HostRun} : active'[q] = None /\ quarantined'[q] = None
    BY <2>1, <2>2, MapFacts, OneEntry DEF Referred, Entries
  <2>6. AtRest'
    BY <2>1, <2>2, <2>5, MapFacts DEF AtRest
  <2>7. ContainerFits'
    BY <2>2, <2>3, <2>6 DEF ContainerFits, At, Settling
  <2>8. \A x \in kills' : KillFits(x)'
    <3>. TAKE x \in kills'
    <3>1. x \in kills /\ x # k /\ KillFits(x) /\ x \in Kill /\ k \in Kill
      BY <1>2, MapFacts
    <3>2. x.by # "end"
      <4>1. x.by = "end" => x.box = k.box /\ x.run = k.run /\ x.by = k.by
        BY <1>1, <1>3, <3>1 DEF KillFits
      <4>2. x.by = "end" => x = k
        BY <3>1, <4>1 DEF Kill
      <4>. QED
        BY <3>1, <4>2
    <3>. QED
      BY <2>1, <3>1, <3>2 DEF KillFits
  <2>. QED
    BY <2>4, <2>5, <2>7, <2>8
<1>4. CASE k.by # "end"
  <2>1. UNCHANGED <<worker, active, quarantined, step, box>> /\ HostRun' = HostRun
    BY <1>4 DEF KillFails, HostRun, Job
  <2>2. HostTypeOK'
    BY <1>2, <2>1, MapFacts, FaultType DEF HostTypeOK
  <2>3. OneRun'
    BY <2>1 DEF OneRun, Referred, Entries
  <2>4. ContainerFits'
    BY <2>1 DEF ContainerFits, AtRest, Free, Staging, At
  <2>5. \A x \in kills' : KillFits(x)'
    BY <1>2, <2>1 DEF KillFits
  <2>. QED
    BY <2>2, <2>3, <2>4, <2>5
<1>. QED
  BY <1>3, <1>4

(* The session of a Run in its sandbox, and the end of the sandbox. *)
LEMMA SessionKeeps ==
  ASSUME ExecutionInv, HostInv,
         \/ PostExecute \/ ForwardCancel
         \/ \E b \in Boxes : LeanEnds(b) \/ Expire(b)
  PROVE  HostInv'
<1>1. UNCHANGED <<worker, active, quarantined, late, kills, step, box, faults>>
  BY DEF PostExecute, ForwardCancel, LeanEnds, Expire, vars, factoryVars
<1>2. live' \subseteq live /\ lean' \in [Boxes -> Sessions]
  BY MapFacts DEF PostExecute, ForwardCancel, LeanEnds, Expire, factoryVars, Sessions
<1>3. HostTypeOK'
  BY <1>1, <1>2, MapFacts DEF HostTypeOK
<1>. QED
  BY <1>1, <1>3, HostFrame

LEMMA EndingKeeps ==
  ASSUME ExecutionInv, HostInv, Discard \/ PostComplete
  PROVE  HostInv'
<1>. USE DEF HostInv
<1>. DEFINE new == [box |-> box, run |-> HostRun, by |-> "end"]
<1>1. step = "open" /\ worker \in [Workers -> Worker] /\ HostRun \in Runs
  <2>1. step = "open"
    BY DEF Discard, PostComplete, Serving
  <2>. QED
    BY <2>1, HostBusy
<1>2. box \in Boxes /\ active[HostRun] = box /\ quarantined[HostRun] = None
  BY <1>1 DEF ContainerFits
<1>3. /\ UNCHANGED <<active, quarantined, late, live, lean, box>> /\ step' = "ending"
      /\ kills' = kills \cup {new} /\ faults' \in 0..MaxFaults
      /\ \/ worker' = worker /\ At(Host, "executing")
         \/ \E phase \in {"failing", "rejecting"} :
              worker' = [worker EXCEPT ![Host].phase = phase]
  BY MapFacts, FaultType DEF Discard, PostComplete, Asks, Fails, Goto, vars
<1>4. worker'[Host].phase \in {"executing", "failing", "rejecting"} /\ HostRun' = HostRun
  <2>1. CASE worker' = worker /\ At(Host, "executing")
    BY <2>1 DEF At, HostRun, Job
  <2>2. ASSUME NEW phase \in {"failing", "rejecting"},
               worker' = [worker EXCEPT ![Host].phase = phase]
        PROVE  worker'[Host].phase = phase /\ HostRun' = HostRun
    BY <1>1, <2>2 DEF Worker, HostRun, Job
  <2>. QED
    BY <1>3, <2>1, <2>2
<1>5. HostTypeOK'
  <2>1. new \in Kill
    BY <1>1, <1>2 DEF Kill
  <2>. QED
    BY <1>3, <2>1, MapFacts DEF HostTypeOK, Steps
<1>6. OneRun'
  BY <1>3 DEF OneRun, Referred, Entries
<1>7. ContainerFits'
  BY <1>2, <1>3, <1>4 DEF ContainerFits, At, Settling
<1>8. \A k \in kills' : KillFits(k)'
  <2>. TAKE k \in kills'
  <2>1. CASE k \in kills
    BY <1>1, <1>3, <2>1 DEF KillFits
  <2>2. CASE k = new
    BY <1>3, <1>4, <2>2 DEF KillFits
  <2>. QED
    BY <1>3, <2>1, <2>2
<1>. QED
  BY <1>5, <1>6, <1>7, <1>8

-----------------------------------------------------------------------------
(* The hosted process: its own steps *)

(* The delivery goes on while the container is in hand. *)
LEMMA OpenKeeps ==
  ASSUME ExecutionInv, HostInv, Transfer \/ Begin \/ Skip
  PROVE  HostInv'
<1>. USE DEF HostInv
<1>1. step = "open" /\ worker \in [Workers -> Worker] /\ HostRun \in Runs
  <2>1. step = "open"
    BY DEF Transfer, Begin, Skip, Serving
  <2>. QED
    BY <2>1, HostBusy
<1>2. box \in Boxes /\ active[HostRun] = box /\ quarantined[HostRun] = None
  BY <1>1 DEF ContainerFits
<1>3. /\ UNCHANGED factoryVars /\ lean' \in [Boxes -> Sessions] /\ faults' \in 0..MaxFaults
      /\ \E phase \in {"starting", "executing", "acknowledging"} :
           /\ worker' = [worker EXCEPT ![Host].phase = phase]
           /\ IF phase = "acknowledging" THEN step' = "none" /\ box' = None
                                         ELSE step' = "open" /\ box' = box
  <2>1. CASE Transfer
    BY <1>1, <2>1, MapFacts DEF Transfer, Stage, Goto, Sessions
  <2>2. CASE Begin
    BY <1>1, <2>2, MapFacts DEF Begin, StartRun, Goto, hostVars, factoryVars
  <2>3. CASE Skip
    <3>1. PICK phase \in {"executing", "acknowledging"} :
            worker' = [worker EXCEPT ![Host].phase = phase]
      BY <2>3 DEF Skip, StartSkipped, Goto
    <3>2. worker'[Host].phase = phase
      BY <1>1, <3>1 DEF Worker
    <3>. QED
      BY <1>1, <2>3, <3>1, <3>2, MapFacts DEF Skip, LetGo, At
  <2>. QED
    BY <2>1, <2>2, <2>3
<1>4. PICK phase \in {"starting", "executing", "acknowledging"} :
        /\ worker' = [worker EXCEPT ![Host].phase = phase]
        /\ IF phase = "acknowledging" THEN step' = "none" /\ box' = None
                                      ELSE step' = "open" /\ box' = box
  BY <1>3
<1>5. worker'[Host].phase = phase /\ HostRun' = HostRun
  BY <1>1, <1>4 DEF Worker, HostRun, Job
<1>6. UNCHANGED <<active, quarantined, late, kills, live>>
  BY <1>3 DEF factoryVars
<1>7. HostTypeOK'
  BY <1>2, <1>3, <1>4, <1>6, MapFacts DEF HostTypeOK, Steps
<1>8. phase = "acknowledging" => AtRest'
  <2>1. \A r \in Runs : r # HostRun => active[r] = None /\ quarantined[r] = None
    BY <1>1, <1>2 DEF OneRun, Referred, Entries
  <2>2. \A r \in Runs : active[r] # Coming /\ (active[r] # None => quarantined[r] = None)
    BY <1>2, <2>1
  <2>. QED
    BY <1>4, <1>6, <2>2 DEF AtRest
<1>9. ContainerFits'
  <2>1. CASE phase = "acknowledging"
    BY <1>4, <1>5, <1>8, <2>1 DEF ContainerFits, At, Settling
  <2>2. CASE phase # "acknowledging"
    BY <1>2, <1>4, <1>5, <1>6, <2>2 DEF ContainerFits, At, Settling
  <2>. QED
    BY <2>1, <2>2
<1>10. OneRun'
  BY <1>6 DEF OneRun, Referred, Entries
<1>11. \A k \in kills' : KillFits(k)'
  BY <1>1, <1>6 DEF KillFits
<1>. QED
  BY <1>7, <1>9, <1>10, <1>11

LEMMA AnswerKeeps ==
  ASSUME ExecutionInv, HostInv, NEW verdict, NEW out, Answer(verdict, out)
  PROVE  HostInv'
<1>. USE DEF HostInv
<1>1. /\ step = "ended" /\ step' = "none" /\ box' = None
      /\ UNCHANGED <<active, quarantined, late, kills, live, lean, faults>>
      /\ worker \in [Workers -> Worker] /\ Free
  BY HostBusy DEF Answer, LetGo, factoryVars, ContainerFits
<1>2. worker'[Host].phase = "fencing"
  BY <1>1 DEF Answer, Execute, Worker
<1>3. HostTypeOK'
  BY <1>1, MapFacts DEF HostTypeOK, Steps
<1>4. OneRun'
  BY <1>1 DEF OneRun, Referred, Entries
<1>5. ContainerFits'
  BY <1>1, <1>2 DEF ContainerFits, AtRest, Free, At
<1>6. \A k \in kills' : KillFits(k)'
  BY <1>1 DEF KillFits
<1>. QED
  BY <1>3, <1>4, <1>5, <1>6

(* A step that awaits no sandbox comes to none, and to no settling. *)
LEMMA AdvanceAlone ==
  ASSUME ExecutionInv, NEW w \in Workers, Advance(w),
         worker[w].phase \notin {"staging", "restaging", "starting", "executing"}
  PROVE  /\ worker'[w].phase \notin {"starting", "executing"}
         /\ worker'[w].phase \in Settling => worker[w].phase \in Settling
<1>1. worker \in [Workers -> Worker]
  BY DEF ExecutionInv, TypeOK
<1>2. ASSUME NEW phase, Goto(w, phase) PROVE worker'[w].phase = phase
  BY <1>1, <1>2 DEF Goto, Worker
<1>3. Quit(w) => worker'[w].phase = "idle"
  BY <1>1 DEF Quit, Idle
<1>4. CASE Preflight(w) \/ PrepareRun(w) \/ PrepareLost(w)
  <2>1. Goto(w, "preparing") \/ Goto(w, "staging") \/ Goto(w, "restaging")
          \/ Goto(w, "acknowledging") \/ Goto(w, "preflight")
    BY <1>4 DEF Preflight, PrepareRun, PrepareLost
  <2>. QED
    BY <1>2, <2>1 DEF Settling
<1>5. CASE Fence(w)
  <2>1. worker'[w].phase = "storing" /\ At(w, "fencing")
    BY <1>1, <1>5 DEF Fence, Worker
  <2>. QED
    BY <2>1 DEF Settling, At
<1>6. ASSUME NEW f \in Roles, StoreOutput(w, f) PROVE worker'[w] = worker[w]
  BY <1>6 DEF StoreOutput
<1>7. CASE OutputsStored(w) \/ OutputsRefused(w) \/ KeepEvidence(w) \/ EvidenceRefused(w)
           \/ RecordResult(w) \/ RecordRefused(w) \/ Publish(w)
  <2>1. /\ worker[w].phase \in Settling \cup {"publishing"}
        /\ \/ worker[w].phase \in Settling /\ (Goto(w, "replay") \/ Goto(w, "recording"))
           \/ Goto(w, "failing") \/ Goto(w, "publishing") \/ Goto(w, "acknowledging")
    BY <1>7 DEF OutputsStored, OutputsRefused, KeepEvidence, EvidenceRefused, RecordResult,
       RecordRefused, Publish, At, Settling
  <2>. QED
    BY <1>2, <2>1 DEF Settling
<1>8. CASE Acknowledge(w) \/ DeadLetter(w) \/ Release(w) \/ LeaseLost(w)
  <2>1. Quit(w) \/ Goto(w, "failing")
    BY <1>8 DEF Acknowledge, DeadLetter, Release, LeaseLost
  <2>. QED
    BY <1>2, <1>3, <2>1 DEF Settling
<1>9. ~ Stage(w) /\ ~ StartRun(w) /\ ~ StartSkipped(w)
      /\ \A verdict \in {"succeeded", "failed", "cancelled"}, out \in Outputs :
           ~ Execute(w, verdict, out)
  BY DEF Stage, StartRun, StartSkipped, Execute, At
<1>. QED
  BY <1>4, <1>5, <1>6, <1>7, <1>8, <1>9 DEF Advance

LEMMA AloneKeeps ==
  ASSUME ExecutionInv, HostInv, Alone
  PROVE  HostInv'
<1>1. UNCHANGED <<active, quarantined, late, kills, live, lean, step, box, faults>>
      /\ step = "none"
  BY DEF Alone, hostVars, factoryVars
<1>2. HostTypeOK'
  BY <1>1, MapFacts DEF HostTypeOK
<1>3. /\ worker'[Host].phase \notin {"starting", "executing"}
      /\ worker'[Host].phase \in Settling => worker[Host].phase \in Settling
  BY AdvanceAlone DEF Alone
<1>. QED
  BY <1>1, <1>2, <1>3, HostFrame

(* The process fails, or dies. *)
LEMMA HostTroubleKeeps ==
  ASSUME ExecutionInv, HostInv, HostTrouble
  PROVE  HostInv'
<1>. USE DEF HostInv
<1>1. /\ step \in {"none", "open", "ended"} /\ step' = "none" /\ box' = None
      /\ UNCHANGED <<active, quarantined, late, kills, live, lean>>
      /\ worker \in [Workers -> Worker] /\ faults' \in 0..MaxFaults
      /\ Trouble(Host)
  BY HostBusy, FaultType DEF HostTrouble, LetGo, factoryVars
<1>2. worker'[Host].phase \in {"failing", "rejecting"}
  BY <1>1 DEF Trouble, Goto, Worker
<1>3. HostTypeOK'
  BY <1>1, MapFacts DEF HostTypeOK, Steps
<1>4. OneRun'
  BY <1>1 DEF OneRun, Referred, Entries
<1>5. AtRest'
  <2>1. CASE step = "none"
    BY <1>1, <2>1 DEF ContainerFits, AtRest
  <2>2. CASE step = "ended"
    BY <1>1, <2>2 DEF ContainerFits, Free, AtRest
  <2>3. CASE step = "open"
    <3>1. HostRun \in Runs /\ box \in Boxes /\ active[HostRun] = box /\ quarantined[HostRun] = None
      BY <2>3, HostBusy DEF ContainerFits
    <3>2. \A r \in Runs : r # HostRun => active[r] = None /\ quarantined[r] = None
      BY <3>1 DEF OneRun, Referred, Entries
    <3>. QED
      BY <1>1, <3>1, <3>2 DEF AtRest
  <2>. QED
    BY <1>1, <2>1, <2>2, <2>3
<1>6. ContainerFits'
  BY <1>1, <1>2, <1>5 DEF ContainerFits, At, Settling
<1>7. \A k \in kills' : KillFits(k)'
  BY <1>1 DEF KillFits
<1>. QED
  BY <1>3, <1>4, <1>6, <1>7

LEMMA HostCrashKeeps ==
  ASSUME ExecutionInv, HostInv, HostCrash
  PROVE  HostInv'
<1>. USE DEF HostInv
<1>1. /\ step' = "none" /\ box' = None /\ kills' = {} /\ live' = {}
      /\ active' = [r \in Runs |-> None] /\ quarantined' = [r \in Runs |-> None]
      /\ late' = [r \in Runs |-> 0] /\ UNCHANGED <<lean, faults>>
      /\ worker'[Host].phase = "idle"
  BY HostBusy DEF HostCrash, LetGo, Crash, Quit, Idle
<1>2. HostTypeOK'
  BY <1>1, MapFacts DEF HostTypeOK, Steps
<1>3. OneRun' /\ AtRest'
  BY <1>1 DEF OneRun, Referred, Entries, AtRest
<1>4. ContainerFits'
  BY <1>1, <1>3 DEF ContainerFits, At, Settling
<1>5. \A k \in kills' : KillFits(k)'
  BY <1>1
<1>. QED
  BY <1>2, <1>3, <1>4, <1>5

(* The others leave the process alone, and a claim finds it at rest. *)
LEMMA ElsewhereHost ==
  ASSUME ExecutionInv, Elsewhere
  PROVE  \/ worker'[Host] = worker[Host]
         \/ /\ At(Host, "idle")
            /\ worker'[Host].phase \in {"preflight", "exhausted"}
<1>1. worker \in [Workers -> Worker]
  BY DEF ExecutionInv, TypeOK
<1>2. ASSUME NEW r \in Runs, Claim(Host, r)
      PROVE  At(Host, "idle") /\ worker'[Host].phase \in {"preflight", "exhausted"}
  BY <1>1, <1>2 DEF Claim, Idle
<1>3. ASSUME NEW w \in Workers \ {Host}, WorkerStep(w) PROVE worker'[Host] = worker[Host]
  BY <1>1, <1>3 DEF WorkerStep, Claim, Trouble, Crash, Goto, Quit,
      Advance, Preflight, PrepareRun, PrepareLost, Stage, StartRun, StartSkipped,
      Execute, Fence, StoreOutput, OutputsStored, OutputsRefused, KeepEvidence,
      EvidenceRefused, RecordResult, RecordRefused, Publish, Acknowledge, DeadLetter,
      Release, LeaseLost
<1>4. ASSUME NEW d \in Dispatchers, DispatchStep(d) PROVE worker'[Host] = worker[Host]
  BY <1>4 DEF DispatchStep, QueueRun, InspectDelivery, EnqueueMessage, Redrive, Interrupt
<1>5. ASSUME NEW r \in Runs, CancelRun(r) PROVE worker'[Host] = worker[Host]
  BY <1>5 DEF CancelRun
<1>. QED
  BY <1>2, <1>3, <1>4, <1>5 DEF Elsewhere

LEMMA ElsewhereKeeps ==
  ASSUME ExecutionInv, HostInv, Elsewhere
  PROVE  HostInv'
<1>1. UNCHANGED <<active, quarantined, late, kills, live, lean, step, box, faults>>
  BY DEF Elsewhere, hostVars, factoryVars
<1>2. HostTypeOK'
  BY <1>1, MapFacts DEF HostTypeOK
<1>3. At(Host, "idle") => step = "none"
  BY HostBusy
<1>. QED
  BY <1>1, <1>2, <1>3, ElsewhereHost, HostFrame DEF Settling

-----------------------------------------------------------------------------
(* The hosted process refines the execution *)

(* Steps that only its sandboxes see. *)
Unseen ==
  \/ Get \/ CleaningEnds \/ Create \/ Boot \/ StartupFails
  \/ PostExecute \/ ForwardCancel \/ PostComplete
  \/ \E b \in Boxes : Created(b) \/ LeanEnds(b) \/ Expire(b)
  \/ \E r \in Runs, b \in Boxes : CreatedLate(r, b)
  \/ \E r \in Runs : CreationFailsLate(r)
  \/ \E k \in kills : Killed(k)

(* Steps after which the delivery fails. *)
Failing ==
  \/ Refuse \/ CreationFails \/ StartupFailsEarly \/ StartupKilled \/ Discard
  \/ HostTrouble \/ \E k \in kills : KillFails(k)

(* Steps of the delivery itself. *)
Proceeding ==
  \/ Alone \/ Begin \/ Skip \/ Transfer
  \/ \E verdict \in {"succeeded", "failed", "cancelled"}, out \in Outputs :
       Answer(verdict, out)

LEMMA HostedSteps ==
  ASSUME HostedNext
  PROVE  Unseen \/ Failing \/ Proceeding \/ HostCrash \/ Elsewhere
BY DEF HostedNext, HostAdvance, Answers, Failures, Unseen, Failing, Proceeding

(* To the Runs, queue and workers, a step of the hosted process is one of  *)
(* the execution: a failure among its sandboxes is an await that fails.    *)
LEMMA HostedStepMaps ==
  ASSUME ExecutionInv, HostInv, [HostedNext]_hostedVars
  PROVE  [Next]_vars
<1>1. CASE Unseen
  BY <1>1 DEF Unseen, Get, CleaningEnds, Create, Boot, StartupFails, PostExecute,
     ForwardCancel, PostComplete, Created, LeanEnds, Expire, CreatedLate,
     CreationFailsLate, Killed
<1>2. CASE Failing
  <2>1. CASE Refuse \/ CreationFails \/ StartupFailsEarly \/ StartupKilled
    <3>1. Staging
      BY <2>1 DEF Refuse, CreationFails, StartupFailsEarly, StartupKilled, HostInv,
         ContainerFits
    <3>2. Trouble(Host)
      BY <2>1, <3>1 DEF Refuse, CreationFails, StartupFailsEarly, StartupKilled, Trouble,
         Fails, Staging, RunnerVars
    <3>. QED
      BY <3>2 DEF Next, WorkerStep
  <2>2. CASE Discard
    <3>1. Trouble(Host)
      BY <2>2 DEF Discard, Trouble, Fails, Staging, At, RunnerVars
    <3>. QED
      BY <3>1 DEF Next, WorkerStep
  <2>3. CASE HostTrouble
    BY <2>3 DEF HostTrouble, Next, WorkerStep
  <2>4. ASSUME NEW k \in kills, KillFails(k) PROVE [Next]_vars
    <3>1. UNCHANGED RunnerVars /\ (worker' = worker \/ (At(Host, "executing") /\ Fails))
      BY <2>4 DEF KillFails
    <3>2. CASE worker' = worker
      BY <3>1, <3>2 DEF RunnerVars, vars
    <3>3. CASE At(Host, "executing") /\ Fails
      <4>1. Trouble(Host)
        BY <3>1, <3>3 DEF Trouble, Fails, At, RunnerVars
      <4>. QED
        BY <4>1 DEF Next, WorkerStep
    <3>. QED
      BY <3>1, <3>2, <3>3
  <2>. QED
    BY <1>2, <2>1, <2>2, <2>3, <2>4 DEF Failing
<1>3. CASE Proceeding
  <2>1. Advance(Host)
    BY <1>3 DEF Proceeding, Alone, Begin, Skip, Transfer, Answer, Advance
  <2>. QED
    BY <2>1 DEF Next, WorkerStep
<1>4. CASE HostCrash
  BY <1>4 DEF HostCrash, Next, WorkerStep
<1>5. CASE Elsewhere
  BY <1>5 DEF Elsewhere, Next, WorkerStep
<1>6. CASE UNCHANGED hostedVars
  BY <1>6 DEF hostedVars
<1>. QED
  BY <1>1, <1>2, <1>3, <1>4, <1>5, <1>6, HostedSteps

LEMMA HostInvInit == HostedInit => HostInv
<1>. SUFFICES ASSUME HostedInit PROVE HostInv
  OBVIOUS
<1>. USE DEF HostedInit
<1>1. HostTypeOK
  BY DEF HostTypeOK, Steps, Sessions
<1>2. OneRun /\ AtRest
  BY DEF OneRun, Referred, Entries, AtRest
<1>3. worker[Host].phase = "idle"
  BY DEF Init, Idle
<1>4. ContainerFits
  BY <1>2, <1>3 DEF ContainerFits, At, Settling
<1>. QED
  BY <1>1, <1>2, <1>4 DEF HostInv

LEMMA HostInvStep ==
  ASSUME ExecutionInv, HostInv, [HostedNext]_hostedVars
  PROVE  HostInv'
<1>1. CASE Unseen
  BY <1>1, GetKeeps, StartupKeeps, SessionKeeps, EndingKeeps, CreationKeeps, KilledKeeps
  DEF Unseen
<1>2. CASE Failing
  BY <1>2, GetKeeps, CreationKeeps, StartupKeeps, EndingKeeps, HostTroubleKeeps,
     KillFailsKeeps
  DEF Failing
<1>3. CASE Proceeding
  BY <1>3, AloneKeeps, OpenKeeps, AnswerKeeps DEF Proceeding
<1>4. CASE HostCrash
  BY <1>4, HostCrashKeeps
<1>5. CASE Elsewhere
  BY <1>5, ElsewhereKeeps
<1>6. CASE UNCHANGED hostedVars
  <2>1. UNCHANGED <<worker, active, quarantined, late, kills, live, lean, step, box, faults>>
    BY <1>6 DEF hostedVars, hostVars, factoryVars, vars
  <2>2. HostTypeOK'
    BY <2>1, MapFacts DEF HostTypeOK
  <2>. QED
    BY <2>1, <2>2, HostFrame
<1>. QED
  BY <1>1, <1>2, <1>3, <1>4, <1>5, <1>6, HostedSteps

HostedInv == ExecutionInv /\ HostInv

LEMMA HostedInvInit == HostedInit => HostedInv
BY HostInvInit, ExecutionInvInit DEF HostedInv, HostedInit

LEMMA HostedInvStep == HostedInv /\ [HostedNext]_hostedVars => HostedInv'
<1>. SUFFICES ASSUME HostedInv, [HostedNext]_hostedVars PROVE HostedInv'
  OBVIOUS
<1>1. ExecutionInv /\ HostInv
  BY DEF HostedInv
<1>2. [Next]_vars
  BY <1>1, HostedStepMaps
<1>. QED
  BY <1>1, <1>2, ExecutionInvStep, HostInvStep DEF HostedInv

LEMMA HostedInvHolds == HostedSpec => []HostedInv
BY HostedInvInit, HostedInvStep, PTL DEF HostedSpec

(* A hosted Runner process, with all that happens in its sandboxes, does   *)
(* what RunnerExecution says of a process, so that every theorem above     *)
(* holds of it: its creations, kills and sessions are stutters, and what   *)
(* fails among them is an await that fails.                                *)
THEOREM HostedKeepsExecution == HostedSpec => Spec
<1>1. HostedInit => Init
  BY DEF HostedInit
<1>2. HostedInv /\ [HostedNext]_hostedVars => [Next]_vars
  BY HostedStepMaps DEF HostedInv
<1>. QED
  BY <1>1, <1>2, HostedInvHolds, PTL DEF HostedSpec, Spec

(* What a request that was cut off leaves behind is a sandbox. *)
LEMMA OrphansStep ==
  ASSUME orphans \subseteq Boxes, [HostedNext]_hostedVars
  PROVE  orphans' \subseteq Boxes
<1>1. ASSUME NEW r \in Runs, CreationFails \/ CreationFailsLate(r)
      PROVE  orphans' \subseteq Boxes
  BY <1>1 DEF CreationFails, CreationFailsLate, RequestFails
<1>2. ASSUME NEW b \in Boxes, Expire(b)
      PROVE  orphans' \subseteq Boxes
  BY <1>2 DEF Expire
<1>3. CASE UNCHANGED orphans \/ orphans' = {}
  BY <1>3
<1>4. CreationFails => orphans' \subseteq Boxes
  BY DEF CreationFails, RequestFails
<1>5. CASE Unseen
  BY <1>1, <1>2, <1>3, <1>5 DEF Unseen, Get, CleaningEnds, Create, Boot, StartupFails,
     PostExecute, ForwardCancel, PostComplete, Created, LeanEnds, CreatedLate, Killed,
     factoryVars
<1>6. CASE Failing
  BY <1>3, <1>4, <1>6 DEF Failing, Refuse, StartupFailsEarly, StartupKilled, Discard,
     HostTrouble, KillFails, factoryVars
<1>7. CASE Proceeding
  BY <1>3, <1>7 DEF Proceeding, Alone, Begin, Skip, Transfer, Answer, hostVars, factoryVars
<1>8. CASE HostCrash \/ Elsewhere \/ UNCHANGED hostedVars
  BY <1>3, <1>8 DEF HostCrash, Elsewhere, hostedVars, hostVars, factoryVars
<1>. QED
  BY <1>5, <1>6, <1>7, <1>8, HostedSteps

(* WellTyped: the maps of the factory, its requests and the provider's     *)
(* sandboxes keep their types, whatever comes late, fails or expires.      *)
THEOREM HostedTypeCorrect == HostedSpec => []WellTyped
<1>1. HostedInv /\ orphans \subseteq Boxes => WellTyped
  BY DEF HostedInv, ExecutionInv, HostInv, WellTyped
<1>2. HostedInit => orphans \subseteq Boxes
  BY DEF HostedInit
<1>3. orphans \subseteq Boxes /\ [HostedNext]_hostedVars => (orphans \subseteq Boxes)'
  BY OrphansStep
<1>. QED
  BY <1>1, <1>2, <1>3, HostedInvHolds, PTL DEF HostedSpec

-----------------------------------------------------------------------------
(* One sandbox *)

(* What the factory takes for granted when a kill is answered: the entry   *)
(* under the Run's id, if there is one, is of the sandbox that was killed. *)
KillsTheirOwn ==
  \A k \in kills : Killed(k) => quarantined[k.run] \in {None, k.box}

(* The process refers to b. *)
Known(b) == b = box \/ \E r \in Runs : b \in {active[r], quarantined[r]}

SandboxInv ==
  /\ \A b \in live : Known(b)
  /\ \A r \in Runs : late[r] > 0 => late[r] = 1 /\ quarantined[r] = Coming
  /\ step = "ended" => live = {}
  /\ step = "killing" /\ quarantined[HostRun] = None => live = {}

(* At most one sandbox can be known. *)
LEMMA KnownOne ==
  ASSUME ExecutionInv, HostInv
  PROVE  \A b, c \in Boxes : Known(b) /\ Known(c) => b = c
<1>. SUFFICES ASSUME NEW b \in Boxes, NEW c \in Boxes, Known(b), Known(c) PROVE b = c
  OBVIOUS
<1>. USE DEF HostInv
<1>1. step # "none" => HostRun \in Runs
  BY HostBusy
<1>2. \A r, q \in Runs :
        (active[r] # None \/ quarantined[r] # None) /\ (active[q] # None \/ quarantined[q] # None)
          => r = q
  BY DEF OneRun, Referred, Entries
<1>3. CASE AtRest
  BY <1>2, <1>3 DEF AtRest, Known
<1>4. CASE step \in {"creating", "booting", "killing", "open", "ending"}
  <2>1. /\ active[HostRun] # None /\ active[HostRun] \in {Coming, box}
        /\ quarantined[HostRun] \in {None, box} /\ HostRun \in Runs
    BY <1>1, <1>4 DEF ContainerFits
  <2>2. \A r \in Runs : r # HostRun => active[r] = None /\ quarantined[r] = None
    BY <1>2, <2>1
  <2>3. \A r \in Runs : active[r] \in {None, Coming, box} /\ quarantined[r] \in {None, box}
    BY <2>1, <2>2
  <2>. QED
    BY <2>3 DEF Known
<1>5. CASE step = "ended"
  BY <1>5 DEF ContainerFits, Free, Known
<1>. QED
  BY <1>3, <1>4, <1>5, MapFacts DEF ContainerFits, Steps

LEMMA SandboxInvImplies ==
  ASSUME ExecutionInv, HostInv, SandboxInv PROVE OneKnownSandbox
BY KnownOne, MapFacts DEF SandboxInv, OneKnownSandbox, Known

(* An entry that awaits a late creation is the only one. *)
LEMMA LateOne ==
  ASSUME HostInv, NEW r \in Runs, quarantined[r] # None
  PROVE  \A q \in Runs \ {r} : active[q] = None /\ quarantined[q] = None
BY DEF HostInv, OneRun, Referred, Entries

(* Where nothing appears, and what was known or is gone stays so. *)
LEMMA SandboxFrame ==
  ASSUME SandboxInv, late' = late, live' \subseteq live,
         \A r \in Runs : quarantined[r] = Coming => quarantined'[r] = Coming,
         \A b \in live' : Known(b) => Known(b)',
         step' = "ended" => live' = {},
         step' = "killing" =>
           \/ quarantined'[HostRun'] # None
           \/ step = "killing" /\ HostRun' = HostRun /\ quarantined[HostRun] = None
  PROVE  SandboxInv'
BY DEF SandboxInv

LEMMA SandboxCreation ==
  ASSUME ExecutionInv, HostInv, SandboxInv,
         \/ \E b \in Boxes : Created(b)
         \/ \E r \in Runs, b \in Boxes : CreatedLate(r, b)
         \/ CreationFails
         \/ \E r \in Runs : CreationFailsLate(r)
  PROVE  SandboxInv'
<1>. USE DEF HostInv
<1>1. step # "none" => HostRun \in Runs
  BY HostBusy
<1>2. ASSUME NEW b \in Boxes, Created(b) PROVE SandboxInv'
  <2>1. /\ UNCHANGED <<active, quarantined, late>>
        /\ step = "creating" /\ step' = "booting" /\ box' = b /\ box = None
        /\ live' = live \cup {b}
    BY <1>2 DEF Created, Appears, ContainerFits
  <2>2. \A c \in live : Known(c)'
    BY <2>1, MapFacts DEF SandboxInv, Known
  <2>. QED
    BY <2>1, <2>2 DEF SandboxInv, Known
<1>3. ASSUME NEW r \in Runs, NEW b \in Boxes, CreatedLate(r, b) PROVE SandboxInv'
  <2>1. late[r] > 0 /\ quarantined[r] = Coming /\ late[r] = 1
    BY <1>3 DEF CreatedLate, SandboxInv
  <2>2. /\ UNCHANGED <<worker, active, step, box>> /\ HostRun' = HostRun
        /\ late' = [late EXCEPT ![r] = 0]
        /\ live' = live \cup {b}
        /\ quarantined' = [quarantined EXCEPT ![r] = b]
    BY <1>3, <2>1 DEF CreatedLate, Appears, Put, vars, HostRun, Job
  <2>3. \A q \in Runs : quarantined'[q] = IF q = r THEN b ELSE quarantined[q]
    BY <2>2, MapFacts
  <2>4. \A q \in Runs : late'[q] > 0 => q # r /\ late[q] > 0
    BY <2>2, MapFacts
  <2>5. \A q \in Runs : ~ (late'[q] > 0)
    BY <2>1, <2>4, LateOne DEF SandboxInv
  <2>6. \A c \in live' : Known(c)'
    <3>1. \A c \in live : c # Coming
      BY MapFacts
    <3>. QED
      BY <2>1, <2>2, <2>3, <3>1 DEF SandboxInv, Known
  <2>7. step \notin {"killing", "ended"}
    <3>1. step = "killing" => r = HostRun
      BY <1>1, <2>1, LateOne DEF ContainerFits
    <3>. QED
      BY <2>1, <3>1, MapFacts DEF ContainerFits, Free
  <2>. QED
    BY <2>2, <2>5, <2>6, <2>7 DEF SandboxInv
<1>4. CASE CreationFails
  <2>1. /\ UNCHANGED <<quarantined, late, live, box>> /\ step' = "none" /\ step = "creating"
        /\ active' = [active EXCEPT ![HostRun] = None]
    BY <1>4 DEF CreationFails, Remove
  <2>2. active[HostRun] = Coming /\ HostRun \in Runs
    BY <1>1, <2>1 DEF ContainerFits
  <2>3. \A b \in live : Known(b) => Known(b)'
    BY <2>1, <2>2, MapFacts DEF Known
  <2>. QED
    BY <2>1, <2>3, SandboxFrame
<1>5. ASSUME NEW r \in Runs, CreationFailsLate(r) PROVE SandboxInv'
  <2>1. late[r] > 0 /\ quarantined[r] = Coming /\ late[r] = 1
    BY <1>5 DEF CreationFailsLate, SandboxInv
  <2>2. /\ UNCHANGED <<worker, active, step, box, live>> /\ HostRun' = HostRun
        /\ late' = [late EXCEPT ![r] = 0]
        /\ quarantined' = [quarantined EXCEPT ![r] = None]
    BY <1>5, <2>1 DEF CreationFailsLate, Remove, vars, HostRun, Job
  <2>3. \A q \in Runs : quarantined'[q] = IF q = r THEN None ELSE quarantined[q]
    BY <2>2, MapFacts
  <2>4. \A q \in Runs : late'[q] > 0 => q # r /\ late[q] > 0
    BY <2>2, MapFacts
  <2>5. \A q \in Runs : ~ (late'[q] > 0)
    BY <2>1, <2>4, LateOne DEF SandboxInv
  <2>6. \A c \in live' : Known(c)'
    <3>1. \A c \in live : c # Coming
      BY MapFacts
    <3>. QED
      BY <2>1, <2>2, <2>3, <3>1 DEF SandboxInv, Known
  <2>7. step \notin {"killing", "ended"}
    <3>1. step = "killing" => r = HostRun
      BY <1>1, <2>1, LateOne DEF ContainerFits
    <3>. QED
      BY <2>1, <3>1, MapFacts DEF ContainerFits, Free
  <2>. QED
    BY <2>2, <2>5, <2>6, <2>7 DEF SandboxInv
<1>. QED
  BY <1>2, <1>3, <1>4, <1>5

LEMMA SandboxStartup ==
  ASSUME ExecutionInv, HostInv, SandboxInv,
         Boot \/ StartupFailsEarly \/ StartupFails \/ StartupKilled
  PROVE  SandboxInv'
<1>. USE DEF HostInv
<1>1. /\ HostRun \in Runs /\ active[HostRun] = Coming
      /\ \A q \in Runs \ {HostRun} : active[q] = None /\ quarantined[q] = None
  <2>1. step \in {"creating", "booting", "killing"}
    BY DEF Boot, StartupFailsEarly, StartupFails, StartupKilled
  <2>2. HostRun \in Runs /\ active[HostRun] = Coming
    BY <2>1, HostBusy DEF ContainerFits
  <2>. QED
    BY <2>2 DEF OneRun, Referred, Entries
<1>2. \A b \in live : b # Coming
  BY MapFacts
<1>3. CASE Boot
  <2>1. /\ UNCHANGED <<quarantined, late, live, box>> /\ step' = "open"
        /\ active' = [active EXCEPT ![HostRun] = box]
    BY <1>3 DEF Boot, Put
  <2>2. \A b \in live : Known(b) => Known(b)'
    BY <1>1, <1>2, <2>1, MapFacts DEF Known
  <2>. QED
    BY <2>1, <2>2, SandboxFrame
<1>4. CASE StartupFailsEarly
  <2>1. /\ UNCHANGED <<live, box>> /\ step = "creating" /\ step' = "none" /\ box = None
        /\ late' = [late EXCEPT ![HostRun] = @ + 1] /\ quarantined[HostRun] = None
        /\ quarantined' = [quarantined EXCEPT ![HostRun] = Coming]
    BY <1>4 DEF StartupFailsEarly, Put, ContainerFits
  <2>2. live = {}
    BY <1>1, <1>2, <2>1, MapFacts DEF SandboxInv, Known
  <2>3. \A r \in Runs : late[r] = 0
    BY <1>1, <2>1, MapFacts DEF SandboxInv
  <2>4. \A r \in Runs : late'[r] > 0 => late'[r] = 1 /\ quarantined'[r] = Coming
    BY <1>1, <2>1, <2>3, MapFacts
  <2>. QED
    BY <2>1, <2>2, <2>4 DEF SandboxInv
<1>5. CASE StartupFails
  <2>1. /\ UNCHANGED <<worker, active, late, live, box>> /\ HostRun' = HostRun
        /\ step = "booting" /\ step' = "killing" /\ box \in Boxes
        /\ quarantined[HostRun] = None
        /\ quarantined' = [quarantined EXCEPT ![HostRun] = box]
    BY <1>5 DEF StartupFails, Put, vars, HostRun, Job, ContainerFits
  <2>2. quarantined'[HostRun] = box
    BY <1>1, <2>1, MapFacts
  <2>3. \A r \in Runs : quarantined[r] # None => quarantined'[r] = quarantined[r]
    BY <2>1, MapFacts
  <2>4. \A b \in live : Known(b) => Known(b)'
    BY <2>1, <2>3, MapFacts DEF Known
  <2>5. \A r \in Runs : quarantined[r] = Coming => quarantined'[r] = Coming
    BY <2>3
  <2>6. quarantined'[HostRun'] # None
    BY <2>1, <2>2
  <2>. QED
    BY <2>1, <2>4, <2>5, <2>6, SandboxFrame
<1>6. CASE StartupKilled
  <2>1. /\ UNCHANGED <<quarantined, late, live>> /\ step = "killing"
        /\ step' = "none" /\ box' = None
        /\ active' = [active EXCEPT ![HostRun] = None]
    BY <1>6 DEF StartupKilled, Remove
  <2>2. quarantined[HostRun] \in {box, None}
    BY <2>1 DEF ContainerFits
  <2>3. \A b \in live : Known(b)'
    <3>1. CASE quarantined[HostRun] = None
      BY <2>1, <3>1 DEF SandboxInv
    <3>2. CASE quarantined[HostRun] = box
      BY <1>1, <1>2, <2>1, <3>2, MapFacts DEF SandboxInv, Known
    <3>. QED
      BY <2>2, <3>1, <3>2
  <2>. QED
    BY <2>1, <2>3, SandboxFrame
<1>. QED
  BY <1>3, <1>4, <1>5, <1>6

LEMMA SandboxKilled ==
  ASSUME ExecutionInv, HostInv, SandboxInv, NEW k \in kills, Killed(k),
         quarantined[k.run] \in {None, k.box}
  PROVE  SandboxInv'
<1>. USE DEF HostInv
<1>1. /\ k.run \in Runs /\ k.box \in Boxes /\ KillFits(k)
      /\ step # "none" => HostRun \in Runs
  BY HostBusy, MapFacts DEF Kill
<1>2. UNCHANGED <<worker, late>> /\ HostRun' = HostRun /\ live' = live \ {k.box}
  BY DEF Killed, vars, HostRun, Job
<1>3. CASE k.by = "end"
  <2>1. /\ step = "ending" /\ k.box = box /\ k.run = HostRun /\ UNCHANGED quarantined
        /\ step' \in {"ended", "none"} /\ box \in Boxes
    BY <1>1, <1>3 DEF Killed, KillFits, ContainerFits
  <2>2. live' = {}
    <3>1. Known(box)
      BY DEF Known
    <3>2. \A b \in live : b = box
      BY <2>1, <3>1, KnownOne, MapFacts DEF SandboxInv
    <3>. QED
      BY <1>2, <2>1, <3>2
  <2>. QED
    BY <1>2, <2>1, <2>2, SandboxFrame
<1>4. CASE k.by # "end"
  <2>1. /\ UNCHANGED <<active, step, box>>
        /\ quarantined' = [quarantined EXCEPT ![k.run] = None]
    BY <1>4 DEF Killed, Remove
  <2>2. \A r \in Runs : quarantined'[r] = IF r = k.run THEN None ELSE quarantined[r]
    BY <2>1, MapFacts
  <2>3. \A b \in live' : Known(b) => Known(b)'
    BY <1>2, <2>1, <2>2, MapFacts DEF Known
  <2>4. \A r \in Runs : quarantined[r] = Coming => quarantined'[r] = Coming
    BY <1>1, <2>2
  <2>5. step' = "ended" => live' = {}
    BY <1>2, <2>1 DEF SandboxInv
  <2>6. CASE step = "killing" /\ quarantined[HostRun] # None /\ quarantined'[HostRun] = None
    <3>1. k.box = box /\ box \in Boxes
      BY <1>1, <2>2, <2>6 DEF ContainerFits
    <3>2. Known(box)
      BY DEF Known
    <3>3. \A b \in live : b = box
      BY <3>1, <3>2, KnownOne, MapFacts DEF SandboxInv
    <3>4. live' = {}
      BY <1>2, <3>1, <3>3
    <3>. QED
      BY <1>2, <2>4, <3>4 DEF SandboxInv
  <2>7. CASE ~ (step = "killing" /\ quarantined[HostRun] # None /\ quarantined'[HostRun] = None)
    BY <1>2, <2>1, <2>3, <2>4, <2>5, <2>7, SandboxFrame
  <2>. QED
    BY <2>6, <2>7
<1>. QED
  BY <1>3, <1>4

LEMMA SandboxKillFails ==
  ASSUME ExecutionInv, HostInv, SandboxInv, NEW k \in kills, KillFails(k)
  PROVE  SandboxInv'
<1>. USE DEF HostInv
<1>1. k.run \in Runs /\ k.box \in Boxes /\ KillFits(k)
  BY MapFacts DEF Kill
<1>2. late' = late /\ live' \subseteq live
  BY DEF KillFails
<1>3. CASE k.by = "end"
  <2>1. /\ step = "ending" /\ k.box = box /\ k.run = HostRun /\ HostRun \in Runs
        /\ active[HostRun] = box /\ quarantined[HostRun] = None
    BY <1>1, <1>3 DEF KillFits, ContainerFits
  <2>2. /\ step' = "none" /\ box' = None
        /\ active' = [active EXCEPT ![HostRun] = None]
        /\ quarantined' = [quarantined EXCEPT ![HostRun] = box]
    BY <1>3, <2>1 DEF KillFails, Remove, Put
  <2>3. \A r \in Runs : quarantined[r] = Coming => quarantined'[r] = Coming
    BY <2>1, <2>2, MapFacts
  <2>4. \A b \in live' : Known(b) => Known(b)'
    <3>1. \A r \in Runs : /\ r # HostRun => active'[r] = active[r] /\ quarantined'[r] = quarantined[r]
                          /\ quarantined'[HostRun] = box
      BY <2>1, <2>2, MapFacts
    <3>. QED
      BY <1>2, <2>1, <2>2, <3>1, MapFacts DEF Known
  <2>. QED
    BY <1>2, <2>2, <2>3, <2>4, SandboxFrame
<1>4. CASE k.by # "end"
  <2>1. UNCHANGED <<worker, active, quarantined, step, box>> /\ HostRun' = HostRun
    BY <1>4 DEF KillFails, HostRun, Job
  <2>2. \A b \in live' : Known(b) => Known(b)'
    BY <2>1 DEF Known
  <2>3. step' = "ended" => live' = {}
    BY <1>2, <2>1 DEF SandboxInv
  <2>. QED
    BY <1>2, <2>1, <2>2, <2>3, SandboxFrame
<1>. QED
  BY <1>3, <1>4

(* Steps that leave the maps to themselves. *)
LEMMA SandboxQuiet ==
  ASSUME ExecutionInv, HostInv, SandboxInv,
         \/ Get \/ CleaningEnds \/ Create \/ Refuse \/ Discard \/ HostTrouble \/ Proceeding
         \/ PostExecute \/ ForwardCancel \/ PostComplete
         \/ \E b \in Boxes : LeanEnds(b) \/ Expire(b)
         \/ Elsewhere \/ UNCHANGED hostedVars
  PROVE  SandboxInv'
<1>. USE DEF HostInv
<1>1. step # "none" => HostRun \in Runs
  BY HostBusy
<1>2. CASE Get \/ CleaningEnds
  <2>1. /\ UNCHANGED <<active, quarantined, late, live>>
        /\ step' \in {"open", "room", "cleaning"}
        /\ box' = box \/ box = None
    BY <1>2 DEF Get, CleaningEnds, factoryVars, ContainerFits, AtRest
  <2>2. \A b \in live' : Known(b) => Known(b)'
    BY <2>1, MapFacts DEF Known
  <2>. QED
    BY <2>1, <2>2, SandboxFrame
<1>3. CASE Create
  <2>1. /\ UNCHANGED <<quarantined, late, live, box>> /\ step' = "creating"
        /\ active' = [active EXCEPT ![HostRun] = Coming] /\ HostRun \in Runs
        /\ active[HostRun] = None
    BY <1>1, <1>3 DEF Create, Put, ContainerFits
  <2>2. \A b \in live' : Known(b) => Known(b)'
    BY <2>1, MapFacts DEF Known
  <2>. QED
    BY <2>1, <2>2, SandboxFrame
<1>4. CASE Discard \/ PostComplete \/ Refuse \/ Alone
  <2>1. UNCHANGED <<active, quarantined, late, live, box>> /\ step' \in {"ending", "none"}
    BY <1>4 DEF Discard, PostComplete, Refuse, Alone, factoryVars, hostVars
  <2>2. \A b \in live' : Known(b) => Known(b)'
    BY <2>1 DEF Known
  <2>. QED
    BY <2>1, <2>2, SandboxFrame
<1>5. CASE PostExecute \/ ForwardCancel \/ UNCHANGED hostedVars
           \/ \E b \in Boxes : LeanEnds(b) \/ Expire(b)
  <2>1. UNCHANGED <<worker, active, quarantined, late, step, box>> /\ live' \subseteq live
        /\ HostRun' = HostRun
    BY <1>5 DEF PostExecute, ForwardCancel, LeanEnds, Expire, hostedVars, hostVars, factoryVars,
       vars, HostRun, Job
  <2>2. \A b \in live' : Known(b) => Known(b)'
    BY <2>1 DEF Known
  <2>3. step' = "ended" => live' = {}
    BY <2>1 DEF SandboxInv
  <2>. QED
    BY <2>1, <2>2, <2>3, SandboxFrame
<1>6. CASE Transfer \/ Begin \/ Skip \/ HostTrouble
           \/ \E verdict \in {"succeeded", "failed", "cancelled"}, out \in Outputs :
                Answer(verdict, out)
  <2>1. /\ UNCHANGED <<active, quarantined, late, live>>
        /\ step' \in {"none", "open"} /\ (box' = box \/ step \in {"open", "ended", "none"})
    BY <1>6 DEF Transfer, Begin, Skip, HostTrouble, Answer, Serving, LetGo, factoryVars, hostVars
  <2>2. CASE box' = box
    BY <2>1, <2>2, SandboxFrame DEF Known
  <2>3. CASE step = "ended"
    <3>1. live = {}
      BY <2>3 DEF SandboxInv
    <3>. QED
      BY <2>1, <3>1, SandboxFrame
  <2>4. CASE step = "open"
    <3>1. active[HostRun] = box /\ HostRun \in Runs
      BY <1>1, <2>4 DEF ContainerFits
    <3>2. \A b \in live' : Known(b) => Known(b)'
      BY <2>1, <3>1 DEF Known
    <3>. QED
      BY <2>1, <3>2, SandboxFrame
  <2>5. CASE step = "none"
    <3>1. box = None
      BY <2>5 DEF ContainerFits, AtRest
    <3>2. \A b \in live' : Known(b) => Known(b)'
      BY <2>1, <3>1, MapFacts DEF Known
    <3>. QED
      BY <2>1, <3>2, SandboxFrame
  <2>. QED
    BY <2>1, <2>2, <2>3, <2>4, <2>5
<1>7. CASE Elsewhere
  <2>1. UNCHANGED <<active, quarantined, late, live, step, box>>
    BY <1>7 DEF Elsewhere, hostVars, factoryVars
  <2>2. \A b \in live' : Known(b) => Known(b)'
    BY <2>1 DEF Known
  <2>3. step = "killing" => HostRun' = HostRun
    BY <1>7, ElsewhereHost DEF HostRun, Job, ContainerFits, Staging, At
  <2>4. step' = "ended" => live' = {}
    BY <2>1 DEF SandboxInv
  <2>. QED
    BY <2>1, <2>2, <2>3, <2>4, SandboxFrame
<1>. QED
  BY <1>2, <1>3, <1>4, <1>5, <1>6, <1>7 DEF Proceeding

LEMMA SandboxInvInit == HostedInit => SandboxInv
BY DEF HostedInit, SandboxInv

LEMMA SandboxInvStep ==
  ASSUME ExecutionInv, HostInv, SandboxInv, [HostedNext]_hostedVars,
         [KillsTheirOwn]_hostedVars
  PROVE  SandboxInv'
<1>1. ASSUME NEW k \in kills, Killed(k) PROVE SandboxInv'
  <2>1. k \notin kills'
    BY <1>1 DEF Killed
  <2>2. ~ UNCHANGED hostedVars
    BY <2>1 DEF hostedVars, hostVars, factoryVars
  <2>3. quarantined[k.run] \in {None, k.box}
    BY <1>1, <2>2 DEF KillsTheirOwn
  <2>. QED
    BY <1>1, <2>3, SandboxKilled
<1>2. CASE Unseen
  BY <1>1, <1>2, SandboxQuiet, SandboxStartup, SandboxCreation DEF Unseen
<1>3. CASE Failing
  BY <1>3, SandboxQuiet, SandboxStartup, SandboxCreation, SandboxKillFails DEF Failing
<1>4. CASE HostCrash
  BY <1>4 DEF HostCrash, LetGo, SandboxInv
<1>. QED
  BY <1>2, <1>3, <1>4, SandboxQuiet, HostedSteps

(* OneKnownSandbox: of the sandboxes the provider told of there is one at  *)
(* most and the process refers to it, whatever orphans there are beside,   *)
(* as long as every kill that is answered finds its own sandbox, or        *)
(* nothing, under the id of its Run.  retryQuarantinedSandbox() and        *)
(* trackLateSandbox() delete by that id; nothing else is taken for granted *)
(* of the order in which creations and kills are answered.                 *)
THEOREM OneKnownSandboxIfKillsMatch ==
  HostedSpec /\ [][KillsTheirOwn]_hostedVars => []OneKnownSandbox
<1>1. HostedInit => SandboxInv
  BY SandboxInvInit
<1>2. HostedInv /\ SandboxInv /\ [HostedNext]_hostedVars /\ [KillsTheirOwn]_hostedVars
        => SandboxInv'
  BY SandboxInvStep DEF HostedInv
<1>3. HostedInv /\ SandboxInv => OneKnownSandbox
  BY SandboxInvImplies DEF HostedInv
<1>. QED
  BY <1>1, <1>2, <1>3, HostedInvHolds, PTL DEF HostedSpec

-----------------------------------------------------------------------------
(* One failure at most *)

(* The one failure is spent before anything comes late, and what comes     *)
(* late finds its own entry.                                               *)
LateInv ==
  /\ \A r \in Runs : late[r] > 0 =>
       /\ faults >= 1 /\ late[r] = 1 /\ quarantined[r] = Coming
       /\ \A k \in kills : k.by # "late"
  /\ \A k \in kills : k.by = "late" => faults >= 1 /\ quarantined[k.run] \in {None, k.box}

LEMMA KillsMatch ==
  ASSUME HostInv, LateInv, NEW k \in kills
  PROVE  quarantined[k.run] \in {None, k.box}
<1>1. k \in Kill /\ KillFits(k)
  BY MapFacts DEF HostInv
<1>2. k.by \in {"end", "startup", "get", "late"}
  BY <1>1 DEF Kill
<1>. QED
  BY <1>1, <1>2 DEF KillFits, LateInv, HostInv, ContainerFits

(* Where nothing comes late and no entry changes that a late answer needs. *)
LEMMA LateFrame ==
  ASSUME HostInv, LateInv, faults' \in 0..MaxFaults, faults <= faults',
         \A k \in kills' : k \in kills \/ k.by # "late",
         late' = late,
         \A r \in Runs : quarantined'[r] = quarantined[r]
           \/ (quarantined'[r] = None /\ quarantined[r] # Coming)
  PROVE  LateInv'
<1>1. \A k \in kills : k.run \in Runs
  BY MapFacts DEF Kill
<1>. QED
  BY <1>1, MapFacts DEF LateInv

LEMMA LateInvStep ==
  ASSUME ExecutionInv, HostInv, LateInv, [HostedNext]_hostedVars, MaxFaults <= 1
  PROVE  LateInv'
<1>. USE DEF HostInv
<1>1. faults \in 0..MaxFaults /\ (Fault => faults = 0 /\ faults' = 1)
  BY MapFacts DEF Fault
<1>2. faults = 0 => (\A r \in Runs : late[r] = 0) /\ \A k \in kills : k.by # "late"
  BY MapFacts DEF LateInv
<1>3. ASSUME NEW r \in Runs, NEW b \in Boxes, CreatedLate(r, b) PROVE LateInv'
  <2>1. /\ late[r] = 1 /\ quarantined[r] = Coming /\ faults >= 1 /\ \A k \in kills : k.by # "late"
    BY <1>3 DEF CreatedLate, LateInv
  <2>2. /\ faults' = faults /\ late' = [late EXCEPT ![r] = 0]
        /\ quarantined' = [quarantined EXCEPT ![r] = b]
        /\ kills' = kills \cup {[box |-> b, run |-> r, by |-> "late"]}
    BY <1>3, <2>1 DEF CreatedLate, Put
  <2>3. \A q \in Runs : late'[q] = 0
    <3>1. \A q \in Runs \ {r} : late[q] = 0
      BY <2>1, LateOne, MapFacts DEF LateInv
    <3>. QED
      BY <2>2, <3>1, MapFacts
  <2>4. quarantined'[r] = b
    BY <2>2, MapFacts
  <2>. QED
    BY <2>1, <2>2, <2>3, <2>4 DEF LateInv
<1>4. ASSUME NEW r \in Runs, CreationFailsLate(r) PROVE LateInv'
  <2>1. late[r] = 1 /\ quarantined[r] = Coming /\ \A k \in kills : k.by # "late"
    BY <1>4 DEF CreationFailsLate, LateInv
  <2>2. late' = [late EXCEPT ![r] = 0] /\ kills' = kills
    BY <1>4, <2>1 DEF CreationFailsLate
  <2>3. \A q \in Runs : late'[q] = 0
    <3>1. \A q \in Runs \ {r} : late[q] = 0
      BY <2>1, LateOne, MapFacts DEF LateInv
    <3>. QED
      BY <2>2, <3>1, MapFacts
  <2>. QED
    BY <2>1, <2>2, <2>3 DEF LateInv
<1>5. CASE StartupFailsEarly
  <2>1. /\ faults = 0 /\ faults' = 1 /\ kills' = kills /\ HostRun \in Runs
        /\ late' = [late EXCEPT ![HostRun] = @ + 1]
        /\ quarantined' = [quarantined EXCEPT ![HostRun] = Coming]
    BY <1>1, <1>5, HostBusy DEF StartupFailsEarly, Put
  <2>2. \A r \in Runs : late'[r] > 0 => r = HostRun /\ late'[r] = 1
    BY <1>2, <2>1, MapFacts
  <2>3. quarantined'[HostRun] = Coming
    BY <2>1, MapFacts
  <2>. QED
    BY <1>2, <2>1, <2>2, <2>3 DEF LateInv
<1>6. CASE StartupFails
  <2>1. /\ faults = 0 /\ faults' = 1 /\ late' = late
        /\ kills' = kills \cup {[box |-> box, run |-> HostRun, by |-> "startup"]}
    BY <1>1, <1>6 DEF StartupFails, Asks
  <2>. QED
    BY <1>2, <2>1 DEF LateInv
<1>7. ASSUME NEW k \in kills, KillFails(k) PROVE LateInv'
  <2>1. faults = 0 /\ faults' = 1 /\ late' = late /\ kills' \subseteq kills
    BY <1>1, <1>7 DEF KillFails
  <2>. QED
    BY <1>2, <2>1 DEF LateInv
<1>8. ASSUME NEW k \in kills, Killed(k) PROVE LateInv'
  <2>1. quarantined[k.run] \in {None, k.box} /\ k.box \in Boxes
    BY KillsMatch, MapFacts DEF Kill
  <2>2. /\ faults' = faults /\ late' = late /\ kills' \subseteq kills
        /\ quarantined' = quarantined \/ quarantined' = [quarantined EXCEPT ![k.run] = None]
    BY <1>8 DEF Killed, Remove
  <2>3. \A r \in Runs : quarantined'[r] = quarantined[r]
           \/ (quarantined'[r] = None /\ quarantined[r] # Coming)
    BY <2>1, <2>2, MapFacts
  <2>. QED
    BY <1>1, <2>2, <2>3, LateFrame
<1>9. CASE HostCrash
  BY <1>9 DEF HostCrash, LateInv
<1>10. CASE \/ Get \/ CleaningEnds \/ Create \/ Boot \/ PostExecute \/ ForwardCancel \/ PostComplete
            \/ (\E b \in Boxes : Created(b) \/ LeanEnds(b) \/ Expire(b))
            \/ Refuse \/ CreationFails \/ StartupKilled \/ Discard \/ HostTrouble
            \/ Proceeding \/ Elsewhere \/ UNCHANGED hostedVars
  <2>1. late' = late /\ quarantined' = quarantined /\ (faults' = faults \/ Fault)
    BY <1>10 DEF Get, CleaningEnds, Create, Boot, PostExecute, ForwardCancel, PostComplete,
       Created, LeanEnds, Expire, Refuse, CreationFails, StartupKilled, Discard, HostTrouble,
       Proceeding, Alone, Begin, Skip, Transfer, Answer, Elsewhere, hostedVars, hostVars,
       factoryVars
  <2>2. \A k \in kills' : k \in kills \/ k.by # "late"
    BY <1>10 DEF Get, CleaningEnds, Create, Boot, PostExecute, ForwardCancel, PostComplete,
       Created, LeanEnds, Expire, Refuse, CreationFails, StartupKilled, Discard, HostTrouble,
       Proceeding, Alone, Begin, Skip, Transfer, Answer, Elsewhere, Asks, hostedVars, hostVars,
       factoryVars
  <2>. QED
    BY <1>1, <2>1, <2>2, MapFacts, FaultType, LateFrame DEF Fault
<1>. QED
  BY <1>3, <1>4, <1>5, <1>6, <1>7, <1>8, <1>9, <1>10, HostedSteps DEF Unseen, Failing

LEMMA LateInvHolds == MaxFaults <= 1 => (HostedSpec => []LateInv)
<1>. SUFFICES ASSUME MaxFaults <= 1 PROVE HostedSpec => []LateInv
  OBVIOUS
<1>1. HostedInit => LateInv
  BY DEF HostedInit, LateInv
<1>2. HostedInv /\ LateInv /\ [HostedNext]_hostedVars => LateInv'
  BY LateInvStep DEF HostedInv
<1>. QED
  BY <1>1, <1>2, HostedInvHolds, PTL DEF HostedSpec

LEMMA OneFaultMatches ==
  MaxFaults <= 1 => (HostedSpec => [][KillsTheirOwn]_hostedVars)
<1>. SUFFICES ASSUME MaxFaults <= 1 PROVE HostedSpec => [][KillsTheirOwn]_hostedVars
  OBVIOUS
<1>1. HostedInv /\ LateInv => [KillsTheirOwn]_hostedVars
  BY KillsMatch DEF HostedInv, KillsTheirOwn
<1>. QED
  BY <1>1, HostedInvHolds, LateInvHolds, PTL

(* OneKnownSandbox: up to one failure of the provider or of an await,      *)
(* however many Runs are served, cancelled and redelivered, the process    *)
(* never loses a sandbox it was told of and never has two of them.  The    *)
(* one failure may be a request that is cut off and leaves an orphan.      *)
THEOREM OneKnownSandboxUpToOneFailure == MaxFaults <= 1 => (HostedSpec => []OneKnownSandbox)
BY OneKnownSandboxIfKillsMatch, OneFaultMatches, PTL

-----------------------------------------------------------------------------
(* Lean and its Run *)

(* Another process records the result of no Run that this one serves or    *)
(* still has a sandbox for: a hosted process on its own, or one that lost  *)
(* no lease.                                                               *)
RecordsElsewhere ==
  \A w \in Workers \ {Host} : RecordResult(w) => Job(w) \notin Referred \cup {HostRun}

LeanInv ==
  /\ worker[Host].phase \in {"restaging", "executing"} => state[HostRun] \in Life!ActiveStates
  /\ step \in {"booting", "killing"} => lean[box] = "fresh"
  /\ \A r \in Runs, b \in live :
       lean[b] = "running" /\ b \in {active[r], quarantined[r]} => state[r] \in Life!ActiveStates

LEMMA LeanInvImplies ==
  ASSUME ExecutionInv, HostInv, SandboxInv, LeanInv
  PROVE  LeanForActiveRuns
<1>. SUFFICES ASSUME NEW b \in live, lean[b] = "running"
              PROVE  \E r \in Runs : b \in {active[r], quarantined[r]} /\ state[r] \in Life!ActiveStates
  BY DEF LeanForActiveRuns
<1>1. CASE \E r \in Runs : b \in {active[r], quarantined[r]}
  BY <1>1 DEF LeanInv
<1>2. CASE b = box
  <2>1. b \in Boxes /\ step \in Steps /\ (step # "none" => HostRun \in Runs)
    BY MapFacts, HostBusy
  <2>2. step \notin {"none", "cleaning", "room", "creating"}
    BY <1>2, <2>1 DEF HostInv, ContainerFits, AtRest
  <2>3. step \notin {"booting", "killing"}
    BY <1>2 DEF LeanInv
  <2>4. step # "ended"
    BY DEF SandboxInv
  <2>5. active[HostRun] = b /\ HostRun \in Runs
    BY <1>2, <2>1, <2>2, <2>3, <2>4 DEF HostInv, ContainerFits, Steps
  <2>. QED
    BY <2>5 DEF LeanInv
<1>. QED
  BY <1>1, <1>2 DEF SandboxInv, Known

(* A Run that is running stops being so only by a result. *)
LEMMA ActiveStays ==
  ASSUME ExecutionInv, [Next]_vars, NEW r \in Runs, state[r] \in Life!ActiveStates,
         \A w \in Workers : RecordResult(w) => Job(w) # r
  PROVE  state'[r] \in Life!ActiveStates
<1>. USE DEF Life!ActiveStates
<1>1. state \in [Runs -> Life!States]
  BY DEF ExecutionInv, TypeOK, Life!LifecycleTypeOK
<1>2. ASSUME NEW q \in Runs,
             Life!Queue(q) \/ Life!Prepare(q) \/ Life!Start(q) \/ Life!Cancel(q)
      PROVE  state'[r] \in Life!ActiveStates
  BY <1>1, <1>2 DEF Life!Queue, Life!Prepare, Life!Start, Life!Cancel, Life!CancelAtOnce,
     Life!CancelRequest, Life!Move
<1>3. ASSUME NEW w \in Workers, PrepareRun(w) \/ StartRun(w) \/ RecordResult(w)
      PROVE  state'[r] \in Life!ActiveStates
  <2>1. Job(w) \in Runs
    BY <1>3 DEF ExecutionInv, Grounded, PrepareRun, StartRun, RecordResult, At
  <2>2. CASE PrepareRun(w) \/ StartRun(w)
    BY <1>2, <2>1, <2>2 DEF PrepareRun, StartRun
  <2>3. CASE RecordResult(w)
    BY <1>1, <2>1, <2>3 DEF RecordResult, Life!Record
  <2>. QED
    BY <1>3, <2>2, <2>3
<1>4. ASSUME NEW w \in Workers, WorkerStep(w)
      PROVE  PrepareRun(w) \/ StartRun(w) \/ RecordResult(w) \/ UNCHANGED state
  BY <1>4 DEF WorkerStep, Claim, Trouble, Crash, storeVars,
    Advance, Preflight, PrepareLost, Stage, StartSkipped,
    Execute, Fence, StoreOutput, OutputsStored, OutputsRefused, KeepEvidence,
    EvidenceRefused, RecordRefused, Publish, Acknowledge, DeadLetter, Release, LeaseLost
<1>5. ASSUME NEW d \in Dispatchers, DispatchStep(d)
      PROVE  (\E q \in Runs : Life!Queue(q)) \/ UNCHANGED state
  BY <1>5 DEF DispatchStep, QueueRun, InspectDelivery, EnqueueMessage, Redrive,
    Interrupt, storeVars
<1>6. CASE UNCHANGED vars
  BY <1>6 DEF vars, storeVars
<1>. QED
  BY <1>2, <1>3, <1>4, <1>5, <1>6 DEF Next, CancelRun

(* Whose sandbox is left, or whom the process serves, stays active. *)
LEMMA ServedStaysActive ==
  ASSUME ExecutionInv, HostInv, [HostedNext]_hostedVars, [RecordsElsewhere]_hostedVars,
         NEW r \in Runs, state[r] \in Life!ActiveStates,
         r \in Referred \/ (r = HostRun /\ worker[Host].phase \in {"restaging", "executing"})
  PROVE  state'[r] \in Life!ActiveStates
<1>1. ASSUME NEW w \in Workers, RecordResult(w), Job(w) = r PROVE UNCHANGED state
  <2>1. CASE w = Host
    <3>1. At(Host, "recording") /\ r = HostRun
      BY <1>1, <2>1 DEF RecordResult, HostRun
    <3>2. Free /\ worker[Host].phase \notin {"restaging", "executing"}
      BY <3>1 DEF HostInv, ContainerFits, At, Settling
    <3>3. r \notin Referred
      BY <3>2 DEF Free, Referred, Entries
    <3>. QED
      BY <3>2, <3>3
  <2>2. CASE w # Host
    <3>1. CASE RecordsElsewhere
      BY <1>1, <2>2, <3>1 DEF RecordsElsewhere
    <3>2. CASE UNCHANGED hostedVars
      BY <3>2 DEF hostedVars, vars, storeVars
    <3>. QED
      BY <3>1, <3>2
  <2>. QED
    BY <2>1, <2>2
<1>2. [Next]_vars
  BY HostedStepMaps
<1>3. CASE UNCHANGED state
  BY <1>3
<1>4. CASE ~ UNCHANGED state
  BY <1>1, <1>2, <1>4, ActiveStays
<1>. QED
  BY <1>3, <1>4

(* The first clause: the phase is entered for a Run that runs. *)
LEMMA ServedActive ==
  ASSUME ExecutionInv, HostInv, LeanInv, [HostedNext]_hostedVars,
         [RecordsElsewhere]_hostedVars,
         worker'[Host].phase \in {"restaging", "executing"}
  PROVE  (state[HostRun] \in Life!ActiveStates)'
<1>1. worker \in [Workers -> Worker]
  BY HostBusy
<1>2. ASSUME worker'[Host].run = worker[Host].run, ~ At(Host, "idle"),
             worker[Host].phase \in {"restaging", "executing"}
      PROVE  (state[HostRun] \in Life!ActiveStates)'
  <2>1. HostRun \in Runs /\ HostRun' = HostRun
    BY <1>2, HostBusy DEF HostRun, Job
  <2>2. state[HostRun] \in Life!ActiveStates
    BY <1>2 DEF LeanInv
  <2>3. state'[HostRun] \in Life!ActiveStates
    BY <1>2, <2>1, <2>2, ServedStaysActive
  <2>4. (state[HostRun])' = state'[HostRun]
    BY <2>1
  <2>. QED
    BY <2>3, <2>4 DEF Life!ActiveStates
<1>3. CASE worker'[Host] = worker[Host]
  BY <1>2, <1>3 DEF At
<1>4. CASE Advance(Host)
  <2>1. CASE Stage(Host)
    <3>1. worker[Host].phase = "restaging" /\ worker'[Host].run = worker[Host].run
      BY <1>1, <2>1 DEF Stage, Goto, At, Worker
    <3>. QED
      BY <1>2, <3>1 DEF At
  <2>2. CASE StartRun(Host)
    <3>1. HostRun \in Runs /\ HostRun' = HostRun
      BY <1>1, <2>2, HostBusy DEF StartRun, Goto, At, HostRun, Job, Worker
    <3>2. state' = [state EXCEPT ![HostRun] = "running"]
      BY <2>2 DEF StartRun, Life!Start, Life!Move, HostRun
    <3>3. state'[HostRun] = "running"
      BY <3>1, <3>2 DEF ExecutionInv, TypeOK, Life!LifecycleTypeOK
    <3>. QED
      BY <3>1, <3>3 DEF Life!ActiveStates
  <2>3. CASE StartSkipped(Host)
    <3>1. HostRun' = HostRun /\ state' = state
      BY <1>1, <2>3 DEF StartSkipped, Goto, HostRun, Job, Worker, storeVars
    <3>2. state[HostRun] = "running"
      BY <1>1, <2>3 DEF StartSkipped, Goto, HostRun, Worker
    <3>. QED
      BY <3>1, <3>2 DEF Life!ActiveStates
  <2>4. CASE Preflight(Host)
    <3>1. HostRun' = HostRun /\ state' = state
      BY <1>1, <2>4 DEF Preflight, Goto, HostRun, Job, Worker, storeVars
    <3>2. state[HostRun] = "running"
      <4>1. worker'[Host].phase = CASE state[HostRun] = "queued"    -> "preparing"
                                    [] state[HostRun] = "preparing" -> "staging"
                                    [] state[HostRun] = "running"   -> "restaging"
                                    [] OTHER -> "acknowledging"
        BY <1>1, <2>4 DEF Preflight, Goto, HostRun, Worker
      <4>. QED
        BY <4>1
    <3>. QED
      BY <3>1, <3>2 DEF Life!ActiveStates
  <2>5. ASSUME NEW phase, Goto(Host, phase) PROVE worker'[Host].phase = phase
    BY <1>1, <2>5 DEF Goto, Worker
  <2>6. CASE ~ Stage(Host) /\ ~ StartRun(Host) /\ ~ StartSkipped(Host) /\ ~ Preflight(Host)
    <3>1. \/ Goto(Host, "staging") \/ Goto(Host, "preflight") \/ Goto(Host, "failing")
          \/ Goto(Host, "replay") \/ Goto(Host, "recording") \/ Goto(Host, "publishing")
          \/ Goto(Host, "acknowledging") \/ Quit(Host)
          \/ worker' = worker
          \/ worker'[Host].phase \in {"fencing", "storing"}
      BY <1>1, <1>4, <2>6 DEF Advance, PrepareRun, PrepareLost,
      Execute, Fence, StoreOutput, OutputsStored, OutputsRefused, KeepEvidence,
      EvidenceRefused, RecordResult, RecordRefused, Publish, Acknowledge, DeadLetter,
      Release, LeaseLost, Worker
    <3>2. Quit(Host) => worker'[Host].phase = "idle"
      BY <1>1 DEF Quit, Idle
    <3>. QED
      BY <1>3, <2>5, <3>1, <3>2
  <2>. QED
    BY <2>1, <2>2, <2>3, <2>4, <2>6
<1>5. CASE Unseen
  <2>1. worker' = worker
    BY <1>5 DEF Unseen, Get, CleaningEnds, Create, Boot, StartupFails, PostExecute,
     ForwardCancel, PostComplete, Created, LeanEnds, Expire, CreatedLate,
     CreationFailsLate, Killed, vars
  <2>. QED
    BY <1>3, <2>1
<1>6. CASE Failing
  <2>1. worker' = worker \/ Goto(Host, "failing") \/ Goto(Host, "rejecting")
    BY <1>6 DEF Failing, Refuse, CreationFails, StartupFailsEarly, StartupKilled, Discard,
       HostTrouble, KillFails, Fails, Trouble
  <2>. QED
    BY <1>1, <1>3, <2>1 DEF Goto, Worker
<1>7. CASE Proceeding
  BY <1>4, <1>7 DEF Proceeding, Alone, Begin, Skip, Transfer, Answer, Advance
<1>8. CASE HostCrash
  BY <1>1, <1>8 DEF HostCrash, Crash, Quit, Idle
<1>9. CASE Elsewhere
  BY <1>3, <1>9, ElsewhereHost
<1>10. CASE UNCHANGED hostedVars
  BY <1>3, <1>10 DEF hostedVars, vars
<1>. QED
  BY <1>5, <1>6, <1>7, <1>8, <1>9, <1>10, HostedSteps

(* The second clause: Lean begins in a container that is open. *)
LEMMA FreshUntilOpen ==
  ASSUME ExecutionInv, HostInv, LeanInv, [HostedNext]_hostedVars,
         step' \in {"booting", "killing"}
  PROVE  lean'[box'] = "fresh"
<1>1. ASSUME NEW b \in Boxes, Created(b) PROVE lean'[box'] = "fresh"
  BY <1>1, MapFacts DEF Created, Appears
<1>2. CASE step \in {"booting", "killing"}
  <2>1. box \in Boxes /\ lean[box] = "fresh" /\ Staging
    BY <1>2 DEF LeanInv, HostInv, ContainerFits
  <2>2. ASSUME box' = box, lean' = lean PROVE lean'[box'] = "fresh"
    BY <2>1, <2>2
  <2>3. ASSUME NEW r \in Runs, NEW b \in Boxes, CreatedLate(r, b) PROVE lean'[box'] = "fresh"
    BY <2>1, <2>3, MapFacts DEF CreatedLate, Appears, Unknown
  <2>4. ASSUME NEW b \in Boxes, LeanEnds(b) PROVE lean'[box'] = "fresh"
    BY <2>1, <2>4, MapFacts DEF LeanEnds, factoryVars
  <2>5. ASSUME NEW b \in Boxes, Expire(b) PROVE lean'[box'] = "fresh"
    BY <2>2, <2>5 DEF Expire
  <2>6. ASSUME NEW r \in Runs, CreationFailsLate(r) PROVE lean'[box'] = "fresh"
    BY <2>2, <2>6 DEF CreationFailsLate
  <2>7. ASSUME NEW k \in kills, Killed(k) \/ KillFails(k) PROVE lean'[box'] = "fresh"
    BY <1>2, <2>2, <2>7 DEF Killed, KillFails, HostInv, KillFits
  <2>8. CASE StartupFails \/ Elsewhere \/ UNCHANGED hostedVars
    BY <2>2, <2>8 DEF StartupFails, Elsewhere, hostedVars, hostVars
  <2>9. CASE \/ Get \/ CleaningEnds \/ Create \/ Boot \/ PostExecute \/ ForwardCancel
             \/ PostComplete \/ Refuse \/ CreationFails \/ StartupFailsEarly \/ StartupKilled
             \/ Discard \/ HostTrouble \/ Proceeding \/ HostCrash
    BY <1>2, <2>1, <2>9 DEF Get, CleaningEnds, Create, Boot, PostExecute, ForwardCancel,
      PostComplete, Refuse, CreationFails, StartupFailsEarly, StartupKilled, Discard,
      HostTrouble, Proceeding, Alone, Begin, Skip, Transfer, Answer, HostCrash, LetGo,
      Serving, Staging, At
  <2>. QED
    BY <1>1, <2>3, <2>4, <2>5, <2>6, <2>7, <2>8, <2>9, HostedSteps DEF Unseen, Failing
<1>3. CASE step \notin {"booting", "killing"}
  <2>1. \E b \in Boxes : Created(b)
    BY <1>3, HostedSteps DEF Unseen, Failing, Proceeding, Get, CleaningEnds, Create, Boot,
      StartupFails, PostExecute, ForwardCancel, PostComplete, LeanEnds, Expire, CreatedLate,
      CreationFailsLate, Killed, Refuse, CreationFails, StartupFailsEarly, StartupKilled,
      Discard, HostTrouble, KillFails, Alone, Begin, Skip, Transfer, Answer, HostCrash, LetGo,
      Elsewhere, hostedVars, hostVars
  <2>. QED
    BY <1>1, <2>1
<1>. QED
  BY <1>2, <1>3


(* The third clause: who has a sandbox in which Lean runs was active, and  *)
(* had that sandbox, before the step.                                      *)
LEMMA RunningWasActive ==
  ASSUME ExecutionInv, HostInv, LeanInv, [HostedNext]_hostedVars,
         NEW r \in Runs, NEW b \in Boxes, b \in live', lean'[b] = "running",
         b \in {active'[r], quarantined'[r]}
  PROVE  r \in Referred /\ state[r] \in Life!ActiveStates
<1>. USE DEF HostInv
<1>1. b # None /\ b # Coming
  BY HostAssumption
<1>2. ASSUME b \in live, lean[b] = "running", b \in {active[r], quarantined[r]}
      PROVE  r \in Referred /\ state[r] \in Life!ActiveStates
  BY <1>1, <1>2 DEF LeanInv, Referred, Entries
<1>3. ASSUME live' \subseteq live, lean' = lean,
             active' = active \/ (\E q \in Runs, x \in {None, Coming} : active' = Put(active, q, x)),
             quarantined' = quarantined
               \/ (\E q \in Runs, x \in {None, Coming} : quarantined' = Put(quarantined, q, x))
      PROVE  r \in Referred /\ state[r] \in Life!ActiveStates
  <2>1. active'[r] = b => active[r] = b
    BY <1>1, <1>3, MapFacts DEF Put
  <2>2. quarantined'[r] = b => quarantined[r] = b
    BY <1>1, <1>3, MapFacts DEF Put
  <2>. QED
    BY <1>2, <1>3, <2>1, <2>2
<1>4. step # "none" => HostRun \in Runs
  BY HostBusy
<1>5. ASSUME NEW c \in Boxes, Appears(c), b # c => b \in {active[r], quarantined[r]}
      PROVE  r \in Referred /\ state[r] \in Life!ActiveStates
  <2>1. b # c
    BY <1>5, MapFacts DEF Appears
  <2>2. lean[b] = "running" /\ b \in live
    BY <1>5, <2>1, MapFacts DEF Appears
  <2>. QED
    BY <1>2, <1>5, <2>1, <2>2
<1>6. ASSUME NEW c \in Boxes, Created(c) PROVE r \in Referred /\ state[r] \in Life!ActiveStates
  BY <1>5, <1>6 DEF Created
<1>7. ASSUME NEW q \in Runs, NEW c \in Boxes, CreatedLate(q, c)
      PROVE  r \in Referred /\ state[r] \in Life!ActiveStates
  <2>1. Appears(c) /\ active' = active /\ quarantined' \in {quarantined, Put(quarantined, q, c)}
    BY <1>7 DEF CreatedLate
  <2>2. b # c => b \in {active[r], quarantined[r]}
    BY <2>1, MapFacts DEF Put
  <2>. QED
    BY <1>5, <2>1, <2>2
<1>8. CASE Boot \/ StartupFails
  <2>1. lean[box] = "fresh" /\ lean' = lean /\ live' = live
    BY <1>8 DEF Boot, StartupFails, LeanInv
  <2>2. b # box
    BY <2>1
  <2>3. b \in {active[r], quarantined[r]}
    BY <1>8, <2>2, MapFacts DEF Boot, StartupFails, Put
  <2>. QED
    BY <1>2, <2>1, <2>3
<1>9. CASE PostExecute
  <2>1. /\ At(Host, "executing") /\ step = "open" /\ box \in live
        /\ active' = active /\ quarantined' = quarantined /\ live' = live
        /\ lean' = [lean EXCEPT ![box] = "running"]
    BY <1>9 DEF PostExecute, Serving, factoryVars
  <2>2. CASE b = box
    <3>1. HostRun \in Referred /\ r \in Referred
      BY <1>1, <1>4, <2>1, <2>2, HostAssumption DEF ContainerFits, Referred, Entries
    <3>2. r = HostRun
      BY <3>1 DEF OneRun
    <3>. QED
      BY <2>1, <3>1, <3>2 DEF LeanInv, At
  <2>3. CASE b # box
    BY <1>2, <2>1, <2>3, MapFacts
  <2>. QED
    BY <2>2, <2>3
<1>10. ASSUME Transfer \/ ForwardCancel \/ \E c \in Boxes : LeanEnds(c)
       PROVE  r \in Referred /\ state[r] \in Life!ActiveStates
  <2>1. /\ active' = active /\ quarantined' = quarantined /\ live' = live
        /\ \E c \in Boxes \cup {None}, x \in {"staged", "aborted", "ended"} :
             lean' = [lean EXCEPT ![c] = x]
    BY <1>10, MapFacts DEF Transfer, ForwardCancel, LeanEnds, factoryVars
  <2>2. lean[b] = "running"
    BY <2>1, MapFacts
  <2>. QED
    BY <1>2, <2>1, <2>2
<1>11. ASSUME NEW k \in kills, KillFails(k)
       PROVE  r \in Referred /\ state[r] \in Life!ActiveStates
  <2>1. lean' = lean /\ live' \subseteq live
    BY <1>11 DEF KillFails
  <2>2. CASE k.by = "end"
    <3>1. /\ k.box = box /\ k.run = HostRun /\ HostRun \in Runs /\ active[HostRun] = box
          /\ active' = Remove(active, HostRun) /\ quarantined' = Put(quarantined, HostRun, box)
      BY <1>4, <1>11, <2>2 DEF KillFails, KillFits, ContainerFits
    <3>2. b \in {active[r], quarantined[r]}
      BY <1>1, <3>1, MapFacts DEF Put, Remove
    <3>. QED
      BY <1>2, <2>1, <3>2
  <2>3. CASE k.by # "end"
    BY <1>2, <1>11, <2>1, <2>3 DEF KillFails
  <2>. QED
    BY <2>2, <2>3
<1>12. ASSUME NEW k \in kills, Killed(k)
       PROVE  r \in Referred /\ state[r] \in Life!ActiveStates
  <2>1. k.run \in Runs
    BY MapFacts DEF Kill
  <2>. QED
    BY <1>3, <1>12, <2>1 DEF Killed, Put, Remove
<1>13. CASE \/ Create \/ CreationFails \/ StartupFailsEarly \/ StartupKilled
            \/ \E q \in Runs : CreationFailsLate(q)
  BY <1>3, <1>4, <1>13 DEF Create, CreationFails, StartupFailsEarly, StartupKilled,
     CreationFailsLate, Put, Remove
<1>14. CASE \/ Get \/ CleaningEnds \/ PostComplete \/ Refuse \/ Discard \/ HostTrouble
            \/ Alone \/ Begin \/ Skip \/ Elsewhere \/ UNCHANGED hostedVars
            \/ (\E c \in Boxes : Expire(c))
            \/ \E verdict \in {"succeeded", "failed", "cancelled"}, out \in Outputs :
                 Answer(verdict, out)
  <2>1. active' = active /\ quarantined' = quarantined /\ live' \subseteq live /\ lean' = lean
    BY <1>14 DEF Get, CleaningEnds, PostComplete, Refuse, Discard, HostTrouble, Alone, Begin,
       Skip, Elsewhere, Expire, Answer, hostedVars, hostVars, factoryVars
  <2>. QED
    BY <1>2, <2>1
<1>15. ~ HostCrash
  BY DEF HostCrash
<1>. QED
  BY <1>6, <1>7, <1>8, <1>9, <1>10, <1>11, <1>12, <1>13, <1>14, <1>15, HostedSteps
  DEF Unseen, Failing, Proceeding

LEMMA LeanInvInit == HostedInit => LeanInv
BY DEF HostedInit, LeanInv, Init, Idle

LEMMA LeanInvStep ==
  ASSUME ExecutionInv, HostInv, LeanInv, [HostedNext]_hostedVars,
         [RecordsElsewhere]_hostedVars
  PROVE  LeanInv'
<1>1. HostInv'
  BY HostInvStep
<1>2. (worker[Host].phase \in {"restaging", "executing"} => state[HostRun] \in Life!ActiveStates)'
  BY ServedActive
<1>3. (step \in {"booting", "killing"} => lean[box] = "fresh")'
  BY FreshUntilOpen
<1>4. ASSUME NEW r \in Runs, NEW b \in live', lean'[b] = "running",
             b \in {active'[r], quarantined'[r]}
      PROVE  state'[r] \in Life!ActiveStates
  <2>1. b \in Boxes
    BY <1>1 DEF HostInv, HostTypeOK
  <2>2. r \in Referred /\ state[r] \in Life!ActiveStates
    BY <1>4, <2>1, RunningWasActive
  <2>. QED
    BY <2>2, ServedStaysActive
<1>. QED
  BY <1>2, <1>3, <1>4 DEF LeanInv, Life!ActiveStates

(* LeanForActiveRuns: Lean runs only for a Run that was started and has no *)
(* result, whatever is cancelled, fails or is answered late, as long as no *)
(* other process records the result of a Run that this one still serves or *)
(* has a sandbox for, and kills find their own sandbox.                    *)
THEOREM LeanOnlyForActiveRuns ==
  HostedSpec /\ [][KillsTheirOwn]_hostedVars /\ [][RecordsElsewhere]_hostedVars
    => []LeanForActiveRuns
<1>1. HostedInit => SandboxInv /\ LeanInv
  BY SandboxInvInit, LeanInvInit
<1>2. HostedInv /\ SandboxInv /\ [HostedNext]_hostedVars /\ [KillsTheirOwn]_hostedVars
        => SandboxInv'
  BY SandboxInvStep DEF HostedInv
<1>3. HostedInv /\ LeanInv /\ [HostedNext]_hostedVars /\ [RecordsElsewhere]_hostedVars
        => LeanInv'
  BY LeanInvStep DEF HostedInv
<1>4. HostedInv /\ SandboxInv /\ LeanInv => LeanForActiveRuns
  BY LeanInvImplies DEF HostedInv
<1>. QED
  BY <1>1, <1>2, <1>3, <1>4, HostedInvHolds, PTL DEF HostedSpec

(* LeanForActiveRuns again: one process that has the queue to itself, up   *)
(* to one failure, needs nothing of the order of the answers.              *)
THEOREM LeanForActiveRunsAlone ==
  Workers = {Host} /\ MaxFaults <= 1 => (HostedSpec => []LeanForActiveRuns)
<1>. SUFFICES ASSUME Workers = {Host}, MaxFaults <= 1
              PROVE  HostedSpec => []LeanForActiveRuns
  OBVIOUS
<1>1. RecordsElsewhere
  BY DEF RecordsElsewhere
<1>2. HostedSpec => [][RecordsElsewhere]_hostedVars
  BY <1>1, PTL
<1>. QED
  BY <1>2, OneFaultMatches, LeanOnlyForActiveRuns, PTL
=============================================================================
