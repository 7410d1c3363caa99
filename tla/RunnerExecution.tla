--------------------------- MODULE RunnerExecution ---------------------------
(***************************************************************************)
(* From a dispatched Run to its recorded result: orchestrator.mjs and the  *)
(* trusted Runner processes (trusted-runner-process.mjs and, below it,     *)
(* runner-job-preflight, runner-workspace-stager, worker.mjs and           *)
(* runner-execution-finalizer), over the queue and the Run store as        *)
(* DeliveryContract and RunLifecycle specify them.                         *)
(*                                                                         *)
(* A step ends where the code awaits the database, the container or a      *)
(* lease call; every worker may crash, lose its lease while stalled, or    *)
(* fail at any of these points.  A delivery has at most one execution, so  *)
(* a lease identifier also names the execution made under it.              *)
(***************************************************************************)
EXTENDS Naturals, FiniteSets

CONSTANTS
  Runs,
  Replays,        \* Runs that are a verifier's fresh replay
  Workers,        \* trusted Runner processes
  Dispatchers,    \* concurrent requests to dispatch a Run
  Outputs,        \* what an execution may print
  MaxDeliveries,  \* maxDeliveryAttempts
  MaxLapses,      \* bound: crashes and lost leases
  MaxRedrives,    \* bound: redrives
  MaxLeases,      \* bound: deliveries
  None            \* no Run, no output, no result

ASSUME ExecutionAssumption ==
  /\ Replays \subseteq Runs
  /\ MaxDeliveries \in Nat \ {0}
  /\ MaxLapses \in Nat
  /\ MaxRedrives \in Nat
  /\ MaxLeases \in Nat
  /\ None \notin Runs \cup Outputs

VARIABLES
  status, token, attempts, issued,   \* the queue, see DeliveryContract
  state, outcome,                    \* the Run store, see RunLifecycle
  stored,      \* stored[r][f]: runner_output_artifacts, f the stdout or stderr
  evidence,    \* evidence[r]: verification_replay_evidence
  published,   \* Runs whose success published verification work
  worker,      \* worker[w]: the delivery w processes and how far it is
  dispatch,    \* dispatch[d]: the request d serves and how far it is
  lapses,      \* crashes and lost leases so far
  redrives     \* redrives so far

queueVars == <<status, token, attempts, issued>>
storeVars == <<state, outcome>>
evidenceVars == <<stored, evidence, published>>
boundVars == <<lapses, redrives>>
vars == <<queueVars, storeVars, evidenceVars, worker, dispatch, boundVars>>

-----------------------------------------------------------------------------
(* Data *)

(* exit codes, kernel status and checks come down to the status.  "failed" *)
(* stands for timed_out and rejected as well.                              *)
Product == [lease: Nat, status: {"succeeded", "failed", "cancelled"}, output: Outputs]

ASSUME ProductAssumption == None \notin Product

StatusIn(x) == x.status

Delivery == INSTANCE DeliveryContract
Life == INSTANCE RunLifecycle WITH
          Results <- Product, NoResult <- None, StatusOf <- StatusIn

Roles == {"stdout", "stderr"}

WorkerPhases ==
  {"idle", "exhausted", "preflight", "preparing", "staging", "restaging",
   "starting", "executing", "fencing", "storing", "replay", "recording",
   "publishing", "acknowledging", "failing", "rejecting"}

(* seen: the state of the Run when receivedAt was read. *)
Worker == [phase: WorkerPhases, run: Runs \cup {None}, lease: Nat,
           attempt: Nat, product: Product \cup {None}, seen: Life!States]
Idle == [phase |-> "idle", run |-> None, lease |-> 0, attempt |-> 0,
         product |-> None, seen |-> "absent"]

DispatchPhases == {"idle", "inspecting", "enqueueing", "redriving"}
Dispatch == [phase: DispatchPhases, run: Runs \cup {None}]
NoDispatch == [phase |-> "idle", run |-> None]

TypeOK ==
  /\ Delivery!ContractTypeOK
  /\ Life!LifecycleTypeOK
  /\ stored \in [Runs -> [Roles -> Outputs \cup {None}]]
  /\ evidence \in [Runs -> Product \cup {None}]
  /\ published \subseteq Runs
  /\ worker \in [Workers -> Worker]
  /\ dispatch \in [Dispatchers -> Dispatch]
  /\ lapses \in Nat
  /\ redrives \in Nat

-----------------------------------------------------------------------------
(* Workers *)

Job(w) == worker[w].run
At(w, phase) == worker[w].phase = phase
Goto(w, phase) == worker' = [worker EXCEPT ![w].phase = phase]
Quit(w) == worker' = [worker EXCEPT ![w] = Idle]

InForce(w) == status[Job(w)] = "held" /\ token[Job(w)] = worker[w].lease

HasHolder(r) ==
  \E w \in Workers : worker[w].run = r /\ worker[w].lease = token[r]

(* A lease nobody lost runs out when its holder crashed; the lease of a    *)
(* living holder lapses only when heartbeats fail.                         *)
Takeover(r) == status[r] = "held" /\ HasHolder(r)

(* processNext(): the delivery a claim() answers with. *)
Claim(w, r) ==
  /\ At(w, "idle")
  /\ Delivery!Grant(r)
  /\ IF Takeover(r) THEN lapses < MaxLapses /\ lapses' = lapses + 1
                    ELSE UNCHANGED lapses
  /\ worker' = [worker EXCEPT ![w] =
                  [Idle EXCEPT !.phase = IF attempts[r] < MaxDeliveries
                                         THEN "preflight" ELSE "exhausted",
                               !.run = r, !.lease = issued + 1,
                               !.attempt = attempts[r] + 1]]
  /\ UNCHANGED <<storeVars, evidenceVars, dispatch, redrives>>

(* Mutant: a Run that is running is somebody else's. *)
PreflightSkipsRunning(w) ==
  /\ At(w, "preflight")
  /\ Goto(w, CASE state[Job(w)] = "queued"    -> "preparing"
               [] state[Job(w)] = "preparing" -> "staging"
               [] OTHER                       -> "acknowledging")
  /\ UNCHANGED <<queueVars, storeVars, evidenceVars, dispatch, boundVars>>

(* claimAuthenticatedMessage() and recoverRunningAuthenticatedMessage():   *)
(* whatever the Run has left to do.  Other states are skipped.             *)
Preflight(w) ==
  LET s == state[Job(w)]
  IN  /\ At(w, "preflight")
      /\ Goto(w, CASE s = "queued"    -> "preparing"
                   [] s = "preparing" -> "staging"
                   [] s = "running"   -> "restaging"
                   [] OTHER           -> "acknowledging")
      /\ UNCHANGED <<queueVars, storeVars, evidenceVars, dispatch, boundVars>>

PrepareRun(w) ==
  /\ At(w, "preparing")
  /\ Life!Prepare(Job(w))
  /\ Goto(w, "staging")
  /\ UNCHANGED <<queueVars, evidenceVars, dispatch, boundVars>>

(* Another delivery prepared the Run, or it was cancelled: read it again. *)
PrepareLost(w) ==
  /\ At(w, "preparing")
  /\ state[Job(w)] # "queued"
  /\ Goto(w, "preflight")
  /\ UNCHANGED <<queueVars, storeVars, evidenceVars, dispatch, boundVars>>

(* The workspace is transferred into the private container. *)
Stage(w) ==
  /\ \/ At(w, "staging") /\ Goto(w, "starting")
     \/ At(w, "restaging") /\ Goto(w, "executing")
  /\ UNCHANGED <<queueVars, storeVars, evidenceVars, dispatch, boundVars>>

(* startAfterWorkspaceStaged() *)
StartRun(w) ==
  /\ At(w, "starting")
  /\ Life!Start(Job(w))
  /\ Goto(w, "executing")
  /\ UNCHANGED <<queueVars, evidenceVars, dispatch, boundVars>>

(* Mutant: whoever lost the race for the start goes on. *)
StartAnyway(w) ==
  /\ At(w, "starting")
  /\ state[Job(w)] # "preparing"
  /\ Goto(w, "executing")
  /\ UNCHANGED <<queueVars, storeVars, evidenceVars, dispatch, boundVars>>

(* Another delivery started the Run, which this one then joins, or the Run *)
(* is cancelled or over.                                                   *)
StartSkipped(w) ==
  /\ At(w, "starting")
  /\ state[Job(w)] # "preparing"
  /\ Goto(w, IF state[Job(w)] = "running" THEN "executing" ELSE "acknowledging")
  /\ UNCHANGED <<queueVars, storeVars, evidenceVars, dispatch, boundVars>>

(* Lean ends in the container.  Only a cancellation that the forwarder     *)
(* polled from the store makes it end as cancelled.                        *)
Execute(w, verdict, out) ==
  /\ At(w, "executing")
  /\ verdict = "cancelled" => state[Job(w)] = "cancel_requested"
  /\ worker' = [worker EXCEPT
       ![w].phase = "fencing",
       ![w].product = [lease |-> worker[w].lease, status |-> verdict, output |-> out]]
  /\ UNCHANGED <<queueVars, storeVars, evidenceVars, dispatch, boundVars>>

(* Mutant: the wrong column of the Run is read. *)
FenceReadsOutcome(w) ==
  /\ At(w, "fencing")
  /\ InForce(w)
  /\ worker' = [worker EXCEPT ![w].phase = "storing", ![w].seen = outcome[Job(w)]]
  /\ UNCHANGED <<queueVars, storeVars, evidenceVars, dispatch, boundVars>>

(* beforeFinalize(): the last renewal, and the reading of receivedAt. *)
Fence(w) ==
  /\ At(w, "fencing")
  /\ InForce(w)
  /\ worker' = [worker EXCEPT ![w].phase = "storing", ![w].seen = state[Job(w)]]
  /\ UNCHANGED <<queueVars, storeVars, evidenceVars, dispatch, boundVars>>

Stored(w, f) == stored[Job(w)][f] = worker[w].product.output

(* finalize() reads the Run and stores stdout and stderr, each once. *)
StoreOutput(w, f) ==
  /\ At(w, "storing")
  /\ state[Job(w)] \in Life!ActiveStates
  /\ stored[Job(w)][f] = None
  /\ stored' = [stored EXCEPT ![Job(w)][f] = worker[w].product.output]
  /\ UNCHANGED <<queueVars, storeVars, evidence, published, worker, dispatch, boundVars>>

OutputsStored(w) ==
  /\ At(w, "storing")
  /\ \A f \in Roles : Stored(w, f)
  /\ Goto(w, IF Job(w) \in Replays THEN "replay" ELSE "recording")
  /\ UNCHANGED <<queueVars, storeVars, evidenceVars, dispatch, boundVars>>

(* The Run is not active any more, or a role holds other bytes. *)
OutputsRefused(w) ==
  /\ At(w, "storing")
  /\ \/ state[Job(w)] \notin Life!ActiveStates
     \/ \E f \in Roles : stored[Job(w)][f] # None /\ ~Stored(w, f)
  /\ Goto(w, "failing")
  /\ UNCHANGED <<queueVars, storeVars, evidenceVars, dispatch, boundVars>>

(* Mutant: later evidence replaces earlier evidence. *)
ReplaceEvidence(w) ==
  /\ At(w, "replay")
  /\ evidence' = [evidence EXCEPT ![Job(w)] = worker[w].product]
  /\ Goto(w, "recording")
  /\ UNCHANGED <<queueVars, storeVars, stored, published, dispatch, boundVars>>

(* The signed result becomes the citeable evidence of a replay, once; the  *)
(* evidence of another execution differs at least in its recordedAt.       *)
KeepEvidence(w) ==
  /\ At(w, "replay")
  /\ evidence[Job(w)] = None
  /\ evidence' = [evidence EXCEPT ![Job(w)] = worker[w].product]
  /\ Goto(w, "recording")
  /\ UNCHANGED <<queueVars, storeVars, stored, published, dispatch, boundVars>>

EvidenceRefused(w) ==
  /\ At(w, "replay")
  /\ evidence[Job(w)] # None
  /\ Goto(w, "failing")
  /\ UNCHANGED <<queueVars, storeVars, evidenceVars, dispatch, boundVars>>

(* recordResult() refuses a receivedAt older than the projection: of a Run *)
(* that changed since, unless the clock that stamped the change was slow.  *)
ReceivedInTime(w) == state[Job(w)] = worker[w].seen

RecordResult(w) ==
  /\ At(w, "recording")
  /\ \A f \in Roles : Stored(w, f)
  /\ Life!Record(Job(w), worker[w].product)
  /\ Goto(w, IF worker[w].product.status = "succeeded"
             THEN "publishing" ELSE "acknowledging")
  /\ UNCHANGED <<queueVars, evidenceVars, dispatch, boundVars>>

RecordRefused(w) ==
  /\ At(w, "recording")
  /\ ~ReceivedInTime(w) \/ ~Life!Recordable(Job(w), worker[w].product)
  /\ Goto(w, "failing")
  /\ UNCHANGED <<queueVars, storeVars, evidenceVars, dispatch, boundVars>>

Publish(w) ==
  /\ At(w, "publishing")
  /\ published' = published \cup {Job(w)}
  /\ Goto(w, "acknowledging")
  /\ UNCHANGED <<queueVars, storeVars, stored, evidence, dispatch, boundVars>>

Acknowledge(w) ==
  /\ At(w, "acknowledging")
  /\ Delivery!Finish(Job(w), worker[w].lease)
  /\ Quit(w)
  /\ UNCHANGED <<storeVars, evidenceVars, dispatch, boundVars>>

(* Mutant: nobody puts an exhausted delivery away. *)
GivesUpOnFailure(w) ==
  \/ At(w, "rejecting")
  \/ At(w, "failing") /\ worker[w].attempt >= MaxDeliveries

(* handleFailure(), and the dead letter of an exhausted delivery. *)
GivesUp(w) ==
  \/ At(w, "exhausted")
  \/ At(w, "rejecting")
  \/ At(w, "failing") /\ worker[w].attempt >= MaxDeliveries

DeadLetter(w) ==
  /\ GivesUp(w)
  /\ Delivery!Park(Job(w), worker[w].lease)
  /\ Quit(w)
  /\ UNCHANGED <<storeVars, evidenceVars, dispatch, boundVars>>

Release(w) ==
  /\ At(w, "failing")
  /\ ~GivesUp(w)
  /\ Delivery!Return(Job(w), worker[w].lease)
  /\ Quit(w)
  /\ UNCHANGED <<storeVars, evidenceVars, dispatch, boundVars>>

(* A call on a lease that was superseded throws. *)
LeaseLost(w) ==
  /\ worker[w].phase \in {"fencing", "acknowledging", "exhausted", "failing", "rejecting"}
  /\ ~InForce(w)
  /\ IF worker[w].phase \in {"fencing", "acknowledging"} THEN Goto(w, "failing") ELSE Quit(w)
  /\ UNCHANGED <<queueVars, storeVars, evidenceVars, dispatch, boundVars>>

(* An await fails.  A message that does not authenticate, or a workspace   *)
(* that cannot be transferred, is not retried.                             *)
Trouble(w) ==
  /\ worker[w].phase \notin {"idle", "exhausted", "failing", "rejecting"}
  /\ \/ Goto(w, "failing")
     \/ worker[w].phase \in {"preflight", "staging", "restaging"} /\ Goto(w, "rejecting")
  /\ UNCHANGED <<queueVars, storeVars, evidenceVars, dispatch, boundVars>>

Crash(w) ==
  /\ ~At(w, "idle")
  /\ lapses < MaxLapses
  /\ lapses' = lapses + 1
  /\ Quit(w)
  /\ UNCHANGED <<queueVars, storeVars, evidenceVars, dispatch, redrives>>

-----------------------------------------------------------------------------
(* Requests *)

Reply(d) == dispatch' = [dispatch EXCEPT ![d] = NoDispatch]
Continue(d, r, phase) ==
  dispatch' = [dispatch EXCEPT ![d] = [phase |-> phase, run |-> r]]

(* queueArtifactBundle(): the Run is persisted, or found by its            *)
(* idempotency key, before anything is delivered.                          *)
QueueRun(d, r) ==
  /\ dispatch[d].phase = "idle"
  /\ \/ Life!Queue(r) /\ Continue(d, r, "enqueueing")
     \/ /\ state[r] = "queued" /\ Continue(d, r, "enqueueing")
        /\ UNCHANGED storeVars
     \/ /\ state[r] \in {"preparing", "running"} /\ Continue(d, r, "inspecting")
        /\ UNCHANGED storeVars
  /\ UNCHANGED <<queueVars, evidenceVars, worker, boundVars>>

(* recoverableActiveRun *)
InspectDelivery(d) ==
  LET r == dispatch[d].run
  IN  /\ dispatch[d].phase = "inspecting"
      /\ IF status[r] = "parked" THEN Continue(d, r, "enqueueing") ELSE Reply(d)
      /\ UNCHANGED <<queueVars, storeVars, evidenceVars, worker, boundVars>>

EnqueueMessage(d) ==
  LET r == dispatch[d].run
  IN  /\ dispatch[d].phase = "enqueueing"
      /\ \/ Delivery!Submit(r) /\ Reply(d)
         \/ status[r] = "parked" /\ Continue(d, r, "redriving") /\ UNCHANGED queueVars
         \/ status[r] \notin {"absent", "parked"} /\ Reply(d) /\ UNCHANGED queueVars
      /\ UNCHANGED <<storeVars, evidenceVars, worker, boundVars>>

Redrive(d) ==
  LET r == dispatch[d].run
  IN  /\ dispatch[d].phase = "redriving"
      /\ \/ redrives < MaxRedrives /\ redrives' = redrives + 1 /\ Delivery!Reopen(r)
         \/ status[r] # "parked" /\ UNCHANGED <<queueVars, redrives>>
      /\ Reply(d)
      /\ UNCHANGED <<storeVars, evidenceVars, worker, lapses>>

(* The request is interrupted; the same key may be used again. *)
Interrupt(d) ==
  /\ dispatch[d].phase # "idle"
  /\ Reply(d)
  /\ UNCHANGED <<queueVars, storeVars, evidenceVars, worker, boundVars>>

(* cancelRunnerRun(): the store only, the queue keeps its message. *)
CancelRun(r) ==
  /\ Life!Cancel(r)
  /\ UNCHANGED <<queueVars, evidenceVars, worker, dispatch, boundVars>>

-----------------------------------------------------------------------------
Init ==
  /\ Delivery!Init
  /\ Life!Init
  /\ stored = [r \in Runs |-> [f \in Roles |-> None]]
  /\ evidence = [r \in Runs |-> None]
  /\ published = {}
  /\ worker = [w \in Workers |-> Idle]
  /\ dispatch = [d \in Dispatchers |-> NoDispatch]
  /\ lapses = 0
  /\ redrives = 0

(* What a worker does next with the delivery it has. *)
Advance(w) ==
  \/ Preflight(w) \/ PrepareRun(w) \/ PrepareLost(w) \/ Stage(w)
  \/ StartRun(w) \/ StartSkipped(w)
  \/ \E verdict \in {"succeeded", "failed", "cancelled"}, out \in Outputs :
       Execute(w, verdict, out)
  \/ Fence(w)
  \/ \E f \in Roles : StoreOutput(w, f)
  \/ OutputsStored(w) \/ OutputsRefused(w) \/ KeepEvidence(w) \/ EvidenceRefused(w)
  \/ RecordResult(w) \/ RecordRefused(w) \/ Publish(w)
  \/ Acknowledge(w) \/ DeadLetter(w) \/ Release(w) \/ LeaseLost(w)

WorkerStep(w) ==
  \/ \E r \in Runs : Claim(w, r)
  \/ Advance(w) \/ Trouble(w) \/ Crash(w)

DispatchStep(d) ==
  \/ \E r \in Runs : QueueRun(d, r)
  \/ InspectDelivery(d) \/ EnqueueMessage(d) \/ Redrive(d) \/ Interrupt(d)

Next ==
  \/ \E w \in Workers : WorkerStep(w)
  \/ \E d \in Dispatchers : DispatchStep(d)
  \/ \E r \in Runs : CancelRun(r)

Spec == Init /\ [][Next]_vars

(* The poll loop of run(): a message that is ready, or whose lease ran out *)
(* with its holder gone, is claimed by somebody; and a process goes on     *)
(* with its delivery unless it crashes.                                    *)
Redeliver(r) == ~Takeover(r) /\ \E w \in Workers : Claim(w, r)

FairSpec ==
  /\ Spec
  /\ \A r \in Runs : WF_vars(Redeliver(r))
  /\ \A w \in Workers : WF_vars(Advance(w))

-----------------------------------------------------------------------------
(* Properties *)

(* A recorded result is backed by the evidence kept before it, whichever   *)
(* of several executions wrote which part: the stored stdout and stderr    *)
(* are its own, a replay's evidence is this very result, and verification  *)
(* work is published for successes only (finalize(), steps 2 to 6).        *)
EvidenceBacksResult ==
  \A r \in Runs :
    /\ outcome[r] # None =>
         /\ state[r] = outcome[r].status
         /\ \A f \in Roles : stored[r][f] = outcome[r].output
         /\ r \in Replays => evidence[r] = outcome[r]
    /\ r \in published => state[r] = "succeeded"

Executing == {"restaging", "executing", "fencing", "storing", "replay",
              "recording", "publishing"}

(* A cancellation answered "cancelled before execution" is true: no worker *)
(* executes the Run, now or later.  Of a Run that was started, and whose   *)
(* cancellation is only requested, this says nothing: Lean may still begin *)
(* there before the request is forwarded to it.                            *)
NothingRunsAfterCancel ==
  \A r \in Runs :
    state[r] = "cancelled" /\ outcome[r] = None =>
      \A w \in Workers : Job(w) = r => worker[w].phase \notin Executing

(* No Run is left queued, preparing or running without a message that will *)
(* be delivered or redriven.  A Run in cancel_requested is exempt, whose   *)
(* message may be acknowledged although it has not stopped: what becomes   *)
(* of it is the question of CancelReachesTerminal.                         *)
AcknowledgedIsOver ==
  \A r \in Runs :
    status[r] = "done" => Life!Over(r) \/ state[r] = "cancel_requested"

(* Every message is settled in the end, whatever fails on the way. *)
EveryMessageSettles ==
  \A r \in Runs : status[r] \in {"ready", "held"} ~> status[r] \in {"done", "parked"}

(* "The object is written before D1 accepts the result so a Queue retry    *)
(* can safely reuse it" (d1-r2-verification-replay-evidence-store.mjs).    *)
RetryReusesEvidence ==
  \A w \in Workers :
    At(w, "replay") /\ ~Life!Over(Job(w)) =>
      evidence[Job(w)] \in {None, worker[w].product}

(* "a running container must acknowledge cancellation"                     *)
(* (docs/run-state-contract.md)                                            *)
CancelReachesTerminal ==
  \A r \in Runs : state[r] = "cancel_requested" ~> Life!Over(r)
=============================================================================
