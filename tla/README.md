# Proofweave in TLA+

Proofweave lets people delegate research Attempts to Agents. An Attempt ends in
a signed Artifact Bundle; a trusted Runner checks the Bundle in an isolated Lean
container; verifiers other than the author review it; a Contribution Receipt is
issued, credits are settled, and the public records are anchored on chains. The
state is in one SQLite/libSQL database ("D1" in the names of the code), whose
`batch([...])` is one atomic write transaction
(`services/database/libsql-d1-adapter.mjs`). A failed constraint aborts a whole
batch; an UPDATE that matches no row does not.

Line numbers in this file and in `PROJECT.json` are those of the sources in
`src/`.

## 1. The system and its parts

| Part | State it keeps | Operations | What is hard about it |
|---|---|---|---|
| Runner lease queue (`services/lean-runner/d1-runner-lease-queue.mjs`) | `runner_queue_messages`, `runner_queue_events` | enqueue, claim, renew, acknowledge, release, deadLetter, redrive, cancelQueued | competing processes, expiring leases, process clocks, reads between writes |
| Run store (`d1-run-store.mjs`, `packages/domain/run.mjs`) | `runs`, `run_events`, `run_results` | queue, prepare, start, requestCancellation, recordResult | cancellation racing everything else, read-then-batch, idempotent retries |
| Trusted Runner process (`trusted-runner-process.mjs`, `runner-job-preflight.mjs`, `runner-workspace-stager.mjs`, `worker.mjs`, `runner-execution-finalizer.mjs`) | only in memory | claim, preflight, stage, start, execute, fence, finalize, acknowledge | crashes and lost leases between any two awaits, two executions of one Run |
| Dispatch (`orchestrator.mjs`, `runner-dispatch.mjs`) | none of its own | queueArtifactBundle | duplicate requests, recovery of a dead delivery |
| Runner output store, replay evidence store | `runner_output_artifacts`, `verification_replay_evidence`, objects | persist | written once, before the result they belong to |
| Verification market and assignments (`services/verification/`) | jobs, assignments, attestations, replays | publish, claim, assign, accept, decline, attest, close | limits counted apart from the write, closure of a review |
| Lean sandbox (`e2b-sandbox-container.mjs`, `container-workspace-runtime.mjs`, `runner-workspace-transfer.mjs`, `runner-container-execution-client.mjs`) | in memory: active, quarantined; the sessions inside a sandbox; the provider's sandboxes | get, create, terminate; declare, upload, finalize, execute, cancel, complete | creations and kills that answer late, one place for all Runs, cancellation meanwhile |
| Contribution Receipts (`services/receipts/`) | receipts, dependency edges, lifecycle events, issuer keys | tryIssue, issue, recordLifecycleEvent, rotate, revoke | issued once per evidence, lifecycle and keys checked and then written |
| Credits (`services/credits/`, `packages/protocol/receipt-credit.mjs`) | settlements, transactions | settleReceipt | once per Receipt, a Receipt retracted meanwhile |
| Anchoring (`services/anchoring/`) | records, batches, submissions, outbox, tick lease | enqueue, build, submit, confirm, abandon, tick | external chains, crash between broadcast and record, reorganisations |
| OAuth identity, pairing (`services/proofweave-identity/`, `db/repositories/local-codex-pairing.ts`) | challenges, pairings, codes, tokens, installations | consent, approve, exchange, refresh, revoke | single use, rotation, lost answers |
| Keys and delegations (`db/repositories/delegation.ts`) | keys, proofs, certificates, revocations | register, prove, revoke, delegate | two keys revoked at once, authority revoked meanwhile |
| Attempts (`db/repositories/mcp.ts`, `services/proofweave-mcp-gateway/`) | attempts, their events, authority renewals | create, report, pause, resume, abandon, cancel | versions read before the batch, retries after a lost answer |
| Artifact stores, research graph (`services/artifacts/`, `services/research/`) | objects, Bundles, provisional credit, nodes and edges | putObject, stageBundle, publishCheckpoint | several writes without a transaction, retries under a renewed certificate |
| Catalog, adapters, protocol functions, UI, plugin, scripts | | | listed in `PROJECT.json` with the reason they are not modelled |

How they interact on the path that the first modules follow:

    dispatch ---- queue() ----> Run store <--- requestCancellation() --- gateway
       |                            ^
       | enqueue(), redrive()       | prepare(), start(), recordResult()
       v                            |
    lease queue <-- claim(), renew(), acknowledge(), release(), deadLetter() -- Runner processes
                                    |
                                    +--> outputs, replay evidence, verification jobs

And around it:

    keys, delegations -> installation -> tokens -> Attempt -> objects, Bundle, checkpoints
                                                                 |
    reviews (market, desk) <------------ result of the Run ------+
        |
        v
    Receipt -> lifecycle events, credits, anchor record -> batch -> chain

Processes and requests share nothing but the database. They meet only in the
guards of their UPDATEs, in unique indexes, and in what they read before.

## 2. Plan

Modules, in the order they are written:

1. **Execution core (done)**: `RunnerLeaseQueue`, `RunStore` in the detail of
   their database round trips; `DeliveryContract` and `RunLifecycle`, what they
   promise; `RunnerExecution`, the processes composed over those promises;
   `HostedRunner`, one such process with its sandboxes taken apart.
2. **Verification (done)**: `VerificationMarket`, `ReviewLedger` and the proofs of both.
3. **Anchoring (done)**: `Anchoring`, `AnchorLog` and the proofs.
4. **Receipts and credits (done)**: `Receipts` over the promise of the verification
   stores, `ReceiptBook`, what it promises.
5. **Identity, Attempts, evidence (done)**: `AgentAccess`, `AttemptJournal`,
   `AttemptEvidence`, each composed over the one before; `ConsentGrant`.
6. **Left to model**: the shutdown of a Runner process and the other sandbox
   providers; the allocation of credits by largest remainder and Merkle proofs, as
   functions checked against their definitions; the migration runner.
7. **Proofs (done)**: every invariant, action property and refinement that a run checks;
   the two of `HostedRunner` under hypotheses that section 5 explains.

## 3. Modules

**`DeliveryContract`** - what the queue promises, without clocks, rows or log: a
message per Run, a fencing token per delivery, only the newest token settles.

**`RunnerLeaseQueue`** - the queue as it is coded. `row[r]` and `events[r]` are
the two tables; `phase`, `claim` and `held` are the local variables of a
consumer; `redriving` those of redrive() calls. An action is one database round
trip. `claim()` is `ClaimStart` (clock), `ClaimSelect` or `ClaimNothing` (SELECT),
`ClaimCommit` or `ClaimConflict` (batch), `ClaimAnswer` (the read the answer is
built from); `redrive()` is `RedriveRead` and then `RedriveCommit`,
`RedriveConflict` or `RedriveAbort`. The calls on a lease are one batch each.
`RenewRefused` and `RedriveConflict` are batches whose UPDATE matched nothing while
their event was inserted all the same, which the code permits when `updated_at`
happens to agree. `Forget` is every way a consumer lets go of a delivery without
telling the database. Time is a natural number; callers pass clock readings that
are off by at most `MaxSkew`, a batch commits at most `MaxLag` after its reading
and a claim() call takes at most `MaxStall`.

**`RunLifecycle`** - the promise of `packages/domain/run.mjs` and the store: one
path of states, each transition at once, an outcome that never changes.

**`RunStore`** - the store as it is coded, for one Run (every statement is keyed by
the Run). A call reads the row (`Transition`, `RecordResult`, `CheckResult`), asks
for the next event number (`NumberEvent`) and commits a batch (`Commit`,
`CommitAborted`); after an aborted batch it looks whether its transition was made
by somebody else (`Reload`). `BatchAccepted` collects the constraints that can
abort the batch: the primary key of `run_results`, the projection guard of the
event's INSERT, the event number and the event id. `Execute` and `PersistOutput`
give the store results and outputs worth recording. Left out: the repair paths for rows
an earlier release wrote without their event; `TablesAgree` shows that this
code leaves no such row.

**`RunnerExecution`** - dispatch, Runner processes and cancellation over
`DeliveryContract` and `RunLifecycle` (both by INSTANCE). `worker[w].phase` names the
await a process is at; `stored`, `evidence`, `published` are the durable by-products of a
finalization. `Trouble` is an await that throws, `Crash` a process that dies,
`LeaseLost` a call on a superseded lease; a lease lapses by `Claim` while it has a
living holder (`Takeover`). Abstracted: message authentication and Bundle contents
(a failure is `Trouble`), the container (an execution ends with a status and an
output), exit codes and hashes. Not modelled here: the Cloudflare queue consumer.

**`HostedRunner`** - `RunnerExecution` with the container of one process (`Host`) taken
apart. `active`, `quarantined` are the maps of `E2BSandboxContainerFactory`; `late` and
`kills` the requests its provider has not answered and nobody or somebody waits for; `live` the
sandboxes there are; `lean[b]` the session of the Run inside sandbox b; `step` what the process
awaits, a creation among it. `Get` to `StartupKilled` are `get()` and `create()`; `CreatedLate` and
`CreationFailsLate` the answers `trackLateSandbox()` waits for after a startup was given up, which
kills the sandbox whatever has become of its entry meanwhile; `Killed` and `KillFails` the answers to
`boundedProviderKill()`, where `complete` fails with the kill and a discard keeps the failure it is
for; `Transfer` to `PostComplete` the calls into the sandbox, which take the
place of the one step `Stage` or `Execute` of `RunnerExecution`. The other steps of the process
are those of `RunnerExecution`, allowed when it awaits no sandbox (`Alone`). What is not
awaited goes on next to it: a late creation, a kill, the end of Lean, the forwarded cancellation.
An error of a creation does not prove that there is no sandbox: the request has a timeout and an
abort signal, and what cuts it off is unknown to the provider (`RequestFails`,
`e2b-sandbox-container.mjs:163-174`, `280-282`). A sandbox made for such a request is one of
`orphans`: nobody was told of it, nobody can kill it, it goes when its lifetime at the provider is over
(`Expire`; a restart of the process drops it from the model).

**`RunnerLeaseQueueProofs`**, **`RunStoreProofs`**, **`RunnerExecutionProofs`** - the theorems of
the queue, of the Run store and of the processes composed over their contracts.

**`AnchorLog`** - what anchoring promises: an append-only log of disjoint sets of
records.

**`Anchoring`** - ticks, witness requests and `abandonBatch()` over the tables of
`D1AnchorStore`. `call[c].at` names the round trip a tick (or request) makes next;
`Resume` to `MarkSubmitted` are `submitBuiltBatch()`, `Build` to `Create` the building of
a batch, `Poll` to `EndTick` one `pollConfirmations()`, whose steps on a submission
`submitWitness()` shares. A read that a later transaction repeats in its guard is
left out (`updateSubmissionStatus()`) or joined with its neighbours
(`abandonBatch()`); a read nobody repeats is a step of its own (`SaveCheck`,
`MarkCheck`, `ConfirmCheck`, `Count`). `head` is the table `anchor_log_head`: its
length is the version that serves as compare-and-swap. A tick fails
(`Trouble`), dies (`Crash`) or outlives its lease (`Overrun`). Abstracted: a root is
its set of leaves, a transaction is named by its batch and its signer, due times and
lease times are left to chance, witness authority and payload checks always pass (a
request that fails them changes nothing), manifest objects are not kept.

**`AnchoringProofs`** - the theorems of anchoring.

**`ReviewLedger`** - what the verification stores promise: per Bundle, claim type and
Person one review, open, declined or closed, never of one's own work, never more
open ones than the limit, and a verdict that comes with the end of its review.

**`VerificationMarket`** - `D1VerificationMarketStore` and `D1VerificationStore` over one
problem revision and its credit pool. `call[c].phase` is the round trip a request
makes next: `Publish`, `CheckLean`, `PublishNext` are `publishJobsForBundle()`; `Claim`,
`CheckPool`, `CheckDelegation`, `CheckCapacity`, `ClaimBatch` are `claimJob()`; `Assign`,
`AssignBatch` are `assign()`; `Decide`, `ReadAssigned`, `Number`, `Move` are `accept()` and
`decline()` behind the repository that calls them; `Attest` to `Record` are the gateway's
submission and `recordAttestation()`, `ReadWinner` its answer after a lost race, `Close` to
`CloseWrite` `ensureAttestationClosure()`. `asg`, `log`, `att` are the tables of assignments,
their events and attestations, keyed by the work they are about as the unique index
is; `jobs`, `jobLog`, `claimant` those of the market. The pool, Lean results, replay evidence and
delegations change by themselves (`PoolMoves`, `Prove`, `Replay`, `Revoke`). `Unclosed` names
works that an early release attested without closing them. Abstracted: signatures and
canonical payloads are taken as verified, an event's type stands for its id, a Person
has one review delegation. Left out: read-only listings, the repair of an acceptance
without its event (no code leaves one behind: `LogTellsRow`), ids chosen by an assigner.

**`VerificationMarketProofs`** - the theorems of the verification stores.

**`ReceiptBook`** - what readers of Receipts are promised: one Receipt per Bundle, never
changed, backed by decisions of others, built on older Receipts; what is said of it later is said
after it and points to a newer Receipt; credit goes to public Receipts.

**`Receipts`** - closing a Bundle (`Close`, `Gather`, `Judge`, `Insert`, `Announce`: coordinator and
store), settling its credits (`CheckSettle`, `Credit`, begun by `Announce` or `Resettle`), lifecycle
events (`Remark`, `Compare`, `Record`), the registry of issuer keys (`Register`, `Rotate`,
`RotateBatch`, `Revoke`) and the anchor intake (`Intake`). `standing` and `verdict` are the state of
`ReviewLedger`, of which a decision is one step (`Review`). `until[p]` is when a reviewer's
authority ends, `GiveUp` is a process that dies or a request that is refused. Two
replacements that name each other are kept out by `ReceiptBook` (a replacement is newer).
Abstracted: hashes, signatures and canonical payloads; the amounts of a settlement.

**`ReceiptsProofs`** - the theorems of Receipts.

**`ConsentGrant`** - what a consent is worth: one approval, one code, one line of tokens.

**`AgentAccess`** - keys of one Person (`RegisterKey`, `ChallengeKey`, `CheckProof`, `Prove`,
`CheckRevocation`, `RevokeKey`), certificates (`CheckSigner`, `Delegate`, `RevokeCert`), consents
and pairings (`OpenOffer`, `Consent`, `Inspect`, `Choose`, `Install`, `Select`, `Approve`,
`IssueCode`) and tokens (`Redeem`, `CheckGrant`, `IssuePair`, `Rotate`). `Accepts(t)` is what the
gateway asks of a token: installation, certificate and signing key are all in force. The offer a
code or a token comes from is no column; it is kept to say what is carried on.

**`AttemptJournal`** - extends it by Attempts: `AskCreate` to `Progress` are the Agent's
operations at the gateway with the renewal of authority, `AskTransition`, `Transition`, `Cancel`
those of the owner. `journal[a]` is the table of events. The idempotency key of an event is unique
in its Attempt whatever the type (`drizzle/0002_plain_reavers.sql:15`), and the key of a report is
any string its Agent chooses, so `Reports` may contain keys of decisions, Bundles and checkpoints.
What a taken key means depends on who finds it: an event of the owner or of the gateway is ignored
(`Note`), a report is answered as a repetition or a conflict (`Report`), and the batch of a
checkpoint fails as a whole (`Publish` in `AttemptEvidence`).

**`AttemptEvidence`** - extends that by the artifact store and the research graph. `AskPut` puts an
object, `AskAttach` stages a Bundle or publishes a checkpoint; `Place`, `Index`, `Put`, `Insert` are
`putObject()` over its two buckets, `Weigh`, `Look`, `Store`, `Share`, `Announce` `stageBundle()`,
`Check`, `Publish` `publishCheckpoint()`. Hashes, sizes and signatures are taken as verified; contents
and names are model values.

**`AgentAccessProofs`**, **`AttemptProofs`** - their theorems; the second is about this chain of
three modules as a whole, and rests on the invariant of the first.

The modules named `MC...` give the constants values for TLC. Where one component is
checked in several situations, a variable `situation`, chosen in the initial state and never
changed, says which steps are explored. Operators marked
*Mutant* are plausible wrong versions of the definition that follows them; no
specification uses them, they are there to see that a property notices.

## 4. What is checked

| Run | Question | Situations and bounds |
|---|---|---|
| `queue` | inductive invariant of fencing, exclusion, agreement of row and log, refinement of `DeliveryContract` | *precise*: 1 Run, 2 consumers, lease of 3, claims that stall for 1, 3 instants, 3 leases, 2 redrive() calls; *skewed*: clocks off by 1, 5 instants, 2 leases |
| `store` | row, log and result are one account, honest answers, refinement of `RunLifecycle` | 2 callers, clocks off by 1 over 2 instants, 4 results |
| `execution` | evidence, cancellation, acknowledgement, sandboxes, every message settles | *replay*, *other*: one such Run, 2 processes, 2 outputs, 2 deliveries, 1 lapse, 1 redrive; *hosted*: 1 process with 2 sandboxes and 2 Runs, 1 failure or lapse, and the failure of the kill that follows it, at most one late startup |
| `anchoring` | no fork, records bound once, one transaction per batch, confirmed means final, refinement of `AnchorLog`, repair under fairness | *competition*: 2 tickers, 1 operator, 2 batches over 2 records; *witnesses*: 1 ticker, 2 witnesses, 1 batch; 1 failure, crash or overrun |
| `review` | limit, whole claims, log and row, verdict and closure, refinement of `ReviewLedger` | *claims*: 2 requests, 2 reviewers and the author, 2 claim types, a limit of 1; *desk*: 1 work that needs a replay, 2 instants; *closing*: 1 work an early release left half closed |
| `receipts` | what a rejection, a retired key and a retraction stop, refinement of `ReceiptBook`, every public Receipt is queued | *first*: the first Bundle is closed; *second*: one that builds on it; *both*: two Receipts and their histories; 2 requests, 2 keys, 2 events, 2 instants |
| `agents` | one bearer per consent, what is refused stays refused, journal and row, complete and rightly credited evidence, refinement of `ConsentGrant` | *keys*, *connections*, *reports*, *decisions*, *objects*, *bundles*, *graph*: 2 operations, 2 keys and certificates, 2 consents, 3 token pairs, 2 Attempts, 3 contents, 2 Bundles, 4 checkpoints, 3 instants; reports under a key of their own (*reports*) or that of a decision (*decisions*, one report right after the opening; the second Attempt is decided on once), and under the key of a Bundle or checkpoint before it is attached, then one operation at a time |

Why the bounds are enough: two processes are what a race needs, and each property
relates at most two deliveries of a Run and the log between them. A lease of
3 units over 3 to 5 instants lets a lease be claimed, renewed, run out and be
claimed again; every guard of the code compares two instants, so what matters is
their order, and all orders occur. The event bound of the queue is larger than what the other
bounds let happen. Runs meet only in the selection of a candidate, so one of them is
model-checked; the theorems of section 5 hold for any number. In `Anchoring` one
overrun is what makes two ticks overlap, and two batches are what a fork or a
record anchored twice needs; a second failure only repeats the recovery of the
first. In `VerificationMarket` the limit of 8 is scaled to 1, for what counts is the last
free place and who takes it; a market claim and a direct assignment meet only in the limit and in
the unique index, both in *claims*, and what follows an acceptance is the same for both. In
`Receipts` a replacement, a dependency and a rotation each need two of their kind. The situations of
`agents` cut the path from a key to a Bundle where nothing is shared but rows that are read:
each starts from rows the one before leaves, and the revocations that could cut in are among its
steps. In *hosted* both sandboxes are needed for one that comes late next to one that is
created; a Run served before another one for a container that is left behind.

Deadlock is checked for `Anchoring`. The other models really stop: real time ends at `MaxTime`,
or all messages are settled, or all rows there are have been written.

Runs that end in a counterexample, each about a sentence of the repository
(quoted in `PROJECT.json`, "findings"):

| Run | What the code does |
|---|---|
| `execution_replay_retry` | evidence kept by an attempt that failed before recording its result blocks every retry |
| `execution_cancel` | a Run whose cancellation is requested while nobody executes it stays `cancel_requested` |
| `anchoring_stranded` | markSubmitted() inserts a pending submission for a batch that was abandoned after it was read |
| `receipts_history` | two lifecycle events recorded at once, or one dated before another, make a history its readers refuse |
| `agents_last_key` | two normal revocations at once revoke the last two keys |

Behaviours the models have and no property forbids: a claim() that pauses for longer
than the lease between its batch and its last read answers with the lease of another
process (the reason for the assumption of section 5); a redrive() that lost its race
may append its event in a state and at an instant that agree; a cancellation that
stalled appends a second cancellation event when a `cancelled` result carries the same
instant (`StrayCancel` in `RunStore`); a process that stalls between the last renewal and
recordResult() records its result while another delivery is in force, for nothing looks at
the lease again; a job is published in a pool that was locked meanwhile, where nobody
can claim it; a verdict is stored although its delegation was revoked, as of an earlier instant,
after the check; a redrive is decided on a state of the Run that may be over when it
is made; a batch abandoned after its transaction was broadcast and before that was
recorded leaves its root on the chain, and its records are anchored again.

Of the sandboxes: a Run that is cancelled while its workspace is being staged is skipped
(`runner-workspace-stager.mjs:116`, `worker.mjs:184-187`) and nobody ends its container, so that
get() refuses every other Run ("permits only one active Sandbox") until the process restarts.
`HostedRunner!RemovedRunsLeaveNothing` says that this does not happen; under `MCSpec` with
`Situations = {hosted}` and `MaxFaults = 0` TLC finds it violated in a second. With a second
failure that *hosted* leaves out, `OneKnownSandbox` fails: when two startups of a Run fail while
their creations are late, the kill of the first sandbox may be answered when the entry under the
Run's id is that of the second (`trackLateSandbox()` and `retryQuarantinedSandbox()` delete by
that id); the process forgets the second, and a third is created next to it. Section 5 proves that
a kill that finds the entry of another sandbox is the only way. With two processes and a lapsed
lease `LeanForActiveRuns` fails: the one that was overtaken runs Lean for a Run whose result the
other has recorded. TLC finds both under `HostedSpec` (`Runs` with one Run, `MaxLapses = 0` and
`MaxFaults = 2`, or `MaxLapses = 1` and `MaxFaults = 0` with two processes). A failed forwarding
of a cancellation fails the execution only once it ended.

`OneKnownSandbox` is about the sandboxes the provider told of. One creation that is cut off by its own
timeout or signal is enough for another one to be live: its entry is forgotten, the next
delivery creates a sandbox beside it, and only the provider's lifetime ends the first. Nothing runs in it.
The comment that the startup "cannot leave an orphan" (`e2b-sandbox-container.mjs:151-156`) holds for
a sandbox that was created when either side fails, and says too much for a request whose answer is lost. With
`orphans` counted beside `live`, TLC finds two sandboxes after one failure (`MCSpec`,
`Situations = {hosted}`, `MaxFaults = 1`).

Of agents and evidence: a report, a staging or a checkpoint is accepted although the Attempt
was closed after its status was read, and a checkpoint renews the authority even of a closed
Attempt; the event of a report and the percentage of its Attempt are two writes; a crash
between the INSERT of an Attempt and its first event leaves it without one until the request is
repeated; a revocation of a delegation dated in the future takes effect for tokens at once; the
instant a checkpoint states is not compared with the certificate's window; a Bundle whose signed
instant lies before the renewed certificate begins cannot be completed under it; a content that was
first indexed under one name cannot be put under another (`db/schema.ts` still declares
the unique hash that migration 0041 dropped). consumeRefreshToken() has no caller.

A report whose key is that of a decision to come (`attempt-lifecycle:<id>:<version>`,
`attempt-cancelled:<id>`) makes the INSERT OR IGNORE of that decision do nothing
(`db/repositories/mcp.ts:450-472`, `535-560`): status and version change and the journal does not say
so. `JournalTellsRow` is therefore stated with that exception, each version has its decision or the report
that took its key; without the exception TLC finds it violated in *decisions*, by a report under
the key of the cancellation that follows it. In the same way a report under
`bundle-staged:<hash>` replaces the event of that Bundle, and one under
`research-checkpoint:<event>` makes the publication of that checkpoint fail, each time it is tried.

Fairness (`RunnerExecution!FairSpec`): a process goes on with its delivery
(`Advance`, weak), because each await is followed by code that runs when it
returns, and every call has a timeout; a ready message, or one whose holder is gone, is
claimed by some process (`Redeliver`, weak), because run() polls for ever and the
lease of a dead process runs out. Nothing is assumed about requests, crashes or
failures: those may happen or not. The liveness counterexample is found under the same fairness.
In *hosted* the steps of the process (`HostAdvance`), its claims, and the answers of the provider and
of Lean (`Answers`, each bounded by a timeout of the code) are weakly fair.

`Anchoring!FairSpec`: a tick goes on (`TickStep`, weak, as above), ticks are begun again and
again (`StartTick`, weak: a schedule calls `scripts/anchor-tick.mjs` or the hosted tick),
and the lease of a dead tick runs out (`Expire`, weak). Nothing is assumed of witnesses, the
operator or the chain; failures are bounded by `MaxTroubles`, for a tick that fails every time
repairs nothing. An expired transaction may still stop every tick before its poll: that is
the `Blocked` in `Reconciled`.

`Receipts!Spec`: the anchor intake runs again and again (`Intake`, weak: it is part of the hosted
tick). Nothing is assumed of the operations, so a Receipt is queued although the process that
issued it died.

## 5. What is proved

The theorems are checked by TLAPS for all values of the constants that satisfy the ASSUME of
their module: any number of Runs, processes, callers and rows, and bounds of any size. The
assumptions say what the constants are (numbers, functions between the right sets, values
different from each other); those that say more are named below.

`RunnerLeaseQueueProofs`:

- `TypeCorrect`: `Spec => [](TypeOK /\ RunsKnown)`.
- `Fencing`: if `MaxStall + 2 * MaxSkew < LeaseDuration` (`PromptClaims`) then
  `Spec => []FencingInv`: no two processes hold one lease identifier, no lease outlives its
  bound, and a lease with more than the skew left is the one in the row.
- `Exclusion`: under the same assumption `Spec => []LeaseExclusive`.
- `History`: `Spec => []LogTellsRow`, whatever the clocks do: the log agrees with the row and is
  legal by itself.
- `QueueKeepsContract`: `Spec => ImplementsContract`, the queue refines `DeliveryContract`, also
  whatever the clocks do.

The argument. Exclusion alone is not inductive: between its batch and its answer a
claim() call holds no lease yet, although one is waiting for it in the row. The
invariant `FencingInv` adds that a call is young and its clock close (`ClaimTimely`),
that identifiers are created in order and are never on two rows (`LeaseIdsFresh`),
that a holder's identifier can only be found on its own row (`WorkingOnRun`), and
that the row of a call about to be answered still carries the lease the
call created, with a full duration from its clock, known to nobody else (`AnswerPending`).
That last part is where the assumption is used: a reclaim compares its clock,
at most `MaxSkew` ahead, with an expiry of at least `started - MaxSkew + LeaseDuration`,
while the call has been running for at most `MaxStall`. Without the assumption the
property fails: a claim() that pauses longer than the lease is answered from a row
that was claimed again. The proof has one lemma per
action, and `queue` checks `FencingInv` on a small instance. `History` is independent of it: each
batch writes the row and the event from the same values. So is the refinement: a batch writes
one row (`SeenWrites`), and all it needs to know is that the lease on a row was handed out
(`TokensKnown`), for then whoever settles with it settles with a token of the contract.

`AnchoringProofs`, for all values of the constants that satisfy `AnchoringAssumption`
(tickers and witnesses are different callers, the witnesses are finitely many, NULL
is no transaction; bounds are numbers, of any size):

- `TypeCorrect`: `Spec => []TypeOK`.
- `SingleTransaction`: `Spec => []OneTransaction`, at most one platform transaction of
  a batch is ever sent, the one in the outbox.
- `Finality`: `Spec => []FinalOnly`, a batch is confirmed only by its own
  transaction, final on the chain, and no witness is counted before its own is.
- `OneLog`: `Spec => []LogIsLinear`, the log of batches never forks.
- `LeavesAreBound`: `Spec => []LeavesBound`, a record is bound to the one live batch
  it is a leaf of.
- `AnchoringImplementsLog`: `Spec => ImplementsLog`, the confirmed batches are the log of
  `AnchorLog`.

The argument has two layers. `TxInv` says what a caller holds in its hands (`TxOK`): the
transaction it is about to sign, send or mark is the one in the outbox, the
verdict it is about to record is true of the chain, and a batch it is about to
confirm has a confirmed submission. All of it was read some steps ago; it stays true
because of `Grows`: an outbox row is written once, a final transaction stays final,
a confirmed submission stays confirmed. `OutboxWrites`, `ChainWrites`, `SubWrites` and
`StatusWrites` say all that a step can do to each table, and `TxStep` puts them
together. Losing the lease plays no part: `SingleTransaction` does not use it, so
two ticks that overlap are as safe as one. `LogInv` adds that batches are numbered
in the order of their creation (`Contiguous`) and rests on `TxInv` in one place: a batch
with a confirmed submission cannot be abandoned, so what an accepted abandonment takes off
the log is its unfinished tip (`AbandonFacts`). The other steps leave the log alone
(`SettledKeepsLog`) or append a new batch to a confirmed head (`CreateKeepsLog`).

The refinement needs more of the chain than its linearity. `PublicInv` adds that of the live
batches only the last waits to be confirmed (`Behind`) and that no batch is empty (`Filled`, back to the
step `List` that chose its leaves). A step then confirms one batch at most and takes no confirmation
back (`ConfirmedSteps`); the one it confirms comes after all the others and shares no record with
them (`NextInLog`, from `LeavesBound`), so its leaves are appended (`LogGrows`). The place of a batch in the
log is the number of confirmed batches up to it: a definition without recursion, about which the
provers reason by counting.

`VerificationMarketProofs`, for all values of the constants that satisfy the assumption of the
module (any number of Bundles, Persons, requests, any limit):

- `TypeCorrect`: `Spec => []TypeOK`.
- `OpenReviews`: `Spec => []OpenReviewsBounded`, nobody has more open reviews than the limit.
- `WholeClaims`: `Spec => []ClaimsWhole`, a claim is whole or absent.
- `OneStory`: `Spec => []LogTellsRow`, the events of an assignment tell its row.
- `VerdictsClose`: `Spec => []VerdictCloses`, a verdict ends its review and rests on a timely replay.
- `KeepsPromise`: `Spec => ImplementsLedger`, the stores refine `ReviewLedger`.

The inductive invariant is `IInv`: types, real time within its bound, `Rows` (what a row, its
events and its verdict say about each other), `Calls` (what a request that has read
something may still rely on when it writes), `Capacities` and `Jobs`. `Calls` is why it is
needed: the properties are about tables alone, but a batch is safe only because of what the request
read before and what its guards read again. The lemma `DeskStep` sums up what any step does to the
reviews: it opens one, decides one, closes one, or leaves all alone; the limit, the logs and
the refinement follow from it.

`RunStoreProofs` (results have a status that ends a Run, instants that are numbers, and an output):

- `StoreTypeCorrect`: `Spec => []TypeOK`.
- `TablesAlwaysAgree`: `Spec => []TablesAgree`, row, log and result are one account.
- `AnswersAlwaysHonest`: `Spec => []AnswersHonest`, who got the Run back finds its transition in it.
- `StoreImplementsLifecycle`: `Spec => ImplementsLifecycle`.

A batch is decided on a row read several statements before, so the invariant `StoreInv` has
to say what is left of that reading when the batch is committed. `RowShape` says which instants
a row of each state has and that the last of them is `updatedAt`; `Marks` and `EventsPast` which
events there are for such a row, none of them later; `CallShape` that the row is the one a call read
or has moved on for good (`Follows`, with `Rank`). From these `CommitMakesOrStrays`: a batch is accepted
either because the row is still the one its call read, and then it makes one transition of
`RunLifecycle`; or because the Run is over and the row happens to look like the one the call
wanted, and then it is the stray cancellation event of section 4. Everything else is a stutter.

`RunnerExecutionProofs` (`ProductAssumption`: NULL is no result):

- `ExecutionTypeCorrect`: `Spec => []TypeOK`.
- `EvidenceAlwaysBacksResult`: `Spec => []EvidenceBacksResult`.
- `CancelledBeforeStartNeverRuns`: `Spec => []NothingRunsAfterCancel`, a Run cancelled before its start
  is never executed. A Run in `cancel_requested` had begun, and one more execution of it may begin.
- `AcknowledgedAreOverOrStopping`: `Spec => []AcknowledgedIsOver`, a message is acknowledged when its
  Run is over or in `cancel_requested`; the second is what `execution_cancel` is about.
- `ExecutionKeepsContract`, `ExecutionKeepsLifecycle`: `Spec => Delivery!Spec` and
  `Spec => Life!Spec`, the processes use queue and store as these allow.

The invariant `ExecutionInv` adds what a process may rely on in each phase (`Fits`, `Grounded`),
although deliveries overlap: once begun a Run stays begun, what is stored and kept as evidence is
never changed, and a Run that is over stays over. None of it mentions the lease, so a process that has
lost its lease is as safe as one that has it. With `QueueKeepsContract` and `StoreImplementsLifecycle`
the parts this module is composed of are the stores as they are coded.

The same module, about `HostedRunner` (`HostAssumption`: the host is a process, `None` and `Coming`
are no sandboxes):

- `HostedKeepsExecution`: `HostedSpec => Spec`. A process with all that happens in its sandboxes is
  one of `RunnerExecution`, so that the six theorems above hold of it.
- `HostedTypeCorrect`: `HostedSpec => []WellTyped`.
- `OneKnownSandboxIfKillsMatch`: `HostedSpec /\ [][KillsTheirOwn]_hostedVars => []OneKnownSandbox`.
- `OneKnownSandboxUpToOneFailure`: `MaxFaults <= 1 => (HostedSpec => []OneKnownSandbox)`.
- `LeanOnlyForActiveRuns`: `HostedSpec /\ [][KillsTheirOwn]_hostedVars /\
  [][RecordsElsewhere]_hostedVars => []LeanForActiveRuns`.
- `LeanForActiveRunsAlone`: `Workers = {Host} /\ MaxFaults <= 1 => (HostedSpec =>
  []LeanForActiveRuns)`.

Neither invariant holds of the code without a hypothesis; the theorems say which. `KillsTheirOwn`:
when a kill is answered, the entry in quarantine under the id of its Run is of the sandbox that
was killed, or there is none. The factory deletes by that id without looking (section 4), so this
is a fact about the order in which the provider answers, and the only one the argument uses:
creations may be late in any number, kills fail, have effect or not, sandboxes expire, Runs be
cancelled and redelivered. It may not hold after two failed startups of one Run; up to one failure
it always does (`LateInv`). `RecordsElsewhere`: no other process records the result of a Run that
this one still serves or has a sandbox for. A process that lost its lease learns of it only at its
next call on the queue, so it may go on running Lean for a Run somebody else has finished: a waste
of work that does no harm to the recorded result (`EvidenceBacksResult` needs no hypothesis). A
process that has the queue to itself fulfils it.

`HostInv` says what the maps, the sandbox in hand and the phase of the delivery are while the
process awaits each `step` (`ContainerFits`), that active container and quarantine are about one
Run at most (`OneRun`), and which awaited kill is about what (`KillFits`). `SandboxInv` adds that
every sandbox the provider told of is known (`orphans` are not, by their nature) and that an
unanswered creation has its entry; `KnownOne` that only one sandbox can be known. `LeanInv` adds
that a Run that is restaged or executed is active and that a sandbox that is not open yet is
fresh. Each has one lemma per group of steps, and `HostedSteps` sorts the steps by what the rest
of the system sees of them.

`AgentAccessProofs`:

- `AccessTypeCorrect`: `AccessSpec => []AccessTypeOK`.
- `ConsentHasOneBearer`: `AccessSpec => []OneBearer`.
- `AccessImplementsGrant`: `AccessSpec => ImplementsGrant`, each offer follows `ConsentGrant`.
- `RefusalIsFinal`: `AccessSpec => RefusedForGood`, a token refused once is refused for ever.

`AccessInv` is `Ground` (what an operation holds refers to rows that exist) and for each offer
`Single`: nobody bears its authority, or the offer is used and exactly one operation, open code or open pair
does. `OneBearer` alone is not inductive, for a used offer with no bearer must not get a second
one. Every step has one of a few effects on an offer (nothing, a bearer appears, is replaced, or is lost),
and `EffectIsGrantStep` turns each into a step of `ConsentGrant`.

`AttemptProofs`, about `AttemptJournal` and about `AttemptEvidence`, which contains it:

- `JournalAlwaysTells`: `JournalSpec => []JournalTellsRow`, and `JournalTellsUnderEvidence` says the
  same of the whole: `Spec => []JournalTellsRow`.
- `EvidenceTypeCorrect`: `Spec => []TypeOK`.
- `EvidenceAlwaysStands`: `Spec => []EvidenceStands`, evidence is complete, credited as it was staged,
  and grounded.
- `EvidenceKeepsAccess`: `Spec => AccessSpec`, so that the theorems of `AgentAccessProofs` hold of the
  gateway as a whole.

`JournalInv` is the property itself (`Tells`, for each Attempt) with the types and `WorkFits`,
what an operation under way relies on. A step does one of three things to a journal: it appends an
event that is no decision, it appends the decision of the version it makes (`AppendDecision`), or
it makes a version whose key a report has taken (`DroppedDecision`); keys never leave a journal
(`KeysStay`). `EvidenceInv` adds `UploadFits`, what an operation has read or written before its
present step (the object is in its bucket, the parts are there, the entry of credit is the
Bundle's), which holds on because objects, Bundles and checkpoints are only ever added.

`ReceiptsProofs` (a Bundle has claims, and two reviews of one claim have different ids):

- `ReceiptsTypeCorrect`: `Spec => []TypeOK`.
- `BlockAlwaysHolds`: `Spec => BlockHolds`, what a rejection or a lost authority stops.
- `RetiredKeysStaySilent`: `Spec => RetiredKeysSilent`.
- `EndAlwaysHolds`: `Spec => EndedHolds`, what a supersession or a retraction ends.
- `ReceiptsImplementBook`: `Spec => ImplementsBook`, the refinement of `ReceiptBook`.

The three action properties exempt the operations that had passed their check before. So the
invariant `ReceiptsInv` says for every operation under way what its checks established
(`CallFits`), and `FitsKept` that it stays true until it writes, because positive decisions, Receipts and
events are only ever added. `Ranked` says that any decisions have a latest one, without which the
instant of a Receipt would be undefined when they are infinitely many.

Only model-checked: the liveness properties (`MessagesSettle`, `ReconciledFairly`, `ReceiptsQueued`),
which are beyond TLAPS; and of course the counterexamples. `OneKnownSandbox` and `LeanForActiveRuns` are
proved under the hypotheses above; the run `execution` checks them without, up to the failures
of *hosted*. Where a theorem's invariant has parts that are
no property of a run, TLC checked them on the instance of the run before they were proved.

## 6. What is not modelled

The parts without a module, each with its reason in the notes under "components" in
`PROJECT.json`: the Web UI and its dictionaries, the connector plugin and the build, drill and
release scripts (clients and operator tooling: they keep no state of the system),
`db/schema.ts` (declarations, which the models take from the migrations), the problem catalog
(read paths and single inserts), the database adapter, the pure protocol functions. These are
most of the repository's lines, so that the map covers a small share of all lines
although it covers about a third of the sources of the parts that are modelled.

Within the modelled parts: the checks of hashes and signatures (a message that fails them is
`Trouble` or a call given up), error codes and audit records, listings, the repair of legacy rows in
the Run store, the shutdown of a Runner process, sandbox providers other than E2B, the
reconstruction of the workspace and the limits of the Lean subprocess, account sessions, OAuth scopes
and PKCE, read-only mode. The rate limiter is a single statement, and the quota of active Attempts
a condition of the statement that inserts one, so that no interleaving can be seen in the first,
and the second is part of `Create`.

Three hazards have no property. A container left behind by a skipped Run is described in section 4.
The revocation of a Runner key between the check of a result and its batch
(`d1-run-store.mjs:280`), and the failed publication of verification work after a durable result
(`runner-execution-finalizer.mjs:70`), are not modelled: neither the code nor the documents
say what should hold then.
