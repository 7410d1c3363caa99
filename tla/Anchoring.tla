------------------------------ MODULE Anchoring ------------------------------
(***************************************************************************)
(* Anchoring of public records on a chain (services/anchoring).  Tickers   *)
(* run runAnchorTick under a lease; witnesses call submitWitness; an       *)
(* operator calls abandonBatch.  They share the database of                *)
(* D1AnchorStore, and the chain.  An action is one round trip to either,   *)
(* so that everything another process does in between can happen.          *)
(*                                                                         *)
(* Abstracted: a root is the set of its leaves; a transaction is named by  *)
(* the batch it carries and by who signed it; confirmations are either     *)
(* below or above the threshold; time is left to chance (a tick is due or  *)
(* not, a lease runs out at some moment).                                  *)
(***************************************************************************)
EXTENDS Integers, Sequences, FiniteSets, SequencesExt

CONSTANTS Records,      \* public records
          Tickers,      \* processes that run ticks
          Witnesses,    \* who submits witness transactions
          Operators,    \* who may abandon a batch
          MaxBatches,   \* bound on the batches ever built
          MaxLeaves,    \* anchorBatchMaxLeaves
          MaxTroubles,  \* bound on failing calls, crashes and overlong ticks
          Nobody        \* no ticker, no transaction

Batches == 1..MaxBatches
NoBatch == 0            \* NULL
Unknown == -1           \* the record is not enqueued yet
Callers == Tickers \cup Witnesses
Txs == Batches \X Callers

ASSUME AnchoringAssumption ==
  /\ MaxBatches \in Nat /\ MaxLeaves \in Nat \ {0} /\ MaxTroubles \in Nat
  /\ Tickers \cap Witnesses = {} /\ IsFiniteSet(Witnesses)
  /\ Nobody \notin Callers \cup Txs

VARIABLES
  rec,       \* anchor_records: Unknown, NoBatch, or the batch the record is bound to
  batch,     \* anchor_batches
  head,      \* anchor_log_head: the batch at each version from 1 on
  outbox,    \* anchor_submission_outbox: the signed transaction of a batch
  sub,       \* anchor_submissions: status of the submission of a transaction
  lease,     \* anchor_tick_leases: the owner of an unexpired lease
  chain,     \* the chain: what became of a transaction
  call,      \* local variables of ticks and of witness requests
  abandon,   \* local variables of abandonBatch calls
  troubles   \* how much has gone wrong so far

store == <<rec, batch, head, outbox, sub>>
vars == <<rec, batch, head, outbox, sub, lease, chain, call, abandon, troubles>>

NewBatch == [status |-> "none", prev |-> NoBatch, leaves |-> {}, witnesses |-> 0]
Idle == [at |-> "idle", batch |-> NoBatch, leaves |-> {}, seen |-> 0,
         tx |-> Nobody, verdict |-> "none", todo |-> {}, next |-> "idle"]
NoAbandon == [batch |-> NoBatch, version |-> 0]

-----------------------------------------------------------------------------
Tip == IF head = <<>> THEN NoBatch ELSE Last(head)
Live(b) == batch[b].status \in {"built", "submitted", "confirmed"}
Unfinished(b) == batch[b].status \in {"built", "submitted"}
PendingRecords == {r \in Records : rec[r] = NoBatch}
Bound(b) == {r \in Records : rec[r] = b}
IsConfirmed(b) == b # NoBatch => batch[b].status = "confirmed"

BatchOf(t) == t[1]
IsPlatform(t) == t[2] \in Tickers
SubmissionsOf(b) == {t \in Txs : BatchOf(t) = b /\ sub[t] # "none"}
\* Mutant: every witness that ever asked is counted.
ConfirmedWitnessesAll(b) == {w \in Witnesses : sub[<<b, w>>] # "none"}

ConfirmedWitnesses(b) ==
  {w \in Witnesses : sub[<<b, w>>] = "confirmed"}
StaleCount(b) == batch[b].witnesses # Cardinality(ConfirmedWitnesses(b))

\* Mutant: only pending submissions are polled.
ToReconcilePending == {t \in Txs : Live(BatchOf(t)) /\ sub[t] = "pending"}

\* listSubmissionsForReconciliation
ToReconcile ==
  {t \in Txs :
     /\ Live(BatchOf(t))
     /\ \/ sub[t] = "pending"
        \/ /\ sub[t] = "confirmed" /\ IsPlatform(t)
           /\ batch[BatchOf(t)].status = "submitted"
        \/ /\ sub[t] = "confirmed" /\ ~IsPlatform(t)
           /\ StaleCount(BatchOf(t))}

Init ==
  /\ rec = [r \in Records |-> Unknown]
  /\ batch = [b \in Batches |-> NewBatch]
  /\ head = <<>>
  /\ outbox = [b \in Batches |-> Nobody]
  /\ sub = [t \in Txs |-> "none"]
  /\ lease = Nobody
  /\ chain = [t \in Txs |-> "absent"]
  /\ call = [c \in Callers |-> Idle]
  /\ abandon = [o \in Operators |-> NoAbandon]
  /\ troubles = 0

-----------------------------------------------------------------------------
(* The steps of a caller that change only its local variables.             *)
At(c, phase) == call[c].at = phase
Goto(c, phase) == call' = [call EXCEPT ![c].at = phase]
OnlyCall == UNCHANGED <<rec, batch, head, outbox, sub, lease, chain, abandon, troubles>>

\* Releases the lease if it is still its own, as the `finally` of the lease does.
Release(c) == lease' = IF lease = c THEN Nobody ELSE lease

\* A tick that throws, loses a conflict or is finished; a request that is over.
End(c) ==
  /\ call' = [call EXCEPT ![c] = Idle]
  /\ Release(c)

\* The end of the work on one submission: a poll goes on to the next one
\* whatever happened, a request is answered.
Done(c) ==
  call' = [call EXCEPT ![c] = IF c \in Tickers
                              THEN [Idle EXCEPT !.at = "each", !.todo = call[c].todo]
                              ELSE Idle]

-----------------------------------------------------------------------------
(* withAnchorTickLease and the intake of public records.                   *)
StartTick(p) ==
  /\ At(p, "idle") /\ lease = Nobody
  /\ lease' = p
  /\ Goto(p, "intake")
  /\ UNCHANGED <<rec, batch, head, outbox, sub, chain, abandon, troubles>>

Intake(p, r) ==
  /\ At(p, "intake") /\ rec[r] = Unknown
  /\ rec' = [rec EXCEPT ![r] = NoBatch]
  /\ UNCHANGED <<batch, head, outbox, sub, lease, chain, call, abandon, troubles>>

IntakeEnds(p) == At(p, "intake") /\ Goto(p, "resume") /\ OnlyCall

-----------------------------------------------------------------------------
(* resumeUnfinishedBatches, and submitBuiltBatch for one batch.            *)
Resume(p) ==
  /\ At(p, "resume")
  /\ \E b \in Batches :
       /\ batch[b].status = "built"
       /\ call' = [call EXCEPT ![p] = [Idle EXCEPT !.at = "rebuild", !.batch = b,
                                                   !.next = "resume"]]
  /\ OnlyCall

NothingToResume(p) ==
  /\ At(p, "resume")
  /\ \A b \in Batches : batch[b].status # "built"
  /\ Goto(p, "build")
  /\ OnlyCall

\* rebuildManifest; with other leaves its hash differs and the tick throws.
Rebuild(p) ==
  /\ At(p, "rebuild")
  /\ LET b == call[p].batch IN
     IF Bound(b) = batch[b].leaves
     THEN Goto(p, "load") /\ UNCHANGED lease
     ELSE End(p)
  /\ UNCHANGED <<rec, batch, head, outbox, sub, chain, abandon, troubles>>

Load(p) ==
  /\ At(p, "load")
  /\ LET b == call[p].batch IN
     call' = [call EXCEPT ![p].at = IF outbox[b] = Nobody THEN "check" ELSE "renew",
                          ![p].tx = IF outbox[b] = Nobody THEN <<b, p>> ELSE outbox[b]]
  /\ OnlyCall

\* savePreparedSubmission: the look at the batch, then the insert.
SaveCheck(p) ==
  /\ At(p, "check")
  /\ IF batch[call[p].batch].status = "built"
     THEN Goto(p, "save") /\ UNCHANGED lease
     ELSE End(p)
  /\ UNCHANGED <<rec, batch, head, outbox, sub, chain, abandon, troubles>>

\* Mutant: a later writer replaces the transaction in the outbox.
WinnerIsLast(p) == call[p].tx

\* The winner of the insert is the transaction everybody broadcasts.
Winner(p) ==
  LET b == call[p].batch IN IF outbox[b] = Nobody THEN call[p].tx ELSE outbox[b]

Save(p) ==
  /\ At(p, "save")
  /\ outbox' = [outbox EXCEPT ![call[p].batch] = Winner(p)]
  /\ call' = [call EXCEPT ![p].at = "renew", ![p].tx = Winner(p)]
  /\ UNCHANGED <<rec, batch, head, sub, lease, chain, abandon, troubles>>

Renew(p) ==
  /\ At(p, "renew")
  /\ IF lease = p THEN Goto(p, "broadcast") /\ UNCHANGED lease ELSE End(p)
  /\ UNCHANGED <<rec, batch, head, outbox, sub, chain, abandon, troubles>>

\* broadcastPreparedRoot: a transaction the chain knows is not sent again.
Sent(t) == chain' = [chain EXCEPT ![t] = IF @ = "absent" THEN "sent" ELSE @]

Broadcast(p) ==
  /\ At(p, "broadcast") /\ chain[call[p].tx] # "expired"
  /\ Sent(call[p].tx)
  /\ Goto(p, "marking")
  /\ UNCHANGED <<rec, batch, head, outbox, sub, lease, abandon, troubles>>

BroadcastExpired(p) ==
  /\ At(p, "broadcast") /\ chain[call[p].tx] = "expired"
  /\ End(p)
  /\ UNCHANGED <<rec, batch, head, outbox, sub, chain, abandon, troubles>>

\* markSubmitted: the look at the batch, then the transaction.
MarkCheck(p) ==
  /\ At(p, "marking")
  /\ IF batch[call[p].batch].status = "built"
     THEN Goto(p, "mark") /\ UNCHANGED lease
     ELSE End(p)
  /\ UNCHANGED <<rec, batch, head, outbox, sub, chain, abandon, troubles>>

\* The transaction reference and the event of the batch are unique.
MarkAccepted(t) ==
  /\ sub[t] = "none"
  /\ \A u \in SubmissionsOf(BatchOf(t)) : ~IsPlatform(u)

\* An UPDATE that finds the batch no longer built does not undo the INSERT of
\* the submission; the call throws after its commit.
MarkSubmitted(p) ==
  /\ At(p, "mark")
  /\ LET b == call[p].batch
         t == call[p].tx
         built == batch[b].status = "built"
     IN IF MarkAccepted(t)
        THEN /\ sub' = [sub EXCEPT ![t] = "pending"]
             /\ batch' = IF built THEN [batch EXCEPT ![b].status = "submitted"] ELSE batch
             /\ IF built
                THEN /\ call' = [call EXCEPT ![p] = [Idle EXCEPT !.at = call[p].next]]
                     /\ UNCHANGED lease
                ELSE End(p)
        ELSE End(p) /\ UNCHANGED <<sub, batch>>
  /\ UNCHANGED <<rec, head, outbox, chain, abandon, troubles>>

-----------------------------------------------------------------------------
(* maybeBuildAndSubmit.                                                    *)
\* Nothing pending, not due, or the predecessor is not confirmed.
NoBuild(p) == At(p, "build") /\ Goto(p, "poll") /\ OnlyCall

Build(p) ==
  /\ At(p, "build")
  /\ PendingRecords # {} /\ IsConfirmed(Tip)
  /\ \E b \in Batches : batch[b].status = "none"
  /\ call' = [call EXCEPT ![p].at = "list", ![p].batch = Tip, ![p].seen = Len(head)]
  /\ OnlyCall

\* buildNextBatch takes the first MaxLeaves pending records, or all of them.
List(p) ==
  /\ At(p, "list")
  /\ IF PendingRecords = {} THEN Goto(p, "poll")
     ELSE \E leaves \in SUBSET PendingRecords :
            /\ leaves = PendingRecords \/ Cardinality(leaves) = MaxLeaves
            /\ Cardinality(leaves) \in 1..MaxLeaves
            /\ call' = [call EXCEPT ![p].at = "create", ![p].leaves = leaves]
  /\ OnlyCall

\* Mutant: the head is not compared with what was seen.
CreateAcceptedStale(p) ==
  /\ call[p].leaves \subseteq PendingRecords
  /\ \A b \in Batches : Live(b) => batch[b].leaves # call[p].leaves

\* What lets the batch of createBatch commit: every leaf still pending, the
\* head as it was seen, a confirmed predecessor, a root no live batch has.
CreateAccepted(p) ==
  /\ call[p].leaves \subseteq PendingRecords
  /\ Len(head) = call[p].seen /\ Tip = call[p].batch
  /\ IsConfirmed(call[p].batch)
  /\ \A b \in Batches : Live(b) => batch[b].leaves # call[p].leaves

Create(p) ==
  /\ At(p, "create")
  /\ CreateAccepted(p)
  /\ \E b \in Batches :
       /\ batch[b].status = "none" /\ \A a \in 1..(b - 1) : batch[a].status # "none"
       /\ batch' = [batch EXCEPT ![b] = [NewBatch EXCEPT !.status = "built",
                                           !.prev = call[p].batch, !.leaves = call[p].leaves]]
       /\ rec' = [r \in Records |-> IF r \in call[p].leaves THEN b ELSE rec[r]]
       /\ head' = Append(head, b)
       /\ call' = [call EXCEPT ![p] = [Idle EXCEPT !.at = "load", !.batch = b, !.next = "poll"]]
  /\ UNCHANGED <<outbox, sub, lease, chain, abandon, troubles>>

CreateConflict(p) ==
  /\ At(p, "create") /\ ~CreateAccepted(p)
  /\ End(p)
  /\ UNCHANGED <<rec, batch, head, outbox, sub, chain, abandon, troubles>>

-----------------------------------------------------------------------------
(* pollConfirmations.  The list is a snapshot: a row keeps the status it   *)
(* had when it was read.                                                   *)
Poll(p) ==
  /\ At(p, "poll")
  /\ call' = [call EXCEPT ![p].at = "each",
                          ![p].todo = {[tx |-> t, status |-> sub[t]] : t \in ToReconcile}]
  /\ OnlyCall

\* The next submission of the list; one that was confirmed already only needs
\* its projection repaired.
Each(p) ==
  /\ At(p, "each")
  /\ \E s \in call[p].todo :
       LET phase == IF s.status = "pending" THEN "ask"
                    ELSE IF IsPlatform(s.tx) THEN "confirming" ELSE "count"
       IN call' = [call EXCEPT ![p].at = phase, ![p].tx = s.tx,
                               ![p].batch = BatchOf(s.tx), ![p].todo = @ \ {s}]
  /\ OnlyCall

EndTick(p) ==
  /\ At(p, "each") /\ call[p].todo = {}
  /\ End(p)
  /\ UNCHANGED <<rec, batch, head, outbox, sub, chain, abandon, troubles>>

(* The steps shared with submitWitness.                                    *)
\* Mutant: the status of the chain is recorded as it is.
AskVerbatim(c) ==
  /\ At(c, "ask")
  /\ call' = [call EXCEPT ![c].at = "settle", ![c].verdict = chain[call[c].tx]]
  /\ OnlyCall

\* Mutant: a transaction is taken for final as soon as it is in a block.
AskEarly(c) ==
  /\ At(c, "ask")
  /\ call' = [call EXCEPT ![c].at = "settle",
                ![c].verdict = IF chain[call[c].tx] = "reverted" THEN "failed" ELSE "confirmed"]
  /\ OnlyCall

\* getConfirmation: above the threshold, failed, or not yet.
Ask(c) ==
  /\ At(c, "ask")
  /\ LET state == chain[call[c].tx] IN
     IF state \in {"mined", "reverted"}
     THEN call' = [call EXCEPT ![c].at = "settle",
                     ![c].verdict = IF state = "mined" THEN "confirmed" ELSE "failed"]
     ELSE Done(c)
  /\ OnlyCall

Settleable(t) == sub[t] = "pending" /\ Live(BatchOf(t))

\* updateSubmissionStatus.  Its looks at the rows before the transaction test what
\* the transaction tests again, and fail the same way.
Settle(c) ==
  /\ At(c, "settle")
  /\ IF Settleable(call[c].tx)
     THEN /\ sub' = [sub EXCEPT ![call[c].tx] = call[c].verdict]
          /\ IF call[c].verdict = "failed" THEN Done(c)
             ELSE Goto(c, IF c \in Tickers /\ IsPlatform(call[c].tx)
                          THEN "confirming" ELSE "count")
     ELSE Done(c) /\ UNCHANGED sub
  /\ UNCHANGED <<rec, batch, head, outbox, lease, chain, abandon, troubles>>

\* markBatchConfirmed: the look at the batch and its submissions, then the transaction.
ConfirmCheck(p) ==
  /\ At(p, "confirming")
  /\ LET b == call[p].batch IN
     IF /\ batch[b].status = "submitted"
        /\ \E t \in SubmissionsOf(b) : IsPlatform(t) /\ sub[t] = "confirmed"
     THEN Goto(p, "confirm")
     ELSE Done(p)
  /\ OnlyCall

Confirm(p) ==
  /\ At(p, "confirm")
  /\ batch' = IF batch[call[p].batch].status = "submitted"
              THEN [batch EXCEPT ![call[p].batch].status = "confirmed"]
              ELSE batch
  /\ Done(p)
  /\ UNCHANGED <<rec, head, outbox, sub, lease, chain, abandon, troubles>>

\* syncWitnessCount: the count, then the write of what was counted.
Count(c) ==
  /\ At(c, "count")
  /\ call' = [call EXCEPT ![c].at = "sync",
                          ![c].seen = Cardinality(ConfirmedWitnesses(call[c].batch))]
  /\ OnlyCall

Sync(c) ==
  /\ At(c, "sync")
  /\ batch' = [batch EXCEPT ![call[c].batch].witnesses = call[c].seen]
  /\ Done(c)
  /\ UNCHANGED <<rec, head, outbox, sub, lease, chain, abandon, troubles>>

-----------------------------------------------------------------------------
(* submitWitness: the gates, then the insert, then the shared steps.  A    *)
(* witness has sent a transaction of its own with the payload of the batch *)
(* when it asks for the first time; it may ask again.                      *)
WitnessGates(w, b) ==
  /\ At(w, "idle") /\ Live(b)
  /\ Sent(<<b, w>>)
  /\ call' = [call EXCEPT ![w] = [Idle EXCEPT !.at = "record", !.batch = b, !.tx = <<b, w>>]]
  /\ UNCHANGED <<rec, batch, head, outbox, sub, lease, abandon, troubles>>

\* recordSubmission: a repeated request finds its row and is answered.
Record(w) ==
  /\ At(w, "record")
  /\ IF sub[call[w].tx] = "none"
     THEN sub' = [sub EXCEPT ![call[w].tx] = "pending"] /\ Goto(w, "ask")
     ELSE Done(w) /\ UNCHANGED sub
  /\ UNCHANGED <<rec, batch, head, outbox, lease, chain, abandon, troubles>>

-----------------------------------------------------------------------------
(* abandonBatch: the looks at the batch, its submissions and the head,     *)
(* then the transaction.                                                   *)
Abandonable(b) ==
  /\ Unfinished(b)
  /\ \A t \in SubmissionsOf(b) : sub[t] = "failed"

AbandonCheck(o, b) ==
  /\ abandon[o] = NoAbandon /\ Abandonable(b)
  /\ abandon' = [abandon EXCEPT ![o] = [batch |-> b, version |-> Len(head)]]
  /\ UNCHANGED <<rec, batch, head, outbox, sub, lease, chain, call, troubles>>

\* Mutant: only submissions in flight stop the abandonment.
AbandonAcceptedUnconfirmed(b, version) ==
  /\ batch[b].status # "failed"
  /\ \A t \in SubmissionsOf(b) : sub[t] # "pending"
  /\ Tip = b /\ Len(head) = version

\* What lets the transaction commit: no submission in flight or confirmed, still
\* the tip, nothing appended since, no event of an earlier abandonment.
AbandonAccepted(b, version) ==
  /\ batch[b].status # "failed"
  /\ \A t \in SubmissionsOf(b) : sub[t] = "failed"
  /\ Tip = b /\ Len(head) = version

Abandon(o) ==
  /\ abandon[o] # NoAbandon
  /\ LET b == abandon[o].batch IN
     /\ AbandonAccepted(b, abandon[o].version)
     /\ rec' = [r \in Records |-> IF rec[r] = b THEN NoBatch ELSE rec[r]]
     /\ head' = Append(head, batch[b].prev)
     /\ batch' = [batch EXCEPT ![b].status = IF Unfinished(b) THEN "failed" ELSE @]
  /\ abandon' = [abandon EXCEPT ![o] = NoAbandon]
  /\ UNCHANGED <<outbox, sub, lease, chain, call, troubles>>

AbandonConflict(o) ==
  /\ abandon[o] # NoAbandon
  /\ ~AbandonAccepted(abandon[o].batch, abandon[o].version)
  /\ abandon' = [abandon EXCEPT ![o] = NoAbandon]
  /\ UNCHANGED <<rec, batch, head, outbox, sub, lease, chain, call, troubles>>

-----------------------------------------------------------------------------
(* What goes wrong, and what the chain does.                               *)
\* An await of a tick throws, before its effect or (from the next phase) after
\* it.  The tick releases its lease; a poll goes on with the next submission.
\* A request of a witness that fails is one that takes no further step: asking
\* again has no effect once its row is there.
PerSubmission == {"ask", "settle", "confirming", "confirm", "count", "sync"}

Trouble(p) ==
  /\ ~At(p, "idle") /\ troubles < MaxTroubles
  /\ troubles' = troubles + 1
  /\ IF call[p].at \in PerSubmission THEN Done(p) /\ UNCHANGED lease ELSE End(p)
  /\ UNCHANGED <<rec, batch, head, outbox, sub, chain, abandon>>

\* The process dies; its lease stays until it expires.
Crash(p) ==
  /\ ~At(p, "idle") /\ troubles < MaxTroubles
  /\ troubles' = troubles + 1
  /\ call' = [call EXCEPT ![p] = Idle]
  /\ UNCHANGED <<rec, batch, head, outbox, sub, lease, chain, abandon>>

\* A tick takes longer than its lease.
Overrun(p) ==
  /\ lease = p /\ ~At(p, "idle") /\ troubles < MaxTroubles
  /\ troubles' = troubles + 1
  /\ lease' = Nobody
  /\ UNCHANGED <<rec, batch, head, outbox, sub, chain, call, abandon>>

\* The lease of a tick that died runs out.
Expire(p) ==
  /\ lease = p /\ At(p, "idle")
  /\ lease' = Nobody
  /\ UNCHANGED <<rec, batch, head, outbox, sub, chain, call, abandon, troubles>>

Decide(t) ==
  /\ chain[t] = "sent"
  /\ \E state \in {"mined", "reverted"} : chain' = [chain EXCEPT ![t] = state]
  /\ UNCHANGED <<rec, batch, head, outbox, sub, lease, call, abandon, troubles>>

\* A prepared transaction that was never sent can no longer be sent.
Outdate(b) ==
  /\ outbox[b] # Nobody /\ chain[outbox[b]] = "absent"
  /\ chain' = [chain EXCEPT ![outbox[b]] = "expired"]
  /\ UNCHANGED <<rec, batch, head, outbox, sub, lease, call, abandon, troubles>>

-----------------------------------------------------------------------------
\* The submission of a batch, one call of a poll or of a request, a whole tick.
Submit(p) ==
  \/ Rebuild(p) \/ Load(p) \/ SaveCheck(p) \/ Save(p) \/ Renew(p)
  \/ Broadcast(p) \/ BroadcastExpired(p) \/ MarkCheck(p) \/ MarkSubmitted(p)
Reconcile(c) == Ask(c) \/ Settle(c) \/ Count(c) \/ Sync(c)
TickStep(p) ==
  \/ IntakeEnds(p) \/ Resume(p) \/ NothingToResume(p) \/ Submit(p)
  \/ Build(p) \/ NoBuild(p) \/ List(p) \/ Create(p) \/ CreateConflict(p)
  \/ Poll(p) \/ Each(p) \/ EndTick(p) \/ Reconcile(p) \/ ConfirmCheck(p) \/ Confirm(p)
Tick == \E p \in Tickers : StartTick(p) \/ TickStep(p) \/ \E r \in Records : Intake(p, r)
Witness ==
  \E w \in Witnesses :
    \/ \E b \in Batches : WitnessGates(w, b)
    \/ Record(w) \/ Reconcile(w)
Operate ==
  \E o \in Operators :
    Abandon(o) \/ AbandonConflict(o) \/ \E b \in Batches : AbandonCheck(o, b)
Fail == \E p \in Tickers : Trouble(p) \/ Crash(p) \/ Overrun(p) \/ Expire(p)
Chain == (\E b \in Batches : Outdate(b)) \/ (\E t \in Txs : Decide(t))

Next == Tick \/ Witness \/ Operate \/ Fail \/ Chain
Spec == Init /\ [][Next]_vars

(***************************************************************************)
(* Properties.                                                             *)
(***************************************************************************)
TxOrNobody == Txs \cup {Nobody}
Phases ==
  {"idle", "intake", "resume", "rebuild", "load", "check", "save", "renew", "broadcast",
   "marking", "mark", "build", "list", "create", "poll", "each", "record"} \cup PerSubmission
Locals ==
  [at : Phases,
   batch : Batches \cup {NoBatch}, leaves : SUBSET Records, seen : Nat, tx : TxOrNobody,
   verdict : {"none", "confirmed", "failed"},
   todo : SUBSET [tx : Txs, status : {"pending", "confirmed"}],
   next : {"idle", "resume", "poll"}]

\* The columns of the tables and the local variables have the values the code gives them.
TypeOK ==
  /\ rec \in [Records -> Batches \cup {Unknown, NoBatch}]
  /\ batch \in [Batches -> [status : {"none", "built", "submitted", "confirmed", "failed"},
                             prev : Batches \cup {NoBatch}, leaves : SUBSET Records,
                             witnesses : Nat]]
  /\ head \in Seq(Batches \cup {NoBatch})
  /\ outbox \in [Batches -> TxOrNobody]
  /\ sub \in [Txs -> {"none", "pending", "confirmed", "failed"}]
  /\ lease \in Tickers \cup {Nobody}
  /\ chain \in [Txs -> {"absent", "sent", "mined", "reverted", "expired"}]
  /\ call \in [Callers -> Locals]
  /\ abandon \in [Operators -> [batch : Batches \cup {NoBatch}, version : Nat]]
  /\ troubles \in 0..MaxTroubles

LiveBatches == {b \in Batches : Live(b)}
IsLatest(b, s) == b \in s \cup {NoBatch} /\ \A a \in s : a <= b

\* The log of batches never forks: the batches that were not abandoned form one
\* chain of prev pointers that ends at the head, and all but the last are
\* confirmed (createBatch, abandonBatch; "prevRoot pointers only ever reference
\* truly anchored batches", docs/anchor-contract.md).
LogIsLinear ==
  /\ IsLatest(Tip, LiveBatches)
  /\ \A b \in LiveBatches :
       /\ IsLatest(batch[b].prev, {a \in LiveBatches : a < b})
       /\ IsConfirmed(batch[b].prev)

\* A record is bound to a batch exactly when it is a leaf of it and the batch was
\* not abandoned; hence no record is in two batches, and the manifest of a batch
\* can always be rebuilt from the records (rebuildManifest).
LeavesBound ==
  \A b \in Batches : Bound(b) = IF Live(b) THEN batch[b].leaves ELSE {}

\* Whatever fails and whoever competes, at most one platform transaction of a
\* batch is ever sent, and it was kept in the outbox before (submitBuiltBatch).
OneTransaction ==
  \A t \in Txs : IsPlatform(t) /\ chain[t] # "absent" => outbox[BatchOf(t)] = t

\* A batch is confirmed only when its own platform transaction is final on the
\* chain; no witness and no transaction of another batch can confirm it.
ConfirmedIsMined ==
  \A b \in Batches :
    batch[b].status = "confirmed" =>
      outbox[b] # Nobody /\ chain[outbox[b]] = "mined" /\ sub[outbox[b]] = "confirmed"

\* The witness count may lag behind, it never promises a witness whose transaction
\* is not final (syncWitnessCount counts and writes in two steps).
CountNotInflated ==
  \A b \in Batches :
    batch[b].witnesses <= Cardinality({w \in Witnesses : chain[<<b, w>>] = "mined"})

\* What the tables call final is final on the chain, for the platform and for the
\* witnesses, although each is asked in one step and written in another.
FinalOnly == ConfirmedIsMined /\ CountNotInflated

\* The leaves of the confirmed batches, in the order of the batches.
Confirmed == {b \in Batches : batch[b].status = "confirmed"}
Place(b) == Cardinality({a \in Confirmed : a <= b})
AnchoredLog ==
  [i \in 1..Cardinality(Confirmed) |->
     UNION {batch[b].leaves : b \in {a \in Confirmed : Place(a) = i}}]

Promise == INSTANCE AnchorLog WITH log <- AnchoredLog

\* The confirmed batches are an append-only log in which a record occurs once:
\* the tables and the ticks implement AnchorLog.
ImplementsLog == Promise!Spec

\* No submission of an abandoned batch is pending: nothing would ever settle it
\* (abandonBatch, "a submission racing in before abandonment must abort atomically
\* instead of surviving as permanently-pending evidence on a failed batch").  It
\* fails: markSubmitted() may insert its submission after the abandonment.
NothingStranded ==
  \A t \in Txs : sub[t] = "pending" => batch[BatchOf(t)].status # "failed"

\* A process that has begun a tick goes on with it, some process begins the next
\* one (a scheduler calls the tick again and again), and the lease of a dead one runs out.
Fairness ==
  /\ WF_vars(\E p \in Tickers : StartTick(p))
  /\ \A p \in Tickers : WF_vars(TickStep(p)) /\ WF_vars(Expire(p))
FairSpec == Spec /\ Fairness

\* A built batch whose kept transaction can no longer be sent stops every tick
\* before it polls ("it cannot guarantee progress through expired transactions",
\* docs/anchor-contract.md).
Blocked == \E b \in Batches :
  batch[b].status = "built" /\ outbox[b] # Nobody /\ chain[outbox[b]] = "expired"

\* Nothing that is recorded as final waits: a confirmed submission of the
\* platform has confirmed its batch, and the witness counts are right.
AllLanded ==
  \A b \in Batches : \A p \in Tickers :
    sub[<<b, p>>] = "confirmed" => batch[b].status = "confirmed"
CountsRight == \A b \in Batches : Live(b) => ~StaleCount(b)

\* A tick or a request that died between recording a final transaction and
\* confirming the batch or counting the witness, or an older count that was
\* written last, is made good, again and again, unless ticks are blocked
\* (listSubmissionsForReconciliation).
Reconciled == []<>(AllLanded /\ (CountsRight \/ Blocked))
=============================================================================
