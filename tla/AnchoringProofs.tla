-------------------------- MODULE AnchoringProofs --------------------------
(***************************************************************************)
(* Theorems about Anchoring, for any records, tickers, witnesses and       *)
(* operators, and any number of batches and failures.                      *)
(***************************************************************************)
EXTENDS Anchoring, FiniteSetTheorems, TLAPS

USE AnchoringAssumption

-----------------------------------------------------------------------------
(* Typing.  Beside TypeOK: what a caller works on exists, and so does what *)
(* an operator abandons.                                                   *)
OnBatch == {"rebuild", "load", "check", "save", "renew", "broadcast", "marking", "mark",
            "record"} \cup PerSubmission

CallOK ==
  /\ call \in [Callers -> Locals]
  /\ \A c \in Callers : call[c].at \in OnBatch => call[c].batch \in Batches

AbandonOK ==
  /\ abandon \in [Operators -> [batch : Batches \cup {NoBatch}, version : Nat]]
  /\ \A o \in Operators : abandon[o] # NoAbandon => abandon[o].batch \in Batches

TypeInv == TypeOK /\ CallOK /\ AbandonOK

(* The ways a caller changes its local variables keep them well typed. *)
LEMMA SetCallOK ==
  ASSUME NEW c \in Callers, NEW x \in Locals, CallOK,
         x.at \in OnBatch => x.batch \in Batches,
         call' = [call EXCEPT ![c] = x]
  PROVE  CallOK'
BY DEF CallOK, Callers

LEMMA IdleTyped == Idle \in Locals /\ Idle.at = "idle" /\ "idle" \notin OnBatch
BY DEF Idle, Locals, Phases, PerSubmission, OnBatch, TxOrNobody, NoBatch

LEMMA GotoOK ==
  ASSUME NEW c \in Callers, NEW phase \in Phases, CallOK,
         phase \in OnBatch => call[c].batch \in Batches,
         Goto(c, phase)
  PROVE  CallOK'
<1> DEFINE x == [call[c] EXCEPT !.at = phase]
<1>1. call[c] \in Locals
  BY DEF CallOK
<1>2. x \in Locals /\ x.at = phase /\ x.batch = call[c].batch
  BY <1>1 DEF Locals
<1>3. call' = [call EXCEPT ![c] = x]
  BY DEF Goto
<1> HIDE DEF x
<1> QED
  BY <1>2, <1>3, SetCallOK

LEMMA EndOK ==
  ASSUME NEW c \in Callers, CallOK, lease \in Tickers \cup {Nobody}, End(c)
  PROVE  CallOK' /\ lease' \in Tickers \cup {Nobody}
BY IdleTyped, SetCallOK DEF End, Release

LEMMA DoneOK ==
  ASSUME NEW c \in Callers, CallOK, Done(c)
  PROVE  CallOK'
<1> DEFINE x == [Idle EXCEPT !.at = "each", !.todo = call[c].todo]
<1>1. call[c] \in Locals
  BY DEF CallOK
<1>2. x \in Locals /\ x.at = "each" /\ "each" \notin OnBatch
  BY <1>1, IdleTyped DEF Idle, Locals, Phases, PerSubmission, OnBatch
<1>3. call' = [call EXCEPT ![c] = x] \/ call' = [call EXCEPT ![c] = Idle]
  BY DEF Done
<1> HIDE DEF x
<1> QED
  BY <1>2, <1>3, IdleTyped, SetCallOK

(* A step that leaves the tables, the chain and the operators alone. *)
LEMMA LocalStep ==
  ASSUME TypeInv, CallOK', lease' \in Tickers \cup {Nobody},
         UNCHANGED <<rec, batch, head, outbox, sub, chain, abandon, troubles>>
  PROVE  TypeInv'
BY DEF TypeInv, TypeOK, CallOK, AbandonOK

(* What a caller at a phase that needs a batch knows about itself. *)
LEMMA CallFacts ==
  ASSUME NEW c \in Callers, TypeInv
  PROVE  /\ call[c] \in Locals
         /\ call[c].at \in OnBatch => call[c].batch \in Batches
         /\ lease \in Tickers \cup {Nobody}
         /\ CallOK
BY DEF TypeInv, TypeOK, CallOK

(* The steps of a tick, or of a request, that only read. *)
LEMMA ReadingTyped ==
  ASSUME TypeInv, NEW p \in Tickers,
         \/ IntakeEnds(p) \/ Resume(p) \/ NothingToResume(p) \/ Rebuild(p) \/ Load(p)
         \/ SaveCheck(p) \/ Renew(p) \/ MarkCheck(p) \/ NoBuild(p) \/ Build(p) \/ List(p)
         \/ CreateConflict(p) \/ Poll(p) \/ Each(p) \/ EndTick(p) \/ ConfirmCheck(p)
  PROVE  TypeInv'
<1> p \in Callers
  BY DEF Callers
<1>1. CASE IntakeEnds(p)
  <2>1. CallOK'
    BY <1>1, CallFacts, GotoOK DEF IntakeEnds, Phases, OnBatch, PerSubmission
  <2> QED BY <1>1, <2>1, CallFacts, LocalStep DEF IntakeEnds, OnlyCall
<1>2. CASE Resume(p)
  <2>1. PICK b \in Batches :
          call' = [call EXCEPT ![p] = [Idle EXCEPT !.at = "rebuild", !.batch = b,
                                                   !.next = "resume"]]
    BY <1>2 DEF Resume
  <2> DEFINE x == [Idle EXCEPT !.at = "rebuild", !.batch = b, !.next = "resume"]
  <2>2. x \in Locals /\ x.batch = b
    BY IdleTyped DEF Idle, Locals, Phases
  <2> HIDE DEF x
  <2>3. CallOK'
    BY <2>1, <2>2, CallFacts, SetCallOK DEF x
  <2> QED BY <1>2, <2>3, CallFacts, LocalStep DEF Resume, OnlyCall
<1>3. CASE NothingToResume(p)
  <2>1. CallOK'
    BY <1>3, CallFacts, GotoOK DEF NothingToResume, Phases, OnBatch, PerSubmission
  <2> QED BY <1>3, <2>1, CallFacts, LocalStep DEF NothingToResume, OnlyCall
<1>4. CASE Rebuild(p)
  <2>1. call[p].batch \in Batches
    BY <1>4, CallFacts DEF Rebuild, At, OnBatch
  <2>2. (Goto(p, "load") /\ UNCHANGED lease) \/ End(p)
    BY <1>4 DEF Rebuild
  <2>3. CallOK' /\ lease' \in Tickers \cup {Nobody}
    BY <2>1, <2>2, CallFacts, GotoOK, EndOK DEF Phases
  <2> QED BY <1>4, <2>3, LocalStep DEF Rebuild
<1>5. CASE Load(p)
  <2> DEFINE b == call[p].batch
             a == IF outbox[b] = Nobody THEN "check" ELSE "renew"
             t == IF outbox[b] = Nobody THEN <<b, p>> ELSE outbox[b]
             x == [call[p] EXCEPT !.at = a, !.tx = t]
  <2>1. b \in Batches
    BY <1>5, CallFacts DEF Load, At, OnBatch
  <2>2. t \in TxOrNobody /\ a \in Phases
    BY <2>1 DEF TypeInv, TypeOK, TxOrNobody, Txs, Phases
  <2>3. call' = [call EXCEPT ![p] = x]
    BY <1>5 DEF Load
  <2> HIDE DEF a, t
  <2>4. x \in Locals /\ x.batch = b
    BY <2>2, CallFacts DEF Locals
  <2> HIDE DEF x, b
  <2>5. CallOK'
    BY <2>1, <2>3, <2>4, CallFacts, SetCallOK
  <2> QED BY <1>5, <2>5, CallFacts, LocalStep DEF Load, OnlyCall
<1>6. CASE SaveCheck(p)
  <2>1. call[p].batch \in Batches
    BY <1>6, CallFacts DEF SaveCheck, At, OnBatch
  <2>2. (Goto(p, "save") /\ UNCHANGED lease) \/ End(p)
    BY <1>6 DEF SaveCheck
  <2>3. CallOK' /\ lease' \in Tickers \cup {Nobody}
    BY <2>1, <2>2, CallFacts, GotoOK, EndOK DEF Phases
  <2> QED BY <1>6, <2>3, LocalStep DEF SaveCheck
<1>7. CASE Renew(p)
  <2>1. call[p].batch \in Batches
    BY <1>7, CallFacts DEF Renew, At, OnBatch
  <2>2. (Goto(p, "broadcast") /\ UNCHANGED lease) \/ End(p)
    BY <1>7 DEF Renew
  <2>3. CallOK' /\ lease' \in Tickers \cup {Nobody}
    BY <2>1, <2>2, CallFacts, GotoOK, EndOK DEF Phases
  <2> QED BY <1>7, <2>3, LocalStep DEF Renew
<1>8. CASE MarkCheck(p)
  <2>1. call[p].batch \in Batches
    BY <1>8, CallFacts DEF MarkCheck, At, OnBatch
  <2>2. (Goto(p, "mark") /\ UNCHANGED lease) \/ End(p)
    BY <1>8 DEF MarkCheck
  <2>3. CallOK' /\ lease' \in Tickers \cup {Nobody}
    BY <2>1, <2>2, CallFacts, GotoOK, EndOK DEF Phases
  <2> QED BY <1>8, <2>3, LocalStep DEF MarkCheck
<1>9. CASE NoBuild(p)
  <2>1. CallOK'
    BY <1>9, CallFacts, GotoOK DEF NoBuild, Phases, OnBatch, PerSubmission
  <2> QED BY <1>9, <2>1, CallFacts, LocalStep DEF NoBuild, OnlyCall
<1>10. CASE Build(p)
  <2> DEFINE x == [call[p] EXCEPT !.at = "list", !.batch = Tip, !.seen = Len(head)]
  <2>1. Tip \in Batches \cup {NoBatch} /\ Len(head) \in Nat
    BY DEF TypeInv, TypeOK, Tip, Last
  <2>2. call' = [call EXCEPT ![p] = x]
    BY <1>10 DEF Build
  <2>3. x \in Locals /\ x.at = "list"
    BY <2>1, CallFacts DEF Locals, Phases
  <2> HIDE DEF x
  <2>4. CallOK'
    BY <2>2, <2>3, CallFacts, SetCallOK DEF OnBatch, PerSubmission
  <2> QED BY <1>10, <2>4, CallFacts, LocalStep DEF Build, OnlyCall
<1>11. CASE List(p)
  <2>1. CASE Goto(p, "poll")
    BY <1>11, <2>1, CallFacts, GotoOK, LocalStep
       DEF List, OnlyCall, Phases, OnBatch, PerSubmission
  <2>2. CASE \E leaves \in SUBSET PendingRecords :
               call' = [call EXCEPT ![p].at = "create", ![p].leaves = leaves]
    <3>1. PICK leaves \in SUBSET PendingRecords :
               call' = [call EXCEPT ![p].at = "create", ![p].leaves = leaves]
      BY <2>2
    <3> DEFINE x == [call[p] EXCEPT !.at = "create", !.leaves = leaves]
    <3>2. x \in Locals /\ x.at = "create"
      BY CallFacts DEF Locals, Phases, PendingRecords
    <3>3. call' = [call EXCEPT ![p] = x]
      BY <3>1
    <3> HIDE DEF x
    <3>4. CallOK'
      BY <3>2, <3>3, CallFacts, SetCallOK DEF OnBatch, PerSubmission
    <3> QED BY <1>11, <3>4, CallFacts, LocalStep DEF List, OnlyCall
  <2> QED BY <1>11, <2>1, <2>2 DEF List
<1>12. CASE CreateConflict(p)
  BY <1>12, CallFacts, EndOK, LocalStep DEF CreateConflict
<1>13. CASE Poll(p)
  <2> DEFINE todo == {[tx |-> t, status |-> sub[t]] : t \in ToReconcile}
             x == [call[p] EXCEPT !.at = "each", !.todo = todo]
  <2>1. todo \in SUBSET [tx : Txs, status : {"pending", "confirmed"}]
    BY DEF ToReconcile
  <2>2. call' = [call EXCEPT ![p] = x]
    BY <1>13 DEF Poll
  <2> HIDE DEF todo
  <2>3. x \in Locals /\ x.at = "each"
    BY <2>1, CallFacts DEF Locals, Phases
  <2> HIDE DEF x
  <2>4. CallOK'
    BY <2>2, <2>3, CallFacts, SetCallOK DEF OnBatch, PerSubmission
  <2> QED BY <1>13, <2>4, CallFacts, LocalStep DEF Poll, OnlyCall
<1>14. CASE Each(p)
  <2>1. PICK s \in call[p].todo :
          LET phase == IF s.status = "pending" THEN "ask"
                       ELSE IF IsPlatform(s.tx) THEN "confirming" ELSE "count"
          IN call' = [call EXCEPT ![p].at = phase, ![p].tx = s.tx,
                                  ![p].batch = BatchOf(s.tx), ![p].todo = @ \ {s}]
    BY <1>14 DEF Each
  <2> DEFINE phase == IF s.status = "pending" THEN "ask"
                      ELSE IF IsPlatform(s.tx) THEN "confirming" ELSE "count"
             b == BatchOf(s.tx)
             rest == call[p].todo \ {s}
             x == [call[p] EXCEPT !.at = phase, !.tx = s.tx, !.batch = b, !.todo = rest]
  <2>2. call' = [call EXCEPT ![p] = x]
    BY <2>1
  <2>3. /\ s \in [tx : Txs, status : {"pending", "confirmed"}]
        /\ rest \in SUBSET [tx : Txs, status : {"pending", "confirmed"}]
    BY CallFacts DEF Locals
  <2>4. phase \in Phases
    BY DEF Phases, PerSubmission
  <2>5. s.tx \in TxOrNobody /\ b \in Batches
    BY <2>3 DEF Txs, TxOrNobody, BatchOf
  <2> HIDE DEF phase, b, rest
  <2>6. x \in Locals /\ x.batch = b
    BY <2>3, <2>4, <2>5, CallFacts DEF Locals
  <2> HIDE DEF x
  <2>7. CallOK'
    BY <2>2, <2>5, <2>6, CallFacts, SetCallOK
  <2> QED BY <1>14, <2>7, CallFacts, LocalStep DEF Each, OnlyCall
<1>15. CASE EndTick(p)
  BY <1>15, CallFacts, EndOK, LocalStep DEF EndTick
<1>16. CASE ConfirmCheck(p)
  <2>1. call[p].batch \in Batches
    BY <1>16, CallFacts DEF ConfirmCheck, At, OnBatch, PerSubmission
  <2>2. Goto(p, "confirm") \/ Done(p)
    BY <1>16 DEF ConfirmCheck
  <2>3. CallOK'
    BY <2>1, <2>2, CallFacts, GotoOK, DoneOK DEF Phases, PerSubmission
  <2> QED BY <1>16, <2>3, CallFacts, LocalStep DEF ConfirmCheck, OnlyCall
<1> QED
  BY <1>1, <1>2, <1>3, <1>4, <1>5, <1>6, <1>7, <1>8, <1>9, <1>10, <1>11, <1>12,
     <1>13, <1>14, <1>15, <1>16
-----------------------------------------------------------------------------
(* The steps that write.                                                   *)
BatchRow ==
  [status : {"none", "built", "submitted", "confirmed", "failed"},
   prev : Batches \cup {NoBatch}, leaves : SUBSET Records, witnesses : Nat]

LEMMA TypeFacts ==
  ASSUME TypeInv
  PROVE  /\ rec \in [Records -> Batches \cup {Unknown, NoBatch}]
         /\ batch \in [Batches -> BatchRow]
         /\ head \in Seq(Batches \cup {NoBatch})
         /\ outbox \in [Batches -> TxOrNobody]
         /\ sub \in [Txs -> {"none", "pending", "confirmed", "failed"}]
         /\ lease \in Tickers \cup {Nobody}
         /\ chain \in [Txs -> {"absent", "sent", "mined", "reverted", "expired"}]
         /\ troubles \in 0..MaxTroubles
         /\ CallOK /\ AbandonOK
BY DEF TypeInv, TypeOK, BatchRow

LEMMA TypeFactsSuffice ==
  ASSUME rec' \in [Records -> Batches \cup {Unknown, NoBatch}],
         batch' \in [Batches -> BatchRow],
         head' \in Seq(Batches \cup {NoBatch}),
         outbox' \in [Batches -> TxOrNobody],
         sub' \in [Txs -> {"none", "pending", "confirmed", "failed"}],
         lease' \in Tickers \cup {Nobody},
         chain' \in [Txs -> {"absent", "sent", "mined", "reverted", "expired"}],
         troubles' \in 0..MaxTroubles,
         CallOK', AbandonOK'
  PROVE  TypeInv'
BY DEF TypeInv, TypeOK, BatchRow, CallOK, AbandonOK

LEMMA TipTyped == TypeInv => Tip \in Batches \cup {NoBatch} /\ Len(head) \in Nat
BY DEF TypeInv, TypeOK, Tip, Last

(* A new status or count keeps a row of anchor_batches a row. *)
LEMMA RowTyped ==
  ASSUME TypeInv, NEW b \in Batches
  PROVE  /\ \A s \in {"none", "built", "submitted", "confirmed", "failed"} :
              [batch EXCEPT ![b].status = s] \in [Batches -> BatchRow]
         /\ \A n \in Nat : [batch EXCEPT ![b].witnesses = n] \in [Batches -> BatchRow]
<1>1. batch \in [Batches -> BatchRow]
  BY TypeFacts
<1>2. \A s \in {"none", "built", "submitted", "confirmed", "failed"} :
        [batch[b] EXCEPT !.status = s] \in BatchRow
  BY <1>1 DEF BatchRow
<1>3. \A n \in Nat : [batch[b] EXCEPT !.witnesses = n] \in BatchRow
  BY <1>1 DEF BatchRow
<1>4. \A row \in BatchRow : [batch EXCEPT ![b] = row] \in [Batches -> BatchRow]
  BY <1>1
<1> QED
  BY <1>2, <1>3, <1>4

LEMMA SentTyped ==
  ASSUME TypeInv, NEW t, Sent(t)
  PROVE  chain' \in [Txs -> {"absent", "sent", "mined", "reverted", "expired"}]
BY TypeFacts DEF Sent

LEMMA CountTyped == ASSUME NEW b PROVE Cardinality(ConfirmedWitnesses(b)) \in Nat
<1>1. ConfirmedWitnesses(b) \subseteq Witnesses
  BY DEF ConfirmedWitnesses
<1> QED
  BY <1>1, FS_Subset, FS_CardinalityType

LEMMA SubmittingTyped ==
  ASSUME TypeInv, NEW p \in Tickers,
         \/ StartTick(p) \/ (\E r \in Records : Intake(p, r)) \/ Save(p)
         \/ BroadcastExpired(p) \/ Create(p)
  PROVE  TypeInv'
<1> p \in Callers
  BY DEF Callers
<1>1. CASE StartTick(p)
  <2>1. CallOK'
    BY <1>1, CallFacts, GotoOK DEF StartTick, Phases, OnBatch, PerSubmission
  <2> QED BY <1>1, <2>1, LocalStep DEF StartTick
<1>2. CASE \E r \in Records : Intake(p, r)
  <2>1. PICK r \in Records : Intake(p, r)
    BY <1>2
  <2>2. rec' \in [Records -> Batches \cup {Unknown, NoBatch}]
    BY <2>1, TypeFacts DEF Intake
  <2>3. CallOK' /\ AbandonOK'
    BY <2>1, TypeFacts DEF Intake, CallOK, AbandonOK
  <2> QED BY <2>1, <2>2, <2>3, TypeFacts, TypeFactsSuffice DEF Intake
<1>3. CASE Save(p)
  <2> DEFINE t == Winner(p)
             x == [call[p] EXCEPT !.at = "renew", !.tx = t]
  <2>1. call[p] \in Locals /\ call[p].batch \in Batches
    BY <1>3, CallFacts DEF Save, At, OnBatch
  <2>2. t \in TxOrNobody
    BY <2>1, TypeFacts DEF Winner, Locals
  <2>3. call' = [call EXCEPT ![p] = x] /\ outbox' = [outbox EXCEPT ![call[p].batch] = t]
    BY <1>3 DEF Save
  <2> HIDE DEF t
  <2>4. x \in Locals /\ x.batch = call[p].batch
    BY <2>1, <2>2 DEF Locals, Phases
  <2> HIDE DEF x
  <2>5. CallOK'
    BY <2>1, <2>3, <2>4, CallFacts, SetCallOK
  <2>6. outbox' \in [Batches -> TxOrNobody]
    BY <2>1, <2>2, <2>3, TypeFacts
  <2>7. AbandonOK'
    BY <1>3, TypeFacts DEF Save, AbandonOK
  <2> QED BY <1>3, <2>5, <2>6, <2>7, TypeFacts, TypeFactsSuffice DEF Save
<1>4. CASE BroadcastExpired(p)
  BY <1>4, CallFacts, EndOK, LocalStep DEF BroadcastExpired
<1>5. CASE Create(p)
  <2> DEFINE row == [NewBatch EXCEPT !.status = "built",
                                     !.prev = call[p].batch, !.leaves = call[p].leaves]
             x(b) == [Idle EXCEPT !.at = "load", !.batch = b, !.next = "poll"]
  <2>1. PICK b \in Batches :
          /\ batch' = [batch EXCEPT ![b] = row]
          /\ rec' = [r \in Records |-> IF r \in call[p].leaves THEN b ELSE rec[r]]
          /\ head' = Append(head, b)
          /\ call' = [call EXCEPT ![p] = x(b)]
    BY <1>5 DEF Create
  <2>2. row \in BatchRow
    BY CallFacts DEF NewBatch, BatchRow, Locals
  <2>3. x(b) \in Locals /\ x(b).batch = b
    BY IdleTyped DEF Idle, Locals, Phases
  <2> HIDE DEF row, x
  <2>4. CallOK'
    BY <2>1, <2>3, CallFacts, SetCallOK
  <2>5. /\ rec' \in [Records -> Batches \cup {Unknown, NoBatch}]
        /\ batch' \in [Batches -> BatchRow]
        /\ head' \in Seq(Batches \cup {NoBatch})
    BY <2>1, <2>2, TypeFacts
  <2>6. AbandonOK'
    BY <1>5, TypeFacts DEF Create, AbandonOK
  <2> QED BY <1>5, <2>4, <2>5, <2>6, TypeFacts, TypeFactsSuffice DEF Create
<1> QED
  BY <1>1, <1>2, <1>3, <1>4, <1>5

LEMMA OperatingTyped ==
  ASSUME TypeInv, Operate
  PROVE  TypeInv'
<1>1. PICK o \in Operators :
        Abandon(o) \/ AbandonConflict(o) \/ \E b \in Batches : AbandonCheck(o, b)
  BY DEF Operate
<1>2. CASE Abandon(o)
  <2> DEFINE b == abandon[o].batch
  <2>1. b \in Batches
    BY <1>2, TypeFacts DEF Abandon, AbandonOK
  <2>2. /\ rec' = [r \in Records |-> IF rec[r] = b THEN NoBatch ELSE rec[r]]
        /\ head' = Append(head, batch[b].prev)
        /\ batch' = [batch EXCEPT ![b].status = IF Unfinished(b) THEN "failed" ELSE @]
        /\ abandon' = [abandon EXCEPT ![o] = NoAbandon]
    BY <1>2 DEF Abandon
  <2>3. rec' \in [Records -> Batches \cup {Unknown, NoBatch}]
    BY <2>2, TypeFacts
  <2>4. head' \in Seq(Batches \cup {NoBatch})
    BY <2>1, <2>2, TypeFacts DEF BatchRow
  <2>5. batch' \in [Batches -> BatchRow]
    <3> DEFINE status == IF Unfinished(b) THEN "failed" ELSE batch[b].status
    <3>1. status \in {"none", "built", "submitted", "confirmed", "failed"}
      BY <2>1, TypeFacts DEF BatchRow
    <3>2. batch' = [batch EXCEPT ![b].status = status]
      BY <2>1, <2>2, TypeFacts
    <3> HIDE DEF status
    <3> HIDE DEF b
    <3> QED BY <2>1, <3>1, <3>2, RowTyped
  <2>6. AbandonOK'
    BY <1>2, TypeFacts DEF Abandon, AbandonOK, NoAbandon
  <2>7. CallOK'
    BY <1>2, TypeFacts DEF Abandon, CallOK
  <2> QED BY <1>2, <2>3, <2>4, <2>5, <2>6, <2>7, TypeFacts, TypeFactsSuffice DEF Abandon
<1>3. CASE AbandonConflict(o)
  <2>1. AbandonOK'
    BY <1>3, TypeFacts DEF AbandonConflict, AbandonOK, NoAbandon
  <2>2. CallOK'
    BY <1>3, TypeFacts DEF AbandonConflict, CallOK
  <2> QED BY <1>3, <2>1, <2>2, TypeFacts, TypeFactsSuffice DEF AbandonConflict
<1>4. CASE \E b \in Batches : AbandonCheck(o, b)
  <2>1. PICK b \in Batches : AbandonCheck(o, b)
    BY <1>4
  <2>2. AbandonOK'
    BY <2>1, TypeFacts, TipTyped DEF AbandonCheck, AbandonOK, NoAbandon
  <2>3. CallOK'
    BY <2>1, TypeFacts DEF AbandonCheck, CallOK
  <2> QED BY <2>1, <2>2, <2>3, TypeFacts, TypeFactsSuffice DEF AbandonCheck
<1> QED
  BY <1>1, <1>2, <1>3, <1>4

LEMMA FailingTyped ==
  ASSUME TypeInv, Fail
  PROVE  TypeInv'
<1>1. PICK p \in Tickers : Trouble(p) \/ Crash(p) \/ Overrun(p) \/ Expire(p)
  BY DEF Fail
<1> p \in Callers
  BY DEF Callers
<1>2. CASE Trouble(p)
  <2>1. (Done(p) /\ UNCHANGED lease) \/ End(p)
    BY <1>2 DEF Trouble
  <2>2. CallOK' /\ lease' \in Tickers \cup {Nobody}
    BY <2>1, CallFacts, DoneOK, EndOK
  <2>3. troubles' \in 0..MaxTroubles
    BY <1>2, TypeFacts DEF Trouble
  <2>4. AbandonOK'
    BY <1>2, TypeFacts DEF Trouble, AbandonOK
  <2> QED BY <1>2, <2>2, <2>3, <2>4, TypeFacts, TypeFactsSuffice DEF Trouble
<1>3. CASE Crash(p)
  <2>1. CallOK'
    BY <1>3, CallFacts, IdleTyped, SetCallOK DEF Crash
  <2>2. troubles' \in 0..MaxTroubles
    BY <1>3, TypeFacts DEF Crash
  <2>3. AbandonOK'
    BY <1>3, TypeFacts DEF Crash, AbandonOK
  <2> QED BY <1>3, <2>1, <2>2, <2>3, TypeFacts, TypeFactsSuffice DEF Crash
<1>4. CASE Overrun(p)
  <2>1. troubles' \in 0..MaxTroubles
    BY <1>4, TypeFacts DEF Overrun
  <2>2. CallOK' /\ AbandonOK'
    BY <1>4, TypeFacts DEF Overrun, CallOK, AbandonOK
  <2> QED BY <1>4, <2>1, <2>2, TypeFacts, TypeFactsSuffice DEF Overrun
<1>5. CASE Expire(p)
  <2>1. CallOK' /\ AbandonOK'
    BY <1>5, TypeFacts DEF Expire, CallOK, AbandonOK
  <2> QED BY <1>5, <2>1, TypeFacts, TypeFactsSuffice DEF Expire
<1> QED
  BY <1>1, <1>2, <1>3, <1>4, <1>5
(* What became of a transaction, told to the caller or written to its row. *)
LEMMA SettlingTyped ==
  ASSUME TypeInv, NEW c \in Callers,
         \/ Ask(c) \/ Settle(c) \/ Count(c) \/ Sync(c)
         \/ (c \in Tickers /\ Confirm(c)) \/ (c \in Witnesses /\ Record(c))
  PROVE  TypeInv'
<1> c \in Callers
  OBVIOUS
<1>1. CASE Ask(c)
  <2>1. CASE Done(c)
    BY <1>1, <2>1, CallFacts, DoneOK, LocalStep DEF Ask, OnlyCall
  <2>2. CASE \E v \in {"confirmed", "failed"} :
               call' = [call EXCEPT ![c].at = "settle", ![c].verdict = v]
    <3>1. PICK v \in {"confirmed", "failed"} :
               call' = [call EXCEPT ![c].at = "settle", ![c].verdict = v]
      BY <2>2
    <3> DEFINE x == [call[c] EXCEPT !.at = "settle", !.verdict = v]
    <3>2. call' = [call EXCEPT ![c] = x]
      BY <3>1
    <3>3. call[c] \in Locals /\ call[c].batch \in Batches
      BY <1>1, CallFacts DEF Ask, At, OnBatch, PerSubmission
    <3>4. x \in Locals /\ x.batch = call[c].batch
      BY <3>3 DEF Locals, Phases, PerSubmission
    <3> HIDE DEF x
    <3>5. CallOK'
      BY <3>2, <3>3, <3>4, CallFacts, SetCallOK
    <3> QED BY <1>1, <3>5, CallFacts, LocalStep DEF Ask, OnlyCall
  <2> QED BY <1>1, <2>1, <2>2 DEF Ask
<1>2. CASE Settle(c)
  <2>1. call[c] \in Locals /\ call[c].batch \in Batches
    BY <1>2, CallFacts DEF Settle, At, OnBatch, PerSubmission
  <2>2. Done(c) \/ Goto(c, "confirming") \/ Goto(c, "count")
    BY <1>2 DEF Settle
  <2>3. CallOK'
    BY <2>1, <2>2, CallFacts, GotoOK, DoneOK DEF Phases, PerSubmission
  <2>4. sub' = [sub EXCEPT ![call[c].tx] = call[c].verdict] \/ sub' = sub
    BY <1>2 DEF Settle
  <2>5. sub' \in [Txs -> {"none", "pending", "confirmed", "failed"}]
    BY <2>1, <2>4, TypeFacts DEF Locals
  <2>6. AbandonOK'
    BY <1>2, TypeFacts DEF Settle, AbandonOK
  <2> QED BY <1>2, <2>3, <2>5, <2>6, TypeFacts, TypeFactsSuffice DEF Settle
<1>3. CASE Count(c)
  <2> DEFINE n == Cardinality(ConfirmedWitnesses(call[c].batch))
             x == [call[c] EXCEPT !.at = "sync", !.seen = n]
  <2>1. call' = [call EXCEPT ![c] = x]
    BY <1>3 DEF Count
  <2>2. call[c] \in Locals /\ call[c].batch \in Batches
    BY <1>3, CallFacts DEF Count, At, OnBatch, PerSubmission
  <2>3. n \in Nat
    BY CountTyped
  <2> HIDE DEF n
  <2>4. x \in Locals /\ x.batch = call[c].batch
    BY <2>2, <2>3 DEF Locals, Phases, PerSubmission
  <2> HIDE DEF x
  <2>5. CallOK'
    BY <2>1, <2>2, <2>4, CallFacts, SetCallOK
  <2> QED BY <1>3, <2>5, CallFacts, LocalStep DEF Count, OnlyCall
<1>4. CASE Sync(c)
  <2>1. call[c] \in Locals /\ call[c].batch \in Batches
    BY <1>4, CallFacts DEF Sync, At, OnBatch, PerSubmission
  <2>2. call[c].seen \in Nat
    BY <2>1 DEF Locals
  <2>3. batch' \in [Batches -> BatchRow]
    BY <1>4, <2>1, <2>2, RowTyped DEF Sync
  <2>4. CallOK'
    BY <1>4, CallFacts, DoneOK DEF Sync
  <2>5. AbandonOK'
    BY <1>4, TypeFacts DEF Sync, AbandonOK
  <2> QED BY <1>4, <2>3, <2>4, <2>5, TypeFacts, TypeFactsSuffice DEF Sync
<1>5. CASE c \in Tickers /\ Confirm(c)
  <2>1. call[c].batch \in Batches
    BY <1>5, CallFacts DEF Confirm, At, OnBatch, PerSubmission
  <2>2. batch' \in [Batches -> BatchRow]
    BY <1>5, <2>1, RowTyped, TypeFacts DEF Confirm
  <2>3. CallOK'
    BY <1>5, CallFacts, DoneOK DEF Confirm
  <2>4. AbandonOK'
    BY <1>5, TypeFacts DEF Confirm, AbandonOK
  <2> QED BY <1>5, <2>2, <2>3, <2>4, TypeFacts, TypeFactsSuffice DEF Confirm
<1>6. CASE c \in Witnesses /\ Record(c)
  <2>1. call[c].batch \in Batches
    BY <1>6, CallFacts DEF Record, At, OnBatch
  <2>2. Goto(c, "ask") \/ Done(c)
    BY <1>6 DEF Record
  <2>3. CallOK'
    BY <2>1, <2>2, CallFacts, GotoOK, DoneOK DEF Phases, PerSubmission
  <2>4. sub' = [sub EXCEPT ![call[c].tx] = "pending"] \/ sub' = sub
    BY <1>6 DEF Record
  <2>5. sub' \in [Txs -> {"none", "pending", "confirmed", "failed"}]
    BY <2>4, TypeFacts
  <2>6. AbandonOK'
    BY <1>6, TypeFacts DEF Record, AbandonOK
  <2> QED BY <1>6, <2>3, <2>5, <2>6, TypeFacts, TypeFactsSuffice DEF Record
<1> QED
  BY <1>1, <1>2, <1>3, <1>4, <1>5, <1>6

(* Transactions: sent, marked as submitted, decided. *)
LEMMA SendingTyped ==
  ASSUME TypeInv,
         \/ \E p \in Tickers : Broadcast(p) \/ MarkSubmitted(p)
         \/ \E w \in Witnesses, b \in Batches : WitnessGates(w, b)
         \/ Chain
  PROVE  TypeInv'
<1>1. CASE \E p \in Tickers : Broadcast(p)
  <2>1. PICK p \in Tickers : Broadcast(p)
    BY <1>1
  <2> p \in Callers
    BY DEF Callers
  <2>2. call[p].batch \in Batches
    BY <2>1, CallFacts DEF Broadcast, At, OnBatch
  <2>3. CallOK'
    BY <2>1, <2>2, CallFacts, GotoOK DEF Broadcast, Phases
  <2>4. chain' \in [Txs -> {"absent", "sent", "mined", "reverted", "expired"}]
    BY <2>1, SentTyped DEF Broadcast
  <2>5. AbandonOK'
    BY <2>1, TypeFacts DEF Broadcast, AbandonOK
  <2> QED BY <2>1, <2>3, <2>4, <2>5, TypeFacts, TypeFactsSuffice DEF Broadcast
<1>2. CASE \E p \in Tickers : MarkSubmitted(p)
  <2>1. PICK p \in Tickers : MarkSubmitted(p)
    BY <1>2
  <2> p \in Callers
    BY DEF Callers
  <2> DEFINE x == [Idle EXCEPT !.at = call[p].next]
  <2>2. call[p] \in Locals /\ call[p].batch \in Batches
    BY <2>1, CallFacts DEF MarkSubmitted, At, OnBatch
  <2>3. x \in Locals /\ x.at \notin OnBatch
    BY <2>2, IdleTyped DEF Idle, Locals, Phases, OnBatch, PerSubmission
  <2>4. (call' = [call EXCEPT ![p] = x] /\ UNCHANGED lease) \/ End(p)
    BY <2>1 DEF MarkSubmitted
  <2> HIDE DEF x
  <2>5. CallOK' /\ lease' \in Tickers \cup {Nobody}
    BY <2>3, <2>4, CallFacts, SetCallOK, EndOK
  <2>6. /\ sub' = [sub EXCEPT ![call[p].tx] = "pending"] \/ sub' = sub
        /\ batch' = [batch EXCEPT ![call[p].batch].status = "submitted"] \/ batch' = batch
    BY <2>1 DEF MarkSubmitted
  <2>7. sub' \in [Txs -> {"none", "pending", "confirmed", "failed"}]
    BY <2>6, TypeFacts
  <2>8. batch' \in [Batches -> BatchRow]
    <3> DEFINE b == call[p].batch
    <3>1. b \in Batches
      BY <2>2
    <3>2. batch' = [batch EXCEPT ![b].status = "submitted"] \/ batch' = batch
      BY <2>6
    <3> HIDE DEF b
    <3> QED BY <3>1, <3>2, RowTyped, TypeFacts
  <2>9. AbandonOK'
    BY <2>1, TypeFacts DEF MarkSubmitted, AbandonOK
  <2> QED BY <2>1, <2>5, <2>7, <2>8, <2>9, TypeFacts, TypeFactsSuffice DEF MarkSubmitted
<1>3. CASE \E w \in Witnesses, b \in Batches : WitnessGates(w, b)
  <2>1. PICK w \in Witnesses, b \in Batches : WitnessGates(w, b)
    BY <1>3
  <2> w \in Callers
    BY DEF Callers
  <2> DEFINE x == [Idle EXCEPT !.at = "record", !.batch = b, !.tx = <<b, w>>]
  <2>2. x \in Locals /\ x.batch = b
    BY IdleTyped DEF Idle, Locals, Phases, TxOrNobody, Txs
  <2>3. call' = [call EXCEPT ![w] = x]
    BY <2>1 DEF WitnessGates
  <2> HIDE DEF x
  <2>4. CallOK'
    BY <2>2, <2>3, CallFacts, SetCallOK
  <2>5. chain' \in [Txs -> {"absent", "sent", "mined", "reverted", "expired"}]
    BY <2>1, SentTyped DEF WitnessGates
  <2>6. AbandonOK'
    BY <2>1, TypeFacts DEF WitnessGates, AbandonOK
  <2> QED BY <2>1, <2>4, <2>5, <2>6, TypeFacts, TypeFactsSuffice DEF WitnessGates
<1>4. CASE Chain
  <2>1. chain' \in [Txs -> {"absent", "sent", "mined", "reverted", "expired"}]
    BY <1>4, TypeFacts DEF Chain, Decide, Outdate
  <2>2. UNCHANGED <<rec, batch, head, outbox, sub, lease, call, abandon, troubles>>
    BY <1>4 DEF Chain, Decide, Outdate
  <2>3. CallOK' /\ AbandonOK'
    BY <2>2, TypeFacts DEF CallOK, AbandonOK
  <2> QED BY <2>1, <2>2, <2>3, TypeFacts, TypeFactsSuffice
<1> QED
  BY <1>1, <1>2, <1>3, <1>4

LEMMA TypeStep == TypeInv /\ [Next]_vars => TypeInv'
<1> SUFFICES ASSUME TypeInv, [Next]_vars
             PROVE  TypeInv'
  OBVIOUS
<1>1. CASE \E p \in Tickers : StartTick(p) \/ TickStep(p) \/ \E r \in Records : Intake(p, r)
  <2>1. PICK p \in Tickers : StartTick(p) \/ TickStep(p) \/ \E r \in Records : Intake(p, r)
    BY <1>1
  <2> p \in Callers
    BY DEF Callers
  <2>2. CASE StartTick(p) \/ \E r \in Records : Intake(p, r)
    BY <2>2, SubmittingTyped
  <2>3. CASE TickStep(p)
    <3>1. CASE Submit(p)
      BY <3>1, ReadingTyped, SubmittingTyped, SendingTyped DEF Submit
    <3>2. CASE Reconcile(p)
      BY <3>2, SettlingTyped DEF Reconcile
    <3> QED BY <2>3, <3>1, <3>2, ReadingTyped, SubmittingTyped, SettlingTyped DEF TickStep
  <2> QED BY <2>1, <2>2, <2>3
<1>2. CASE Witness
  <2>1. PICK w \in Witnesses :
          (\E b \in Batches : WitnessGates(w, b)) \/ Record(w) \/ Reconcile(w)
    BY <1>2 DEF Witness
  <2> w \in Callers
    BY DEF Callers
  <2> QED BY <2>1, SendingTyped, SettlingTyped DEF Reconcile
<1>3. CASE Operate
  BY <1>3, OperatingTyped
<1>4. CASE Fail
  BY <1>4, FailingTyped
<1>5. CASE Chain
  BY <1>5, SendingTyped
<1>6. CASE UNCHANGED vars
  BY <1>6 DEF vars, TypeInv, TypeOK, CallOK, AbandonOK
<1> QED
  BY <1>1, <1>2, <1>3, <1>4, <1>5, <1>6 DEF Next, Tick

LEMMA TypeInit == Init => TypeInv
BY IdleTyped
   DEF Init, TypeInv, TypeOK, CallOK, AbandonOK, NewBatch, NoAbandon, TxOrNobody, OnBatch,
       NoBatch, Unknown

\* In every reachable state the rows of the five tables, the lease, the chain and
\* the local variables of ticks, requests and operators have the values the code
\* gives them, whatever the number of processes and of failures.
THEOREM TypeCorrect == Spec => []TypeOK
<1>1. TypeInv => TypeOK
  BY DEF TypeInv
<1> QED
  BY TypeInit, TypeStep, <1>1, PTL DEF Spec
-----------------------------------------------------------------------------
(* Transactions.  What a caller carries agrees with the tables and with    *)
(* the chain, however long ago it was read.                                *)
Finalized(b) ==
  \E t \in Txs : BatchOf(t) = b /\ IsPlatform(t) /\ sub[t] = "confirmed"

TxOK(c) ==
  /\ call[c].at \in {"check", "save", "record"} => call[c].tx = <<call[c].batch, c>>
  /\ call[c].at \in {"renew", "broadcast", "marking", "mark"} =>
       call[c].tx # Nobody /\ call[c].tx = outbox[call[c].batch]
  /\ call[c].at \in PerSubmission =>
       call[c].tx \in Txs /\ BatchOf(call[c].tx) = call[c].batch
  /\ call[c].at = "settle" =>
       /\ call[c].verdict \in {"confirmed", "failed"}
       /\ call[c].verdict = "confirmed" => chain[call[c].tx] = "mined"
  /\ call[c].at = "confirm" => Finalized(call[c].batch)
  /\ call[c].at = "sync" =>
       call[c].seen <= Cardinality(ConfirmedWitnesses(call[c].batch))

(* The outbox holds a transaction of the batch; the submission of a ticker *)
(* is the one of the outbox; confirmed means final on the chain; a count   *)
(* lags behind the witnesses, who are never lost.                          *)
RowsOK ==
  /\ \A b \in Batches : outbox[b] # Nobody => BatchOf(outbox[b]) = b
  /\ \A t \in Txs : IsPlatform(t) /\ sub[t] # "none" => outbox[BatchOf(t)] = t
  /\ \A t \in Txs : sub[t] = "confirmed" => chain[t] = "mined"
  /\ \A b \in Batches : batch[b].status = "confirmed" => Finalized(b)
  /\ \A b \in Batches : batch[b].witnesses <= Cardinality(ConfirmedWitnesses(b))

TxInv ==
  /\ TypeInv
  /\ \A c \in Callers : TxOK(c)
  /\ RowsOK
  /\ OneTransaction

LEMMA TxFacts ==
  ASSUME NEW t \in Txs
  PROVE  /\ BatchOf(t) \in Batches /\ t[2] \in Callers /\ t = <<BatchOf(t), t[2]>>
         /\ t # Nobody
BY DEF Txs, BatchOf

LEMMA OwnTx ==
  ASSUME NEW b \in Batches, NEW c \in Callers
  PROVE  /\ <<b, c>> \in Txs /\ BatchOf(<<b, c>>) = b
         /\ IsPlatform(<<b, c>>) <=> c \in Tickers
BY DEF Txs, BatchOf, IsPlatform

(* The steps that write a table or the chain. *)
tables == <<rec, batch, head, outbox, sub, chain>>

LEMMA Writers ==
  ASSUME [Next]_vars
  PROVE  \/ UNCHANGED tables
         \/ \E p \in Tickers : Save(p) \/ Broadcast(p) \/ MarkSubmitted(p) \/ Create(p) \/ Confirm(p)
         \/ \E p \in Tickers, r \in Records : Intake(p, r)
         \/ \E c \in Callers : Settle(c) \/ Sync(c)
         \/ \E w \in Witnesses : Record(w) \/ \E b \in Batches : WitnessGates(w, b)
         \/ \E o \in Operators : Abandon(o)
         \/ Chain
<1>1. ASSUME NEW p \in Tickers, TickStep(p),
             ~(Save(p) \/ Broadcast(p) \/ MarkSubmitted(p) \/ Create(p) \/ Confirm(p)
               \/ Settle(p) \/ Sync(p))
      PROVE  UNCHANGED tables
  BY <1>1
     DEF TickStep, Submit, Reconcile, tables, OnlyCall, IntakeEnds, Resume, NothingToResume,
         Rebuild, Load, SaveCheck, Renew, BroadcastExpired, MarkCheck, NoBuild, Build, List,
         CreateConflict, Poll, Each, EndTick, Ask, ConfirmCheck, Count
<1>2. ASSUME NEW p \in Tickers, StartTick(p)
      PROVE  UNCHANGED tables
  BY <1>2 DEF StartTick, tables
<1>3. CASE Tick
  BY <1>1, <1>2, <1>3 DEF Tick, Callers
<1>4. CASE Witness
  BY <1>4 DEF Witness, Reconcile, Callers, Ask, Count, OnlyCall, tables
<1>5. CASE Operate
  BY <1>5 DEF Operate, AbandonCheck, AbandonConflict, tables
<1>6. CASE Fail
  BY <1>6 DEF Fail, Trouble, Crash, Overrun, Expire, tables
<1>7. CASE UNCHANGED vars
  BY <1>7 DEF vars, tables
<1> QED
  BY <1>3, <1>4, <1>5, <1>6, <1>7 DEF Next

LEMMA Frames ==
  ASSUME [Next]_vars
  PROVE  /\ outbox' = outbox \/ \E p \in Tickers : Save(p)
         /\ \/ chain' = chain \/ Chain \/ \E p \in Tickers : Broadcast(p)
            \/ \E w \in Witnesses, b \in Batches : WitnessGates(w, b)
         /\ \/ sub' = sub \/ \E p \in Tickers : MarkSubmitted(p)
            \/ (\E c \in Callers : Settle(c)) \/ \E w \in Witnesses : Record(w)
         /\ \/ batch' = batch \/ \E p \in Tickers : MarkSubmitted(p) \/ Create(p) \/ Confirm(p)
            \/ (\E c \in Callers : Sync(c)) \/ \E o \in Operators : Abandon(o)
         /\ \/ head' = head \/ \E p \in Tickers : Create(p)
            \/ \E o \in Operators : Abandon(o)
         /\ \/ rec' = rec \/ \E p \in Tickers : Create(p) \/ \E r \in Records : Intake(p, r)
            \/ \E o \in Operators : Abandon(o)
BY Writers
   DEF tables, Save, Broadcast, MarkSubmitted, Create, Confirm, Intake, Settle, Sync, Record,
       WitnessGates, Abandon, Chain, Decide, Outdate

(* What a step writes.  Only Save writes the outbox, and only an empty row. *)
LEMMA OutboxWrites ==
  ASSUME TxInv, [Next]_vars
  PROVE  \/ outbox' = outbox
         \/ \E p \in Tickers, b \in Batches :
              /\ outbox[b] = Nobody /\ outbox' = [outbox EXCEPT ![b] = <<b, p>>]
              /\ chain' = chain /\ sub' = sub /\ batch' = batch
<1>1. CASE \E p \in Tickers : Save(p)
  <2>1. PICK p \in Tickers : Save(p)
    BY <1>1
  <2> DEFINE b == call[p].batch
  <2>2. b \in Batches /\ p \in Callers
    BY <2>1, CallFacts DEF Save, At, OnBatch, TxInv, Callers
  <2>3. call[p].tx = <<b, p>>
    BY <2>1, <2>2 DEF Save, At, TxInv, TxOK
  <2>4. CASE outbox[b] = Nobody
    BY <2>1, <2>2, <2>3, <2>4 DEF Save, Winner
  <2>5. CASE outbox[b] # Nobody
    <3>1. outbox' = [outbox EXCEPT ![b] = outbox[b]]
      BY <2>1, <2>5 DEF Save, Winner
    <3> QED BY <3>1, <2>2, TypeFacts DEF TxInv
  <2> QED BY <2>4, <2>5
<1> QED
  BY <1>1, Frames
(* A sent transaction of the platform is the one of the outbox, and what is *)
(* final stays final.                                                      *)
LEMMA ChainWrites ==
  ASSUME TxInv, [Next]_vars
  PROVE  \/ chain' = chain
         \/ \E t \in Txs, state \in {"sent", "mined", "reverted", "expired"} :
              /\ chain[t] # "mined" /\ chain' = [chain EXCEPT ![t] = state]
              /\ IsPlatform(t) => chain[t] # "absent" \/ outbox[BatchOf(t)] = t
              /\ sub' = sub /\ outbox' = outbox /\ batch' = batch
<1>1. ASSUME NEW t \in Txs, Sent(t), sub' = sub, outbox' = outbox, batch' = batch,
             IsPlatform(t) => outbox[BatchOf(t)] = t
      PROVE  \/ chain' = chain
             \/ \E u \in Txs, state \in {"sent", "mined", "reverted", "expired"} :
                  /\ chain[u] # "mined" /\ chain' = [chain EXCEPT ![u] = state]
                  /\ IsPlatform(u) => chain[u] # "absent" \/ outbox[BatchOf(u)] = u
                  /\ sub' = sub /\ outbox' = outbox /\ batch' = batch
  <2>1. CASE chain[t] = "absent"
    <3>1. chain' = [chain EXCEPT ![t] = "sent"]
      BY <1>1, <2>1 DEF Sent
    <3> QED BY <1>1, <2>1, <3>1
  <2>2. CASE chain[t] # "absent"
    <3>1. chain' = [chain EXCEPT ![t] = chain[t]]
      BY <1>1, <2>2 DEF Sent
    <3> QED BY <3>1, TypeFacts DEF TxInv
  <2> QED BY <2>1, <2>2
<1>2. ASSUME NEW p \in Tickers, Broadcast(p)
      PROVE  /\ call[p].tx \in Txs /\ outbox[BatchOf(call[p].tx)] = call[p].tx
             /\ Sent(call[p].tx) /\ sub' = sub /\ outbox' = outbox /\ batch' = batch
  <2>1. call[p].batch \in Batches /\ p \in Callers
    BY <1>2, CallFacts DEF Broadcast, At, OnBatch, TxInv, Callers
  <2>2. call[p].tx # Nobody /\ call[p].tx = outbox[call[p].batch]
    BY <1>2, <2>1 DEF Broadcast, At, TxInv, TxOK
  <2>3. call[p].tx \in Txs
    BY <2>1, <2>2, TypeFacts DEF TxInv, TxOrNobody
  <2> QED BY <1>2, <2>1, <2>2, <2>3 DEF TxInv, RowsOK, Broadcast
<1>3. ASSUME NEW w \in Witnesses, NEW b \in Batches, WitnessGates(w, b)
      PROVE  /\ <<b, w>> \in Txs /\ ~IsPlatform(<<b, w>>)
             /\ Sent(<<b, w>>) /\ sub' = sub /\ outbox' = outbox /\ batch' = batch
  BY <1>3, OwnTx DEF WitnessGates, Callers
<1>4. ASSUME NEW b \in Batches, Outdate(b)
      PROVE  \E t \in Txs :
               /\ outbox[BatchOf(t)] = t /\ chain[t] = "absent"
               /\ chain' = [chain EXCEPT ![t] = "expired"]
               /\ sub' = sub /\ outbox' = outbox /\ batch' = batch
  <2>1. outbox[b] \in Txs /\ BatchOf(outbox[b]) = b
    BY <1>4, TypeFacts DEF Outdate, TxInv, RowsOK, TxOrNobody
  <2> QED BY <1>4, <2>1 DEF Outdate
<1>5. ASSUME NEW t \in Txs, Decide(t)
      PROVE  \E state \in {"mined", "reverted"} :
               /\ chain[t] = "sent" /\ chain' = [chain EXCEPT ![t] = state]
               /\ sub' = sub /\ outbox' = outbox /\ batch' = batch
  BY <1>5 DEF Decide
<1> QED
  <2>1. CASE \E p \in Tickers : Broadcast(p)
    BY <2>1, <1>1, <1>2
  <2>2. CASE \E w \in Witnesses, b \in Batches : WitnessGates(w, b)
    BY <2>2, <1>1, <1>3
  <2>3. CASE \E b \in Batches : Outdate(b)
    BY <2>3, <1>4
  <2>4. CASE \E t \in Txs : Decide(t)
    BY <2>4, <1>5
  <2> QED BY <2>1, <2>2, <2>3, <2>4, Frames DEF Chain

(* A submission of the platform is the one of the outbox; it is confirmed  *)
(* when the transaction is final, and stays so.                            *)
LEMMA SubWrites ==
  ASSUME TxInv, [Next]_vars
  PROVE  \/ sub' = sub
         \/ \E t \in Txs, status \in {"pending", "confirmed", "failed"} :
              /\ sub[t] # "confirmed" /\ sub' = [sub EXCEPT ![t] = status]
              /\ IsPlatform(t) => outbox[BatchOf(t)] = t
              /\ status = "confirmed" => chain[t] = "mined"
              /\ chain' = chain /\ outbox' = outbox
<1>1. CASE \E p \in Tickers : MarkSubmitted(p)
  <2>1. PICK p \in Tickers : MarkSubmitted(p)
    BY <1>1
  <2> DEFINE t == call[p].tx
  <2>2. call[p].batch \in Batches /\ p \in Callers
    BY <2>1, CallFacts DEF MarkSubmitted, At, OnBatch, TxInv, Callers
  <2>3. t # Nobody /\ t = outbox[call[p].batch]
    BY <2>1, <2>2 DEF MarkSubmitted, At, TxInv, TxOK
  <2>4. t \in Txs /\ outbox[BatchOf(t)] = t
    BY <2>2, <2>3, TypeFacts DEF TxInv, TxOrNobody, RowsOK
  <2>5. sub' = sub \/ (sub[t] = "none" /\ sub' = [sub EXCEPT ![t] = "pending"])
    BY <2>1 DEF MarkSubmitted, MarkAccepted
  <2>6. chain' = chain /\ outbox' = outbox
    BY <2>1 DEF MarkSubmitted
  <2> HIDE DEF t
  <2> QED BY <2>4, <2>5, <2>6
<1>2. CASE \E c \in Callers : Settle(c)
  <2>1. PICK c \in Callers : Settle(c)
    BY <1>2
  <2> DEFINE t == call[c].tx
             v == call[c].verdict
  <2>2. /\ t \in Txs /\ v \in {"confirmed", "failed"}
        /\ v = "confirmed" => chain[t] = "mined"
    BY <2>1 DEF Settle, At, TxInv, TxOK, PerSubmission
  <2>3. sub' = sub \/ (sub[t] = "pending" /\ sub' = [sub EXCEPT ![t] = v])
    BY <2>1 DEF Settle, Settleable
  <2>4. chain' = chain /\ outbox' = outbox
    BY <2>1 DEF Settle
  <2> HIDE DEF t, v
  <2>5. sub[t] = "pending" /\ IsPlatform(t) => outbox[BatchOf(t)] = t
    BY <2>2 DEF TxInv, RowsOK
  <2> QED BY <2>2, <2>3, <2>4, <2>5
<1>3. CASE \E w \in Witnesses : Record(w)
  <2>1. PICK w \in Witnesses : Record(w)
    BY <1>3
  <2> DEFINE t == call[w].tx
  <2>2. w \in Callers /\ call[w].batch \in Batches
    BY <2>1, CallFacts DEF Record, At, OnBatch, TxInv, Callers
  <2>3. t = <<call[w].batch, w>>
    BY <2>1, <2>2 DEF Record, At, TxInv, TxOK
  <2>4. t \in Txs /\ ~IsPlatform(t)
    BY <2>2, <2>3, OwnTx
  <2>5. sub' = sub \/ (sub[t] = "none" /\ sub' = [sub EXCEPT ![t] = "pending"])
    BY <2>1 DEF Record
  <2>6. chain' = chain /\ outbox' = outbox
    BY <2>1 DEF Record
  <2> HIDE DEF t
  <2> QED BY <2>4, <2>5, <2>6
<1> QED
  BY <1>1, <1>2, <1>3, Frames

(* A batch is confirmed when a submission of a ticker for it is.           *)
LEMMA StatusWrites ==
  ASSUME TxInv, [Next]_vars, NEW b \in Batches, batch'[b].status = "confirmed"
  PROVE  batch[b].status = "confirmed" \/ Finalized(b)
<1>1. batch \in [Batches -> BatchRow]
  BY TypeFacts DEF TxInv
<1>2. CASE \E p \in Tickers : MarkSubmitted(p)
  BY <1>1, <1>2 DEF MarkSubmitted, BatchRow
<1>3. CASE \E p \in Tickers : Create(p)
  <2>1. PICK p \in Tickers, a \in Batches :
          batch' = [batch EXCEPT ![a] = [NewBatch EXCEPT !.status = "built",
                                           !.prev = call[p].batch, !.leaves = call[p].leaves]]
    BY <1>3 DEF Create
  <2> QED BY <1>1, <2>1 DEF NewBatch
<1>4. CASE \E p \in Tickers : Confirm(p)
  <2>1. PICK p \in Tickers : Confirm(p)
    BY <1>4
  <2>2. Finalized(call[p].batch)
    BY <2>1 DEF Confirm, At, TxInv, TxOK, Callers
  <2>3. batch' = batch \/ batch' = [batch EXCEPT ![call[p].batch].status = "confirmed"]
    BY <2>1 DEF Confirm
  <2> QED BY <1>1, <2>2, <2>3 DEF BatchRow
<1>5. CASE \E c \in Callers : Sync(c)
  BY <1>1, <1>5 DEF Sync, BatchRow
<1>6. CASE \E o \in Operators : Abandon(o)
  BY <1>1, <1>6 DEF Abandon, BatchRow
<1> QED
  BY <1>2, <1>3, <1>4, <1>5, <1>6, Frames
(* What is never taken back, so that what was read of it stays true.       *)
Grows ==
  /\ \A b \in Batches : outbox[b] # Nobody => outbox'[b] = outbox[b]
  /\ \A t \in Txs : chain[t] = "mined" => chain'[t] = "mined"
  /\ \A t \in Txs : sub[t] = "confirmed" => sub'[t] = "confirmed"

LEMMA Growth == ASSUME TxInv, [Next]_vars PROVE Grows
<1>1. \A b \in Batches : outbox[b] # Nobody => outbox'[b] = outbox[b]
  BY OutboxWrites, TypeFacts DEF TxInv
<1>2. \A t \in Txs : chain[t] = "mined" => chain'[t] = "mined"
  BY ChainWrites, TypeFacts DEF TxInv
<1>3. \A t \in Txs : sub[t] = "confirmed" => sub'[t] = "confirmed"
  BY SubWrites, TypeFacts DEF TxInv
<1> QED
  BY <1>1, <1>2, <1>3 DEF Grows

LEMMA WitnessesGrow ==
  ASSUME Grows, NEW b \in Batches
  PROVE  Cardinality(ConfirmedWitnesses(b)) <= Cardinality(ConfirmedWitnesses(b))'
<1>1. ConfirmedWitnesses(b) \subseteq ConfirmedWitnesses(b)'
  BY OwnTx DEF ConfirmedWitnesses, Grows, Callers
<1>2. IsFiniteSet(ConfirmedWitnesses(b)')
  BY FS_Subset DEF ConfirmedWitnesses
<1> QED
  BY <1>1, <1>2, FS_Subset DEF ConfirmedWitnesses

(* A batch begins with no witness, and is given what somebody counted.     *)
LEMMA CountWrites ==
  ASSUME TxInv, [Next]_vars, NEW b \in Batches
  PROVE  \/ batch'[b].witnesses = batch[b].witnesses
         \/ batch'[b].witnesses = 0
         \/ batch'[b].witnesses <= Cardinality(ConfirmedWitnesses(b))
<1>1. batch \in [Batches -> BatchRow]
  BY TypeFacts DEF TxInv
<1>2. CASE \E p \in Tickers : MarkSubmitted(p)
  BY <1>1, <1>2 DEF MarkSubmitted, BatchRow
<1>3. CASE \E p \in Tickers : Create(p)
  <2>1. PICK p \in Tickers, a \in Batches :
          batch' = [batch EXCEPT ![a] = [NewBatch EXCEPT !.status = "built",
                                           !.prev = call[p].batch, !.leaves = call[p].leaves]]
    BY <1>3 DEF Create
  <2> QED BY <1>1, <2>1 DEF NewBatch
<1>4. CASE \E p \in Tickers : Confirm(p)
  BY <1>1, <1>4 DEF Confirm, BatchRow
<1>5. CASE \E c \in Callers : Sync(c)
  <2>1. PICK c \in Callers : Sync(c)
    BY <1>5
  <2>2. call[c].seen <= Cardinality(ConfirmedWitnesses(call[c].batch))
    BY <2>1 DEF Sync, At, TxInv, TxOK
  <2>3. batch' = [batch EXCEPT ![call[c].batch].witnesses = call[c].seen]
    BY <2>1 DEF Sync
  <2> QED BY <1>1, <2>2, <2>3 DEF BatchRow
<1>6. CASE \E o \in Operators : Abandon(o)
  BY <1>1, <1>6 DEF Abandon, BatchRow
<1> QED
  BY <1>2, <1>3, <1>4, <1>5, <1>6, Frames

LEMMA RowsStep == ASSUME TxInv, [Next]_vars PROVE RowsOK' /\ OneTransaction'
<1> USE DEF TxInv
<1>1. /\ outbox \in [Batches -> TxOrNobody]
      /\ sub \in [Txs -> {"none", "pending", "confirmed", "failed"}]
      /\ chain \in [Txs -> {"absent", "sent", "mined", "reverted", "expired"}]
  BY TypeFacts
<1>2. Grows
  BY Growth
<1>3. \A b \in Batches : outbox'[b] # Nobody => BatchOf(outbox'[b]) = b
  <2>1. CASE outbox' = outbox
    BY <2>1 DEF RowsOK
  <2>2. CASE \E p \in Tickers, b \in Batches : outbox' = [outbox EXCEPT ![b] = <<b, p>>]
    BY <2>2, <1>1 DEF RowsOK, BatchOf
  <2> QED BY <2>1, <2>2, OutboxWrites
<1>4. \A t \in Txs : IsPlatform(t) /\ sub'[t] # "none" => outbox'[BatchOf(t)] = t
  <2> SUFFICES ASSUME NEW t \in Txs, IsPlatform(t), sub'[t] # "none"
               PROVE  outbox'[BatchOf(t)] = t
    OBVIOUS
  <2>1. outbox[BatchOf(t)] = t
    <3>1. CASE sub[t] # "none"
      BY <3>1 DEF RowsOK
    <3>2. CASE sub[t] = "none"
      BY <3>2, <1>1, SubWrites
    <3> QED BY <3>1, <3>2
  <2> QED BY <2>1, <1>2, TxFacts DEF Grows
<1>5. \A t \in Txs : sub'[t] = "confirmed" => chain'[t] = "mined"
  <2> SUFFICES ASSUME NEW t \in Txs, sub'[t] = "confirmed"
               PROVE  chain'[t] = "mined"
    OBVIOUS
  <2>1. chain[t] = "mined"
    <3>1. CASE sub[t] = "confirmed"
      BY <3>1 DEF RowsOK
    <3>2. CASE sub[t] # "confirmed"
      BY <3>2, <1>1, SubWrites
    <3> QED BY <3>1, <3>2
  <2> QED BY <2>1, <1>2 DEF Grows
<1>6. \A b \in Batches : batch'[b].status = "confirmed" => Finalized(b)'
  <2> SUFFICES ASSUME NEW b \in Batches, batch'[b].status = "confirmed"
               PROVE  Finalized(b)'
    OBVIOUS
  <2>1. Finalized(b)
    BY StatusWrites DEF RowsOK
  <2> QED BY <2>1, <1>2 DEF Finalized, Grows
<1>7. \A t \in Txs : IsPlatform(t) /\ chain'[t] # "absent" => outbox'[BatchOf(t)] = t
  <2> SUFFICES ASSUME NEW t \in Txs, IsPlatform(t), chain'[t] # "absent"
               PROVE  outbox'[BatchOf(t)] = t
    OBVIOUS
  <2>1. outbox[BatchOf(t)] = t
    <3>1. CASE chain[t] # "absent"
      BY <3>1 DEF OneTransaction
    <3>2. CASE chain[t] = "absent"
      BY <3>2, <1>1, ChainWrites
    <3> QED BY <3>1, <3>2
  <2> QED BY <2>1, <1>2, TxFacts DEF Grows
<1>9. ASSUME NEW b \in Batches
      PROVE  batch'[b].witnesses <= Cardinality(ConfirmedWitnesses(b)')
  <2>1. /\ Cardinality(ConfirmedWitnesses(b)) \in Nat
        /\ Cardinality(ConfirmedWitnesses(b)') \in Nat
    <3>1. ConfirmedWitnesses(b)' \subseteq Witnesses
      BY DEF ConfirmedWitnesses
    <3> QED BY <3>1, CountTyped, FS_Subset, FS_CardinalityType
  <2>2. Cardinality(ConfirmedWitnesses(b)) <= Cardinality(ConfirmedWitnesses(b)')
    BY <1>2, WitnessesGrow
  <2>3. batch[b].witnesses \in Nat /\ batch'[b].witnesses \in Nat
    BY TypeStep, TypeFacts DEF TypeInv, TypeOK
  <2>4. batch[b].witnesses <= Cardinality(ConfirmedWitnesses(b))
    BY DEF RowsOK
  <2> QED BY <2>1, <2>2, <2>3, <2>4, CountWrites
<1>8. RowsOK'
  BY <1>3, <1>4, <1>5, <1>6, <1>9 DEF RowsOK, IsPlatform, BatchOf
<1> QED
  BY <1>7, <1>8 DEF OneTransaction, IsPlatform, BatchOf
(* The phases at which a caller has no transaction of its own in hand.     *)
Quiet == {"idle", "intake", "resume", "rebuild", "load", "build", "list", "create", "poll", "each"}
Others(c) == \A d \in Callers \ {c} : call'[d] = call[d]

LEMMA TxQuiet ==
  ASSUME NEW c \in Callers, call'[c].at \in Quiet
  PROVE  TxOK(c)'
BY DEF TxOK, Quiet, PerSubmission

LEMMA TxKept ==
  ASSUME TxInv, Grows, NEW c \in Callers, call'[c] = call[c]
  PROVE  TxOK(c)'
<1>1. TxOK(c) /\ (call[c].at \in OnBatch => call[c].batch \in Batches)
  BY CallFacts DEF TxInv
<1>2. \A b : Finalized(b) => Finalized(b)'
  BY DEF Finalized, Grows, IsPlatform, BatchOf
<1>3. Finalized(call[c].batch) => Finalized(call[c].batch)'
  BY <1>2 DEF Finalized, BatchOf, IsPlatform
<1>4. ASSUME call[c].at = "sync", call[c].batch \in Batches,
             call[c].seen <= Cardinality(ConfirmedWitnesses(call[c].batch))
      PROVE  (call[c].seen <= Cardinality(ConfirmedWitnesses(call[c].batch)))'
  <2>1. PICK b \in Batches : call[c].batch = b
    BY <1>4
  <2>2. Cardinality(ConfirmedWitnesses(b)) <= Cardinality(ConfirmedWitnesses(b)')
    BY WitnessesGrow
  <2>3. ConfirmedWitnesses(b)' \subseteq Witnesses /\ call[c].seen \in Nat
    BY CallFacts DEF ConfirmedWitnesses, TxInv, Locals
  <2>4. /\ Cardinality(ConfirmedWitnesses(b)) \in Nat
        /\ Cardinality(ConfirmedWitnesses(b)') \in Nat
    BY <2>3, CountTyped, FS_Subset, FS_CardinalityType
  <2>5. call[c].seen <= Cardinality(ConfirmedWitnesses(b)')
    BY <1>4, <2>1, <2>2, <2>3, <2>4
  <2> QED BY <2>1, <2>5 DEF ConfirmedWitnesses
<1> QED
  BY <1>1, <1>3, <1>4 DEF TxOK, Grows, OnBatch, PerSubmission, BatchOf, ConfirmedWitnesses

(* How the ways to move on change the local variables.                     *)
LEMMA MoveFields ==
  ASSUME TypeInv, NEW c \in Callers
  PROVE  /\ \A x : call' = [call EXCEPT ![c] = x] => call'[c] = x /\ Others(c)
         /\ End(c) => call'[c].at = "idle" /\ Others(c)
         /\ Done(c) => call'[c].at \in {"idle", "each"} /\ Others(c)
         /\ \A phase : Goto(c, phase) =>
              /\ call'[c].at = phase /\ call'[c].tx = call[c].tx
              /\ call'[c].batch = call[c].batch /\ Others(c)
<1>1. call \in [Callers -> Locals]
  BY DEF TypeInv, CallOK
<1>2. \A x : call' = [call EXCEPT ![c] = x] => call'[c] = x /\ Others(c)
  BY <1>1 DEF Others
<1>3. End(c) => call'[c].at = "idle" /\ Others(c)
  BY <1>1, IdleTyped DEF End, Others
<1>4. Done(c) => call'[c].at \in {"idle", "each"} /\ Others(c)
  <2>1. CASE c \in Tickers
    <3>1. Done(c) => call'[c] = [Idle EXCEPT !.at = "each", !.todo = call[c].todo] /\ Others(c)
      BY <1>1, <2>1 DEF Done, Others
    <3> QED BY <3>1 DEF Idle
  <2>2. CASE c \notin Tickers
    BY <1>1, <2>2, IdleTyped DEF Done, Others
  <2> QED BY <2>1, <2>2
<1>5. \A phase : Goto(c, phase) =>
        /\ call'[c].at = phase /\ call'[c].tx = call[c].tx
        /\ call'[c].batch = call[c].batch /\ Others(c)
  <2> SUFFICES ASSUME NEW phase, Goto(c, phase)
               PROVE  /\ call'[c].at = phase /\ call'[c].tx = call[c].tx
                      /\ call'[c].batch = call[c].batch /\ Others(c)
    OBVIOUS
  <2>1. call'[c] = [call[c] EXCEPT !.at = phase] /\ Others(c)
    BY <1>1 DEF Goto, Others
  <2>2. call[c] \in Locals
    BY <1>1
  <2> QED BY <2>1, <2>2 DEF Locals
<1> QED
  BY <1>2, <1>3, <1>4, <1>5

LEMMA QuietStep ==
  ASSUME TypeInv, NEW p \in Callers,
         \/ StartTick(p) \/ IntakeEnds(p) \/ Resume(p) \/ NothingToResume(p) \/ Rebuild(p)
         \/ BroadcastExpired(p) \/ MarkSubmitted(p) \/ NoBuild(p) \/ Build(p) \/ List(p)
         \/ Create(p) \/ CreateConflict(p) \/ Poll(p) \/ EndTick(p) \/ Confirm(p) \/ Sync(p)
         \/ Trouble(p) \/ Crash(p)
  PROVE  TxOK(p)' /\ Others(p)
<1> SUFFICES call'[p].at \in Quiet /\ Others(p)
  BY TxQuiet
<1>0. call[p] \in Locals
  BY CallFacts
<1>1. CASE StartTick(p) \/ IntakeEnds(p) \/ NothingToResume(p) \/ NoBuild(p)
  <2>1. \E phase \in Quiet : Goto(p, phase)
    BY <1>1 DEF StartTick, IntakeEnds, NothingToResume, NoBuild, Quiet
  <2> QED BY <2>1, MoveFields
<1>2. CASE Resume(p)
  <2>1. \E b : call' = [call EXCEPT ![p] = [Idle EXCEPT !.at = "rebuild", !.batch = b,
                                                         !.next = "resume"]]
    BY <1>2 DEF Resume
  <2>2. \E b : call'[p] = [Idle EXCEPT !.at = "rebuild", !.batch = b, !.next = "resume"]
    BY <2>1, MoveFields
  <2>3. Others(p)
    BY <2>1, MoveFields
  <2> QED BY <2>2, <2>3 DEF Idle, Quiet
<1>3. CASE Rebuild(p)
  <2>1. Goto(p, "load") \/ End(p)
    BY <1>3 DEF Rebuild
  <2> QED BY <2>1, MoveFields DEF Quiet
<1>4. CASE BroadcastExpired(p) \/ CreateConflict(p) \/ EndTick(p)
  <2>1. End(p)
    BY <1>4 DEF BroadcastExpired, CreateConflict, EndTick
  <2> QED BY <2>1, MoveFields DEF Quiet
<1>5. CASE MarkSubmitted(p)
  <2>1. call' = [call EXCEPT ![p] = [Idle EXCEPT !.at = call[p].next]] \/ End(p)
    BY <1>5 DEF MarkSubmitted
  <2> QED BY <1>0, <2>1, MoveFields DEF Quiet, Idle, Locals
<1>6. CASE Build(p)
  <2> DEFINE x == [call[p] EXCEPT !.at = "list", !.batch = Tip, !.seen = Len(head)]
  <2>1. call' = [call EXCEPT ![p] = x]
    BY <1>6 DEF Build
  <2>2. x.at \in Quiet
    BY <1>0 DEF Locals, Quiet
  <2> HIDE DEF x
  <2> QED BY <2>1, <2>2, MoveFields
<1>7. CASE List(p)
  <2>1. CASE Goto(p, "poll")
    BY <2>1, MoveFields DEF Quiet
  <2>2. CASE \E leaves : call' = [call EXCEPT ![p].at = "create", ![p].leaves = leaves]
    <3>1. PICK leaves : call' = [call EXCEPT ![p].at = "create", ![p].leaves = leaves]
      BY <2>2
    <3> DEFINE x == [call[p] EXCEPT !.at = "create", !.leaves = leaves]
    <3>2. call' = [call EXCEPT ![p] = x]
      BY <3>1
    <3>3. x.at \in Quiet
      BY <1>0 DEF Locals, Quiet
    <3> HIDE DEF x
    <3> QED BY <3>2, <3>3, MoveFields
  <2> QED BY <1>7, <2>1, <2>2 DEF List
<1>8. CASE Create(p)
  <2>1. \E b : call' = [call EXCEPT ![p] = [Idle EXCEPT !.at = "load", !.batch = b,
                                                         !.next = "poll"]]
    BY <1>8 DEF Create
  <2>2. \E b : call'[p] = [Idle EXCEPT !.at = "load", !.batch = b, !.next = "poll"]
    BY <2>1, MoveFields
  <2>3. Others(p)
    BY <2>1, MoveFields
  <2> QED BY <2>2, <2>3 DEF Idle, Quiet
<1>9. CASE Poll(p)
  <2> DEFINE todo == {[tx |-> t, status |-> sub[t]] : t \in ToReconcile}
             x == [call[p] EXCEPT !.at = "each", !.todo = todo]
  <2>1. call' = [call EXCEPT ![p] = x]
    BY <1>9 DEF Poll
  <2>2. x.at \in Quiet
    BY <1>0 DEF Locals, Quiet
  <2> HIDE DEF x
  <2> QED BY <2>1, <2>2, MoveFields
<1>10. CASE Confirm(p) \/ Sync(p)
  <2>1. Done(p)
    BY <1>10 DEF Confirm, Sync
  <2> QED BY <2>1, MoveFields DEF Quiet
<1>11. CASE Trouble(p)
  <2>1. Done(p) \/ End(p)
    BY <1>11 DEF Trouble
  <2> QED BY <2>1, MoveFields DEF Quiet
<1>12. CASE Crash(p)
  BY <1>12, MoveFields, IdleTyped DEF Crash, Quiet
<1> QED
  BY <1>1, <1>2, <1>3, <1>4, <1>5, <1>6, <1>7, <1>8, <1>9, <1>10, <1>11, <1>12
(* The submission of one batch: prepared, kept, sent, marked.              *)
LEMMA SubmitStep ==
  ASSUME TxInv, Grows, NEW p \in Tickers,
         \/ Load(p) \/ SaveCheck(p) \/ Save(p) \/ Renew(p) \/ Broadcast(p) \/ MarkCheck(p)
  PROVE  TxOK(p)' /\ Others(p)
<1> USE DEF TxInv
<1> p \in Callers
  BY DEF Callers
<1>0. /\ call[p] \in Locals
      /\ call[p].at \in OnBatch => call[p].batch \in Batches
      /\ outbox \in [Batches -> TxOrNobody]
      /\ TxOK(p)
  BY CallFacts, TypeFacts
<1>1. CASE Load(p)
  <2> DEFINE b == call[p].batch
             a == IF outbox[b] = Nobody THEN "check" ELSE "renew"
             t == IF outbox[b] = Nobody THEN <<b, p>> ELSE outbox[b]
             x == [call[p] EXCEPT !.at = a, !.tx = t]
  <2>1. call' = [call EXCEPT ![p] = x] /\ outbox' = outbox
    BY <1>1 DEF Load, OnlyCall
  <2>2. x.at = a /\ x.tx = t /\ x.batch = b
    BY <1>0 DEF Locals
  <2> HIDE DEF x
  <2>3. call'[p] = x /\ Others(p)
    BY <2>1, MoveFields
  <2>4. CASE outbox[b] = Nobody
    BY <2>2, <2>3, <2>4 DEF TxOK, PerSubmission
  <2>5. CASE outbox[b] # Nobody
    BY <2>1, <2>2, <2>3, <2>5 DEF TxOK, PerSubmission
  <2> QED BY <2>3, <2>4, <2>5
<1>2. CASE SaveCheck(p)
  <2>1. CASE Goto(p, "save")
    BY <1>0, <1>2, <2>1, MoveFields DEF SaveCheck, At, TxOK, PerSubmission
  <2>2. CASE End(p)
    BY <2>2, MoveFields, TxQuiet DEF Quiet
  <2> QED BY <1>2, <2>1, <2>2 DEF SaveCheck
<1>3. CASE Save(p)
  <2> DEFINE b == call[p].batch
             t == Winner(p)
             x == [call[p] EXCEPT !.at = "renew", !.tx = t]
  <2>1. call' = [call EXCEPT ![p] = x] /\ outbox' = [outbox EXCEPT ![b] = t]
    BY <1>3 DEF Save
  <2>2. b \in Batches /\ call[p].tx = <<b, p>>
    BY <1>0, <1>3 DEF Save, At, TxOK, OnBatch
  <2>3. t # Nobody
    BY <2>2, OwnTx, TxFacts DEF Winner
  <2>4. outbox'[b] = t
    BY <1>0, <2>1, <2>2
  <2>5. call'[p] = x /\ Others(p)
    BY <2>1, MoveFields
  <2>6. x.at = "renew" /\ x.tx = t /\ x.batch = b
    BY <1>0 DEF Locals
  <2> HIDE DEF x, t
  <2> QED BY <2>3, <2>4, <2>5, <2>6 DEF TxOK, PerSubmission
<1>4. CASE Renew(p) \/ Broadcast(p) \/ MarkCheck(p)
  <2>1. call[p].at \in {"renew", "broadcast", "marking"} /\ outbox' = outbox
    BY <1>4 DEF Renew, Broadcast, MarkCheck, At
  <2>2. CASE \E phase \in {"broadcast", "marking", "mark"} : Goto(p, phase)
    BY <1>0, <2>1, <2>2, MoveFields DEF TxOK, PerSubmission
  <2>3. CASE End(p)
    BY <2>3, MoveFields, TxQuiet DEF Quiet
  <2> QED BY <1>4, <2>2, <2>3 DEF Renew, Broadcast, MarkCheck
<1> QED
  BY <1>1, <1>2, <1>3, <1>4

(* The work on one submission, by a poll or by a request.                  *)
LEMMA ReconcileStep ==
  ASSUME TxInv, Grows, NEW c \in Callers,
         Each(c) \/ Ask(c) \/ Settle(c) \/ ConfirmCheck(c) \/ Count(c) \/ Record(c)
  PROVE  TxOK(c)' /\ Others(c)
<1> USE DEF TxInv
<1>0. /\ call[c] \in Locals
      /\ call[c].at \in OnBatch => call[c].batch \in Batches
      /\ TxOK(c)
  BY CallFacts
<1>1. ASSUME Done(c)
      PROVE  TxOK(c)' /\ Others(c)
  BY <1>1, MoveFields, TxQuiet DEF Quiet
<1>2. CASE Each(c)
  <2>1. PICK s \in call[c].todo :
          LET phase == IF s.status = "pending" THEN "ask"
                       ELSE IF IsPlatform(s.tx) THEN "confirming" ELSE "count"
          IN call' = [call EXCEPT ![c].at = phase, ![c].tx = s.tx,
                                  ![c].batch = BatchOf(s.tx), ![c].todo = @ \ {s}]
    BY <1>2 DEF Each
  <2> DEFINE phase == IF s.status = "pending" THEN "ask"
                      ELSE IF IsPlatform(s.tx) THEN "confirming" ELSE "count"
             b == BatchOf(s.tx)
             x == [call[c] EXCEPT !.at = phase, !.tx = s.tx, !.batch = b, !.todo = @ \ {s}]
  <2>2. call' = [call EXCEPT ![c] = x]
    BY <2>1
  <2>3. s.tx \in Txs /\ phase \in {"ask", "confirming", "count"}
    BY <1>0 DEF Locals
  <2> HIDE DEF phase
  <2>4. x.at = phase /\ x.tx = s.tx /\ x.batch = b
    BY <1>0 DEF Locals
  <2> HIDE DEF x
  <2>5. call'[c] = x /\ Others(c)
    BY <2>2, MoveFields
  <2> QED BY <2>3, <2>4, <2>5 DEF TxOK, PerSubmission, BatchOf
<1>3. CASE Ask(c)
  <2>1. CASE \E v \in {"confirmed", "failed"} :
               /\ v = "confirmed" => chain[call[c].tx] = "mined"
               /\ call' = [call EXCEPT ![c].at = "settle", ![c].verdict = v]
    <3>1. PICK v \in {"confirmed", "failed"} :
               /\ v = "confirmed" => chain[call[c].tx] = "mined"
               /\ call' = [call EXCEPT ![c].at = "settle", ![c].verdict = v]
      BY <2>1
    <3> DEFINE x == [call[c] EXCEPT !.at = "settle", !.verdict = v]
    <3>2. call' = [call EXCEPT ![c] = x]
      BY <3>1
    <3>3. x.at = "settle" /\ x.verdict = v /\ x.tx = call[c].tx /\ x.batch = call[c].batch
      BY <1>0 DEF Locals
    <3>4. call[c].at = "ask" /\ chain' = chain
      BY <1>3 DEF Ask, At, OnlyCall
    <3>5. call[c].tx \in Txs /\ BatchOf(call[c].tx) = call[c].batch
      BY <1>0, <3>4 DEF TxOK, PerSubmission
    <3> HIDE DEF x
    <3>6. call'[c] = x /\ Others(c)
      BY <3>2, MoveFields
    <3> QED BY <3>1, <3>3, <3>4, <3>5, <3>6 DEF TxOK, PerSubmission, BatchOf
  <2> QED BY <1>1, <1>3, <2>1 DEF Ask
<1>4. CASE Settle(c)
  <2>1. CASE \E phase \in {"confirming", "count"} : Goto(c, phase)
    BY <1>0, <1>4, <2>1, MoveFields DEF Settle, At, TxOK, PerSubmission, BatchOf
  <2> QED BY <1>1, <1>4, <2>1 DEF Settle
<1>5. CASE ConfirmCheck(c)
  <2>1. CASE Goto(c, "confirm") /\ Finalized(call[c].batch)
    <3>1. \A b : Finalized(b) => Finalized(b)'
      BY DEF Finalized, Grows, IsPlatform, BatchOf
    <3>2. Finalized(call[c].batch)'
      BY <2>1, <3>1, MoveFields DEF Finalized, BatchOf, IsPlatform
    <3> QED BY <1>0, <1>5, <2>1, <3>2, MoveFields
            DEF ConfirmCheck, At, TxOK, PerSubmission, BatchOf
  <2> QED BY <1>1, <1>5, <2>1 DEF ConfirmCheck, Finalized, SubmissionsOf
<1>6. CASE Count(c)
  <2> DEFINE n == Cardinality(ConfirmedWitnesses(call[c].batch))
             x == [call[c] EXCEPT !.at = "sync", !.seen = n]
  <2>1. call' = [call EXCEPT ![c] = x]
    BY <1>6 DEF Count
  <2>2. x.at = "sync" /\ x.tx = call[c].tx /\ x.batch = call[c].batch /\ x.seen = n
    BY <1>0 DEF Locals
  <2> HIDE DEF x
  <2>3. call'[c] = x /\ Others(c)
    BY <2>1, MoveFields
  <2>4. ConfirmedWitnesses(call[c].batch)' = ConfirmedWitnesses(call[c].batch)
    BY <1>6, <2>2, <2>3 DEF ConfirmedWitnesses, Count, OnlyCall
  <2>5. n \in Nat /\ n <= n
    BY CountTyped
  <2>6. (call[c].seen <= Cardinality(ConfirmedWitnesses(call[c].batch)))'
    BY <2>2, <2>3, <2>4, <2>5 DEF ConfirmedWitnesses
  <2> HIDE DEF n
  <2> QED BY <1>0, <1>6, <2>2, <2>3, <2>6
          DEF Count, At, TxOK, PerSubmission, BatchOf
<1>7. CASE Record(c)
  <2>1. CASE Goto(c, "ask")
    <3>1. call[c].batch \in Batches /\ call[c].tx = <<call[c].batch, c>>
      BY <1>0, <1>7 DEF Record, At, TxOK, OnBatch
    <3>2. call[c].tx \in Txs /\ BatchOf(call[c].tx) = call[c].batch
      BY <3>1, OwnTx
    <3> QED BY <2>1, <3>2, MoveFields DEF TxOK, PerSubmission, BatchOf
  <2> QED BY <1>1, <1>7, <2>1 DEF Record
<1> QED
  BY <1>2, <1>3, <1>4, <1>5, <1>6, <1>7

LEMMA WitnessStep ==
  ASSUME TxInv, NEW w \in Witnesses, NEW b \in Batches, WitnessGates(w, b)
  PROVE  TxOK(w)' /\ Others(w)
<1> DEFINE x == [Idle EXCEPT !.at = "record", !.batch = b, !.tx = <<b, w>>]
<1>1. call'[w] = x /\ Others(w)
  BY MoveFields DEF WitnessGates, Callers, TxInv
<1>2. x.at = "record" /\ x.batch = b /\ x.tx = <<b, w>>
  BY DEF Idle
<1> HIDE DEF x
<1> QED
  BY <1>1, <1>2 DEF TxOK, PerSubmission

LEMMA TxStep == TxInv /\ [Next]_vars => TxInv'
<1> SUFFICES ASSUME TxInv, [Next]_vars
             PROVE  TxInv'
  OBVIOUS
<1>1. Grows /\ TypeInv'
  BY Growth, TypeStep DEF TxInv
<1>2. RowsOK' /\ OneTransaction'
  BY RowsStep
<1>3. ASSUME NEW c \in Callers, TxOK(c)', Others(c)
      PROVE  \A d \in Callers : TxOK(d)'
  BY <1>1, <1>3, TxKept DEF Others
<1>4. ASSUME UNCHANGED call
      PROVE  \A d \in Callers : TxOK(d)'
  BY <1>1, <1>4, TxKept
<1>5. ASSUME NEW p \in Tickers, TickStep(p)
      PROVE  TxOK(p)' /\ Others(p)
  <2> p \in Callers
    BY DEF Callers
  <2>1. CASE Submit(p)
    BY <1>1, <2>1, SubmitStep, QuietStep DEF Submit, TxInv
  <2>2. CASE Reconcile(p)
    BY <1>1, <2>2, ReconcileStep, QuietStep DEF Reconcile, TxInv
  <2> QED BY <1>1, <1>5, <2>1, <2>2, ReconcileStep, QuietStep DEF TickStep, TxInv
<1>6. CASE Tick
  <2>1. PICK p \in Tickers : StartTick(p) \/ TickStep(p) \/ \E r \in Records : Intake(p, r)
    BY <1>6 DEF Tick
  <2> p \in Callers
    BY DEF Callers
  <2>2. CASE StartTick(p)
    BY <1>1, <1>2, <1>3, <2>2, QuietStep DEF TxInv
  <2>3. CASE TickStep(p)
    BY <1>1, <1>2, <1>3, <1>5, <2>3 DEF TxInv
  <2>4. CASE \E r \in Records : Intake(p, r)
    BY <1>1, <1>2, <1>4, <2>4 DEF TxInv, Intake
  <2> QED BY <2>1, <2>2, <2>3, <2>4
<1>7. CASE Witness
  <2>1. PICK w \in Witnesses :
          (\E b \in Batches : WitnessGates(w, b)) \/ Record(w) \/ Reconcile(w)
    BY <1>7 DEF Witness
  <2> w \in Callers
    BY DEF Callers
  <2>2. TxOK(w)' /\ Others(w)
    BY <1>1, <2>1, WitnessStep, ReconcileStep, QuietStep DEF Reconcile, TxInv
  <2> QED BY <1>1, <1>2, <1>3, <2>2 DEF TxInv
<1>8. CASE Operate \/ Chain \/ UNCHANGED vars
  <2>1. UNCHANGED call
    BY <1>8 DEF Operate, Abandon, AbandonCheck, AbandonConflict, Chain, Decide, Outdate, vars
  <2> QED BY <1>1, <1>2, <1>4, <2>1 DEF TxInv
<1>9. CASE Fail
  <2>1. PICK p \in Tickers : Trouble(p) \/ Crash(p) \/ Overrun(p) \/ Expire(p)
    BY <1>9 DEF Fail
  <2> p \in Callers
    BY DEF Callers
  <2>2. CASE Trouble(p) \/ Crash(p)
    BY <1>1, <1>2, <1>3, <2>2, QuietStep DEF TxInv
  <2>3. CASE Overrun(p) \/ Expire(p)
    BY <1>1, <1>2, <1>4, <2>3 DEF TxInv, Overrun, Expire
  <2> QED BY <2>1, <2>2, <2>3
<1> QED
  BY <1>6, <1>7, <1>8, <1>9 DEF Next

LEMMA TxInit == Init => TxInv
<1> SUFFICES ASSUME Init
             PROVE  TxInv
  OBVIOUS
<1>1. \A c \in Callers : TxOK(c)
  BY DEF Init, TxOK, Idle, PerSubmission
<1>2. RowsOK
  <2>1. \A b \in Batches : /\ batch[b].status = "none" /\ batch[b].witnesses = 0
                           /\ 0 <= Cardinality(ConfirmedWitnesses(b))
    BY CountTyped DEF Init, NewBatch
  <2> QED BY <2>1, TxFacts DEF Init, RowsOK
<1>3. OneTransaction
  BY DEF Init, OneTransaction
<1> QED
  BY <1>1, <1>2, <1>3, TypeInit DEF TxInv

\* Whoever signs, retries, loses its lease or crashes in between, at most one
\* platform transaction of a batch is ever sent, and it was kept in the outbox
\* before (savePreparedSubmission, broadcastPreparedRoot).
THEOREM SingleTransaction == Spec => []OneTransaction
<1>1. TxInv => OneTransaction
  BY DEF TxInv
<1> QED
  BY TxInit, TxStep, <1>1, PTL DEF Spec

\* What the tables call final is final on the chain: a confirmed batch has its
\* own kept transaction there, and its witness count promises no witness who is
\* not (updateSubmissionStatus, markBatchConfirmed, syncWitnessCount).
THEOREM Finality == Spec => []FinalOnly
<1>1. TxInv => ConfirmedIsMined
  <2> SUFFICES ASSUME TxInv, NEW b \in Batches, batch[b].status = "confirmed"
               PROVE  /\ outbox[b] # Nobody /\ chain[outbox[b]] = "mined"
                      /\ sub[outbox[b]] = "confirmed"
    BY DEF ConfirmedIsMined
  <2>1. PICK t \in Txs : BatchOf(t) = b /\ IsPlatform(t) /\ sub[t] = "confirmed"
    BY DEF TxInv, RowsOK, Finalized
  <2> QED BY <2>1, TxFacts DEF TxInv, RowsOK
<1>2. TxInv => CountNotInflated
  <2> SUFFICES ASSUME TxInv, NEW b \in Batches
               PROVE  batch[b].witnesses
                        <= Cardinality({w \in Witnesses : chain[<<b, w>>] = "mined"})
    BY DEF CountNotInflated
  <2> DEFINE mined == {w \in Witnesses : chain[<<b, w>>] = "mined"}
  <2>1. ConfirmedWitnesses(b) \subseteq mined
    BY OwnTx DEF ConfirmedWitnesses, TxInv, RowsOK, Callers
  <2>2. /\ IsFiniteSet(mined) /\ Cardinality(mined) \in Nat
        /\ Cardinality(ConfirmedWitnesses(b)) \in Nat
    BY CountTyped, FS_Subset, FS_CardinalityType
  <2>3. Cardinality(ConfirmedWitnesses(b)) <= Cardinality(mined)
    BY <2>1, <2>2, FS_Subset
  <2>4. batch[b].witnesses \in Nat
    BY DEF TxInv, TypeInv, TypeOK
  <2>5. batch[b].witnesses <= Cardinality(ConfirmedWitnesses(b))
    BY DEF TxInv, RowsOK
  <2> QED BY <2>2, <2>3, <2>4, <2>5
<1>3. TxInv => FinalOnly
  BY <1>1, <1>2 DEF FinalOnly
<1> QED
  BY TxInit, TxStep, <1>3, PTL DEF Spec
-----------------------------------------------------------------------------
(* The log of batches.  Batches are numbered in the order they are built,  *)
(* and a batch whose submission is confirmed is not abandoned.             *)
Contiguous ==
  \A a, b \in Batches : a < b /\ batch[b].status # "none" => batch[a].status # "none"

LogInv == TxInv /\ Contiguous /\ LogIsLinear /\ LeavesBound

(* A step that only settles batches: submitted, confirmed, counted.        *)
Settled(b) ==
  /\ batch'[b].prev = batch[b].prev /\ batch'[b].leaves = batch[b].leaves
  /\ batch'[b].status = "none" <=> batch[b].status = "none"
  /\ Live(b)' <=> Live(b)
  /\ batch[b].status = "confirmed" => batch'[b].status = "confirmed"

LEMMA BatchSteps ==
  ASSUME TypeInv, [Next]_vars
  PROVE  \/ head' = head /\ \A b \in Batches : Settled(b)
         \/ \E p \in Tickers : Create(p)
         \/ \E o \in Operators : Abandon(o)
<1> SUFFICES ASSUME ~\E p \in Tickers : Create(p), ~\E o \in Operators : Abandon(o),
                    NEW a \in Batches
             PROVE  Settled(a)
  BY Frames
<1>1. batch \in [Batches -> BatchRow]
  BY TypeFacts
<1>2. CASE batch' = batch
  BY <1>2 DEF Settled, Live
<1>3. CASE \E p \in Tickers : MarkSubmitted(p)
  <2>1. PICK p \in Tickers : MarkSubmitted(p)
    BY <1>3
  <2> DEFINE b == call[p].batch
  <2>2. \/ batch' = batch
        \/ batch[b].status = "built" /\ batch' = [batch EXCEPT ![b].status = "submitted"]
    BY <2>1 DEF MarkSubmitted
  <2> HIDE DEF b
  <2> QED BY <1>1, <2>2 DEF Settled, Live, BatchRow
<1>4. CASE \E p \in Tickers : Confirm(p)
  <2>1. PICK p \in Tickers : Confirm(p)
    BY <1>4
  <2> DEFINE b == call[p].batch
  <2>2. \/ batch' = batch
        \/ batch[b].status = "submitted" /\ batch' = [batch EXCEPT ![b].status = "confirmed"]
    BY <2>1 DEF Confirm
  <2> HIDE DEF b
  <2> QED BY <1>1, <2>2 DEF Settled, Live, BatchRow
<1>5. CASE \E c \in Callers : Sync(c)
  <2>1. PICK c \in Callers : Sync(c)
    BY <1>5
  <2>2. batch' = [batch EXCEPT ![call[c].batch].witnesses = call[c].seen]
    BY <2>1 DEF Sync
  <2> QED BY <1>1, <2>2 DEF Settled, Live, BatchRow
<1> QED
  BY <1>2, <1>3, <1>4, <1>5, Frames

(* The records follow: only Create and Abandon bind or free one.           *)
LEMMA BoundSteps ==
  ASSUME TypeInv, [Next]_vars, NEW b \in Batches
  PROVE  \/ Bound(b)' = Bound(b)
         \/ \E p \in Tickers : Create(p)
         \/ \E o \in Operators : Abandon(o)
<1>1. rec \in [Records -> Batches \cup {Unknown, NoBatch}]
  BY TypeFacts
<1>2. CASE rec' = rec
  BY <1>2 DEF Bound
<1>3. CASE \E p \in Tickers, r \in Records : Intake(p, r)
  <2>1. PICK r \in Records : rec[r] = Unknown /\ rec' = [rec EXCEPT ![r] = NoBatch]
    BY <1>3 DEF Intake
  <2>2. b # Unknown /\ b # NoBatch
    BY DEF Batches, Unknown, NoBatch
  <2> QED BY <1>1, <2>1, <2>2 DEF Bound
<1> QED
  BY <1>2, <1>3, Frames

LEMMA CreateFacts ==
  ASSUME TypeInv, Contiguous, NEW p \in Tickers, Create(p)
  PROVE  \E b \in Batches :
           /\ batch[b].status = "none" /\ \A a \in Batches : batch[a].status # "none" <=> a < b
           /\ batch'[b].status = "built" /\ batch'[b].prev = Tip
           /\ batch'[b].leaves = call[p].leaves /\ call[p].leaves \subseteq PendingRecords
           /\ \A a \in Batches \ {b} : batch'[a] = batch[a]
           /\ rec' = [r \in Records |-> IF r \in call[p].leaves THEN b ELSE rec[r]]
           /\ Tip' = b /\ IsConfirmed(Tip)
<1>1. /\ batch \in [Batches -> BatchRow] /\ head \in Seq(Batches \cup {NoBatch})
  BY TypeFacts
<1> DEFINE row == [NewBatch EXCEPT !.status = "built",
                                   !.prev = call[p].batch, !.leaves = call[p].leaves]
<1>2. PICK b \in Batches :
        /\ batch[b].status = "none" /\ \A a \in 1..(b - 1) : batch[a].status # "none"
        /\ batch' = [batch EXCEPT ![b] = row]
        /\ rec' = [r \in Records |-> IF r \in call[p].leaves THEN b ELSE rec[r]]
        /\ head' = Append(head, b)
  BY DEF Create
<1>3. row.status = "built" /\ row.prev = call[p].batch /\ row.leaves = call[p].leaves
  BY DEF NewBatch
<1>4. call[p].batch = Tip /\ IsConfirmed(Tip) /\ call[p].leaves \subseteq PendingRecords
  BY DEF Create, CreateAccepted
<1> HIDE DEF row
<1>5. Tip' = b
  BY <1>1, <1>2 DEF Tip, Last
<1>6. \A a \in Batches : batch[a].status # "none" <=> a < b
  BY <1>2 DEF Contiguous, Batches
<1> QED
  BY <1>1, <1>2, <1>3, <1>4, <1>5, <1>6

LEMMA AbandonFacts ==
  ASSUME LogInv, NEW o \in Operators, Abandon(o)
  PROVE  \E b \in Batches :
           /\ Tip = b /\ Unfinished(b) /\ batch'[b].status = "failed"
           /\ Tip' = batch[b].prev /\ batch'[b].prev = batch[b].prev
           /\ \A a \in Batches \ {b} : batch'[a] = batch[a]
           /\ rec' = [r \in Records |-> IF rec[r] = b THEN NoBatch ELSE rec[r]]
<1> DEFINE b == abandon[o].batch
<1>1. /\ batch \in [Batches -> BatchRow] /\ head \in Seq(Batches \cup {NoBatch})
      /\ b \in Batches
  BY TypeFacts DEF LogInv, TxInv, Abandon, AbandonOK
<1>2. /\ AbandonAccepted(b, abandon[o].version)
      /\ rec' = [r \in Records |-> IF rec[r] = b THEN NoBatch ELSE rec[r]]
      /\ head' = Append(head, batch[b].prev)
      /\ batch' = [batch EXCEPT ![b].status = IF Unfinished(b) THEN "failed" ELSE @]
  BY DEF Abandon
<1> HIDE DEF b
<1>3. Tip = b /\ Live(b)
  BY <1>1, <1>2 DEF AbandonAccepted, LogInv, LogIsLinear, IsLatest, LiveBatches, Batches, NoBatch
<1>4. ~Finalized(b)
  BY <1>2 DEF AbandonAccepted, Finalized, SubmissionsOf
<1>5. Unfinished(b)
  BY <1>1, <1>3, <1>4 DEF Live, Unfinished, LogInv, TxInv, RowsOK
<1>6. Tip' = batch[b].prev
  BY <1>1, <1>2 DEF Tip, Last, BatchRow
<1>7. batch' = [batch EXCEPT ![b].status = "failed"]
  BY <1>2, <1>5
<1> QED
  BY <1>1, <1>2, <1>3, <1>5, <1>6, <1>7 DEF BatchRow
LEMMA SettledKeepsLog ==
  ASSUME LogInv, head' = head, \A b \in Batches : Settled(b)
  PROVE  Contiguous' /\ LogIsLinear'
<1> USE DEF LogInv
<1>1. Contiguous'
  BY DEF Contiguous, Settled
<1>2. LiveBatches' = LiveBatches /\ Tip' = Tip
  BY DEF LiveBatches, Settled, Tip
<1>3. IsLatest(Tip, LiveBatches)'
  BY <1>2 DEF LogIsLinear, IsLatest
<1>4. ASSUME NEW b \in LiveBatches
      PROVE  /\ IsLatest(batch[b].prev, {a \in LiveBatches : a < b})'
             /\ IsConfirmed(batch[b].prev)'
  <2>1. b \in Batches /\ Settled(b)
    BY DEF LiveBatches
  <2>2. batch'[b].prev = batch[b].prev
    BY <2>1 DEF Settled
  <2>3. /\ IsLatest(batch[b].prev, {a \in LiveBatches : a < b})
        /\ IsConfirmed(batch[b].prev)
    BY DEF LogIsLinear
  <2>4. batch[b].prev \in Batches \cup {NoBatch}
    BY <2>1, TypeFacts DEF TxInv, BatchRow
  <2>5. IsLatest(batch[b].prev, {a \in LiveBatches : a < b})'
    BY <1>2, <2>2, <2>3 DEF IsLatest
  <2>6. IsConfirmed(batch[b].prev)'
    BY <2>2, <2>3, <2>4 DEF IsConfirmed, Settled
  <2> QED BY <2>5, <2>6
<1> QED
  BY <1>1, <1>2, <1>3, <1>4 DEF LogIsLinear

LEMMA CreateKeepsLog ==
  ASSUME LogInv, NEW p \in Tickers, Create(p)
  PROVE  Contiguous' /\ LogIsLinear' /\ LeavesBound'
<1> USE DEF LogInv, TxInv
<1>0. /\ batch \in [Batches -> BatchRow]
      /\ rec \in [Records -> Batches \cup {Unknown, NoBatch}]
  BY TypeFacts
<1>1. PICK b \in Batches :
        /\ batch[b].status = "none" /\ \A a \in Batches : batch[a].status # "none" <=> a < b
        /\ batch'[b].status = "built" /\ batch'[b].prev = Tip
        /\ batch'[b].leaves = call[p].leaves /\ call[p].leaves \subseteq PendingRecords
        /\ \A a \in Batches \ {b} : batch'[a] = batch[a]
        /\ rec' = [r \in Records |-> IF r \in call[p].leaves THEN b ELSE rec[r]]
        /\ Tip' = b /\ IsConfirmed(Tip)
  BY CreateFacts
<1>2. Contiguous'
  <2>1. \A a \in Batches : batch'[a].status # "none" <=> a <= b
    BY <1>1 DEF Batches
  <2> QED BY <2>1 DEF Contiguous, Batches
<1>3. LiveBatches' = LiveBatches \cup {b} /\ \A a \in LiveBatches : a < b
  BY <1>1 DEF LiveBatches, Live
<1>4. IsLatest(Tip, LiveBatches)'
  <2>1. \A a \in LiveBatches' : a <= b
    BY <1>3 DEF LiveBatches, Batches
  <2> QED BY <1>1, <1>3, <2>1 DEF IsLatest
<1>5. ASSUME NEW c \in LiveBatches'
      PROVE  /\ IsLatest(batch[c].prev, {a \in LiveBatches : a < c})'
             /\ IsConfirmed(batch[c].prev)'
  <2>1. CASE c = b
    <3>1. {a \in LiveBatches : a < c}' = LiveBatches
      BY <1>1, <1>3, <2>1 DEF LiveBatches, Batches
    <3>2. IsLatest(batch[c].prev, {a \in LiveBatches : a < c})'
      BY <1>1, <2>1, <3>1 DEF LogIsLinear, IsLatest
    <3>3. Tip # b /\ Tip \in Batches \cup {NoBatch}
      BY <1>1, TipTyped DEF IsConfirmed, Batches, NoBatch
    <3>4. IsConfirmed(batch[c].prev)'
      BY <1>1, <2>1, <3>3 DEF IsConfirmed
    <3> QED BY <3>2, <3>4
  <2>2. CASE c # b
    <3>1. c \in LiveBatches /\ c \in Batches /\ c < b /\ batch'[c] = batch[c]
      BY <1>1, <1>3, <2>2 DEF LiveBatches
    <3>2. {a \in LiveBatches : a < c}' = {a \in LiveBatches : a < c}
      BY <1>3, <3>1 DEF LiveBatches, Batches
    <3>3. IsLatest(batch[c].prev, {a \in LiveBatches : a < c}) /\ IsConfirmed(batch[c].prev)
      BY <3>1 DEF LogIsLinear
    <3>4. IsLatest(batch[c].prev, {a \in LiveBatches : a < c})'
      BY <3>1, <3>2, <3>3 DEF IsLatest
    <3>5. batch[c].prev # b /\ batch[c].prev \in Batches \cup {NoBatch}
      BY <1>0, <1>1, <3>1, <3>3 DEF IsConfirmed, BatchRow, Batches, NoBatch
    <3>6. IsConfirmed(batch[c].prev)'
      BY <1>1, <3>1, <3>3, <3>5 DEF IsConfirmed
    <3> QED BY <3>4, <3>6
  <2> QED BY <2>1, <2>2
<1>6. LogIsLinear'
  BY <1>4, <1>5 DEF LogIsLinear
<1>7. ASSUME NEW c \in Batches
      PROVE  (Bound(c) = IF Live(c) THEN batch[c].leaves ELSE {})'
  <2>1. \A r \in call[p].leaves : r \in Records /\ rec[r] = NoBatch
    BY <1>1 DEF PendingRecords
  <2>2. c # NoBatch /\ Bound(c) = IF Live(c) THEN batch[c].leaves ELSE {}
    BY DEF LeavesBound, Batches, NoBatch
  <2>3. CASE c = b
    <3>1. Bound(c) = {} /\ Live(c)'
      BY <1>1, <2>2, <2>3 DEF Live
    <3>2. Bound(c)' = call[p].leaves
      BY <1>1, <2>1, <2>3, <3>1 DEF Bound
    <3> QED BY <1>1, <2>3, <3>1, <3>2
  <2>4. CASE c # b
    <3>1. Bound(c)' = Bound(c)
      BY <1>0, <1>1, <2>1, <2>2, <2>4 DEF Bound
    <3> QED BY <1>1, <2>2, <2>4, <3>1 DEF Live
  <2> QED BY <2>3, <2>4
<1> QED
  BY <1>2, <1>6, <1>7 DEF LeavesBound

LEMMA AbandonKeepsLog ==
  ASSUME LogInv, NEW o \in Operators, Abandon(o)
  PROVE  Contiguous' /\ LogIsLinear' /\ LeavesBound'
<1> USE DEF LogInv, TxInv
<1>0. /\ batch \in [Batches -> BatchRow]
      /\ rec \in [Records -> Batches \cup {Unknown, NoBatch}]
  BY TypeFacts
<1>1. PICK b \in Batches :
        /\ Tip = b /\ Unfinished(b) /\ batch'[b].status = "failed"
        /\ Tip' = batch[b].prev /\ batch'[b].prev = batch[b].prev
        /\ \A a \in Batches \ {b} : batch'[a] = batch[a]
        /\ rec' = [r \in Records |-> IF rec[r] = b THEN NoBatch ELSE rec[r]]
  BY AbandonFacts
<1>2. Contiguous'
  <2>1. \A a \in Batches : batch'[a].status = "none" <=> batch[a].status = "none"
    BY <1>1 DEF Unfinished
  <2> QED BY <2>1 DEF Contiguous
<1>3. b \in LiveBatches /\ LiveBatches' = LiveBatches \ {b}
  BY <1>1 DEF LiveBatches, Live, Unfinished
<1>4. \A a \in LiveBatches : a \in Batches /\ a <= b
  BY <1>1 DEF LogIsLinear, IsLatest, LiveBatches
<1>5. LiveBatches' = {a \in LiveBatches : a < b}
  <2>1. \A a \in LiveBatches : a # b <=> a < b
    BY <1>4 DEF Batches
  <2> QED BY <1>3, <2>1
<1>6. IsLatest(Tip, LiveBatches)'
  BY <1>1, <1>3, <1>5 DEF LogIsLinear, IsLatest
<1>7. ASSUME NEW c \in LiveBatches'
      PROVE  /\ IsLatest(batch[c].prev, {a \in LiveBatches : a < c})'
             /\ IsConfirmed(batch[c].prev)'
  <2>1. c \in LiveBatches /\ c \in Batches /\ c < b /\ batch'[c] = batch[c]
    BY <1>1, <1>3, <1>4, <1>5
  <2>2. {a \in LiveBatches : a < c}' = {a \in LiveBatches : a < c}
    BY <1>3, <2>1 DEF Batches
  <2>3. IsLatest(batch[c].prev, {a \in LiveBatches : a < c}) /\ IsConfirmed(batch[c].prev)
    BY <2>1 DEF LogIsLinear
  <2>4. IsLatest(batch[c].prev, {a \in LiveBatches : a < c})'
    BY <2>1, <2>2, <2>3 DEF IsLatest
  <2>5. batch[c].prev # b /\ batch[c].prev \in Batches \cup {NoBatch}
    BY <1>0, <1>1, <2>1, <2>3 DEF IsConfirmed, BatchRow, Unfinished, Batches, NoBatch
  <2>6. IsConfirmed(batch[c].prev)'
    BY <1>1, <2>1, <2>3, <2>5 DEF IsConfirmed
  <2> QED BY <2>4, <2>6
<1>8. LogIsLinear'
  BY <1>6, <1>7 DEF LogIsLinear
<1>9. ASSUME NEW c \in Batches
      PROVE  (Bound(c) = IF Live(c) THEN batch[c].leaves ELSE {})'
  <2>1. c # NoBatch /\ Bound(c) = IF Live(c) THEN batch[c].leaves ELSE {}
    BY DEF LeavesBound, Batches, NoBatch
  <2>2. CASE c = b
    <3>1. Bound(c)' = {}
      BY <1>1, <2>1, <2>2 DEF Bound
    <3> QED BY <1>1, <2>2, <3>1 DEF Live
  <2>3. CASE c # b
    <3>1. Bound(c)' = Bound(c)
      BY <1>0, <1>1, <2>1, <2>3 DEF Bound
    <3> QED BY <1>1, <2>1, <2>3, <3>1 DEF Live
  <2> QED BY <2>2, <2>3
<1> QED
  BY <1>2, <1>8, <1>9 DEF LeavesBound

LEMMA LogStep == LogInv /\ [Next]_vars => LogInv'
<1> SUFFICES ASSUME LogInv, [Next]_vars
             PROVE  LogInv'
  OBVIOUS
<1>1. TxInv'
  BY TxStep DEF LogInv
<1>2. CASE \E p \in Tickers : Create(p)
  BY <1>1, <1>2, CreateKeepsLog DEF LogInv
<1>3. CASE \E o \in Operators : Abandon(o)
  BY <1>1, <1>3, AbandonKeepsLog DEF LogInv
<1>4. CASE ~(\E p \in Tickers : Create(p)) /\ ~(\E o \in Operators : Abandon(o))
  <2>1. head' = head /\ \A b \in Batches : Settled(b)
    BY <1>4, BatchSteps DEF LogInv, TxInv
  <2>2. \A b \in Batches : Bound(b)' = Bound(b)
    BY <1>4, BoundSteps DEF LogInv, TxInv
  <2>3. LeavesBound'
    BY <2>1, <2>2 DEF LogInv, LeavesBound, Settled
  <2> QED BY <1>1, <2>1, <2>3, SettledKeepsLog DEF LogInv
<1> QED
  BY <1>2, <1>3, <1>4

LEMMA LogInit == Init => LogInv
<1> SUFFICES ASSUME Init
             PROVE  LogInv
  OBVIOUS
<1>1. \A b \in Batches : batch[b].status = "none" /\ ~Live(b)
  BY DEF Init, NewBatch, Live
<1>2. LiveBatches = {} /\ Tip = NoBatch
  BY <1>1 DEF LiveBatches, Init, Tip
<1>3. LogIsLinear
  BY <1>2 DEF LogIsLinear, IsLatest
<1>4. LeavesBound
  BY <1>1 DEF LeavesBound, Bound, Init, Batches, Unknown
<1> QED
  BY <1>1, <1>3, <1>4, TxInit DEF LogInv, Contiguous

\* However many ticks build and however operators abandon, the batches that were
\* not abandoned form one chain that ends at the head, and only its last one may
\* be unconfirmed (createBatch, markBatchConfirmed, abandonBatch).
THEOREM OneLog == Spec => []LogIsLinear
<1>1. LogInv => LogIsLinear
  BY DEF LogInv
<1> QED
  BY LogInit, LogStep, <1>1, PTL DEF Spec

\* A record is bound to a batch exactly when it is a leaf of a batch that was not
\* abandoned: every manifest can be rebuilt, and no record is in two live batches.
THEOREM LeavesAreBound == Spec => []LeavesBound
<1>1. LogInv => LeavesBound
  BY DEF LogInv
<1> QED
  BY LogInit, LogStep, <1>1, PTL DEF Spec

-----------------------------------------------------------------------------
(* The public log.  Beside LogInv: only the last batch of the chain waits  *)
(* to be confirmed, and no batch is built of nothing.                      *)
Behind == \A a, b \in LiveBatches : a < b => a \in Confirmed

Filled ==
  /\ \A b \in Batches : batch[b].status # "none" => batch[b].leaves # {}
  /\ \A c \in Callers : At(c, "create") => call[c].leaves # {}

PublicInv == LogInv /\ Behind /\ Filled

(* Only List enters the phase in which a batch is created.                 *)
LEMMA NotToCreate ==
  ASSUME TypeInv, NEW c \in Callers,
         \/ StartTick(c) \/ Record(c) \/ Reconcile(c)
         \/ Trouble(c) \/ Crash(c) \/ (TickStep(c) /\ ~List(c))
  PROVE  ~At(c, "create")' /\ Others(c)
<1>. SUFFICES call'[c].at # "create" /\ Others(c)
  BY DEF At
<1>0. call[c] \in Locals
  BY CallFacts
<1>1. CASE \/ End(c) \/ Done(c) \/ \E phase \in Phases \ {"create"} : Goto(c, phase)
  BY <1>1, MoveFields
<1>2. ASSUME NEW x, x.at # "create", call' = [call EXCEPT ![c] = x]
      PROVE  call'[c].at # "create" /\ Others(c)
  BY <1>2, MoveFields
<1>3. CASE \/ StartTick(c) \/ IntakeEnds(c) \/ NothingToResume(c) \/ NoBuild(c)
           \/ Rebuild(c) \/ SaveCheck(c) \/ Renew(c) \/ Broadcast(c) \/ BroadcastExpired(c)
           \/ MarkCheck(c) \/ CreateConflict(c) \/ EndTick(c) \/ Settle(c) \/ ConfirmCheck(c)
           \/ Confirm(c) \/ Sync(c) \/ Record(c) \/ Trouble(c)
  BY <1>1, <1>3 DEF StartTick, IntakeEnds, NothingToResume, NoBuild, Rebuild, SaveCheck,
     Renew, Broadcast, BroadcastExpired, MarkCheck, CreateConflict, EndTick, Settle,
     ConfirmCheck, Confirm, Sync, Record, Trouble, Phases, PerSubmission
<1>4. CASE Resume(c) \/ MarkSubmitted(c) \/ Create(c) \/ Crash(c)
  <2>1. Idle.at = "idle"
    BY IdleTyped
  <2>2. \/ End(c) \/ call' = [call EXCEPT ![c] = Idle]
        \/ call' = [call EXCEPT ![c] = [Idle EXCEPT !.at = call[c].next]]
        \/ \E b, p : call' = [call EXCEPT ![c] = [Idle EXCEPT !.at = "rebuild", !.batch = b,
                                                              !.next = p]]
        \/ \E b, p : call' = [call EXCEPT ![c] = [Idle EXCEPT !.at = "load", !.batch = b,
                                                              !.next = p]]
    BY <1>4 DEF Resume, MarkSubmitted, Create, Crash
  <2>3. call[c].next # "create"
    BY <1>0 DEF Locals
  <2>. QED
    BY <1>1, <1>2, <2>1, <2>2, <2>3 DEF Idle
<1>5. CASE Load(c) \/ Save(c) \/ Build(c) \/ Poll(c) \/ Each(c) \/ Ask(c) \/ Count(c)
  <2>1. call \in [Callers -> Locals]
    BY DEF TypeInv, CallOK
  <2>2. CASE Load(c) \/ Save(c) \/ Build(c) \/ Poll(c) \/ Count(c)
    BY <1>0, <2>1, <2>2 DEF Load, Save, Build, Poll, Count, Locals, Others
  <2>3. CASE Each(c)
    BY <1>0, <2>1, <2>3 DEF Each, Locals, Others
  <2>4. CASE Ask(c)
    <3>1. CASE Done(c)
      BY <1>1, <3>1
    <3>2. CASE ~Done(c)
      BY <1>0, <2>1, <2>4, <3>2 DEF Ask, Locals, Others
    <3>. QED
      BY <3>1, <3>2
  <2>. QED
    BY <1>5, <2>2, <2>3, <2>4
<1>. QED
  BY <1>3, <1>4, <1>5 DEF TickStep, Submit, Reconcile

LEMMA ListFills ==
  ASSUME TypeInv, NEW p \in Callers, List(p), At(p, "create")'
  PROVE  call'[p].leaves # {} /\ Others(p)
<1>0. call \in [Callers -> Locals] /\ call[p] \in Locals
  BY CallFacts DEF CallOK
<1>1. ~Goto(p, "poll")
  BY MoveFields DEF At
<1>2. PICK leaves \in SUBSET PendingRecords :
        /\ Cardinality(leaves) \in 1..MaxLeaves
        /\ call' = [call EXCEPT ![p].at = "create", ![p].leaves = leaves]
  BY <1>1 DEF List
<1>3. leaves # {}
  BY <1>2, FS_EmptySet
<1>. QED
  BY <1>0, <1>2, <1>3 DEF Others, Locals

(* What a caller is about to make a batch of is something.                 *)
LEMMA ChosenStep ==
  ASSUME TypeInv, Filled, [Next]_vars, NEW c \in Callers, At(c, "create")'
  PROVE  call'[c].leaves # {}
<1>1. ASSUME call'[c] = call[c] PROVE call'[c].leaves # {}
  BY <1>1 DEF Filled, At
<1>2. ASSUME NEW d \in Callers, Others(d), ~At(d, "create")'
      PROVE  call'[c].leaves # {}
  BY <1>1, <1>2 DEF Others
<1>3. ASSUME NEW p \in Callers, List(p) PROVE call'[c].leaves # {}
  <2>1. CASE At(p, "create")'
    BY <1>1, <1>3, <2>1, ListFills DEF Others
  <2>2. CASE ~At(p, "create")'
    <3>1. Goto(p, "poll")
          \/ \E leaves : call' = [call EXCEPT ![p].at = "create", ![p].leaves = leaves]
      BY <1>3 DEF List
    <3>2. Others(p)
      BY <3>1, MoveFields, CallFacts DEF Others, CallOK
    <3>. QED
      BY <1>2, <2>2, <3>2
  <2>. QED
    BY <2>1, <2>2
<1>4. CASE Tick
  <2>1. PICK p \in Tickers : StartTick(p) \/ TickStep(p) \/ \E r \in Records : Intake(p, r)
    BY <1>4 DEF Tick
  <2>2. p \in Callers
    BY DEF Callers
  <2>3. CASE \E r \in Records : Intake(p, r)
    BY <1>1, <2>3 DEF Intake
  <2>. QED
    BY <1>2, <1>3, <2>1, <2>2, <2>3, NotToCreate
<1>5. CASE Witness
  <2>1. PICK w \in Witnesses :
          (\E b \in Batches : WitnessGates(w, b)) \/ Record(w) \/ Reconcile(w)
    BY <1>5 DEF Witness
  <2>2. w \in Callers
    BY DEF Callers
  <2>3. ASSUME NEW b \in Batches, WitnessGates(w, b) PROVE call'[c].leaves # {}
    <3> DEFINE x == [Idle EXCEPT !.at = "record", !.batch = b, !.tx = <<b, w>>]
    <3>1. call' = [call EXCEPT ![w] = x]
      BY <2>3 DEF WitnessGates
    <3>2. x.at = "record"
      BY DEF Idle
    <3> HIDE DEF x
    <3>3. call'[w].at = "record" /\ Others(w)
      BY <2>2, <3>1, <3>2, MoveFields
    <3>. QED
      BY <1>2, <2>2, <3>3 DEF At
  <2>. QED
    BY <1>2, <2>1, <2>2, <2>3, NotToCreate
<1>6. CASE Fail
  <2>1. PICK p \in Tickers : Trouble(p) \/ Crash(p) \/ Overrun(p) \/ Expire(p)
    BY <1>6 DEF Fail
  <2>2. p \in Callers
    BY DEF Callers
  <2>3. CASE Overrun(p) \/ Expire(p)
    BY <1>1, <2>3 DEF Overrun, Expire
  <2>. QED
    BY <1>2, <2>1, <2>2, <2>3, NotToCreate
<1>7. CASE Operate \/ Chain \/ UNCHANGED vars
  BY <1>1, <1>7 DEF Operate, Abandon, AbandonCheck, AbandonConflict, Chain, Decide, Outdate, vars
<1>. QED
  BY <1>4, <1>5, <1>6, <1>7 DEF Next


LEMMA FilledStep == ASSUME LogInv, Filled, [Next]_vars PROVE Filled'
<1>. USE DEF LogInv, TxInv
<1>1. \A c \in Callers : At(c, "create")' => call'[c].leaves # {}
  BY ChosenStep
<1>2. ASSUME NEW b \in Batches, batch'[b].status # "none" PROVE batch'[b].leaves # {}
  <2>1. CASE \E p \in Tickers : Create(p)
    <3>1. PICK p \in Tickers : Create(p)
      BY <2>1
    <3>2. call[p].leaves # {}
      BY <3>1 DEF Create, Filled, Callers
    <3>. QED
      BY <1>2, <3>1, <3>2, CreateFacts DEF Filled
  <2>2. CASE \E o \in Operators : Abandon(o)
    <3>1. PICK o \in Operators : Abandon(o)
      BY <2>2
    <3>2. batch \in [Batches -> BatchRow]
      BY TypeFacts
    <3>3. batch'[b].leaves = batch[b].leaves /\ batch[b].status # "none"
      BY <1>2, <3>1, <3>2 DEF Abandon, Unfinished, BatchRow
    <3>. QED
      BY <3>3 DEF Filled
  <2>3. CASE head' = head /\ \A a \in Batches : Settled(a)
    BY <1>2, <2>3 DEF Filled, Settled
  <2>. QED
    BY <2>1, <2>2, <2>3, BatchSteps
<1>. QED
  BY <1>1, <1>2 DEF Filled

LEMMA BehindStep == ASSUME LogInv, Behind, [Next]_vars PROVE Behind'
<1>. USE DEF LogInv, TxInv
<1>1. CASE \E p \in Tickers : Create(p)
  <2>1. PICK p \in Tickers : Create(p)
    BY <1>1
  <2>2. PICK b \in Batches :
          /\ batch[b].status = "none" /\ \A a \in Batches : batch[a].status # "none" <=> a < b
          /\ batch'[b].status = "built" /\ \A a \in Batches \ {b} : batch'[a] = batch[a]
          /\ IsConfirmed(Tip)
    BY <2>1, CreateFacts
  <2>3. ASSUME NEW a \in LiveBatches', NEW c \in LiveBatches', a < c PROVE a \in Confirmed'
    <3>1. a \in Batches /\ c \in Batches /\ c <= b /\ a < b /\ batch'[a] = batch[a]
      BY <2>2, <2>3 DEF LiveBatches, Live, Batches
    <3>2. a \in LiveBatches /\ a # NoBatch
      BY <2>3, <3>1 DEF LiveBatches, Live, Batches, NoBatch
    <3>3. a \in Confirmed
      <4>1. a <= Tip /\ Tip \in LiveBatches \cup {NoBatch} /\ Tip # NoBatch
        BY <3>2 DEF LogIsLinear, IsLatest, LiveBatches, Batches, NoBatch
      <4>2. CASE a = Tip
        BY <2>2, <3>1, <4>1, <4>2 DEF IsConfirmed, Confirmed
      <4>3. CASE a # Tip
        BY <3>1, <3>2, <4>1, <4>3 DEF Behind, LiveBatches, Batches
      <4>. QED
        BY <4>2, <4>3
    <3>. QED
      BY <3>1, <3>3 DEF Confirmed
  <2>. QED
    BY <2>3 DEF Behind
<1>2. CASE \E o \in Operators : Abandon(o)
  <2>1. PICK o \in Operators : Abandon(o)
    BY <1>2
  <2>2. PICK b \in Batches :
          /\ Unfinished(b) /\ batch'[b].status = "failed"
          /\ \A a \in Batches \ {b} : batch'[a] = batch[a]
    BY <2>1, AbandonFacts
  <2>3. LiveBatches' \subseteq LiveBatches /\ Confirmed' = Confirmed
    BY <2>2 DEF LiveBatches, Live, Confirmed, Unfinished
  <2>. QED
    BY <2>3 DEF Behind
<1>3. CASE head' = head /\ \A a \in Batches : Settled(a)
  BY <1>3 DEF Settled, Behind, LiveBatches, Confirmed
<1>. QED
  BY <1>1, <1>2, <1>3, BatchSteps

LEMMA PublicStep == PublicInv /\ [Next]_vars => PublicInv'
BY LogStep, BehindStep, FilledStep DEF PublicInv

LEMMA PublicInit == Init => PublicInv
<1>. SUFFICES ASSUME Init PROVE PublicInv
  OBVIOUS
<1>1. \A b \in Batches : batch[b].status = "none"
  BY DEF Init, NewBatch
<1>2. \A c \in Callers : ~At(c, "create")
  BY DEF Init, Idle, At
<1>. QED
  BY <1>1, <1>2, LogInit DEF PublicInv, Behind, Filled, LiveBatches, Live

(* Places in the log. *)
LEMMA PlaceFacts ==
  /\ IsFiniteSet(Confirmed) /\ Cardinality(Confirmed) \in Nat
  /\ \A b \in Batches : Place(b) \in Nat /\ Place(b) <= Cardinality(Confirmed)
<1>1. IsFiniteSet(Batches)
  BY FS_Interval DEF Batches
<1>2. IsFiniteSet(Confirmed)
  BY <1>1, FS_Subset DEF Confirmed
<1>3. \A S \in SUBSET Confirmed :
        Cardinality(S) \in Nat /\ Cardinality(S) <= Cardinality(Confirmed)
  BY <1>2, FS_Subset, FS_CardinalityType
<1>. QED
  BY <1>2, <1>3 DEF Place

LEMMA LogTyped ==
  ASSUME TypeInv
  PROVE  /\ AnchoredLog \in Seq(SUBSET Records)
         /\ Len(AnchoredLog) = Cardinality(Confirmed)
<1>1. \A b \in Batches : batch[b].leaves \subseteq Records
  BY TypeFacts DEF BatchRow
<1>2. \A i : UNION {batch[b].leaves : b \in {a \in Confirmed : Place(a) = i}} \in SUBSET Records
  BY <1>1 DEF Confirmed
<1>3. AnchoredLog \in [1..Cardinality(Confirmed) -> SUBSET Records]
  BY <1>2 DEF AnchoredLog
<1>. QED
  BY <1>3, PlaceFacts

(* The log is the same as long as the confirmed batches are. *)
LEMMA SameLog ==
  ASSUME Confirmed' = Confirmed, \A b \in Confirmed : batch'[b].leaves = batch[b].leaves
  PROVE  AnchoredLog' = AnchoredLog
<1>1. \A b : Place(b)' = Place(b)
  BY DEF Place
<1>2. \A i : {a \in Confirmed : Place(a) = i}' = {a \in Confirmed : Place(a) = i}
  BY <1>1
<1>3. \A i : UNION {batch'[b].leaves : b \in {a \in Confirmed : Place(a) = i}'}
           = UNION {batch[b].leaves : b \in {a \in Confirmed : Place(a) = i}}
  BY <1>2
<1>. QED
  BY <1>3 DEF AnchoredLog


(* A step confirms one batch at most, and changes none that is confirmed.  *)
LEMMA ConfirmedSteps ==
  ASSUME LogInv, [Next]_vars
  PROVE  /\ \A b \in Confirmed : batch'[b].leaves = batch[b].leaves
         /\ \/ Confirmed' = Confirmed
            \/ \E b \in LiveBatches \ Confirmed :
                 Confirmed' = Confirmed \cup {b} /\ batch'[b].leaves = batch[b].leaves
<1>. USE DEF LogInv, TxInv
<1>0. batch \in [Batches -> BatchRow]
  BY TypeFacts
<1>1. CASE \E p \in Tickers : Create(p)
  <2>1. PICK b \in Batches :
          /\ batch[b].status = "none" /\ batch'[b].status = "built"
          /\ \A a \in Batches \ {b} : batch'[a] = batch[a]
    BY <1>1, CreateFacts
  <2>. QED
    BY <2>1 DEF Confirmed
<1>2. CASE \E o \in Operators : Abandon(o)
  <2>1. PICK b \in Batches :
          /\ Unfinished(b) /\ batch'[b].status = "failed"
          /\ \A a \in Batches \ {b} : batch'[a] = batch[a]
    BY <1>2, AbandonFacts
  <2>. QED
    BY <2>1 DEF Confirmed, Unfinished
<1>3. CASE \A b \in Batches : Settled(b)
  <2>1. \A b \in Batches : batch'[b].leaves = batch[b].leaves
    BY <1>3 DEF Settled
  <2>2. CASE \E p \in Tickers : Confirm(p)
    <3>1. PICK p \in Tickers : Confirm(p)
      BY <2>2
    <3> DEFINE b == call[p].batch
    <3>2. b \in Batches
      BY <3>1, CallFacts DEF Confirm, At, OnBatch, PerSubmission, Callers
    <3>3. \/ batch' = batch
          \/ batch[b].status = "submitted" /\ batch' = [batch EXCEPT ![b].status = "confirmed"]
      BY <3>1 DEF Confirm
    <3> HIDE DEF b
    <3>4. CASE batch' = batch
      BY <2>1, <3>4 DEF Confirmed
    <3>5. CASE batch' # batch
      <4>1. b \in LiveBatches \ Confirmed
        BY <3>2, <3>3, <3>5 DEF LiveBatches, Live, Confirmed
      <4>2. Confirmed' = Confirmed \cup {b}
        BY <1>0, <3>2, <3>3, <3>5 DEF Confirmed, BatchRow
      <4>. QED
        BY <2>1, <3>2, <4>1, <4>2 DEF Confirmed
    <3>. QED
      BY <3>4, <3>5
  <2>3. CASE ~ \E p \in Tickers : Confirm(p)
    <3>1. ASSUME NEW b \in Batches
          PROVE  batch'[b].status = "confirmed" <=> batch[b].status = "confirmed"
      <4>1. Settled(b)
        BY <1>3
      <4>2. batch'[b].status = "confirmed" => batch[b].status = "confirmed"
        <5>1. CASE \E p \in Tickers : MarkSubmitted(p)
          <6>1. PICK a : batch' = batch \/ batch' = [batch EXCEPT ![a].status = "submitted"]
            BY <5>1 DEF MarkSubmitted
          <6>. QED
            BY <1>0, <6>1 DEF BatchRow
        <5>2. CASE \E c \in Callers : Sync(c)
          BY <1>0, <5>2 DEF Sync, BatchRow
        <5>3. CASE \E p \in Tickers : Create(p)
          <6>1. PICK a \in Batches :
                  batch[a].status = "none" /\ batch'[a].status = "built"
            BY <5>3, CreateFacts
          <6>. QED
            BY <1>3, <6>1 DEF Settled
        <5>4. CASE \E o \in Operators : Abandon(o)
          <6>1. PICK a \in Batches : Unfinished(a) /\ batch'[a].status = "failed"
            BY <5>4, AbandonFacts
          <6>. QED
            BY <1>3, <6>1 DEF Settled, Live, Unfinished
        <5>. QED
          BY <2>3, <5>1, <5>2, <5>3, <5>4, Frames
      <4>. QED
        BY <4>1, <4>2 DEF Settled
    <3>. QED
      BY <2>1, <3>1 DEF Confirmed
  <2>. QED
    BY <2>2, <2>3
<1>. QED
  BY <1>1, <1>2, <1>3, BatchSteps

(* The batch that is confirmed comes after all the others, and none of its *)
(* records is in the log.                                                  *)
LEMMA NextInLog ==
  ASSUME PublicInv, NEW b \in LiveBatches \ Confirmed
  PROVE  /\ \A a \in Confirmed : a < b
         /\ batch[b].leaves # {} /\ batch[b].leaves \subseteq Records
         /\ \A a \in Confirmed : batch[a].leaves \cap batch[b].leaves = {}
<1>. USE DEF PublicInv, LogInv, TxInv
<1>1. b \in Batches /\ Live(b) /\ batch[b].leaves # {}
  BY DEF LiveBatches, Live, Filled
<1>2. \A a \in Confirmed : a \in LiveBatches /\ a \in Batches /\ Live(a) /\ a # b
  BY DEF Confirmed, LiveBatches, Live
<1>3. \A a \in Confirmed : a < b
  BY <1>1, <1>2 DEF Behind, Batches
<1>4. \A a \in Confirmed : Bound(a) = batch[a].leaves /\ Bound(b) = batch[b].leaves
  BY <1>1, <1>2 DEF LeavesBound
<1>5. \A a \in Confirmed : batch[a].leaves \cap batch[b].leaves = {}
  BY <1>2, <1>4 DEF Bound
<1>6. batch[b].leaves \subseteq Records
  BY <1>1, TypeFacts DEF BatchRow
<1>. QED
  BY <1>1, <1>3, <1>5, <1>6

LEMMA LogGrows ==
  ASSUME PublicInv, NEW b \in LiveBatches \ Confirmed, TypeInv',
         Confirmed' = Confirmed \cup {b},
         \A a \in Confirmed' : batch'[a].leaves = batch[a].leaves
  PROVE  AnchoredLog' = Append(AnchoredLog, batch[b].leaves)
<1>. USE DEF PublicInv, LogInv, TxInv
<1> DEFINE n == Cardinality(Confirmed)
           PlaceOf(i) == {a \in Confirmed : Place(a) = i}
           LeavesOf(i) == UNION {batch[a].leaves : a \in PlaceOf(i)}
<1>1. n \in Nat /\ Cardinality(Confirmed') = n + 1
  BY PlaceFacts, FS_AddElement
<1>2. b \in Batches /\ \A a \in Confirmed : a \in Batches /\ a < b /\ a # b
  BY NextInLog DEF Confirmed, LiveBatches
<1>3. \A a \in Confirmed : Place(a)' = Place(a)
  <2>. SUFFICES ASSUME NEW a \in Confirmed PROVE Place(a)' = Place(a)
    OBVIOUS
  <2>1. {c \in Confirmed' : c <= a} = {c \in Confirmed : c <= a}
    BY <1>2 DEF Batches
  <2>. QED
    BY <2>1 DEF Place
<1>4. Place(b)' = n + 1
  <2>1. {c \in Confirmed' : c <= b} = Confirmed'
    BY <1>2 DEF Batches
  <2>. QED
    BY <1>1, <2>1 DEF Place
<1>5. \A a \in Confirmed : Place(a) \in Nat /\ Place(a) <= n
  BY <1>2, PlaceFacts
<1>6. \A i \in 1..n : PlaceOf(i)' = PlaceOf(i)
  BY <1>1, <1>3, <1>4, <1>5
<1>7. \A i : i = n + 1 => PlaceOf(i)' = {b}
  BY <1>1, <1>3, <1>4, <1>5
<1>8. \A i \in 1..n : LeavesOf(i)' = LeavesOf(i)
  <2>. SUFFICES ASSUME NEW i \in 1..n PROVE LeavesOf(i)' = LeavesOf(i)
    OBVIOUS
  <2>1. \A a \in PlaceOf(i) : batch'[a].leaves = batch[a].leaves
    OBVIOUS
  <2>. HIDE DEF PlaceOf
  <2>. QED
    BY <1>6, <2>1
<1>9. \A i : i = n + 1 => LeavesOf(i)' = batch[b].leaves
  <2>. SUFFICES ASSUME NEW i, i = n + 1 PROVE LeavesOf(i)' = batch[b].leaves
    OBVIOUS
  <2>1. batch'[b].leaves = batch[b].leaves
    OBVIOUS
  <2>. HIDE DEF PlaceOf
  <2>. QED
    BY <1>7, <2>1
<1>10. AnchoredLog' = [i \in 1..(n + 1) |-> LeavesOf(i)'] /\ AnchoredLog = [i \in 1..n |-> LeavesOf(i)]
  BY <1>1 DEF AnchoredLog
<1>11. AnchoredLog \in Seq(SUBSET Records) /\ Len(AnchoredLog) = n
  BY LogTyped
<1>. HIDE DEF n, PlaceOf, LeavesOf
<1>12. Append(AnchoredLog, batch[b].leaves)
         = [i \in 1..(n + 1) |-> IF i = n + 1 THEN batch[b].leaves ELSE AnchoredLog[i]]
  BY <1>1, <1>11
<1>13. \A i \in 1..(n + 1) :
         LeavesOf(i)' = IF i = n + 1 THEN batch[b].leaves ELSE AnchoredLog[i]
  BY <1>1, <1>8, <1>9, <1>10
<1>. QED
  BY <1>10, <1>12, <1>13

LEMMA PublicStepAppends ==
  ASSUME PublicInv, [Next]_vars
  PROVE  Promise!Next \/ UNCHANGED AnchoredLog
<1>1. PublicInv'
  BY PublicStep
<1>2. CASE Confirmed' = Confirmed
  BY <1>2, ConfirmedSteps, SameLog DEF PublicInv
<1>3. CASE Confirmed' # Confirmed
  <2>1. PICK b \in LiveBatches \ Confirmed :
          Confirmed' = Confirmed \cup {b} /\ batch'[b].leaves = batch[b].leaves
    BY <1>3, ConfirmedSteps DEF PublicInv
  <2>2. AnchoredLog' = Append(AnchoredLog, batch[b].leaves)
    BY <1>1, <2>1, ConfirmedSteps, LogGrows DEF PublicInv, LogInv, TxInv
  <2>3. batch[b].leaves \cap Promise!Anchored = {}
    <3>1. \A i \in DOMAIN AnchoredLog : batch[b].leaves \cap AnchoredLog[i] = {}
      BY NextInLog DEF AnchoredLog
    <3>. QED
      BY <3>1 DEF Promise!Anchored, Promise!ToSet
  <2>4. Promise!Anchor(batch[b].leaves)
    BY <2>2, <2>3, NextInLog DEF Promise!Anchor
  <2>. QED
    BY <2>4, NextInLog DEF Promise!Next
<1>. QED
  BY <1>2, <1>3

\* What the tables call anchored is a public log to which sets of records are
\* appended, each record once: whatever is abandoned, retried or confirmed late, no
\* batch is confirmed before its predecessors and none is taken back.
THEOREM AnchoringImplementsLog == Spec => ImplementsLog
<1>1. Init => Promise!Init
  <2>. SUFFICES ASSUME Init PROVE AnchoredLog = <<>>
    BY DEF Promise!Init
  <2>1. Confirmed = {}
    BY DEF Init, NewBatch, Confirmed
  <2>2. Len(AnchoredLog) = 0 /\ AnchoredLog \in Seq(SUBSET Records)
    BY <2>1, TypeInit, LogTyped, FS_EmptySet DEF TypeInv
  <2>. QED
    BY <2>2
<1>2. PublicInv /\ [Next]_vars => [Promise!Next]_AnchoredLog
  BY PublicStepAppends
<1>. QED
  BY <1>1, <1>2, PublicInit, PublicStep, PTL DEF Spec, ImplementsLog, Promise!Spec
=============================================================================
