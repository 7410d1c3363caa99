--------------------------- MODULE RunStoreProofs ---------------------------
(***************************************************************************)
(* Proofs about RunStore, for any callers, results, clock error and bound. *)
(***************************************************************************)
EXTENDS RunStore, SequenceTheorems, TLAPS

USE StoreAssumption

-----------------------------------------------------------------------------
(* The inductive invariant *)

Rank(s) ==
  CASE s = "absent" -> 0
    [] s = "queued" -> 1
    [] s = "preparing" -> 2
    [] s = "running" -> 3
    [] s = "cancel_requested" -> 4
    [] OTHER -> 5

(* The instants of a row are those of the transitions that led to its      *)
(* state, and the last of them is updatedAt.                               *)
RowShape ==
  /\ run.state = "absent" => run = NoRun /\ events = << >>
  /\ run.state # "absent" => run.queuedAt # 0
  /\ run.state = "queued" => run.preparingAt = 0 /\ run.updatedAt = run.queuedAt
  /\ run.state = "preparing" => run.preparingAt # 0 /\ run.updatedAt = run.preparingAt
  /\ run.state \in {"queued", "preparing"} => run.startedAt = 0
  /\ run.state \in ActiveStates => run.startedAt # 0 /\ run.preparingAt # 0
  /\ run.state = "running" => run.updatedAt = run.startedAt
  /\ run.state \in {"queued", "preparing", "running"} => run.cancelRequestedAt = 0
  /\ run.state \in {"cancel_requested", "cancelled"} => run.cancelRequestedAt # 0
  /\ run.state \in RunnerStatuses /\ run.runnerResult = NoResult =>
       run.state = "cancelled" /\ run.startedAt = 0
  /\ run.state \notin RunnerStatuses => run.runnerResult = NoResult
  /\ run.runnerResult # NoResult => run.startedAt # 0

(* Which events there are can be told from the row. *)
Marks ==
  /\ HasEvent("workspace_preparation_started") <=> run.preparingAt # 0
  /\ HasEvent("run_started") <=> run.startedAt # 0
  /\ run.cancelRequestedAt # 0 =>
       HasEvent(IF run.startedAt = 0 THEN "run_cancelled" ELSE "cancellation_requested")

EventsPast == \A i \in 1..Len(events) : events[i].at <= run.updatedAt

Busy == {"checking", "numbering", "committing", "reloading"}

(* The row moves on from what a call has read, and once it has, it never   *)
(* has the same state again.                                               *)
Follows(c) ==
  \/ run = call[c].read
  \/ /\ Rank(call[c].read.state) < Rank(run.state)
     /\ call[c].read.state \in ActiveStates => run.startedAt # 0

CallShape(c) ==
  LET q == call[c].request
  IN  /\ call[c].phase # "idle" =>
           /\ q.at # 0
           /\ q.op # "none"
           /\ q.op = "record" => q.result \in Results
      /\ call[c].phase \in Busy =>
           /\ call[c].read.state # "absent"
           /\ Follows(c)
           /\ q.op = "record" => output = q.result.output
      /\ call[c].phase = "checking" => q.op = "record"
      /\ call[c].phase \in Busy \ {"checking"} => Permitted(call[c].read, q)

StoreInv ==
  /\ TypeOK
  /\ TablesAgree
  /\ AnswersHonest
  /\ RowShape
  /\ Marks
  /\ EventsPast
  /\ \A c \in Callers : CallShape(c)

-----------------------------------------------------------------------------
(* The next row *)

(* What the domain makes of a row, field by field. *)
LEMMA SuccessorRow ==
  ASSUME NEW old \in Run, NEW q \in Request
  PROVE  LET new == Successor(old, q)
         IN  /\ new.queuedAt = old.queuedAt
             /\ new.updatedAt = q.at
             /\ q.op = "prepare" =>
                  new = [old EXCEPT !.state = "preparing", !.preparingAt = q.at,
                                    !.updatedAt = q.at]
             /\ q.op = "start" =>
                  new = [old EXCEPT !.state = "running", !.startedAt = q.at,
                                    !.updatedAt = q.at]
             /\ q.op = "cancel" /\ old.state = "running" =>
                  new = [old EXCEPT !.state = "cancel_requested",
                                    !.cancelRequestedAt = q.at, !.updatedAt = q.at]
             /\ q.op = "cancel" /\ old.state # "running" =>
                  new = [old EXCEPT !.state = "cancelled", !.cancelRequestedAt = q.at,
                                    !.finishedAt = q.at, !.updatedAt = q.at]
             /\ q.op = "record" =>
                  new = [old EXCEPT !.state = q.result.status,
                                    !.finishedAt = q.result.finishedAt,
                                    !.runnerResult = q.result, !.updatedAt = q.at]
<1>1. CASE q.op = "prepare"  BY <1>1 DEF Successor, Moved, Run
<1>2. CASE q.op = "start"    BY <1>2 DEF Successor, Moved, Run
<1>3. CASE q.op = "cancel"
  <2>1. CASE old.state = "running"  BY <1>3, <2>1 DEF Successor, Moved, Cancelled, Run
  <2>2. CASE old.state # "running"  BY <1>3, <2>2 DEF Successor, Moved, Cancelled, Run
  <2> QED  BY <2>1, <2>2
<1>4. CASE q.op \notin {"prepare", "start", "cancel"}
  BY <1>4 DEF Successor, Moved, Resulted, Run
<1> QED  BY <1>1, <1>2, <1>3, <1>4

(* A row that moves on loses nothing, and has no state a second time. *)
Grows(old, new) ==
  /\ Rank(old.state) < Rank(new.state)
  /\ old.preparingAt # 0 => new.preparingAt = old.preparingAt
  /\ old.startedAt # 0 => new.startedAt = old.startedAt
  /\ old.cancelRequestedAt # 0 => new.cancelRequestedAt # 0

LEMMA Ranks ==
  /\ Rank("absent") = 0 /\ Rank("queued") = 1 /\ Rank("preparing") = 2
  /\ Rank("running") = 3 /\ Rank("cancel_requested") = 4
  /\ \A s \in RunnerStatuses : Rank(s) = 5
BY DEF Rank, RunnerStatuses

(* A permitted transition moves the row on. *)
LEMMA SuccessorGrows ==
  ASSUME TypeOK, RowShape, NEW q \in Request, Permitted(run, q), q.at # 0,
         q.op = "record" => q.result \in Results
  PROVE  /\ Successor(run, q) \in Run
         /\ Grows(run, Successor(run, q))
         /\ run.updatedAt <= q.at
         /\ run.state \notin RunnerStatuses \cup {"absent"}
<1> DEFINE new == Successor(run, q)
<1>0. run \in Run /\ q.at \in Nat  BY DEF TypeOK, Request
<1>1. CASE q.op = "prepare"
  <2>1. /\ run.state = "queued" /\ q.at >= run.queuedAt
        /\ run.preparingAt = 0 /\ run.updatedAt = run.queuedAt
    BY <1>1 DEF Permitted, RowShape
  <2>2. new = [run EXCEPT !.state = "preparing", !.preparingAt = q.at, !.updatedAt = q.at]
    BY <1>0, <1>1, SuccessorRow
  <2> HIDE DEF new
  <2>3. new \in Run  BY <1>0, <2>2 DEF Run, RunStates
  <2>4. Grows(run, new)  BY <1>0, <2>1, <2>2, Ranks DEF Grows, Run
  <2> QED  BY <2>1, <2>3, <2>4 DEF new, RunnerStatuses
<1>2. CASE q.op = "start"
  <2>1. /\ run.state = "preparing" /\ q.at >= run.preparingAt
        /\ run.startedAt = 0 /\ run.updatedAt = run.preparingAt
    BY <1>2 DEF Permitted, RowShape
  <2>2. new = [run EXCEPT !.state = "running", !.startedAt = q.at, !.updatedAt = q.at]
    BY <1>0, <1>2, SuccessorRow
  <2> HIDE DEF new
  <2>3. new \in Run  BY <1>0, <2>2 DEF Run, RunStates, ActiveStates
  <2>4. Grows(run, new)  BY <1>0, <2>1, <2>2, Ranks DEF Grows, Run
  <2> QED  BY <2>1, <2>3, <2>4 DEF new, RunnerStatuses
<1>3. CASE q.op = "cancel" /\ run.state = "running"
  <2>1. run.startedAt # 0 /\ q.at >= run.startedAt /\ run.updatedAt = run.startedAt
    BY <1>3 DEF Permitted, RowShape, ActiveStates
  <2>2. new = [run EXCEPT !.state = "cancel_requested", !.cancelRequestedAt = q.at,
                          !.updatedAt = q.at]
    BY <1>0, <1>3, SuccessorRow
  <2> HIDE DEF new
  <2>3. new \in Run  BY <1>0, <2>2 DEF Run, RunStates, ActiveStates
  <2>4. Grows(run, new)  BY <1>0, <1>3, <2>2, Ranks DEF Grows, Run
  <2> QED  BY <1>3, <2>1, <2>3, <2>4 DEF new, RunnerStatuses
<1>4. CASE q.op = "cancel" /\ run.state # "running"
  <2>1. run.state \in {"queued", "preparing"} /\ run.updatedAt <= q.at
    BY <1>4 DEF Permitted, RowShape
  <2>2. new = [run EXCEPT !.state = "cancelled", !.cancelRequestedAt = q.at,
                          !.finishedAt = q.at, !.updatedAt = q.at]
    BY <1>0, <1>4, SuccessorRow
  <2> HIDE DEF new
  <2>3. new \in Run  BY <1>0, <2>2 DEF Run, RunStates, RunnerStatuses
  <2>4. Grows(run, new)  BY <1>0, <2>1, <2>2, Ranks DEF Grows, Run, RunnerStatuses
  <2> QED  BY <2>1, <2>3, <2>4 DEF new, RunnerStatuses
<1>5. CASE q.op = "record"
  <2>1. run.state \in ActiveStates /\ run.updatedAt <= q.at
    BY <1>0, <1>5 DEF Permitted, Run
  <2>2. new = [run EXCEPT !.state = q.result.status, !.finishedAt = q.result.finishedAt,
                          !.runnerResult = q.result, !.updatedAt = q.at]
    BY <1>0, <1>5, SuccessorRow
  <2>3. /\ q.result \in Results
        /\ q.result.status \in RunnerStatuses
        /\ q.result.finishedAt \in Nat
    BY <1>5 DEF RunnerStatuses
  <2> HIDE DEF new
  <2>4. new \in Run  BY <1>0, <2>2, <2>3 DEF Run, RunStates, MaybeResult
  <2>5. Grows(run, new)
    BY <1>0, <2>1, <2>2, <2>3, Ranks DEF Grows, Run, ActiveStates
  <2> QED  BY <2>1, <2>4, <2>5 DEF new, RunnerStatuses, ActiveStates
<1> QED  BY <1>1, <1>2, <1>3, <1>4, <1>5 DEF Permitted

-----------------------------------------------------------------------------
(* The story a row tells *)

(* An event after all others is one more of its group, if the later groups *)
(* are empty.                                                              *)
LEMMA OneMore ==
  ASSUME NEW s \in Seq(Event), NEW e \in Event
  PROVE  /\ s \o << >> = s
         /\ Append(s, e) = s \o << e >>
         /\ (s \o << e >>) \o << >> = s \o << e >>
<1>1. s \o << >> = s  BY ConcatEmptySeq
<1>2. Append(s, e) = s \o << e >>  BY AppendIsConcat
<1>3. Append(s, e) \in Seq(Event)  BY AppendProperties
<1>4. Append(s, e) \o << >> = Append(s, e)  BY <1>3, ConcatEmptySeq
<1> QED  BY <1>1, <1>2, <1>4

LEMMA PartsAreEvents ==
  ASSUME TypeOK
  PROVE  /\ QueuedEvents \in Seq(Event) /\ PreparedEvents \in Seq(Event)
         /\ StartedEvents \in Seq(Event) /\ CancelEvents \in Seq(Event)
         /\ ResultEvents \in Seq(Event)
<1>1. \A type \in EventTypes, s \in RunStates, t \in Nat, x \in MaybeResult :
        << [type |-> type, state |-> s, at |-> t, result |-> x] >> \in Seq(Event)
  BY DEF Event
<1>2. << >> \in Seq(Event)  OBVIOUS
<1>3. run \in Run /\ NoResult \in MaybeResult  BY DEF TypeOK, MaybeResult
<1>4. {"queued", "preparing", "running", "cancel_requested", "cancelled"} \subseteq RunStates
  BY DEF RunStates, ActiveStates, RunnerStatuses
<1>5. /\ run.state \in RunStates /\ run.queuedAt \in Nat /\ run.preparingAt \in Nat
      /\ run.startedAt \in Nat /\ run.cancelRequestedAt \in Nat
      /\ run.updatedAt \in Nat /\ run.runnerResult \in MaybeResult
  BY <1>3 DEF Run
<1>6. QueuedEvents \in Seq(Event)  BY <1>1, <1>3, <1>4, <1>5 DEF QueuedEvents, EventTypes
<1>7. PreparedEvents \in Seq(Event)
  BY <1>1, <1>2, <1>3, <1>4, <1>5 DEF PreparedEvents, EventTypes
<1>8. StartedEvents \in Seq(Event)
  BY <1>1, <1>2, <1>3, <1>4, <1>5 DEF StartedEvents, EventTypes
<1>9. CancelEvents \in Seq(Event)
  BY <1>1, <1>2, <1>3, <1>4, <1>5 DEF CancelEvents, EventTypes
<1>10. ResultEvents \in Seq(Event)
  BY <1>1, <1>2, <1>3, <1>5 DEF ResultEvents, EventTypes
<1> QED  BY <1>6, <1>7, <1>8, <1>9, <1>10

(* The event a transition appends, see NewEvent. *)
EventFor(q, new) == EventOf(TypeFor(q, new), new, q.at)

(* A permitted transition makes the story longer by its own event. *)
LEMMA StoryGrows ==
  ASSUME TypeOK, RowShape, NEW q \in Request, Permitted(run, q), q.at # 0,
         q.op = "record" => q.result \in Results,
         run' = Successor(run, q)
  PROVE  /\ EventFor(q, run') \in Event
         /\ EventFor(q, run').at = run'.updatedAt
         /\ TellingEvents' = Append(TellingEvents, EventFor(q, run'))
<1> DEFINE e == EventFor(q, run')
<1>0. /\ run \in Run /\ run' \in Run /\ q.at \in Nat
      /\ run.state \notin RunnerStatuses \cup {"absent"} /\ Grows(run, run')
  BY SuccessorGrows DEF TypeOK, Request
<1>1. /\ run'.queuedAt = run.queuedAt /\ run'.updatedAt = q.at
  BY <1>0, SuccessorRow
<1>2. run.runnerResult = NoResult /\ ResultEvents = << >>
  BY <1>0 DEF RowShape, ResultEvents
<1>3. QueuedEvents' = QueuedEvents  BY <1>1 DEF QueuedEvents
<1>4. run'.state # "absent"
  BY <1>0, Ranks DEF Grows, Rank
<1>5. /\ TellingEvents = QueuedEvents \o PreparedEvents \o StartedEvents \o CancelEvents \o << >>
      /\ TellingEvents' = QueuedEvents \o PreparedEvents' \o StartedEvents' \o CancelEvents'
                            \o ResultEvents'
  BY <1>0, <1>2, <1>3, <1>4 DEF TellingEvents
<1> DEFINE Q == QueuedEvents  P == PreparedEvents  S == StartedEvents  C == CancelEvents
<1>6. Q \in Seq(Event) /\ P \in Seq(Event) /\ S \in Seq(Event) /\ C \in Seq(Event)
  BY PartsAreEvents
<1>7. /\ e.at = q.at
      /\ TypeFor(q, run') \in EventTypes => e \in Event
  BY <1>0 DEF EventFor, EventOf, Event, Run, MaybeResult
<1>8. TypeFor(q, run') \in EventTypes
  BY DEF TypeFor, EventTypes
<1>9. e \in Event /\ e.at = run'.updatedAt  BY <1>1, <1>7, <1>8
<1> SUFFICES TellingEvents' = Append(TellingEvents, e)  BY <1>9
<1> DEFINE QP == Q \o P  QPS == QP \o S  QPSC == QPS \o C
<1>10. QP \in Seq(Event) /\ QPS \in Seq(Event) /\ QPSC \in Seq(Event)
  BY <1>6, ConcatProperties
<1> HIDE DEF e, Q, P, S, C, QP, QPS, QPSC
<1>11. Append(Q \o << >> \o << >> \o << >> \o << >>, e)
         = Q \o << e >> \o << >> \o << >> \o << >>
  BY <1>6, <1>9, OneMore
<1>12. Append(QP \o << >> \o << >> \o << >>, e) = QP \o << e >> \o << >> \o << >>
  BY <1>9, <1>10, OneMore
<1>13. Append(QPS \o << >> \o << >>, e) = QPS \o << e >> \o << >>
  BY <1>9, <1>10, OneMore
<1>14. Append(QPSC \o << >>, e) = QPSC \o << e >>
  BY <1>9, <1>10, OneMore
<1> USE DEF e, Q, P, S, C, QP, QPS, QPSC
<1>a. CASE q.op = "prepare"
  <2>1. /\ run.state = "queued" /\ run.preparingAt = 0 /\ run.startedAt = 0
        /\ run.cancelRequestedAt = 0
    BY <1>a DEF Permitted, RowShape
  <2>2. run' = [run EXCEPT !.state = "preparing", !.preparingAt = q.at, !.updatedAt = q.at]
    BY <1>0, <1>a, SuccessorRow
  <2>3. P = << >> /\ S = << >> /\ C = << >>
    BY <2>1 DEF PreparedEvents, StartedEvents, CancelEvents
  <2>4. e = [type |-> "workspace_preparation_started", state |-> "preparing",
             at |-> q.at, result |-> NoResult]
    BY <1>0, <1>a, <2>2 DEF EventFor, EventOf, TypeFor, Run
  <2>5. P' = << e >> /\ S' = << >> /\ C' = << >> /\ ResultEvents' = << >>
    BY <1>0, <1>2, <2>1, <2>2, <2>4 DEF PreparedEvents, StartedEvents, CancelEvents, ResultEvents, Run
  <2> HIDE DEF e, Q, P, S, C, QP, QPS, QPSC
  <2> QED  BY <1>5, <1>11, <2>3, <2>5 DEF Q, P, S, C, QP, QPS, QPSC
<1>b. CASE q.op = "start"
  <2>1. run.state = "preparing" /\ run.startedAt = 0 /\ run.cancelRequestedAt = 0
    BY <1>b DEF Permitted, RowShape
  <2>2. run' = [run EXCEPT !.state = "running", !.startedAt = q.at, !.updatedAt = q.at]
    BY <1>0, <1>b, SuccessorRow
  <2>3. S = << >> /\ C = << >>
    BY <2>1 DEF StartedEvents, CancelEvents
  <2>4. e = [type |-> "run_started", state |-> "running", at |-> q.at, result |-> NoResult]
    BY <1>0, <1>b, <2>2 DEF EventFor, EventOf, TypeFor, Run
  <2>5. P' = P /\ S' = << e >> /\ C' = << >> /\ ResultEvents' = << >>
    BY <1>0, <1>2, <2>1, <2>2, <2>4 DEF PreparedEvents, StartedEvents, CancelEvents, ResultEvents, Run
  <2> HIDE DEF e, Q, P, S, C, QP, QPS, QPSC
  <2> QED  BY <1>5, <1>12, <2>3, <2>5 DEF Q, P, S, C, QP, QPS, QPSC
<1>c. CASE q.op = "cancel"
  <2>1. /\ run.state \in {"queued", "preparing", "running"} /\ run.cancelRequestedAt = 0
        /\ run.state = "running" <=> run.startedAt # 0
        /\ run.runnerResult = NoResult
    BY <1>2, <1>c DEF Permitted, RowShape, ActiveStates
  <2>2. /\ run'.state = IF run.startedAt = 0 THEN "cancelled" ELSE "cancel_requested"
        /\ run'.cancelRequestedAt = q.at /\ run'.startedAt = run.startedAt
        /\ run'.preparingAt = run.preparingAt /\ run'.runnerResult = NoResult
    <3>1. CASE run.state = "running"
      <4>1. run' = [run EXCEPT !.state = "cancel_requested",
                               !.cancelRequestedAt = q.at, !.updatedAt = q.at]
        BY <1>0, <1>c, <3>1, SuccessorRow
      <4> QED  BY <1>0, <2>1, <3>1, <4>1 DEF Run
    <3>2. CASE run.state # "running"
      <4>1. run' = [run EXCEPT !.state = "cancelled", !.cancelRequestedAt = q.at,
                               !.finishedAt = q.at, !.updatedAt = q.at]
        BY <1>0, <1>c, <3>2, SuccessorRow
      <4> QED  BY <1>0, <2>1, <3>2, <4>1 DEF Run
    <3> QED  BY <3>1, <3>2
  <2>3. C = << >>  BY <2>1 DEF CancelEvents
  <2>4. e = IF run.startedAt = 0
            THEN [type |-> "run_cancelled", state |-> "cancelled", at |-> q.at,
                  result |-> NoResult]
            ELSE [type |-> "cancellation_requested", state |-> "cancel_requested",
                  at |-> q.at, result |-> NoResult]
    BY <1>0, <1>c, <2>2 DEF EventFor, EventOf, TypeFor
  <2>5. P' = P /\ S' = S /\ C' = << e >> /\ ResultEvents' = << >>
    BY <2>2, <2>4 DEF PreparedEvents, StartedEvents, CancelEvents, ResultEvents
  <2> HIDE DEF e, Q, P, S, C, QP, QPS, QPSC
  <2> QED  BY <1>5, <1>13, <2>3, <2>5 DEF Q, P, S, C, QP, QPS, QPSC
<1>d. CASE q.op = "record"
  <2>1. run' = [run EXCEPT !.state = q.result.status, !.finishedAt = q.result.finishedAt,
                           !.runnerResult = q.result, !.updatedAt = q.at]
    BY <1>0, <1>d, SuccessorRow
  <2>2. e = [type |-> "runner_result_recorded", state |-> run'.state, at |-> q.at,
             result |-> run'.runnerResult]
    BY <1>d DEF EventFor, EventOf, TypeFor
  <2>3. run'.runnerResult # NoResult  BY <1>0, <1>d, <2>1 DEF Run
  <2>4. P' = P /\ S' = S /\ C' = C
    BY <1>0, <2>1 DEF PreparedEvents, StartedEvents, CancelEvents, Run
  <2>5. ResultEvents' = << e >>
    BY <1>1, <2>2, <2>3 DEF ResultEvents
  <2> HIDE DEF e, Q, P, S, C, QP, QPS, QPSC
  <2> QED  BY <1>5, <1>14, <2>4, <2>5 DEF Q, P, S, C, QP, QPS, QPSC
<1> QED  BY <1>a, <1>b, <1>c, <1>d DEF Permitted

-----------------------------------------------------------------------------
(* The tables *)

Tables == TypeOK /\ TablesAgree /\ RowShape /\ Marks /\ EventsPast

(* One more event, not older than the row, keeps the log in order. *)
LEMMA LogGrows ==
  ASSUME TypeOK, HistoryOrdered, EventsPast, NEW e \in Event, events' = Append(events, e),
         run.updatedAt <= e.at, run'.updatedAt = e.at
  PROVE  /\ events' \in Seq(Event)
         /\ \A type \in EventTypes : HasEvent(type)' <=> HasEvent(type) \/ type = e.type
         /\ HistoryOrdered'
         /\ EventsPast'
<1>1. /\ events \in Seq(Event) /\ Len(events) \in Nat
      /\ \A i \in 1..Len(events) : events[i] \in Event
      /\ run \in Run
  BY LenProperties DEF TypeOK
<1>2. /\ events' \in Seq(Event)
      /\ Len(events') = Len(events) + 1
      /\ \A i \in 1..Len(events) : events'[i] = events[i]
      /\ events'[Len(events) + 1] = e
  BY <1>1, AppendProperties
<1>3. /\ e.at \in Nat /\ run.updatedAt \in Nat
      /\ \A i \in 1..Len(events) : events[i].at \in Nat
  BY <1>1 DEF Event, Run
<1>4. ASSUME NEW type \in EventTypes
      PROVE  HasEvent(type)' <=> HasEvent(type) \/ type = e.type
  BY <1>1, <1>2 DEF HasEvent
<1>5. EventsPast'
  <2> SUFFICES ASSUME NEW i \in 1..Len(events')
               PROVE  events'[i].at <= e.at
    BY DEF EventsPast
  <2>1. CASE i = Len(events) + 1  BY <1>2, <1>3, <2>1
  <2>2. CASE i \in 1..Len(events)
    <3>1. events[i].at <= run.updatedAt  BY <2>2 DEF EventsPast
    <3> QED  BY <1>2, <1>3, <2>2, <3>1
  <2> QED  BY <1>1, <1>2, <2>1, <2>2
<1>6. HistoryOrdered'
  <2> SUFFICES ASSUME NEW i \in 2..Len(events')
               PROVE  events'[i - 1].at <= events'[i].at
    BY DEF HistoryOrdered
  <2>0. i - 1 \in 1..Len(events)  BY <1>1, <1>2
  <2>1. CASE i = Len(events) + 1
    <3>1. events[i - 1].at <= run.updatedAt  BY <2>0 DEF EventsPast
    <3>2. events'[i - 1] = events[i - 1]  BY <1>2, <2>0
    <3>3. events'[i] = e  BY <1>2, <2>1
    <3>4. events[i - 1].at \in Nat  BY <1>3, <2>0
    <3> QED  BY <1>3, <3>1, <3>2, <3>3, <3>4
  <2>2. CASE i \in 2..Len(events)
    <3>1. events[i - 1].at <= events[i].at  BY <2>2 DEF HistoryOrdered
    <3> QED  BY <1>1, <1>2, <2>0, <2>2, <3>1
  <2> QED  BY <1>1, <1>2, <2>1, <2>2
<1> QED  BY <1>2, <1>4, <1>5, <1>6

(* The story of a row that is not over is the whole log. *)
LEMMA OnlyStory ==
  ASSUME TablesAgree, run.state \notin RunnerStatuses
  PROVE  events = TellingEvents
BY DEF TablesAgree, HistoryCanonical, RunnerStatuses

(* A transition made in one batch keeps the tables. *)
LEMMA TransitionKeepsTables ==
  ASSUME Tables, NEW q \in Request, Permitted(run, q), q.at # 0,
         q.op = "record" => q.result \in Results /\ output = q.result.output,
         run' = Successor(run, q),
         events' = Append(events, EventFor(q, run')),
         result' = IF q.op = "record" THEN q.result ELSE result,
         output' = output
  PROVE  /\ run' \in Run /\ events' \in Seq(Event) /\ result' \in MaybeResult
         /\ TablesAgree' /\ RowShape' /\ Marks' /\ EventsPast'
<1> USE DEF Tables
<1> DEFINE e == EventFor(q, run')
<1>0. /\ run \in Run /\ run' \in Run /\ q.at \in Nat
      /\ run.state \notin RunnerStatuses \cup {"absent"} /\ Grows(run, run')
      /\ run.updatedAt <= q.at
      /\ run'.queuedAt = run.queuedAt /\ run'.updatedAt = q.at
  BY SuccessorGrows, SuccessorRow DEF TypeOK, Request
<1>1. e \in Event /\ e.at = q.at /\ TellingEvents' = Append(TellingEvents, e)
  BY <1>0, StoryGrows
<1>2. /\ events' \in Seq(Event) /\ HistoryOrdered' /\ EventsPast'
      /\ \A type \in EventTypes : HasEvent(type)' <=> HasEvent(type) \/ type = e.type
  BY <1>0, <1>1, LogGrows DEF TablesAgree
<1>3. HistoryCanonical'
  <2>1. events = TellingEvents  BY <1>0, OnlyStory
  <2>2. events' = TellingEvents'  BY <1>1, <2>1
  <2> QED  BY <2>2 DEF HistoryCanonical
<1>4. result' \in MaybeResult
  BY DEF TypeOK, MaybeResult
<1>5. run.runnerResult = NoResult /\ result = NoResult /\ run.queuedAt # 0
  BY <1>0 DEF RowShape, TablesAgree, ResultProjected
<1>6. e.type = TypeFor(q, run')  BY DEF EventFor, EventOf
<1>7. \A type \in EventTypes : HasEvent(type)' <=> HasEvent(type) \/ type = TypeFor(q, run')
  BY <1>2, <1>6
<1> SUFFICES ResultProjected' /\ RowShape' /\ Marks'
  <2>1. CancelledBeforeStart'
    BY DEF CancelledBeforeStart, RowShape, Marks, RunnerStatuses, ResultProjected
  <2> QED  BY <1>0, <1>2, <1>3, <1>4, <2>1 DEF TablesAgree
<1> HIDE DEF e
<1>a. CASE q.op = "prepare"
  <2>1. /\ run.state = "queued" /\ run.startedAt = 0 /\ run.cancelRequestedAt = 0
    BY <1>a DEF Permitted, RowShape
  <2>2. run' = [run EXCEPT !.state = "preparing", !.preparingAt = q.at, !.updatedAt = q.at]
    BY <1>0, <1>a, SuccessorRow
  <2>3. /\ run'.state = "preparing" /\ run'.preparingAt = q.at /\ run'.startedAt = 0
        /\ run'.cancelRequestedAt = 0 /\ run'.runnerResult = NoResult
    BY <1>0, <1>5, <2>1, <2>2 DEF Run
  <2>4. RowShape'
    BY <1>0, <1>5, <2>3 DEF RowShape, RunnerStatuses, ActiveStates
  <2>5. Marks'
    BY <1>7, <1>a, <2>1, <2>3 DEF Marks, TypeFor, EventTypes
  <2>6. ResultProjected'
    BY <1>5, <1>a, <2>3 DEF ResultProjected, RunnerStatuses
  <2> QED  BY <2>4, <2>5, <2>6
<1>b. CASE q.op = "start"
  <2>1. /\ run.state = "preparing" /\ run.preparingAt # 0 /\ run.cancelRequestedAt = 0
    BY <1>b DEF Permitted, RowShape
  <2>2. run' = [run EXCEPT !.state = "running", !.startedAt = q.at, !.updatedAt = q.at]
    BY <1>0, <1>b, SuccessorRow
  <2>3. /\ run'.state = "running" /\ run'.preparingAt = run.preparingAt
        /\ run'.startedAt = q.at /\ run'.cancelRequestedAt = 0
        /\ run'.runnerResult = NoResult
    BY <1>0, <1>5, <2>1, <2>2 DEF Run
  <2>4. RowShape'
    BY <1>0, <1>5, <2>1, <2>3 DEF RowShape, RunnerStatuses, ActiveStates
  <2>5. Marks'
    BY <1>7, <1>b, <2>1, <2>3 DEF Marks, TypeFor, EventTypes
  <2>6. ResultProjected'
    BY <1>5, <1>b, <2>3 DEF ResultProjected, RunnerStatuses
  <2> QED  BY <2>4, <2>5, <2>6
<1>c. CASE q.op = "cancel" /\ run.state = "running"
  <2>1. run.preparingAt # 0 /\ run.startedAt # 0
    BY <1>c DEF RowShape, ActiveStates
  <2>2. run' = [run EXCEPT !.state = "cancel_requested", !.cancelRequestedAt = q.at,
                           !.updatedAt = q.at]
    BY <1>0, <1>c, SuccessorRow
  <2>3. /\ run'.state = "cancel_requested" /\ run'.preparingAt = run.preparingAt
        /\ run'.startedAt = run.startedAt /\ run'.cancelRequestedAt = q.at
        /\ run'.runnerResult = NoResult
    BY <1>0, <1>5, <2>1, <2>2 DEF Run
  <2>4. RowShape'
    BY <1>0, <1>5, <2>1, <2>3 DEF RowShape, RunnerStatuses, ActiveStates
  <2>5. Marks'
    BY <1>7, <1>c, <2>1, <2>3 DEF Marks, TypeFor, EventTypes
  <2>6. ResultProjected'
    BY <1>5, <1>c, <2>3 DEF ResultProjected, RunnerStatuses
  <2> QED  BY <2>4, <2>5, <2>6
<1>d. CASE q.op = "cancel" /\ run.state # "running"
  <2>1. run.state \in {"queued", "preparing"} /\ run.startedAt = 0
    BY <1>d DEF Permitted, RowShape
  <2>2. run' = [run EXCEPT !.state = "cancelled", !.cancelRequestedAt = q.at,
                           !.finishedAt = q.at, !.updatedAt = q.at]
    BY <1>0, <1>d, SuccessorRow
  <2>3. /\ run'.state = "cancelled" /\ run'.preparingAt = run.preparingAt
        /\ run'.startedAt = 0 /\ run'.cancelRequestedAt = q.at
        /\ run'.runnerResult = NoResult
    BY <1>0, <1>5, <2>1, <2>2 DEF Run
  <2>4. RowShape'
    BY <1>0, <1>5, <2>1, <2>3 DEF RowShape, RunnerStatuses, ActiveStates
  <2>5. Marks'
    BY <1>7, <1>d, <2>1, <2>3 DEF Marks, TypeFor, EventTypes
  <2>6. ResultProjected'
    BY <1>5, <1>d, <2>3 DEF ResultProjected, RunnerStatuses
  <2> QED  BY <2>4, <2>5, <2>6
<1>e. CASE q.op = "record"
  <2>1. /\ run.state \in ActiveStates /\ run.startedAt # 0 /\ run.preparingAt # 0
        /\ q.result.status = "cancelled" => run.cancelRequestedAt # 0
    BY <1>e DEF Permitted, RowShape
  <2>2. run' = [run EXCEPT !.state = q.result.status, !.finishedAt = q.result.finishedAt,
                           !.runnerResult = q.result, !.updatedAt = q.at]
    BY <1>0, <1>e, SuccessorRow
  <2>3. /\ run'.state = q.result.status /\ run'.preparingAt = run.preparingAt
        /\ run'.startedAt = run.startedAt
        /\ run'.cancelRequestedAt = run.cancelRequestedAt
        /\ run'.runnerResult = q.result
    BY <1>0, <2>1, <2>2 DEF Run
  <2>4. q.result \in Results /\ q.result.status \in RunnerStatuses /\ q.result # NoResult
    BY <1>e DEF RunnerStatuses
  <2>5. RowShape'
    BY <1>0, <1>5, <2>1, <2>3, <2>4 DEF RowShape, RunnerStatuses, ActiveStates
  <2>6. Marks'
    BY <1>7, <1>e, <2>1, <2>3 DEF Marks, TypeFor, EventTypes
  <2>7. ResultProjected'
    BY <1>5, <1>e, <2>3, <2>4 DEF ResultProjected, RunnerStatuses
  <2> QED  BY <2>5, <2>6, <2>7
<1> QED  BY <1>a, <1>b, <1>c, <1>d, <1>e DEF Permitted

-----------------------------------------------------------------------------
(* The calls *)

(* What a caller was told, see AnswersHonest. *)
Told(q) ==
  CASE q.op = "cancel" -> run.cancelRequestedAt # 0
    [] q.op = "prepare" -> run.preparingAt = q.at
    [] q.op = "start" -> run.startedAt = q.at
    [] OTHER -> result = q.result

CallHonest(c) == call[c].phase = "ok" => Told(call[c].request)

LEMMA AnswersByCall == AnswersHonest <=> \A c \in Callers : CallHonest(c)
BY DEF AnswersHonest, CallHonest, Told

(* The row and the result are only added to. *)
OnlyAdded ==
  /\ run' = run \/ Grows(run, run')
  /\ result' = result \/ result = NoResult
  /\ output' = output \/ output = "none"

LEMMA RankIsNumber == \A s : Rank(s) \in 0..5
BY DEF Rank

(* Whatever is added, a call that does not move keeps what it has. *)
LEMMA OtherCallStands ==
  ASSUME TypeOK, RowShape, OnlyAdded, NEW c \in Callers, call'[c] = call[c],
         CallShape(c), CallHonest(c)
  PROVE  CallShape(c)' /\ CallHonest(c)'
<1> DEFINE q == call[c].request
<1>0. q' = q /\ call'[c].phase = call[c].phase /\ call'[c].read = call[c].read
  OBVIOUS
<1>1. q \in Request /\ call[c].read \in Run  BY DEF TypeOK, Call
<1>2. Follows(c)' \/ ~Follows(c)
  <2>1. CASE run' = run  BY <1>0, <2>1 DEF Follows
  <2>2. CASE Grows(run, run')
    <3> SUFFICES ASSUME Follows(c) PROVE Follows(c)'  OBVIOUS
    <3>1. Rank(run.state) < Rank(run'.state)  BY <2>2 DEF Grows
    <3>2. Rank(call[c].read.state) < Rank(run'.state)
      BY <3>1, RankIsNumber DEF Follows
    <3>3. call[c].read.state \in ActiveStates => run.startedAt # 0
      BY DEF Follows, RowShape
    <3>4. call[c].read.state \in ActiveStates => run'.startedAt # 0
      BY <2>2, <3>3 DEF Grows
    <3> QED  BY <1>0, <3>2, <3>4 DEF Follows
  <2> QED  BY <2>1, <2>2 DEF OnlyAdded
<1>3. CallShape(c)'
  <2>1. q.op = "record" /\ q.result \in Results /\ output = q.result.output => output' = output
    BY DEF OnlyAdded
  <2>2. Permitted(call[c].read, q) => Permitted(call[c].read, q)'
    BY DEF Permitted
  <2> HIDE DEF Follows, Permitted
  <2> QED  BY <1>0, <1>2, <2>1, <2>2 DEF CallShape, Busy
<1>4. CallHonest(c)'
  <2> SUFFICES ASSUME call[c].phase = "ok" PROVE Told(q)'
    BY <1>0 DEF CallHonest
  <2>1. /\ Told(q) /\ q.at # 0 /\ q.op # "none"
        /\ q.op = "record" => q.result \in Results
    BY DEF CallHonest, CallShape
  <2>2. q.op = "record" => result' = q.result
    BY <2>1 DEF Told, OnlyAdded
  <2>3. q.op \in {"prepare", "start", "cancel", "record"}
    BY <1>1, <2>1 DEF Request, Transitions
  <2>4. CASE run' = run  BY <2>1, <2>2, <2>3, <2>4 DEF Told
  <2>5. CASE Grows(run, run')  BY <2>1, <2>2, <2>3, <2>5 DEF Told, Grows
  <2> QED  BY <2>4, <2>5 DEF OnlyAdded
<1> QED  BY <1>3, <1>4

(* A batch is accepted for one of two reasons: the row is what its call    *)
(* read and makes the transition, or the row is over, with a result, and   *)
(* says the same as the cancellation does.                                 *)
Made(c) ==
  /\ run = call[c].read
  /\ run' = Successor(run, call[c].request)
  /\ events' = Append(events, EventFor(call[c].request, run'))
  /\ result' = IF Records(c) THEN call[c].request.result ELSE result

Strayed(c) ==
  /\ run.state = "cancelled" /\ result # NoResult
  /\ ~HasEvent("run_cancelled")
  /\ run' = run /\ result' = result
  /\ events' = Append(events, StrayCancel)

LEMMA CommitMakesOrStrays ==
  ASSUME StoreInv, NEW c \in Callers, Commit(c)
  PROVE  /\ output' = output
         /\ Permitted(call[c].read, call[c].request)
         /\ \/ Made(c) /\ Succeed(c, call[c].request)
            \/ Strayed(c) /\ Fail(c)
<1> DEFINE q == call[c].request
           read == call[c].read
<1>0. /\ q \in Request /\ read \in Run /\ run \in Run /\ q.at \in Nat
  BY DEF StoreInv, TypeOK, Call, Request
<1>1. /\ Follows(c) /\ Permitted(read, q) /\ q.at # 0
      /\ q.op = "record" => q.result \in Results /\ output = q.result.output
  BY DEF StoreInv, CallShape, Commit, Busy
<1>2. /\ BatchAccepted(c) /\ run' = Updated(c) /\ events' = Append(events, NewEvent(c))
      /\ result' = IF Records(c) THEN q.result ELSE result
      /\ output' = output
  BY DEF Commit
<1>3. CASE run.state = read.state
  <2>1. run = read  BY <1>1, <1>3, RankIsNumber DEF Follows
  <2>2. run' = Successor(run, q)  BY <1>2, <1>3, <2>1 DEF Updated, NewRun
  <2>3. NewEvent(c) = EventFor(q, run')  BY <2>1, <2>2 DEF NewEvent, NewRun, EventFor
  <2>4. Succeed(c, q)  BY <1>3 DEF Commit
  <2> QED  BY <1>1, <1>2, <2>1, <2>2, <2>3, <2>4 DEF Made
<1>4. CASE run.state # read.state
  <2> DEFINE new == Successor(read, q)
  <2>1. run' = run /\ run.state = new.state /\ run.updatedAt = new.updatedAt
    BY <1>2, <1>4 DEF Updated, NewRun, BatchAccepted, ProjectionGuard
  <2>2. /\ Rank(read.state) < Rank(run.state)
        /\ read.state \in ActiveStates => run.startedAt # 0
    BY <1>1, <1>4 DEF Follows
  <2>3. new.updatedAt = q.at  BY <1>0, SuccessorRow
  <2>4. ~HasEvent(TypeFor(q, new))
    BY <1>2 DEF BatchAccepted, NewEvent, NewRun, EventOf
  <2>5. NewEvent(c) = EventFor(q, new)  BY DEF NewEvent, NewRun, EventFor
  <2>6. RowShape /\ Marks /\ ResultProjected  BY DEF StoreInv, TablesAgree
  <2>7. q.op # "prepare"
    <3> SUFFICES ASSUME q.op = "prepare" PROVE FALSE  OBVIOUS
    <3>1. new.state = "preparing"
      <4>1. new = [read EXCEPT !.state = "preparing", !.preparingAt = q.at, !.updatedAt = q.at]
        BY <1>0, SuccessorRow
      <4> QED  BY <1>0, <4>1 DEF Run
    <3>2. run.preparingAt # 0  BY <2>1, <2>6, <3>1 DEF RowShape
    <3> QED  BY <2>4, <2>6, <3>2 DEF Marks, TypeFor
  <2>8. q.op # "start"
    <3> SUFFICES ASSUME q.op = "start" PROVE FALSE  OBVIOUS
    <3>1. new.state = "running"
      <4>1. new = [read EXCEPT !.state = "running", !.startedAt = q.at, !.updatedAt = q.at]
        BY <1>0, SuccessorRow
      <4> QED  BY <1>0, <4>1 DEF Run
    <3>2. run.startedAt # 0  BY <2>1, <2>6, <3>1 DEF RowShape, ActiveStates
    <3> QED  BY <2>4, <2>6, <3>2 DEF Marks, TypeFor
  <2>9. ~(q.op = "cancel" /\ read.state = "running")
    <3> SUFFICES ASSUME q.op = "cancel", read.state = "running" PROVE FALSE  OBVIOUS
    <3>1. new.state = "cancel_requested"
      <4>1. new = [read EXCEPT !.state = "cancel_requested", !.cancelRequestedAt = q.at,
                               !.updatedAt = q.at]
        BY <1>0, SuccessorRow
      <4> QED  BY <1>0, <4>1 DEF Run
    <3>2. run.startedAt # 0 /\ run.cancelRequestedAt # 0
      BY <2>1, <2>6, <3>1 DEF RowShape, ActiveStates
    <3> QED  BY <2>4, <2>6, <3>1, <3>2 DEF Marks, TypeFor
  <2>10. q.op # "record"
    <3> SUFFICES ASSUME q.op = "record" PROVE FALSE  OBVIOUS
    <3>1. new.state = q.result.status /\ q.result.status \in RunnerStatuses
      <4>1. new = [read EXCEPT !.state = q.result.status, !.finishedAt = q.result.finishedAt,
                               !.runnerResult = q.result, !.updatedAt = q.at]
        <5> HIDE DEF q, read
        <5> QED  BY <1>0, SuccessorRow
      <4> QED  BY <1>0, <1>1, <4>1 DEF Run, RunnerStatuses
    <3>2. result = NoResult  BY <1>2 DEF BatchAccepted, Records
    <3>3. read.state \in ActiveStates  BY <1>1 DEF Permitted
    <3>4. run.runnerResult = NoResult  BY <2>6, <3>2 DEF ResultProjected
    <3>5. run.startedAt = 0  BY <2>1, <2>6, <3>1, <3>4 DEF RowShape
    <3> QED  BY <2>2, <3>3, <3>5
  <2>11. q.op = "cancel" /\ read.state # "running"
    BY <1>1, <2>7, <2>8, <2>9, <2>10 DEF Permitted
  <2>12. new.state = "cancelled"
    <3>1. new = [read EXCEPT !.state = "cancelled", !.cancelRequestedAt = q.at,
                             !.finishedAt = q.at, !.updatedAt = q.at]
      BY <1>0, <2>11, SuccessorRow
    <3> QED  BY <1>0, <3>1 DEF Run
  <2>13. ~HasEvent("run_cancelled")  BY <2>4, <2>11, <2>12 DEF TypeFor
  <2>14. result # NoResult
    <3>1. run.cancelRequestedAt # 0  BY <2>1, <2>6, <2>12 DEF RowShape
    <3>2. run.startedAt # 0  BY <2>6, <2>13, <3>1 DEF Marks
    <3>3. run.runnerResult # NoResult
      BY <2>1, <2>6, <2>12, <3>2 DEF RowShape, RunnerStatuses
    <3> QED  BY <2>6, <3>3 DEF ResultProjected
  <2>15. NewEvent(c) = StrayCancel
    BY <2>1, <2>3, <2>5, <2>11, <2>12 DEF EventFor, EventOf, TypeFor, StrayCancel
  <2>16. result' = result  BY <1>2, <2>11 DEF Records
  <2>17. Fail(c)  BY <1>4 DEF Commit
  <2> QED
    BY <1>1, <1>2, <2>1, <2>12, <2>13, <2>14, <2>15, <2>16, <2>17 DEF Strayed
<1> QED  BY <1>3, <1>4

-----------------------------------------------------------------------------
(* Steps *)

(* Tables that no step touches stay in agreement. *)
LEMMA TablesStay ==
  ASSUME Tables, TypeOK', UNCHANGED <<run, events, result, output>>
  PROVE  Tables'
<1>1. /\ TellingEvents' = TellingEvents /\ StrayCancel' = StrayCancel
      /\ \A type \in EventTypes : HasEvent(type)' <=> HasEvent(type)
  BY DEF TellingEvents, QueuedEvents, PreparedEvents, StartedEvents, CancelEvents,
     ResultEvents, StrayCancel, HasEvent
<1>2. HistoryCanonical'  BY <1>1 DEF Tables, TablesAgree, HistoryCanonical
<1>3. HistoryOrdered' /\ EventsPast'
  BY DEF Tables, TablesAgree, HistoryOrdered, EventsPast
<1>4. ResultProjected'  BY DEF Tables, TablesAgree, ResultProjected
<1>5. CancelledBeforeStart'
  BY <1>1 DEF Tables, TablesAgree, CancelledBeforeStart, EventTypes
<1>6. RowShape'  BY DEF Tables, RowShape
<1>7. Marks'  BY <1>1 DEF Tables, Marks, EventTypes
<1> QED  BY <1>2, <1>3, <1>4, <1>5, <1>6, <1>7 DEF Tables, TablesAgree

LEMMA StoreInvParts ==
  StoreInv <=> Tables /\ \A c \in Callers : CallShape(c) /\ CallHonest(c)
BY AnswersByCall DEF StoreInv, Tables

(* A step of one call: the others keep what they have. *)
LEMMA OneCallMoves ==
  ASSUME StoreInv, OnlyAdded, Tables', NEW c \in Callers,
         \A d \in Callers \ {c} : call'[d] = call[d],
         CallShape(c)', CallHonest(c)'
  PROVE  StoreInv'
<1>1. TypeOK /\ RowShape  BY DEF StoreInv
<1>2. ASSUME NEW d \in Callers PROVE CallShape(d)' /\ CallHonest(d)'
  <2>1. CASE d = c  BY <2>1
  <2>2. CASE d # c
    <3>1. CallShape(d) /\ CallHonest(d)  BY StoreInvParts
    <3> QED  BY <1>1, <2>2, <3>1, OtherCallStands
  <2> QED  BY <2>1, <2>2
<1>3. \A d \in Callers : CallShape(d)' /\ CallHonest(d)'  BY <1>2
<1>4. AnswersHonest'  BY <1>3 DEF AnswersHonest, CallHonest, Told
<1> QED  BY <1>3, <1>4 DEF StoreInv, Tables

LEMMA NoCallMoves ==
  ASSUME StoreInv, OnlyAdded, Tables', call' = call
  PROVE  StoreInv'
<1>1. TypeOK /\ RowShape  BY DEF StoreInv
<1>2. ASSUME NEW d \in Callers PROVE CallShape(d)' /\ CallHonest(d)'
  <2>1. CallShape(d) /\ CallHonest(d)  BY StoreInvParts
  <2> QED  BY <1>1, <2>1, OtherCallStands
<1>3. \A d \in Callers : CallShape(d)' /\ CallHonest(d)'  BY <1>2
<1>4. AnswersHonest'  BY <1>3 DEF AnswersHonest, CallHonest, Told
<1> QED  BY <1>3, <1>4 DEF StoreInv, Tables

LEMMA NoCallIsCall == NoCall \in Call /\ NoRun \in Run /\ NoRequest \in Request
<1>1. NoRun \in Run  BY DEF NoRun, Run, RunStates, MaybeResult
<1>2. NoRequest \in Request  BY DEF NoRequest, Request, MaybeResult
<1> QED  BY <1>1, <1>2 DEF NoCall, Call, Phases

(* A call that fails leaves nothing. *)
LEMMA FailedCall ==
  ASSUME call \in [Callers -> Call], NEW c \in Callers, Fail(c)
  PROVE  /\ call' \in [Callers -> Call]
         /\ \A d \in Callers \ {c} : call'[d] = call[d]
         /\ CallShape(c)' /\ CallHonest(c)'
<1>1. call' \in [Callers -> Call] /\ \A d \in Callers \ {c} : call'[d] = call[d]
  BY NoCallIsCall DEF Fail
<1>2. call'[c].phase = "idle"
  BY DEF Fail, NoCall
<1> QED  BY <1>1, <1>2 DEF CallShape, CallHonest, Busy

(* A call that succeeds was told the truth. *)
LEMMA SucceededCall ==
  ASSUME call \in [Callers -> Call], NEW c \in Callers, NEW q \in Request, Succeed(c, q),
         q.at # 0, q.op # "none", q.op = "record" => q.result \in Results, Told(q)'
  PROVE  /\ call' \in [Callers -> Call]
         /\ \A d \in Callers \ {c} : call'[d] = call[d]
         /\ CallShape(c)' /\ CallHonest(c)'
<1> DEFINE done == [NoCall EXCEPT !.phase = "ok", !.request = q]
<1>1. done \in Call /\ done.phase = "ok" /\ done.request = q
  BY NoCallIsCall DEF Call, Phases, NoCall
<1>2. call' = [call EXCEPT ![c] = done]  BY DEF Succeed
<1> HIDE DEF done
<1>3. /\ call' \in [Callers -> Call] /\ call'[c] = done
      /\ \A d \in Callers \ {c} : call'[d] = call[d]
  BY <1>1, <1>2
<1>4. CallHonest(c)'
  <2>1. call'[c].request = q  BY <1>1, <1>3
  <2> QED  BY <2>1 DEF CallHonest, Told
<1> QED  BY <1>1, <1>3, <1>4 DEF CallShape, Busy

LEMMA ClockReading ==
  ASSUME TypeOK, NEW t \in Instants
  PROVE  t \in Nat /\ t # 0
BY DEF Instants, TypeOK

LEMMA QueueKeeps ==
  ASSUME StoreInv, NEW t \in Instants, Queue(t)
  PROVE  StoreInv' /\ run'.state = "queued" /\ run.state = "absent"
<1>0. TypeOK /\ RowShape /\ ResultProjected /\ t \in Nat /\ t # 0
  BY ClockReading DEF StoreInv, TablesAgree
<1>1. /\ run = NoRun /\ events = << >> /\ result = NoResult
      /\ run' = [NoRun EXCEPT !.state = "queued", !.queuedAt = t, !.updatedAt = t]
      /\ events' = << EventOf("run_queued", run', t) >>
      /\ UNCHANGED <<now, result, executed, output, call>>
  BY <1>0 DEF Queue, RowShape, ResultProjected, NoRun
<1> DEFINE e == [type |-> "run_queued", state |-> "queued", at |-> t, result |-> NoResult]
<1>2. /\ run' \in Run /\ run'.state = "queued" /\ run'.queuedAt = t
      /\ run'.preparingAt = 0 /\ run'.startedAt = 0 /\ run'.cancelRequestedAt = 0
      /\ run'.runnerResult = NoResult /\ run'.updatedAt = t
  BY <1>0, <1>1, NoCallIsCall DEF Run, NoRun, RunStates
<1>3. events' = << e >> /\ e \in Event
  BY <1>0, <1>1, <1>2 DEF EventOf, Event, EventTypes, RunStates, MaybeResult
<1> HIDE DEF e
<1>4. Len(events') = 1 /\ events'[1] = e /\ events' \in Seq(Event)
  BY <1>3
<1>5. \A type : HasEvent(type)' <=> type = e.type
  BY <1>4 DEF HasEvent
<1>6. TellingEvents' = events'
  <2>1. /\ QueuedEvents' = << e >> /\ PreparedEvents' = << >> /\ StartedEvents' = << >>
        /\ CancelEvents' = << >> /\ ResultEvents' = << >>
    BY <1>2 DEF e, QueuedEvents, PreparedEvents, StartedEvents, CancelEvents, ResultEvents
  <2>2. << e >> \o << >> = << e >>  BY <1>3, <1>4, OneMore
  <2> QED  BY <1>2, <1>3, <2>1, <2>2 DEF TellingEvents
<1>7. TypeOK'  BY <1>0, <1>1, <1>2, <1>4 DEF TypeOK
<1>8. HistoryCanonical'  BY <1>6 DEF HistoryCanonical
<1>9. HistoryOrdered'  BY <1>4 DEF HistoryOrdered
<1>10. EventsPast'  BY <1>0, <1>2, <1>4 DEF EventsPast, e
<1>11. ResultProjected' /\ CancelledBeforeStart'
  BY <1>1, <1>2 DEF ResultProjected, CancelledBeforeStart, RunnerStatuses
<1>12. RowShape'
  BY <1>0, <1>2 DEF RowShape, ActiveStates, RunnerStatuses
<1>13. Marks'
  BY <1>2, <1>5 DEF Marks, e
<1>14. OnlyAdded
  BY <1>1, <1>2, Ranks DEF OnlyAdded, Grows, NoRun
<1>15. Tables'
  BY <1>7, <1>8, <1>9, <1>10, <1>11, <1>12, <1>13 DEF Tables, TablesAgree
<1> QED  BY <1>1, <1>2, <1>14, <1>15, NoCallMoves DEF Queue

LEMMA SandboxKeeps ==
  ASSUME StoreInv, NEW x \in Results, Execute(x) \/ PersistOutput(x)
  PROVE  StoreInv' /\ UNCHANGED <<run, events, result>>
<1>0. TypeOK /\ Tables  BY DEF StoreInv, Tables
<1>1. CASE Execute(x)
  <2>1. TypeOK'  BY <1>0, <1>1 DEF TypeOK, Execute
  <2>2. Tables'  BY <1>0, <1>1, <2>1, TablesStay DEF Execute
  <2>3. OnlyAdded  BY <1>1 DEF Execute, OnlyAdded
  <2> QED  BY <1>1, <2>2, <2>3, NoCallMoves DEF Execute
<1>2. CASE PersistOutput(x)
  <2>1. /\ x.output \in {y.output : y \in Results} /\ output' = x.output
        /\ output = "none" /\ run.state \in ActiveStates
        /\ UNCHANGED <<now, run, events, result, executed, call>>
    BY <1>2 DEF PersistOutput
  <2>2. TypeOK'  BY <1>0, <2>1 DEF TypeOK
  <2>3. result = NoResult
    BY <2>1 DEF StoreInv, TablesAgree, ResultProjected, RowShape, ActiveStates, RunnerStatuses
  <2>4. ResultProjected'
    BY <1>0, <2>1, <2>3 DEF Tables, TablesAgree, ResultProjected
  <2>5. HistoryCanonical'
    <3>1. events = TellingEvents
      BY <2>1, <1>0, OnlyStory DEF Tables, ActiveStates, RunnerStatuses
    <3>2. TellingEvents' = TellingEvents
      BY <2>1 DEF TellingEvents, QueuedEvents, PreparedEvents, StartedEvents, CancelEvents,
         ResultEvents
    <3> QED  BY <2>1, <3>1, <3>2 DEF HistoryCanonical
  <2>6. HistoryOrdered' /\ EventsPast'
    BY <1>0, <2>1 DEF Tables, TablesAgree, HistoryOrdered, EventsPast
  <2>7. \A type \in EventTypes : HasEvent(type)' <=> HasEvent(type)
    BY <2>1 DEF HasEvent
  <2>8. CancelledBeforeStart' /\ RowShape'
    BY <1>0, <2>1 DEF CancelledBeforeStart, RowShape, Tables, ActiveStates
  <2>9. Marks'  BY <1>0, <2>1, <2>7 DEF Tables, Marks, EventTypes
  <2>10. Tables'
    BY <2>2, <2>4, <2>5, <2>6, <2>8, <2>9 DEF Tables, TablesAgree
  <2>11. OnlyAdded  BY <2>1 DEF OnlyAdded
  <2> QED  BY <2>1, <2>10, <2>11, NoCallMoves
<1> QED  BY <1>1, <1>2

LEMMA TickKeeps ==
  ASSUME StoreInv, Tick
  PROVE  StoreInv' /\ UNCHANGED <<run, events, result>>
<1>0. TypeOK /\ Tables  BY DEF StoreInv, Tables
<1>1. TypeOK'  BY <1>0 DEF TypeOK, Tick
<1>2. Tables'  BY <1>0, <1>1, TablesStay DEF Tick
<1>3. OnlyAdded  BY DEF Tick, OnlyAdded
<1> QED  BY <1>2, <1>3, NoCallMoves DEF Tick

(* A step that touches no table keeps the invariant if its call does well. *)
LEMMA CallKeeps ==
  ASSUME StoreInv, NEW c \in Callers, UNCHANGED <<now, run, events, result, executed, output>>,
         call' \in [Callers -> Call], \A d \in Callers \ {c} : call'[d] = call[d],
         CallShape(c)', CallHonest(c)'
  PROVE  StoreInv'
<1>1. TypeOK'  BY DEF StoreInv, TypeOK
<1>2. Tables'  BY <1>1, TablesStay DEF StoreInv, Tables
<1>3. OnlyAdded  BY DEF OnlyAdded
<1> QED  BY <1>2, <1>3, OneCallMoves

(* A call that goes on has read the row as it is. *)
LEMMA ProceedingCall ==
  ASSUME StoreInv, NEW c \in Callers, NEW q \in Request, NEW phase \in {"checking", "numbering"},
         Proceed(c, q, phase), UNCHANGED <<run, output>>,
         run.state # "absent", q.at # 0, q.op # "none",
         q.op = "record" => q.result \in Results /\ output = q.result.output,
         phase = "checking" => q.op = "record",
         phase # "checking" => Permitted(run, q)
  PROVE  /\ call' \in [Callers -> Call]
         /\ \A d \in Callers \ {c} : call'[d] = call[d]
         /\ CallShape(c)' /\ CallHonest(c)'
<1>0. call \in [Callers -> Call] /\ run \in Run  BY DEF StoreInv, TypeOK
<1> DEFINE new == [phase |-> phase, request |-> q, read |-> run, seq |-> 0]
<1>1. new \in Call  BY <1>0 DEF Call, Phases
<1>2. /\ call' \in [Callers -> Call] /\ call'[c] = new
      /\ \A d \in Callers \ {c} : call'[d] = call[d]
  BY <1>0, <1>1 DEF Proceed
<1>3. Follows(c)'  BY <1>2 DEF Follows
<1>4. Permitted(run, q) => Permitted(call'[c].read, call'[c].request)
  BY <1>2
<1>5. CallShape(c)'
  <2> HIDE DEF Follows, Permitted
  <2> QED  BY <1>2, <1>3, <1>4 DEF CallShape, Busy
<1>6. CallHonest(c)'  BY <1>2 DEF CallHonest
<1> QED  BY <1>2, <1>5, <1>6

(* A call that goes on keeps what it asks for and what it has read. *)
LEMMA BecomingCall ==
  ASSUME StoreInv, NEW c \in Callers, NEW phase \in {"numbering", "committing", "reloading"},
         UNCHANGED <<run, output>>,
         call' \in [Callers -> Call],
         call'[c].phase = phase, call'[c].request = call[c].request,
         call'[c].read = call[c].read,
         call[c].phase \in Busy, Permitted(call[c].read, call[c].request)
  PROVE  CallShape(c)' /\ CallHonest(c)'
<1>1. CallShape(c) /\ Follows(c)  BY DEF StoreInv, CallShape
<1>2. Follows(c)'  BY <1>1 DEF Follows
<1>3. Permitted(call'[c].read, call'[c].request)  OBVIOUS
<1>4. CallShape(c)'
  <2> HIDE DEF Follows, Permitted
  <2> QED  BY <1>1, <1>2, <1>3 DEF CallShape, Busy
<1>5. CallHonest(c)'  BY DEF CallHonest
<1> QED  BY <1>4, <1>5

LEMMA TransitionKeeps ==
  ASSUME StoreInv, NEW c \in Callers, NEW op \in Transitions, NEW t \in Instants,
         Transition(c, op, t)
  PROVE  StoreInv' /\ UNCHANGED <<run, events, result>>
<1> DEFINE q == [op |-> op, result |-> NoResult, at |-> t]
<1>0. /\ TypeOK /\ RowShape /\ call \in [Callers -> Call]
      /\ UNCHANGED <<now, run, events, result, executed, output>>
      /\ run.state # "absent"
  BY DEF StoreInv, TypeOK, Transition, Available
<1>1. /\ q \in Request /\ q.op = op /\ q.at = t /\ q.at # 0 /\ q.op # "none"
      /\ q.op # "record"
  BY <1>0, ClockReading DEF Request, Transitions, MaybeResult
<1>2. \/ Repeats(q) /\ Succeed(c, q)
      \/ Permitted(run, q) /\ Proceed(c, q, "numbering")
  BY DEF Transition
<1> HIDE DEF q
<1>3. CASE Repeats(q) /\ Succeed(c, q)
  <2>1. Told(q)'  BY <1>0, <1>1, <1>3 DEF Told, Repeats, RowShape
  <2> QED  BY <1>0, <1>1, <1>3, <2>1, SucceededCall, CallKeeps
<1>4. CASE Permitted(run, q) /\ Proceed(c, q, "numbering")
  <2>1. /\ call' \in [Callers -> Call]
        /\ \A d \in Callers \ {c} : call'[d] = call[d]
        /\ CallShape(c)' /\ CallHonest(c)'
    BY <1>0, <1>1, <1>4, ProceedingCall
  <2> QED  BY <1>0, <2>1, CallKeeps
<1> QED  BY <1>2, <1>3, <1>4

LEMMA RecordResultKeeps ==
  ASSUME StoreInv, NEW c \in Callers, NEW x \in Results, NEW t \in Instants,
         RecordResult(c, x, t)
  PROVE  StoreInv' /\ UNCHANGED <<run, events, result>>
<1> DEFINE q == [op |-> "record", result |-> x, at |-> t]
<1>0. /\ TypeOK /\ call \in [Callers -> Call]
      /\ UNCHANGED <<now, run, events, result, executed, output>>
      /\ run.state # "absent" /\ output = x.output /\ Proceed(c, q, "checking")
  BY DEF StoreInv, TypeOK, RecordResult, Available
<1>1. /\ q \in Request /\ q.op = "record" /\ q.at # 0 /\ q.result = x
  BY <1>0, ClockReading DEF Request, MaybeResult
<1> HIDE DEF q
<1>2. /\ call' \in [Callers -> Call]
      /\ \A d \in Callers \ {c} : call'[d] = call[d]
      /\ CallShape(c)' /\ CallHonest(c)'
  BY <1>0, <1>1, ProceedingCall
<1> QED  BY <1>0, <1>2, CallKeeps

(* The steps between the reads and the batch, and the end of a call. *)
LEMMA MiddleKeeps ==
  ASSUME StoreInv, NEW c \in Callers,
         CheckResult(c) \/ NumberEvent(c) \/ CommitAborted(c) \/ Reload(c) \/ Abandon(c)
  PROVE  StoreInv' /\ UNCHANGED <<run, events, result>>
<1>q. PICK q \in Request : q = call[c].request  BY DEF StoreInv, TypeOK, Call
<1>0. /\ call \in [Callers -> Call] /\ CallShape(c) /\ call[c].read \in Run
      /\ q = call[c].request
      /\ UNCHANGED <<now, run, events, result, executed, output>>
  BY <1>q DEF StoreInv, TypeOK, Call, CheckResult, NumberEvent, CommitAborted, Reload, Abandon
<1>1. ASSUME Fail(c) PROVE StoreInv'
  BY <1>0, <1>1, FailedCall, CallKeeps
<1>2. ASSUME call[c].phase # "idle", Told(q)', Succeed(c, q) PROVE StoreInv'
  <2>1. q.at # 0 /\ q.op # "none" /\ (q.op = "record" => q.result \in Results)
    BY <1>0, <1>2 DEF CallShape
  <2>2. /\ call' \in [Callers -> Call] /\ \A d \in Callers \ {c} : call'[d] = call[d]
        /\ CallShape(c)' /\ CallHonest(c)'
    BY <1>0, <1>2, <2>1, SucceededCall
  <2> QED  BY <1>0, <2>2, CallKeeps
<1>3. ASSUME NEW phase \in {"numbering", "committing", "reloading"},
             call'[c].phase = phase, call'[c].request = q, call'[c].read = call[c].read,
             call' \in [Callers -> Call], \A d \in Callers \ {c} : call'[d] = call[d],
             call[c].phase \in Busy, Permitted(call[c].read, q)
      PROVE  StoreInv'
  <2>1. CallShape(c)' /\ CallHonest(c)'  BY <1>0, <1>3, BecomingCall
  <2> QED  BY <1>0, <1>3, <2>1, CallKeeps
<1>4. ASSUME NEW phase \in {"numbering", "reloading"}, Become(c, phase)
      PROVE  /\ call' \in [Callers -> Call] /\ \A d \in Callers \ {c} : call'[d] = call[d]
             /\ call'[c].phase = phase /\ call'[c].request = q
             /\ call'[c].read = call[c].read
  <2>1. call[c] \in Call  BY <1>0
  <2>2. [call[c] EXCEPT !.phase = phase] \in Call  BY <2>1 DEF Call, Phases
  <2> QED  BY <1>0, <1>4, <2>1, <2>2 DEF Become, Call
<1>5. CASE CheckResult(c)
  <2> DEFINE known == result = q.result /\ call[c].read.runnerResult = q.result
             fresh == result = NoResult /\ Permitted(call[c].read, q)
  <2>1. /\ call[c].phase = "checking" /\ q.op = "record"
        /\ \/ known /\ Succeed(c, q)
           \/ fresh /\ Become(c, "numbering")
           \/ Fail(c)
    BY <1>0, <1>5 DEF CheckResult, CallShape
  <2>2. CASE known /\ Succeed(c, q)
    <3>1. Told(q)'  BY <1>0, <2>1, <2>2 DEF Told
    <3> QED  BY <1>0, <1>2, <2>1, <2>2, <3>1
  <2>3. CASE fresh /\ Become(c, "numbering")
    BY <1>0, <1>3, <1>4, <2>1, <2>3 DEF Busy
  <2> QED  BY <1>0, <1>1, <2>1, <2>2, <2>3
<1>6. CASE NumberEvent(c)
  <2> DEFINE new == [call[c] EXCEPT !.phase = "committing", !.seq = Len(events) + 1]
  <2>1. call[c].phase = "numbering" /\ call' = [call EXCEPT ![c] = new]
    BY <1>0, <1>6 DEF NumberEvent, Call
  <2>2. call[c] \in Call /\ Len(events) + 1 \in Nat
    BY <1>0, LenProperties DEF StoreInv, TypeOK
  <2>3. /\ new \in Call /\ new.phase = "committing" /\ new.request = q
        /\ new.read = call[c].read
    BY <1>0, <2>2 DEF Call, Phases
  <2>4. Permitted(call[c].read, q)  BY <1>0, <2>1 DEF CallShape, Busy
  <2> HIDE DEF new
  <2> QED  BY <1>0, <1>3, <2>1, <2>3, <2>4 DEF Busy
<1>7. CASE CommitAborted(c)
  <2>1. call[c].phase = "committing" /\ Become(c, "reloading")
    BY <1>7 DEF CommitAborted
  <2>2. Permitted(call[c].read, q)  BY <1>0, <2>1 DEF CallShape, Busy
  <2> QED  BY <1>0, <1>3, <1>4, <2>1, <2>2 DEF Busy
<1>8. CASE Reload(c)
  <2>1. \/ SameProjection(run, NewRun(c)) /\ Succeed(c, q)
        \/ Fail(c)
    BY <1>0, <1>8 DEF Reload
  <2>2. CASE SameProjection(run, NewRun(c)) /\ Succeed(c, q)
    <3> DEFINE new == NewRun(c)
    <3>1. /\ call[c].phase = "reloading" /\ q.at # 0 /\ q.op # "none"
      BY <1>0, <1>8 DEF Reload, CallShape
    <3>2. run \in Run /\ q.at \in Nat  BY <1>0 DEF StoreInv, TypeOK, Request
    <3>3. run = [new EXCEPT !.updatedAt = run.updatedAt]
      BY <2>2 DEF SameProjection
    <3>4. \/ q.op = "prepare" /\ run.preparingAt = q.at
          \/ q.op = "start" /\ run.startedAt = q.at
          \/ q.op = "cancel" /\ run.cancelRequestedAt = q.at
          \/ q.op = "record" /\ run.runnerResult = q.result
      <4> DEFINE read == call[c].read
      <4>0. read \in Run /\ q \in Request /\ new = Successor(read, q)
        BY <1>0 DEF NewRun
      <4> HIDE DEF read, new
      <4>1. CASE q.op = "prepare"
        <5>1. new = [read EXCEPT !.state = "preparing", !.preparingAt = q.at, !.updatedAt = q.at]
          BY <4>0, <4>1, SuccessorRow
        <5> QED  BY <3>3, <4>0, <4>1, <5>1 DEF Run
      <4>2. CASE q.op = "start"
        <5>1. new = [read EXCEPT !.state = "running", !.startedAt = q.at, !.updatedAt = q.at]
          BY <4>0, <4>2, SuccessorRow
        <5> QED  BY <3>3, <4>0, <4>2, <5>1 DEF Run
      <4>3. CASE q.op = "cancel" /\ read.state = "running"
        <5>1. new = [read EXCEPT !.state = "cancel_requested", !.cancelRequestedAt = q.at,
                                 !.updatedAt = q.at]
          BY <4>0, <4>3, SuccessorRow
        <5> QED  BY <3>3, <4>0, <4>3, <5>1 DEF Run
      <4>4. CASE q.op = "cancel" /\ read.state # "running"
        <5>1. new = [read EXCEPT !.state = "cancelled", !.cancelRequestedAt = q.at,
                                 !.finishedAt = q.at, !.updatedAt = q.at]
          BY <4>0, <4>4, SuccessorRow
        <5> QED  BY <3>3, <4>0, <4>4, <5>1 DEF Run
      <4>5. CASE q.op = "record"
        <5>1. new = [read EXCEPT !.state = q.result.status, !.finishedAt = q.result.finishedAt,
                                 !.runnerResult = q.result, !.updatedAt = q.at]
          BY <4>0, <4>5, SuccessorRow
        <5> QED  BY <3>3, <4>0, <4>5, <5>1 DEF Run
      <4> QED
        BY <3>1, <4>0, <4>1, <4>2, <4>3, <4>4, <4>5 DEF Request, Transitions
    <3>5. result = run.runnerResult
      BY DEF StoreInv, TablesAgree, ResultProjected
    <3>6. Told(q)'
      <4> QED  BY <1>0, <3>1, <3>4, <3>5 DEF Told
    <3> QED  BY <1>0, <1>2, <2>2, <3>1, <3>6
  <2> QED  BY <1>0, <1>1, <2>1, <2>2
<1>9. CASE Abandon(c)
  BY <1>0, <1>1, <1>9 DEF Abandon
<1> QED  BY <1>5, <1>6, <1>7, <1>8, <1>9

(* A committed batch is the transition it was computed for, or the stray   *)
(* event of a cancellation that changes no row.                            *)
LEMMA CommitKeeps ==
  ASSUME StoreInv, NEW c \in Callers, Commit(c)
  PROVE  /\ StoreInv'
         /\ \/ UNCHANGED <<run, result>>
            \/ /\ Permitted(run, call[c].request)
               /\ run' = Successor(run, call[c].request)
               /\ result' = IF Records(c) THEN call[c].request.result ELSE result
<1>q. PICK q \in Request : q = call[c].request  BY DEF StoreInv, TypeOK, Call
<1>0. /\ TypeOK /\ Tables /\ RowShape /\ call \in [Callers -> Call] /\ CallShape(c)
      /\ call[c].phase = "committing" /\ UNCHANGED <<now, executed, output>>
      /\ Permitted(call[c].read, q)
      /\ (Records(c) <=> q.op = "record") /\ (Records(c) => result = NoResult)
  BY <1>q DEF StoreInv, Tables, TypeOK, Commit, CallShape, Busy, Records, BatchAccepted
<1>1. /\ q.at # 0 /\ q.op # "none"
      /\ q.op = "record" => q.result \in Results /\ output = q.result.output
  BY <1>0, <1>q DEF CallShape, Busy
<1>2. \/ Made(c) /\ Succeed(c, q)
      \/ Strayed(c) /\ Fail(c)
  BY <1>q, CommitMakesOrStrays
<1>3. CASE Made(c) /\ Succeed(c, q)
  <2>1. /\ Permitted(run, q) /\ run' = Successor(run, q)
        /\ events' = Append(events, EventFor(q, run'))
        /\ result' = IF q.op = "record" THEN q.result ELSE result
    BY <1>0, <1>3, <1>q DEF Made
  <2>2. /\ run' \in Run /\ events' \in Seq(Event) /\ result' \in MaybeResult
        /\ TablesAgree' /\ RowShape' /\ Marks' /\ EventsPast'
    BY <1>0, <1>1, <2>1, TransitionKeepsTables
  <2>3. Grows(run, run')  BY <1>0, <1>1, <2>1, SuccessorGrows
  <2>4. OnlyAdded  BY <1>0, <2>1, <2>3 DEF OnlyAdded
  <2>5. Told(q)'
    <3>0. run \in Run /\ q.at \in Nat /\ run' = Successor(run, q)
      BY <1>0, <2>1 DEF TypeOK, Request
    <3>1. CASE q.op = "prepare"
      <4>1. run' = [run EXCEPT !.state = "preparing", !.preparingAt = q.at, !.updatedAt = q.at]
        BY <3>0, <3>1, SuccessorRow
      <4> QED  BY <3>0, <3>1, <4>1 DEF Run, Told
    <3>2. CASE q.op = "start"
      <4>1. run' = [run EXCEPT !.state = "running", !.startedAt = q.at, !.updatedAt = q.at]
        BY <3>0, <3>2, SuccessorRow
      <4> QED  BY <3>0, <3>2, <4>1 DEF Run, Told
    <3>3. CASE q.op = "cancel" /\ run.state = "running"
      <4>1. run' = [run EXCEPT !.state = "cancel_requested", !.cancelRequestedAt = q.at,
                               !.updatedAt = q.at]
        BY <3>0, <3>3, SuccessorRow
      <4> QED  BY <1>1, <3>0, <3>3, <4>1 DEF Run, Told
    <3>4. CASE q.op = "cancel" /\ run.state # "running"
      <4>1. run' = [run EXCEPT !.state = "cancelled", !.cancelRequestedAt = q.at,
                               !.finishedAt = q.at, !.updatedAt = q.at]
        BY <3>0, <3>4, SuccessorRow
      <4> QED  BY <1>1, <3>0, <3>4, <4>1 DEF Run, Told
    <3>5. CASE q.op = "record"  BY <2>1, <3>5 DEF Told
    <3> QED  BY <1>1, <3>1, <3>2, <3>3, <3>4, <3>5 DEF Request, Transitions
  <2>6. /\ call' \in [Callers -> Call] /\ \A d \in Callers \ {c} : call'[d] = call[d]
        /\ CallShape(c)' /\ CallHonest(c)'
    BY <1>0, <1>1, <1>3, <2>5, SucceededCall
  <2>7. TypeOK'  BY <1>0, <2>2, <2>6 DEF TypeOK
  <2>8. Tables'  BY <2>2, <2>7 DEF Tables
  <2>9. StoreInv'  BY <2>4, <2>6, <2>8, OneCallMoves
  <2> QED  BY <1>0, <1>q, <2>1, <2>9
<1>4. CASE Strayed(c) /\ Fail(c)
  <2>1. /\ run.state = "cancelled" /\ result # NoResult /\ ~HasEvent("run_cancelled")
        /\ run' = run /\ result' = result /\ events' = Append(events, StrayCancel)
    BY <1>4 DEF Strayed
  <2>2. /\ StrayCancel \in Event /\ StrayCancel.at = run.updatedAt
        /\ StrayCancel.type = "run_cancelled" /\ run.updatedAt \in Nat
    BY <1>0 DEF StrayCancel, TypeOK, Event, Run, EventTypes, RunStates, RunnerStatuses,
       MaybeResult
  <2> DEFINE e == StrayCancel
  <2> HIDE DEF e
  <2>3. /\ events' \in Seq(Event) /\ HistoryOrdered' /\ EventsPast'
        /\ \A type \in EventTypes : HasEvent(type)' <=> HasEvent(type) \/ type = "run_cancelled"
    <3>1. /\ HistoryOrdered /\ EventsPast
      BY <1>0 DEF Tables, TablesAgree
    <3>2. /\ e \in Event /\ events' = Append(events, e) /\ run.updatedAt <= e.at
          /\ run'.updatedAt = e.at /\ e.type = "run_cancelled"
      BY <2>1, <2>2 DEF e
    <3> QED  BY <1>0, <3>1, <3>2, LogGrows
  <2>4. HistoryCanonical'
    <3>1. events = TellingEvents
      <4> SUFFICES ASSUME events = Append(TellingEvents, StrayCancel) PROVE FALSE
        BY <1>0 DEF Tables, TablesAgree, HistoryCanonical
      <4>1. events \in Seq(Event)  BY <1>0 DEF TypeOK
      <4>2. TellingEvents \in Seq(Event)
        <5>1. QueuedEvents \o PreparedEvents \o StartedEvents \o CancelEvents \o ResultEvents
                \in Seq(Event)
          BY <1>0, PartsAreEvents, ConcatProperties
        <5> QED  BY <5>1, <2>1 DEF TellingEvents
      <4>3. events[Len(events)] = StrayCancel /\ Len(events) \in 1..Len(events)
        BY <4>1, <4>2, <2>2, AppendProperties, LenProperties
      <4> QED  BY <2>1, <2>2, <4>3 DEF HasEvent
    <3>2. TellingEvents' = TellingEvents /\ StrayCancel' = StrayCancel
      BY <2>1 DEF TellingEvents, QueuedEvents, PreparedEvents, StartedEvents, CancelEvents,
         ResultEvents, StrayCancel
    <3> QED  BY <2>1, <3>1, <3>2 DEF HistoryCanonical
  <2>5. ResultProjected'
    BY <1>0, <2>1 DEF Tables, TablesAgree, ResultProjected
  <2>6. CancelledBeforeStart' /\ RowShape'
    BY <1>0, <2>1 DEF CancelledBeforeStart, RowShape
  <2>7. Marks'
    BY <1>0, <2>1, <2>3 DEF Tables, Marks, EventTypes
  <2>8. /\ call' \in [Callers -> Call] /\ \A d \in Callers \ {c} : call'[d] = call[d]
        /\ CallShape(c)' /\ CallHonest(c)'
    BY <1>0, <1>4, FailedCall
  <2>9. TypeOK'  BY <1>0, <2>1, <2>3, <2>8 DEF TypeOK
  <2>10. Tables'
    BY <2>3, <2>4, <2>5, <2>6, <2>7, <2>9 DEF Tables, TablesAgree
  <2>11. OnlyAdded  BY <1>0, <2>1 DEF OnlyAdded
  <2>12. StoreInv'  BY <2>8, <2>10, <2>11, OneCallMoves
  <2> QED  BY <2>1, <2>12
<1> QED  BY <1>2, <1>3, <1>4

-----------------------------------------------------------------------------
(* The invariant *)

LEMMA StoreInvInit == Init => StoreInv
<1> SUFFICES ASSUME Init PROVE StoreInv  OBVIOUS
<1>1. /\ now = 1 /\ run = NoRun /\ events = << >> /\ result = NoResult
      /\ executed = {} /\ output = "none" /\ call = [c \in Callers |-> NoCall]
  BY DEF Init
<1>2. TypeOK
  <2>1. events \in Seq(Event)  BY <1>1
  <2> QED  BY <1>1, <2>1, NoCallIsCall DEF TypeOK, MaybeResult
<1>3. run.state = "absent" /\ Len(events) = 0  BY <1>1 DEF NoRun
<1>4. HistoryCanonical  BY <1>1, <1>3 DEF HistoryCanonical, TellingEvents
<1>5. HistoryOrdered /\ EventsPast  BY <1>3 DEF HistoryOrdered, EventsPast
<1>6. ResultProjected /\ CancelledBeforeStart
  BY <1>1, <1>3 DEF ResultProjected, CancelledBeforeStart, NoRun, RunnerStatuses
<1>7. RowShape /\ Marks
  BY <1>1, <1>3 DEF RowShape, Marks, NoRun, HasEvent, ActiveStates, RunnerStatuses
<1>8. \A c \in Callers : call[c].phase = "idle"  BY <1>1 DEF NoCall
<1>9. AnswersHonest /\ \A c \in Callers : CallShape(c)
  BY <1>8 DEF AnswersHonest, CallShape, Busy
<1> QED  BY <1>2, <1>4, <1>5, <1>6, <1>7, <1>9 DEF StoreInv, TablesAgree

LEMMA StoreInvStep == StoreInv /\ [Next]_vars => StoreInv'
<1> SUFFICES ASSUME StoreInv, [Next]_vars PROVE StoreInv'  OBVIOUS
<1>1. CASE \E t \in Instants : Queue(t)  BY <1>1, QueueKeeps
<1>2. CASE \E x \in Results : Execute(x) \/ PersistOutput(x)  BY <1>2, SandboxKeeps
<1>3. CASE Tick  BY <1>3, TickKeeps
<1>4. ASSUME NEW c \in Callers, CallerStep(c) PROVE StoreInv'
  <2>1. CASE \E op \in Transitions, t \in Instants : Transition(c, op, t)
    BY <2>1, TransitionKeeps
  <2>2. CASE \E x \in Results, t \in Instants : RecordResult(c, x, t)
    BY <2>2, RecordResultKeeps
  <2>3. CASE Commit(c)  BY <2>3, CommitKeeps
  <2>4. CASE CheckResult(c) \/ NumberEvent(c) \/ CommitAborted(c) \/ Reload(c) \/ Abandon(c)
    BY <2>4, MiddleKeeps
  <2> QED  BY <1>4, <2>1, <2>2, <2>3, <2>4 DEF CallerStep
<1>5. CASE UNCHANGED vars
  <2>1. TypeOK'  BY <1>5 DEF StoreInv, TypeOK, vars
  <2>2. Tables'  BY <1>5, <2>1, TablesStay DEF StoreInv, Tables, vars
  <2>3. OnlyAdded /\ call' = call  BY <1>5 DEF OnlyAdded, vars
  <2> QED  BY <2>2, <2>3, NoCallMoves
<1> QED  BY <1>1, <1>2, <1>3, <1>4, <1>5 DEF Next

LEMMA StoreInvHolds == Spec => []StoreInv
BY StoreInvInit, StoreInvStep, PTL DEF Spec

(* The rows, the log and the local variables of the calls always have      *)
(* their types.                                                            *)
THEOREM StoreTypeCorrect == Spec => []TypeOK
<1>1. StoreInv => TypeOK  BY DEF StoreInv
<1> QED  BY <1>1, StoreInvHolds, PTL

(* Whatever calls overlap, whatever clock readings they bring and wherever *)
(* they stop, row, event log and result are one account of the Run: the    *)
(* log is the one rebuilt from the row, in the order of its instants, and  *)
(* a result is stored and projected in one step (persistTransition).       *)
THEOREM TablesAlwaysAgree == Spec => []TablesAgree
<1>1. StoreInv => TablesAgree  BY DEF StoreInv
<1> QED  BY <1>1, StoreInvHolds, PTL

(* A caller of prepare(), start(), requestCancellation() or recordResult() *)
(* that got the Run back finds its transition in it for as long as it      *)
(* remembers, however the calls interleaved.                               *)
THEOREM AnswersAlwaysHonest == Spec => []AnswersHonest
<1>1. StoreInv => AnswersHonest  BY DEF StoreInv
<1> QED  BY <1>1, StoreInvHolds, PTL

-----------------------------------------------------------------------------
(* The refinement *)

LEMMA LifeMove ==
  ASSUME NEW from, NEW to, run.state \in from, run'.state = to, result' = result
  PROVE  Lifecycle!Move("run", from, to)
BY DEF Lifecycle!Move

LEMMA LifeRecord ==
  ASSUME NEW x \in Results, run.state \in ActiveStates,
         x.status = "cancelled" => run.state = "cancel_requested",
         run'.state = x.status, result' = x
  PROVE  Lifecycle!Record("run", x)
BY DEF Lifecycle!Record, Lifecycle!Recordable, Lifecycle!ActiveStates, ActiveStates, StatusIn

(* A permitted transition is a move of the abstract Run. *)
LEMMA TransitionMoves ==
  ASSUME TypeOK, NEW q \in Request, Permitted(run, q), run' = Successor(run, q),
         q.op = "record" => q.result \in Results,
         result' = IF q.op = "record" THEN q.result ELSE result
  PROVE  Lifecycle!Next
<1>0. run \in Run  BY DEF TypeOK
<1>1. CASE q.op = "prepare"
  <2>1. run' = [run EXCEPT !.state = "preparing", !.preparingAt = q.at, !.updatedAt = q.at]
    BY <1>0, <1>1, SuccessorRow
  <2>2. run.state = "queued" /\ run'.state = "preparing"
    BY <1>0, <1>1, <2>1 DEF Run, Permitted
  <2>3. Lifecycle!Move("run", {"queued"}, "preparing")  BY <1>1, <2>2, LifeMove
  <2> QED  BY <2>3 DEF Lifecycle!Next, Lifecycle!Prepare
<1>2. CASE q.op = "start"
  <2>1. run' = [run EXCEPT !.state = "running", !.startedAt = q.at, !.updatedAt = q.at]
    BY <1>0, <1>2, SuccessorRow
  <2>2. run.state = "preparing" /\ run'.state = "running"
    BY <1>0, <1>2, <2>1 DEF Run, Permitted
  <2>3. Lifecycle!Move("run", {"preparing"}, "running")  BY <1>2, <2>2, LifeMove
  <2> QED  BY <2>3 DEF Lifecycle!Next, Lifecycle!Start
<1>3. CASE q.op = "cancel" /\ run.state = "running"
  <2>1. run' = [run EXCEPT !.state = "cancel_requested", !.cancelRequestedAt = q.at,
                           !.updatedAt = q.at]
    BY <1>0, <1>3, SuccessorRow
  <2>2. run'.state = "cancel_requested"  BY <1>0, <2>1 DEF Run
  <2>3. Lifecycle!Move("run", {"running"}, "cancel_requested")  BY <1>3, <2>2, LifeMove
  <2> QED  BY <2>3 DEF Lifecycle!Next, Lifecycle!Cancel, Lifecycle!CancelRequest
<1>4. CASE q.op = "cancel" /\ run.state # "running"
  <2>1. run' = [run EXCEPT !.state = "cancelled", !.cancelRequestedAt = q.at,
                           !.finishedAt = q.at, !.updatedAt = q.at]
    BY <1>0, <1>4, SuccessorRow
  <2>2. run.state \in {"queued", "preparing"} /\ run'.state = "cancelled"
    BY <1>0, <1>4, <2>1 DEF Run, Permitted
  <2>3. Lifecycle!Move("run", {"queued", "preparing"}, "cancelled")
    BY <1>4, <2>2, LifeMove
  <2> QED  BY <2>3 DEF Lifecycle!Next, Lifecycle!Cancel, Lifecycle!CancelAtOnce
<1>5. CASE q.op = "record"
  <2>1. run' = [run EXCEPT !.state = q.result.status, !.finishedAt = q.result.finishedAt,
                           !.runnerResult = q.result, !.updatedAt = q.at]
    BY <1>0, <1>5, SuccessorRow
  <2>2. run'.state = q.result.status  BY <1>0, <2>1 DEF Run
  <2>3. Lifecycle!Record("run", q.result)
    BY <1>5, <2>2, LifeRecord DEF Permitted
  <2> QED  BY <1>5, <2>3 DEF Lifecycle!Next
<1> QED  BY <1>1, <1>2, <1>3, <1>4, <1>5 DEF Permitted

LEMMA StoreStepMaps ==
  StoreInv /\ [Next]_vars => [Lifecycle!Next]_(Lifecycle!lifecycleVars)
<1> SUFFICES ASSUME StoreInv, [Next]_vars
             PROVE  Lifecycle!Next \/ UNCHANGED Lifecycle!lifecycleVars
  OBVIOUS
<1>0. ASSUME UNCHANGED <<run, result>> PROVE UNCHANGED Lifecycle!lifecycleVars
  BY <1>0 DEF Lifecycle!lifecycleVars
<1>1. ASSUME NEW t \in Instants, Queue(t) PROVE Lifecycle!Next
  <2>1. run.state = "absent" /\ run'.state = "queued" /\ result' = result
    BY <1>1, QueueKeeps DEF Queue
  <2>2. Lifecycle!Move("run", {"absent"}, "queued")  BY <2>1, LifeMove
  <2> QED  BY <2>2 DEF Lifecycle!Next, Lifecycle!Queue
<1>2. CASE \E x \in Results : Execute(x) \/ PersistOutput(x)  BY <1>0, <1>2, SandboxKeeps
<1>3. CASE Tick  BY <1>0, <1>3, TickKeeps
<1>4. ASSUME NEW c \in Callers, Commit(c)
      PROVE  Lifecycle!Next \/ UNCHANGED Lifecycle!lifecycleVars
  <2>1. PICK q \in Request : q = call[c].request  BY DEF StoreInv, TypeOK, Call
  <2>2. CASE UNCHANGED <<run, result>>  BY <1>0, <2>2
  <2>3. CASE /\ Permitted(run, q) /\ run' = Successor(run, q)
             /\ result' = IF q.op = "record" THEN q.result ELSE result
    <3>1. TypeOK /\ (q.op = "record" => q.result \in Results)
      BY <1>4, <2>1 DEF StoreInv, CallShape, Commit
    <3> QED  BY <2>3, <3>1, TransitionMoves
  <2> QED  BY <1>4, <2>1, <2>2, <2>3, CommitKeeps DEF Records
<1>5. ASSUME NEW c \in Callers, CallerStep(c), ~Commit(c)
      PROVE  UNCHANGED Lifecycle!lifecycleVars
  <2>1. CASE \E op \in Transitions, t \in Instants : Transition(c, op, t)
    BY <1>0, <2>1, TransitionKeeps
  <2>2. CASE \E x \in Results, t \in Instants : RecordResult(c, x, t)
    BY <1>0, <2>2, RecordResultKeeps
  <2>3. CASE CheckResult(c) \/ NumberEvent(c) \/ CommitAborted(c) \/ Reload(c) \/ Abandon(c)
    BY <1>0, <2>3, MiddleKeeps
  <2> QED  BY <1>5, <2>1, <2>2, <2>3 DEF CallerStep
<1>6. CASE UNCHANGED vars  BY <1>0, <1>6 DEF vars
<1> QED  BY <1>1, <1>2, <1>3, <1>4, <1>5, <1>6 DEF Next

(* The store implements the lifecycle of a Run: overlapping calls, each of *)
(* them several statements long, look like one transition after the other, *)
(* made at once or not at all, and a Run that is over never changes.       *)
THEOREM StoreImplementsLifecycle == Spec => ImplementsLifecycle
<1>1. Init => Lifecycle!Init
  BY DEF Init, NoRun, Lifecycle!Init
<1> QED
  BY <1>1, StoreStepMaps, StoreInvHolds, PTL DEF Spec, ImplementsLifecycle, Lifecycle!Spec
=============================================================================
