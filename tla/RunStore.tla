------------------------------ MODULE RunStore ------------------------------
(***************************************************************************)
(* services/lean-runner/d1-run-store.mjs: the projection row of one Run,   *)
(* its append-only event log and its immutable result.  Every statement is *)
(* keyed by the Run id, so one Run stands for all of them.                 *)
(*                                                                         *)
(* A call reads the row, computes the next one with packages/domain/run.mjs*)
(* reads the next event number, and writes everything in one batch; other  *)
(* calls run in between.  The store owes its atomicity to the guards of    *)
(* that batch.                                                             *)
(*                                                                         *)
(* A call brings the clock reading of its own process, at most MaxDrift    *)
(* away from the real time of its first read: that is the error of the     *)
(* clock and what the caller did between the reading and the call.         *)
(*                                                                         *)
(* Repairs of rows an earlier release wrote without their event or without *)
(* their projection are left out: HistoryCanonical and ResultProjected     *)
(* show that this code never leaves such a row behind.                     *)
(***************************************************************************)
EXTENDS Naturals, Sequences

CONSTANTS
  Callers,      \* concurrent calls: Runner workers, gateway requests
  MaxDrift,     \* how far a clock reading may be from real time
  MaxTime,      \* bound: real time
  Results,      \* signed Runner results that may be presented
  NoResult

ASSUME StoreAssumption ==
  /\ MaxDrift \in Nat
  /\ MaxTime \in Nat
  /\ NoResult \notin Results
  /\ \A x \in Results :
       /\ x.status \in {"succeeded", "failed", "timed_out", "rejected", "cancelled"}
       /\ x.startedAt \in Nat
       /\ x.finishedAt \in Nat
       /\ x.output # "none"

VARIABLES
  now,      \* real time, from 1: instant 0 stands for NULL
  run,      \* the row of runs
  events,   \* the rows of run_events, in sequence order
  result,   \* the row of run_results, or NoResult
  executed, \* results of the Lean executions begun so far
  output,   \* the rows of runner_output_artifacts, or "none"
  call      \* call[c]: the local variables of caller c

vars == <<now, run, events, result, executed, output, call>>

-----------------------------------------------------------------------------
(* Data *)

(* Readings of a clock by a call that begins now. *)
Instants == {t \in 1..(now + MaxDrift) : now <= t + MaxDrift}

RunnerStatuses == {"succeeded", "failed", "timed_out", "rejected", "cancelled"}
ActiveStates == {"running", "cancel_requested"}
RunStates == {"absent", "queued", "preparing"} \cup ActiveStates \cup RunnerStatuses

MaybeResult == Results \cup {NoResult}

Run == [state: RunStates, queuedAt: Nat, preparingAt: Nat, startedAt: Nat,
        cancelRequestedAt: Nat, finishedAt: Nat, runnerResult: MaybeResult,
        updatedAt: Nat]

NoRun == [state |-> "absent", queuedAt |-> 0, preparingAt |-> 0,
          startedAt |-> 0, cancelRequestedAt |-> 0, finishedAt |-> 0,
          runnerResult |-> NoResult, updatedAt |-> 0]

(* The type of an event stands for its id as well: ids are unique per Run. *)
EventTypes == {"run_queued", "workspace_preparation_started", "run_started",
               "run_cancelled", "cancellation_requested",
               "runner_result_recorded"}

Event == [type: EventTypes, state: RunStates, at: Nat, result: MaybeResult]

Transitions == {"prepare", "start", "cancel"}

(* What a caller asks for, with the clock reading it brings. *)
Request == [op: Transitions \cup {"record", "none"}, result: MaybeResult, at: Nat]
NoRequest == [op |-> "none", result |-> NoResult, at |-> 0]

Phases == {"idle", "checking", "numbering", "committing", "reloading",
           "ok"}

Call == [phase: Phases, request: Request, read: Run, seq: Nat]
NoCall == [phase |-> "idle", request |-> NoRequest, read |-> NoRun, seq |-> 0]

TypeOK ==
  /\ now \in Nat
  /\ run \in Run
  /\ events \in Seq(Event)
  /\ result \in MaybeResult
  /\ executed \subseteq Results
  /\ output \in {"none"} \cup {x.output : x \in Results}
  /\ call \in [Callers -> Call]

-----------------------------------------------------------------------------
(* packages/domain/run.mjs *)

(* Mutant: a result may claim any status, a running Run not be cancelled. *)
PermittedAnyStatus(old, q) ==
  \/ q.op = "prepare" /\ old.state = "queued" /\ q.at >= old.queuedAt
  \/ q.op = "start" /\ old.state = "preparing" /\ q.at >= old.preparingAt
  \/ q.op = "cancel" /\ old.state \in {"queued", "preparing"}
  \/ q.op = "record" /\ old.state \in ActiveStates /\ q.at >= old.updatedAt

(* markRunPreparing(), markRunStarted(), requestRunCancellation() and        *)
(* recordRunnerResult(), with the checks recordResult() adds on the instant. *)
Permitted(old, q) ==
  \/ q.op = "prepare" /\ old.state = "queued" /\ q.at >= old.queuedAt
  \/ q.op = "start" /\ old.state = "preparing" /\ q.at >= old.preparingAt
  \/ /\ q.op = "cancel" /\ old.state \in {"queued", "preparing", "running"}
     /\ q.at >= (IF old.startedAt # 0 THEN old.startedAt
                 ELSE IF old.preparingAt # 0 THEN old.preparingAt ELSE old.queuedAt)
  \/ /\ q.op = "record" /\ old.state \in ActiveStates
     /\ q.result.startedAt >= old.startedAt
     /\ q.result.status = "cancelled" => old.state = "cancel_requested"
     /\ q.at >= old.updatedAt /\ q.at >= q.result.finishedAt

(* Mutant: a state that the store does not know. *)
CancelledMisspelt(old, t) ==
  [old EXCEPT !.state = "canceled", !.cancelRequestedAt = t, !.finishedAt = t]

Cancelled(old, t) ==
  IF old.state = "running"
  THEN [old EXCEPT !.state = "cancel_requested", !.cancelRequestedAt = t]
  ELSE [old EXCEPT !.state = "cancelled", !.cancelRequestedAt = t, !.finishedAt = t]

Resulted(old, x) ==
  [old EXCEPT !.state = x.status, !.finishedAt = x.finishedAt, !.runnerResult = x]

Moved(old, q) ==
  CASE q.op = "prepare" -> [old EXCEPT !.state = "preparing", !.preparingAt = q.at]
    [] q.op = "start"   -> [old EXCEPT !.state = "running", !.startedAt = q.at]
    [] q.op = "cancel"  -> Cancelled(old, q.at)
    [] OTHER            -> Resulted(old, q.result)

Successor(old, q) == [Moved(old, q) EXCEPT !.updatedAt = q.at]

-----------------------------------------------------------------------------
EventOf(type, new, t) ==
  [type |-> type, state |-> new.state, at |-> t,
   result |-> IF type = "runner_result_recorded" THEN new.runnerResult ELSE NoResult]

TypeFor(q, new) ==
  CASE q.op = "prepare" -> "workspace_preparation_started"
    [] q.op = "start"   -> "run_started"
    [] q.op = "cancel"  -> IF new.state = "cancelled" THEN "run_cancelled"
                           ELSE "cancellation_requested"
    [] OTHER            -> "runner_result_recorded"

HasEvent(type) == \E i \in 1..Len(events) : events[i].type = type

(* queue(): the row and its first event.  A second call with the same      *)
(* idempotency key finds the row, before or after its own INSERT failed.   *)
Queue(t) ==
  /\ run.state = "absent"
  /\ run' = [NoRun EXCEPT !.state = "queued", !.queuedAt = t, !.updatedAt = t]
  /\ events' = << EventOf("run_queued", run', t) >>
  /\ UNCHANGED <<now, result, executed, output, call>>

(* A container begins a Lean execution; x is what its runner will sign. *)
Execute(x) ==
  /\ run.state = "running"
  /\ x.startedAt \in Instants
  /\ executed' = executed \cup {x}
  /\ UNCHANGED <<now, run, events, result, output, call>>

Finished == {x \in executed : x.finishedAt <= now + MaxDrift}

(* The Runner output store: one immutable stdout/stderr pair per Run. *)
PersistOutput(x) ==
  /\ x \in Finished
  /\ run.state \in ActiveStates
  /\ output = "none"
  /\ output' = x.output
  /\ UNCHANGED <<now, run, events, result, executed, call>>

-----------------------------------------------------------------------------
Become(c, phase) == call' = [call EXCEPT ![c].phase = phase]

(* A call ends with the Run or with an exception. *)
Succeed(c, q) ==
  call' = [call EXCEPT ![c] = [NoCall EXCEPT !.phase = "ok", !.request = q]]
Fail(c) == call' = [call EXCEPT ![c] = NoCall]

(* A call reads the row and goes on.  A call refused by what it read leaves *)
(* no trace and is no step.                                                 *)
Available(c) == call[c].phase \in {"idle", "ok"} /\ run.state # "absent"

Proceed(c, q, phase) ==
  call' = [call EXCEPT ![c] = [phase |-> phase, request |-> q, read |-> run, seq |-> 0]]

(* Mutant: the state alone decides. *)
RepeatsAnyInstant(q) ==
  \/ q.op = "prepare" /\ run.state = "preparing"
  \/ q.op = "start" /\ run.state = "running"
  \/ q.op = "cancel" /\ run.state \in {"cancel_requested", "cancelled"}

(* A retry finds its own transition in the row: start() and prepare() know *)
(* it by the instant, requestCancellation() by the state.                  *)
Repeats(q) ==
  \/ q.op = "prepare" /\ run.state = "preparing" /\ run.preparingAt = q.at
  \/ q.op = "start" /\ run.state = "running" /\ run.startedAt = q.at
  \/ q.op = "cancel" /\ run.state \in {"cancel_requested", "cancelled"}

(* prepare(), start() and requestCancellation() read the row. *)
Transition(c, op, t) ==
  LET q == [op |-> op, result |-> NoResult, at |-> t]
  IN  /\ Available(c)
      /\ \/ Repeats(q) /\ Succeed(c, q)
         \/ ~Repeats(q) /\ Permitted(run, q) /\ Proceed(c, q, "numbering")
      /\ UNCHANGED <<now, run, events, result, executed, output>>

(* recordResult() reads the row and the output artifacts ... *)
RecordResult(c, x, t) ==
  /\ Available(c)
  /\ x \in Finished
  /\ output = x.output
  /\ t >= run.updatedAt
  /\ t >= x.finishedAt
  /\ Proceed(c, [op |-> "record", result |-> x, at |-> t], "checking")
  /\ UNCHANGED <<now, run, events, result, executed, output>>

(* ... and then the stored result.  The same result in a row that did not  *)
(* know it yet goes to the repair of legacy rows, which finds the result's *)
(* event in the log and refuses.                                           *)
CheckResult(c) ==
  LET q == call[c].request
      known == result = q.result /\ call[c].read.runnerResult = q.result
      fresh == result = NoResult /\ Permitted(call[c].read, q)
  IN  /\ call[c].phase = "checking"
      /\ \/ known /\ Succeed(c, q)
         \/ fresh /\ Become(c, "numbering")
         \/ ~known /\ ~fresh /\ Fail(c)
      /\ UNCHANGED <<now, run, events, result, executed, output>>

(* nextEvent() *)
NumberEvent(c) ==
  /\ call[c].phase = "numbering"
  /\ call' = [call EXCEPT ![c].phase = "committing", ![c].seq = Len(events) + 1]
  /\ UNCHANGED <<now, run, events, result, executed, output>>

NewRun(c) == Successor(call[c].read, call[c].request)
NewEvent(c) ==
  EventOf(TypeFor(call[c].request, NewRun(c)), NewRun(c), call[c].request.at)

Records(c) == call[c].request.op = "record"

(* The row after the UPDATE ... WHERE id = ? AND state = ? of the batch. *)
Updated(c) == IF run.state = call[c].read.state THEN NewRun(c) ELSE run

(* Mutant: the instant alone decides. *)
ProjectionGuardByInstant(c) == Updated(c).updatedAt = NewRun(c).updatedAt

(* The INSERT of the event yields a row without a Run id unless the UPDATE *)
(* left exactly this projection.                                           *)
ProjectionGuard(c) ==
  Updated(c).state = NewRun(c).state /\ Updated(c).updatedAt = NewRun(c).updatedAt

(* Nothing in the batch violates a constraint. *)
BatchAccepted(c) ==
  /\ Records(c) => result = NoResult
  /\ ProjectionGuard(c)
  /\ call[c].seq = Len(events) + 1
  /\ ~HasEvent(NewEvent(c).type)

(* persistTransition(): it throws when its UPDATE matched no row, although  *)
(* the batch is committed.                                                  *)
Commit(c) ==
  /\ call[c].phase = "committing"
  /\ BatchAccepted(c)
  /\ run' = Updated(c)
  /\ events' = Append(events, NewEvent(c))
  /\ result' = IF Records(c) THEN call[c].request.result ELSE result
  /\ IF run.state = call[c].read.state THEN Succeed(c, call[c].request) ELSE Fail(c)
  /\ UNCHANGED <<now, executed, output>>

CommitAborted(c) ==
  /\ call[c].phase = "committing"
  /\ ~BatchAccepted(c)
  /\ Become(c, "reloading")
  /\ UNCHANGED <<now, run, events, result, executed, output>>

SameProjection(a, b) == a = [b EXCEPT !.updatedAt = a.updatedAt]

(* After a failed batch the same transition may have been made by another  *)
(* call; ensureCanonicalEvent() compares its event.                        *)
Reload(c) ==
  /\ call[c].phase = "reloading"
  /\ IF /\ SameProjection(run, NewRun(c))
        /\ \E i \in 1..Len(events) : events[i] = NewEvent(c)
     THEN Succeed(c, call[c].request) ELSE Fail(c)
  /\ UNCHANGED <<now, run, events, result, executed, output>>

(* The process goes away, or its caller does. *)
Abandon(c) ==
  /\ call[c].phase # "idle"
  /\ Fail(c)
  /\ UNCHANGED <<now, run, events, result, executed, output>>

-----------------------------------------------------------------------------
Tick ==
  /\ now < MaxTime
  /\ now' = now + 1
  /\ UNCHANGED <<run, events, result, executed, output, call>>

Init ==
  /\ now = 1
  /\ run = NoRun
  /\ events = << >>
  /\ result = NoResult
  /\ executed = {}
  /\ output = "none"
  /\ call = [c \in Callers |-> NoCall]

CallerStep(c) ==
  \/ \E op \in Transitions, t \in Instants : Transition(c, op, t)
  \/ \E x \in Results, t \in Instants : RecordResult(c, x, t)
  \/ CheckResult(c)
  \/ NumberEvent(c)
  \/ Commit(c)
  \/ CommitAborted(c)
  \/ Reload(c)
  \/ Abandon(c)

Next ==
  \/ \E t \in Instants : Queue(t)
  \/ \E x \in Results : Execute(x)
  \/ \E x \in Results : PersistOutput(x)
  \/ Tick
  \/ \E c \in Callers : CallerStep(c)

Spec == Init /\ [][Next]_vars

-----------------------------------------------------------------------------
(* Properties *)

(* The log and the projection tell the same story: the events are exactly  *)
(* those, in that order and at those instants, that canonicalPreResult-    *)
(* Events() and its siblings rebuild from the row, so either reproduces    *)
(* the other (header of drizzle/0007).  One event may be too many: that of *)
(* a cancellation that read an unstarted Run and commits when a result     *)
(* "cancelled" of the same instant is in the row, although it fails.       *)
QueuedEvents == << [type |-> "run_queued", state |-> "queued",
                    at |-> run.queuedAt, result |-> NoResult] >>

PreparedEvents ==
  IF run.preparingAt = 0 THEN << >>
  ELSE << [type |-> "workspace_preparation_started", state |-> "preparing",
           at |-> run.preparingAt, result |-> NoResult] >>

StartedEvents ==
  IF run.startedAt = 0 THEN << >>
  ELSE << [type |-> "run_started", state |-> "running",
           at |-> run.startedAt, result |-> NoResult] >>

CancelEvents ==
  IF run.cancelRequestedAt = 0 THEN << >>
  ELSE IF run.startedAt = 0
  THEN << [type |-> "run_cancelled", state |-> "cancelled",
           at |-> run.cancelRequestedAt, result |-> NoResult] >>
  ELSE << [type |-> "cancellation_requested", state |-> "cancel_requested",
           at |-> run.cancelRequestedAt, result |-> NoResult] >>

ResultEvents ==
  IF run.runnerResult = NoResult THEN << >>
  ELSE << [type |-> "runner_result_recorded", state |-> run.state,
           at |-> run.updatedAt, result |-> run.runnerResult] >>

TellingEvents ==
  IF run.state = "absent" THEN << >>
  ELSE QueuedEvents \o PreparedEvents \o StartedEvents \o CancelEvents \o ResultEvents

StrayCancel == [type |-> "run_cancelled", state |-> "cancelled",
                at |-> run.updatedAt, result |-> NoResult]

HistoryCanonical ==
  \/ events = TellingEvents
  \/ /\ run.state = "cancelled" /\ result # NoResult
     /\ events = Append(TellingEvents, StrayCancel)

(* No event happened before the one it follows, whatever the clocks of the *)
(* calling processes.                                                      *)
HistoryOrdered ==
  \A i \in 2..Len(events) : events[i - 1].at <= events[i].at

(* The stored result is the one the row projects, with its status, over    *)
(* the output bytes kept beside it; there is no half-recorded result.      *)
ResultProjected ==
  /\ result = run.runnerResult
  /\ result # NoResult => run.state = result.status /\ output = result.output
  /\ run.state \in RunnerStatuses \ {"cancelled"} => result # NoResult

(* A Run cancelled before its start stays without execution and result. *)
CancelledBeforeStart ==
  run.state = "cancelled" /\ result = NoResult =>
    run.startedAt = 0 /\ ~HasEvent("run_started")

(* Row, log and result are one account of the Run (persistTransition,      *)
(* ensureCanonicalEvent).                                                  *)
TablesAgree ==
  HistoryCanonical /\ HistoryOrdered /\ ResultProjected /\ CancelledBeforeStart

(* A call that was told it succeeded finds its transition in the log, and  *)
(* a recorder its own result, however the calls interleaved.               *)
AnswersHonest ==
  \A c \in Callers :
    call[c].phase = "ok" =>
      LET q == call[c].request
      IN  CASE q.op = "cancel" -> run.cancelRequestedAt # 0
            [] q.op = "prepare" -> run.preparingAt = q.at
            [] q.op = "start" -> run.startedAt = q.at
            [] OTHER -> result = q.result

StatusIn(x) == x.status

(* Calls that overlap look like one transition after the other, each made  *)
(* at once or not at all.                                                  *)
Lifecycle == INSTANCE RunLifecycle WITH
  Runs <- {"run"},
  StatusOf <- StatusIn,
  state <- [r \in {"run"} |-> run.state],
  outcome <- [r \in {"run"} |-> result]

ImplementsLifecycle == Lifecycle!Spec
=============================================================================
