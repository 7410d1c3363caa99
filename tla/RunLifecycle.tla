---------------------------- MODULE RunLifecycle ----------------------------
(***************************************************************************)
(* What packages/domain/run.mjs and the Run store promise to everybody     *)
(* else: a Run moves along one path, a transition happens at once or not   *)
(* at all, and a Run that is over never changes again.                     *)
(*                                                                         *)
(*   queued -> preparing -> running -> [cancel_requested ->] result        *)
(*      `--------`----> cancelled                                          *)
(*                                                                         *)
(* RunStore implements this module; RunnerExecution is built on it.        *)
(***************************************************************************)
CONSTANTS
  Runs,
  Results,       \* signed Runner results
  NoResult,
  StatusOf(_)    \* the terminal state a result claims

VARIABLES
  state,         \* state[r]: the state of the Run
  outcome        \* outcome[r]: its immutable Runner result, or NoResult

lifecycleVars == <<state, outcome>>

RunnerStatuses == {"succeeded", "failed", "timed_out", "rejected", "cancelled"}
ActiveStates == {"running", "cancel_requested"}
States == {"absent", "queued", "preparing"} \cup ActiveStates \cup RunnerStatuses

Over(r) == state[r] \in RunnerStatuses

LifecycleTypeOK ==
  /\ state \in [Runs -> States]
  /\ outcome \in [Runs -> Results \cup {NoResult}]

Init ==
  /\ state = [r \in Runs |-> "absent"]
  /\ outcome = [r \in Runs |-> NoResult]

Move(r, from, to) ==
  /\ state[r] \in from
  /\ state' = [state EXCEPT ![r] = to]
  /\ UNCHANGED outcome

Queue(r)   == Move(r, {"absent"}, "queued")
Prepare(r) == Move(r, {"queued"}, "preparing")
Start(r)   == Move(r, {"preparing"}, "running")

(* Before the start a cancellation is final, later it is only a request. *)
CancelAtOnce(r)  == Move(r, {"queued", "preparing"}, "cancelled")
CancelRequest(r) == Move(r, {"running"}, "cancel_requested")
Cancel(r) == CancelAtOnce(r) \/ CancelRequest(r)

Recordable(r, x) ==
  /\ state[r] \in ActiveStates
  /\ StatusOf(x) = "cancelled" => state[r] = "cancel_requested"

Record(r, x) ==
  /\ Recordable(r, x)
  /\ state' = [state EXCEPT ![r] = StatusOf(x)]
  /\ outcome' = [outcome EXCEPT ![r] = x]

Next ==
  \E r \in Runs :
    \/ Queue(r) \/ Prepare(r) \/ Start(r) \/ Cancel(r)
    \/ \E x \in Results : Record(r, x)

Spec == Init /\ [][Next]_lifecycleVars
=============================================================================
