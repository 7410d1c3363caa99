----------------------------- MODULE MCRunStore -----------------------------
(* Small instances of RunStore for TLC. *)
EXTENDS RunStore, TLC

CONSTANTS c1, c2

(* Two executions that succeed with the same output, one that fails with   *)
(* another, and a cancellation acknowledgement.  Each takes an instant.    *)
MCResults ==
  {[status |-> "succeeded", startedAt |-> 1, finishedAt |-> 2, output |-> "a"],
   [status |-> "succeeded", startedAt |-> 2, finishedAt |-> 3, output |-> "a"],
   [status |-> "failed",    startedAt |-> 1, finishedAt |-> 2, output |-> "b"],
   [status |-> "cancelled", startedAt |-> 1, finishedAt |-> 2, output |-> "a"]}

MCSymmetry == Permutations(Callers)
=============================================================================
