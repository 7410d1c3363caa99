-------------------------- MODULE DeliveryContract --------------------------
(***************************************************************************)
(* What the durable Runner queue promises, without clocks, rows or logs:   *)
(* at-least-once delivery of a fixed message per Run, with a fencing token *)
(* per delivery.  Every delivery gets a token never used before; only the  *)
(* token of the newest delivery can settle the message; a settled message  *)
(* is delivered again only after it was returned or reopened.              *)
(*                                                                         *)
(* A delivery may be superseded at any time: this is how a lease that      *)
(* expired looks from outside.  RunnerLeaseQueue implements this module,   *)
(* RunnerExecution is composed on top of it.                               *)
(***************************************************************************)
EXTENDS Naturals

CONSTANTS
  Runs,        \* the Runs whose message can be queued
  MaxLeases    \* bound: deliveries ever granted

VARIABLES
  status,      \* status[r]: where the message of Run r is
  token,       \* token[r]: fencing token of its newest delivery, 0 when none
  attempts,    \* attempts[r]: deliveries since it was submitted or reopened
  issued       \* number of tokens handed out so far

contractVars == <<status, token, attempts, issued>>

Statuses == {"absent", "ready", "held", "done", "parked", "withdrawn"}

ContractTypeOK ==
  /\ status \in [Runs -> Statuses]
  /\ token \in [Runs -> Nat]
  /\ attempts \in [Runs -> Nat]
  /\ issued \in Nat

Init ==
  /\ status = [r \in Runs |-> "absent"]
  /\ token = [r \in Runs |-> 0]
  /\ attempts = [r \in Runs |-> 0]
  /\ issued = 0

Submit(r) ==
  /\ status[r] = "absent"
  /\ status' = [status EXCEPT ![r] = "ready"]
  /\ UNCHANGED <<token, attempts, issued>>

Grant(r) ==
  /\ status[r] \in {"ready", "held"}
  /\ issued < MaxLeases
  /\ issued' = issued + 1
  /\ status' = [status EXCEPT ![r] = "held"]
  /\ token' = [token EXCEPT ![r] = issued + 1]
  /\ attempts' = [attempts EXCEPT ![r] = @ + 1]

(* The holder of token k settles: the message goes to `to`. *)
Settle(r, k, to) ==
  /\ status[r] = "held"
  /\ token[r] = k
  /\ status' = [status EXCEPT ![r] = to]
  /\ UNCHANGED <<token, attempts, issued>>

Return(r, k) == Settle(r, k, "ready")
Finish(r, k) == Settle(r, k, "done")
Park(r, k)   == Settle(r, k, "parked")

Reopen(r) ==
  /\ status[r] = "parked"
  /\ status' = [status EXCEPT ![r] = "ready"]
  /\ token' = [token EXCEPT ![r] = 0]
  /\ attempts' = [attempts EXCEPT ![r] = 0]
  /\ UNCHANGED issued

Withdraw(r) ==
  /\ status[r] = "ready"
  /\ status' = [status EXCEPT ![r] = "withdrawn"]
  /\ UNCHANGED <<token, attempts, issued>>

Next ==
  \E r \in Runs :
    \/ Submit(r) \/ Grant(r) \/ Reopen(r) \/ Withdraw(r)
    \/ \E k \in 1..issued : Return(r, k) \/ Finish(r, k) \/ Park(r, k)

Spec == Init /\ [][Next]_contractVars
=============================================================================
