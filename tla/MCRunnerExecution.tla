-------------------------- MODULE MCRunnerExecution --------------------------
(***************************************************************************)
(* Small instances of RunnerExecution and HostedRunner for TLC.            *)
(*                                                                         *)
(* In the situations replay and other, one such Run is dispatched to two   *)
(* processes whose sandboxes do as they are told; the poll loops that      *)
(* serve the other one are fair.  The first delivery goes to w1, the first *)
(* execution prints a; a second request begins only while the first        *)
(* redrives a replay and the workers are idle.  Only a replay is redriven. *)
(*                                                                         *)
(* In the situation hosted, w1 serves two Runs with its sandboxes, one at  *)
(* a time, and both loops are fair.  Of two failures the second is that of *)
(* the kill of a sandbox that failed to start or in which Lean still runs, *)
(* so that two startups never come late: OneKnownSandbox is not checked    *)
(* for two, and does not hold then.                                        *)
(***************************************************************************)
EXTENDS HostedRunner, TLC

CONSTANTS replay, other, hosted, w1, w2, d1, d2, a, b, s1, s2, Situations

VARIABLE situation

MCInit == HostedInit /\ situation \in Situations

Printed == {worker'[w].product : w \in Workers} \ {None}

TwoProcesses ==
  /\ Next
  /\ UNCHANGED hostVars
  /\ \A r \in Runs : r # situation => state'[r] = "absent"
  /\ dispatch[d2].phase = "idle" /\ dispatch'[d2] # dispatch[d2] =>
       situation = replay /\ dispatch[d1].phase = "redriving"
  /\ dispatch'[d2].phase # "idle" => \A w \in Workers : worker'[w] = Idle
  /\ situation = other => redrives' = 0
  /\ issued = 0 => worker'[w2] = worker[w2]
  /\ \A x \in Printed : x.output = b => situation = replay /\ x.lease # 1

OneProcess ==
  /\ HostedNext
  /\ worker'[w2] = Idle /\ dispatch'[d2] = NoDispatch
  /\ dispatch'[d1].phase # "idle" => worker'[w1] = Idle
  /\ state'[replay] \notin {"cancelled", "cancel_requested"}
  /\ redrives' = 0
  /\ lapses' + faults' = 2 /\ lapses + faults = 1 =>
       \E k \in kills : (k.by = "startup" \/ lean[k.box] = "running") /\ KillFails(k)
  /\ lapses' + faults' <= MaxFaults
  /\ \A x \in Printed : x.output = a /\ x.status # "failed"

MCNext ==
  /\ IF situation = hosted THEN OneProcess ELSE TwoProcesses
  /\ UNCHANGED situation

MCVars == <<hostedVars, situation>>
MCSpec == MCInit /\ [][MCNext]_MCVars

FairlyOther(A) == situation = other /\ A /\ UNCHANGED <<hostVars, situation>>
FairlyHosted(A) == situation = hosted /\ A /\ UNCHANGED situation

MCFairSpec ==
  /\ MCSpec
  /\ WF_MCVars(FairlyOther(Redeliver(other)))
  /\ \A w \in Workers : WF_MCVars(FairlyOther(Advance(w)))
  /\ \A r \in Runs : WF_MCVars(FairlyHosted(Claim(w1, r) /\ ~Takeover(r) /\ UNCHANGED hostVars))
  /\ WF_MCVars(FairlyHosted(HostAdvance))
  /\ WF_MCVars(FairlyHosted(Answers))

(* Where the poll loops are fair, every message is acknowledged or put     *)
(* away in the end (EveryMessageSettles).                                  *)
MessagesSettle == situation \in {other, hosted} => EveryMessageSettles
=============================================================================
