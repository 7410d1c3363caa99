---------------------------- MODULE HostedRunner ----------------------------
(***************************************************************************)
(* A hosted Runner process with its sandboxes: RunnerExecution, whose      *)
(* steps inside the private container are taken apart for one process.     *)
(* e2b-sandbox-container.mjs creates and kills the sandboxes,              *)
(* container-workspace-runtime.mjs serves one Run inside each, and         *)
(* runner-workspace-transfer, runner-container-execution-client and        *)
(* worker.mjs drive it.                                                    *)
(*                                                                         *)
(* The process takes one delivery at a time, but what it does not await    *)
(* goes on next to it: a creation that missed the startup deadline, the    *)
(* kill of such a sandbox, and the Run's cancellation.  A sandbox the      *)
(* process lost by crashing, or never heard of because the request for it  *)
(* was cut off, is left to the lifetime its provider gives it.             *)
(***************************************************************************)
EXTENDS RunnerExecution

CONSTANTS
  Host,       \* the hosted process
  Boxes,      \* bound: sandboxes that are known at the same time
  Coming,     \* a sandbox that is being created
  MaxFaults   \* bound: failures of the provider and of awaits of the process

ASSUME HostAssumption ==
  /\ Host \in Workers
  /\ Coming \notin Boxes
  /\ None \notin Boxes \cup {Coming}
  /\ MaxFaults \in Nat

VARIABLES
  active,       \* active[r]: the container of Run r, E2BSandboxContainerFactory
  quarantined,  \* quarantined[r]: a sandbox to be killed before the next one
  late,         \* late[r]: unanswered creations for r that nobody waits for
  kills,        \* kill requests the provider has not answered
  live,         \* the sandboxes there are that the provider told of
  orphans,      \* those it made for a request that was cut off
  lean,         \* lean[b]: the Run's session inside sandbox b
  step,         \* what the process awaits of its sandboxes
  box,          \* the sandbox it has in hand
  faults        \* failures so far

factoryVars == <<active, quarantined, late, kills, live, orphans>>
hostVars == <<factoryVars, lean, step, box, faults>>
hostedVars == <<vars, hostVars>>

Steps == {"none", "cleaning", "room", "creating", "booting", "killing", "open",
          "ending", "ended"}
Sessions == {"fresh", "staged", "running", "ended", "aborted"}

(* A kill is asked for by the end of a container, by the failure of its    *)
(* startup, by get() for what is in quarantine, or for a late sandbox.     *)
Kill == [box: Boxes, run: Runs, by: {"end", "startup", "get", "late"}]

HostTypeOK ==
  /\ active \in [Runs -> Boxes \cup {None, Coming}]
  /\ quarantined \in [Runs -> Boxes \cup {None, Coming}]
  /\ late \in [Runs -> Nat]
  /\ kills \subseteq Kill
  /\ live \subseteq Boxes
  /\ lean \in [Boxes -> Sessions]
  /\ step \in Steps
  /\ box \in Boxes \cup {None}
  /\ faults \in 0..MaxFaults

-----------------------------------------------------------------------------
(* Sandboxes *)

HostRun == Job(Host)
Entries(map) == {r \in Runs : map[r] # None}
Put(map, r, x) == [map EXCEPT ![r] = x]
Remove(map, r) == [map EXCEPT ![r] = None]

Fault == faults < MaxFaults /\ faults' = faults + 1

(* A sandbox nothing refers to any more stands for every sandbox to come. *)
Unknown(b) ==
  /\ b \notin live \cup orphans
  /\ b # box
  /\ \A r \in Runs : b \notin {active[r], quarantined[r]}
  /\ \A k \in kills : k.box # b

Asks(b, by) == kills' = kills \cup {[box |-> b, run |-> HostRun, by |-> by]}
Asked(by) == \E k \in kills : k.by = by

Staging == worker[Host].phase \in {"staging", "restaging"}
Fails == Goto(Host, "failing")
RunnerVars == <<queueVars, storeVars, evidenceVars, dispatch, boundVars>>

(* get(): the container the Run has already, or else the quarantine first. *)
Get ==
  /\ Staging /\ step = "none"
  /\ IF active[HostRun] # None
     THEN step' = "open" /\ box' = active[HostRun] /\ UNCHANGED kills
     ELSE /\ step' = IF Entries(quarantined) = {} THEN "room" ELSE "cleaning"
          /\ kills' = kills \cup
               {k \in Kill : k.by = "get" /\ quarantined[k.run] = k.box}
          /\ UNCHANGED box
  /\ UNCHANGED <<vars, active, quarantined, late, live, orphans, lean, faults>>

CleaningEnds ==
  /\ step = "cleaning" /\ ~Asked("get")
  /\ step' = "room"
  /\ UNCHANGED <<vars, factoryVars, lean, box, faults>>

(* Mutant: what is in quarantine takes no room. *)
NoRoomActive == Entries(active) # {}

NoRoom == Entries(active) \cup Entries(quarantined) # {}

(* "permits only one active Sandbox" *)
Refuse ==
  /\ step = "room" /\ NoRoom
  /\ Fails
  /\ step' = "none"
  /\ UNCHANGED <<RunnerVars, factoryVars, lean, box, faults>>

Create ==
  /\ step = "room" /\ ~NoRoom
  /\ active' = Put(active, HostRun, Coming)
  /\ step' = "creating"
  /\ UNCHANGED <<vars, quarantined, late, kills, live, orphans, lean, box, faults>>

(* The provider answers with a sandbox, ... *)
Appears(b) ==
  /\ Unknown(b)
  /\ live' = live \cup {b}
  /\ lean' = [lean EXCEPT ![b] = "fresh"]

Created(b) ==
  /\ step = "creating"
  /\ Appears(b)
  /\ step' = "booting" /\ box' = b
  /\ UNCHANGED <<vars, active, quarantined, late, kills, orphans, faults>>

(* ... or late: then it is killed (trackLateSandbox()), whether or not the *)
(* quarantine still has the entry that waits for it.                       *)
CreatedLate(r, b) ==
  /\ late[r] > 0
  /\ Appears(b)
  /\ late' = [late EXCEPT ![r] = @ - 1]
  /\ kills' = kills \cup {[box |-> b, run |-> r, by |-> "late"]}
  /\ quarantined' \in
       IF quarantined[r] # Coming THEN {quarantined}
       ELSE {Put(quarantined, r, b)} \cup IF late[r] > 1 THEN {quarantined} ELSE {}
  /\ UNCHANGED <<vars, active, orphans, step, box, faults>>

(* The request for a sandbox fails.  requestTimeoutMs or the signal of the *)
(* startup may have cut it off, so that the provider makes the sandbox all *)
(* the same, now or in a while, and nobody is told.                        *)
RequestFails ==
  \/ UNCHANGED orphans
  \/ \E b \in Boxes : Unknown(b) /\ orphans' = orphans \cup {b}

CreationFails ==
  /\ step = "creating" /\ Fault
  /\ RequestFails
  /\ active' = Remove(active, HostRun)
  /\ Fails /\ step' = "none"
  /\ UNCHANGED <<RunnerVars, quarantined, late, kills, live, lean, box>>

CreationFailsLate(r) ==
  /\ late[r] > 0
  /\ RequestFails
  /\ late' = [late EXCEPT ![r] = @ - 1]
  /\ quarantined' = Remove(quarantined, r)
  /\ UNCHANGED <<vars, active, kills, live, lean, step, box, faults>>

(* The tag, the isolation, the probes and the server were all right. *)
Boot ==
  /\ step = "booting"
  /\ active' = Put(active, HostRun, box)
  /\ step' = "open"
  /\ UNCHANGED <<vars, quarantined, late, kills, live, orphans, lean, box, faults>>

(* The startup deadline passes or a check fails before there is a sandbox, *)
(* whose creation goes on, ...                                             *)
StartupFailsEarly ==
  /\ step = "creating" /\ Fault
  /\ quarantined' = Put(quarantined, HostRun, Coming)
  /\ late' = [late EXCEPT ![HostRun] = @ + 1]
  /\ active' = Remove(active, HostRun)
  /\ Fails /\ step' = "none"
  /\ UNCHANGED <<RunnerVars, kills, live, orphans, lean, box>>

(* ... or afterwards (quarantineAndKill()). *)
StartupFails ==
  /\ step = "booting" /\ Fault
  /\ quarantined' = Put(quarantined, HostRun, box)
  /\ Asks(box, "startup")
  /\ step' = "killing"
  /\ UNCHANGED <<vars, active, late, live, orphans, lean, box>>

StartupKilled ==
  /\ step = "killing" /\ ~Asked("startup")
  /\ active' = Remove(active, HostRun)
  /\ Fails /\ step' = "none" /\ box' = None
  /\ UNCHANGED <<RunnerVars, quarantined, late, kills, live, orphans, lean, faults>>

(* boundedProviderKill() answers: the sandbox is gone.  Entries leave the  *)
(* maps by the Run's id, whichever sandbox they are about.                 *)
Killed(k) ==
  /\ k \in kills
  /\ kills' = kills \ {k}
  /\ live' = live \ {k.box}
  /\ IF k.by = "end"
     THEN /\ active' = Remove(active, k.run) /\ UNCHANGED quarantined
          /\ IF At(Host, "executing")
             THEN step' = "ended" /\ UNCHANGED box
             ELSE step' = "none" /\ box' = None
     ELSE /\ quarantined' = Remove(quarantined, k.run)
          /\ UNCHANGED <<active, step, box>>
  /\ UNCHANGED <<vars, late, orphans, lean, faults>>

(* Mutant: a container that could not be killed is forgotten. *)
KillFailsForgotten(k) ==
  /\ k \in kills /\ Fault
  /\ kills' = kills \ {k}
  /\ live' \in {live, live \ {k.box}}
  /\ IF k.by = "end"
     THEN /\ active' = Remove(active, k.run)
          /\ IF At(Host, "executing") THEN Fails ELSE UNCHANGED worker
          /\ step' = "none" /\ box' = None
          /\ UNCHANGED quarantined
     ELSE UNCHANGED <<worker, active, quarantined, step, box>>
  /\ UNCHANGED <<RunnerVars, late, orphans, lean>>

(* It fails or is too slow, with or without effect.  A container is put in *)
(* quarantine then (onTerminationFailed()); complete fails with it, while  *)
(* a discard keeps the failure it is for.                                  *)
KillFails(k) ==
  /\ k \in kills /\ Fault
  /\ kills' = kills \ {k}
  /\ live' \in {live, live \ {k.box}}
  /\ IF k.by = "end"
     THEN /\ active' = Remove(active, k.run)
          /\ quarantined' = Put(quarantined, k.run, k.box)
          /\ IF At(Host, "executing") THEN Fails ELSE UNCHANGED worker
          /\ step' = "none" /\ box' = None
     ELSE UNCHANGED <<worker, active, quarantined, step, box>>
  /\ UNCHANGED <<RunnerVars, late, orphans, lean>>

(* The provider ends what outlived its timeout. *)
Expire(b) ==
  /\ b \in live \cup orphans /\ b # box
  /\ live' = live \ {b} /\ orphans' = orphans \ {b}
  /\ UNCHANGED <<vars, active, quarantined, late, kills, lean, step, box, faults>>

-----------------------------------------------------------------------------
(* The Run inside its sandbox *)

Serving(b) == step = "open" /\ box = b /\ b \in live

(* stage(): declared, uploaded and finalized.  A retry repeats it. *)
Transfer ==
  /\ Staging /\ Serving(box)
  /\ Stage(Host)
  /\ lean' = [lean EXCEPT ![box] = "staged"]
  /\ UNCHANGED <<factoryVars, step, box, faults>>

(* A failed transfer, or a failed execution, discards the sandbox.  Calls  *)
(* into a sandbox that has expired always fail.                            *)
Discard ==
  /\ step = "open"
  /\ IF box \in live THEN Fault ELSE UNCHANGED faults
  /\ \/ Staging /\ \E phase \in {"failing", "rejecting"} : Goto(Host, phase)
     \/ At(Host, "executing") /\ Fails
  /\ Asks(box, "end")
  /\ step' = "ending"
  /\ UNCHANGED <<RunnerVars, active, quarantined, late, live, orphans, lean, box>>

(* The first POST .../execute starts Lean, later ones poll. *)
PostExecute ==
  /\ At(Host, "executing") /\ Serving(box) /\ lean[box] = "staged"
  /\ lean' = [lean EXCEPT ![box] = "running"]
  /\ UNCHANGED <<vars, factoryVars, step, box, faults>>

(* createCancellationForwarder(): Lean is aborted, or never begins. *)
ForwardCancel ==
  /\ At(Host, "executing") /\ Serving(box)
  /\ state[HostRun] = "cancel_requested"
  /\ lean[box] \in {"staged", "running"}
  /\ lean' = [lean EXCEPT ![box] = "aborted"]
  /\ UNCHANGED <<vars, factoryVars, step, box, faults>>

LeanEnds(b) ==
  /\ b \in live /\ lean[b] = "running"
  /\ lean' = [lean EXCEPT ![b] = "ended"]
  /\ UNCHANGED <<vars, factoryVars, step, box, faults>>

(* The result and both outputs are read; complete ends the sandbox. *)
PostComplete ==
  /\ At(Host, "executing") /\ Serving(box) /\ lean[box] \in {"ended", "aborted"}
  /\ Asks(box, "end")
  /\ step' = "ending"
  /\ UNCHANGED <<vars, active, quarantined, late, live, orphans, lean, box, faults>>

-----------------------------------------------------------------------------
(* The other steps of the process *)

LetGo == step' = "none" /\ box' = None

(* The execution that is answered is the one that ended in the sandbox. *)
Answer(verdict, out) ==
  /\ step = "ended"
  /\ verdict = "cancelled" <=> lean[box] = "aborted"
  /\ Execute(Host, verdict, out)
  /\ LetGo
  /\ UNCHANGED <<factoryVars, lean, faults>>

(* executeAuthenticatedMessage() returns the skip as it is. *)
Skip ==
  /\ step = "open"
  /\ StartSkipped(Host)
  /\ IF At(Host, "executing")' THEN UNCHANGED <<step, box>> ELSE LetGo
  /\ UNCHANGED <<factoryVars, lean, faults>>

Begin == step = "open" /\ StartRun(Host) /\ UNCHANGED hostVars

(* Steps that wait for no sandbox. *)
Alone ==
  /\ step = "none"
  /\ worker[Host].phase \notin {"staging", "restaging", "starting", "executing"}
  /\ Advance(Host)
  /\ UNCHANGED hostVars

(* An await of the process itself fails. *)
HostTrouble ==
  /\ \/ step = "none" /\ ~Staging
     \/ step = "open" /\ At(Host, "starting")
     \/ step = "ended"
  /\ Trouble(Host) /\ Fault
  /\ LetGo
  /\ UNCHANGED <<factoryVars, lean>>

(* The maps are in memory.  live and orphans are those of this process.    *)
HostCrash ==
  /\ Crash(Host)
  /\ active' = [r \in Runs |-> None]
  /\ quarantined' = [r \in Runs |-> None]
  /\ late' = [r \in Runs |-> 0]
  /\ kills' = {}
  /\ live' = {} /\ orphans' = {}
  /\ LetGo
  /\ UNCHANGED <<lean, faults>>

HostedInit ==
  /\ Init
  /\ active = [r \in Runs |-> None]
  /\ quarantined = [r \in Runs |-> None]
  /\ late = [r \in Runs |-> 0]
  /\ kills = {}
  /\ live = {} /\ orphans = {}
  /\ lean = [b \in Boxes |-> "fresh"]
  /\ step = "none"
  /\ box = None
  /\ faults = 0

(* What the process does next, and what the sandboxes answer. *)
HostAdvance ==
  \/ Alone \/ Begin \/ Skip
  \/ Get \/ CleaningEnds \/ Refuse \/ Create \/ Boot \/ StartupKilled
  \/ Transfer \/ PostExecute \/ PostComplete
  \/ box \notin live /\ Discard
  \/ \E verdict \in {"succeeded", "failed", "cancelled"}, out \in Outputs :
       Answer(verdict, out)

Answers ==
  \/ \E b \in Boxes : Created(b) \/ LeanEnds(b)
  \/ \E r \in Runs, b \in Boxes : CreatedLate(r, b)
  \/ \E k \in kills : Killed(k)
  \/ ForwardCancel

Failures ==
  \/ CreationFails \/ \E r \in Runs : CreationFailsLate(r)
  \/ StartupFailsEarly \/ StartupFails \/ Discard
  \/ \E k \in kills : KillFails(k)
  \/ \E b \in Boxes : Expire(b)
  \/ HostTrouble \/ HostCrash

Elsewhere ==
  /\ \/ \E r \in Runs : Claim(Host, r)
     \/ \E w \in Workers \ {Host} : WorkerStep(w)
     \/ \E d \in Dispatchers : DispatchStep(d)
     \/ \E r \in Runs : CancelRun(r)
  /\ UNCHANGED hostVars

HostedNext == HostAdvance \/ Answers \/ Failures \/ Elsewhere

HostedSpec == HostedInit /\ [][HostedNext]_hostedVars

-----------------------------------------------------------------------------
(* Properties *)

WellTyped == TypeOK /\ HostTypeOK /\ orphans \subseteq Boxes

(* "permits only one active Sandbox" (E2BSandboxContainerFactory.get): of  *)
(* the sandboxes the provider told of there is one at most, and the        *)
(* process still refers to it, so that it will end it before it asks for   *)
(* another.  Orphans come on top of it: each is made for a request that    *)
(* was cut off, serves no Run, and is nobody's to end.                     *)
OneKnownSandbox ==
  \A b \in live :
    /\ live = {b}
    /\ \/ b = box
       \/ \E r \in Runs : b \in {active[r], quarantined[r]}

(* Lean runs only for a Run that was started and has no result yet, also   *)
(* in a sandbox whose kill failed, and in one sandbox at a time.           *)
LeanForActiveRuns ==
  \A b \in live :
    lean[b] = "running" =>
      \E r \in Runs :
        /\ b \in {active[r], quarantined[r]}
        /\ state[r] \in Life!ActiveStates

(* "A queued or preparing item can be removed immediately"                 *)
(* (docs/run-state-contract.md): it leaves nothing behind that keeps the   *)
(* process from serving other Runs.                                        *)
RemovedRunsLeaveNothing ==
  At(Host, "idle") => \A r \in Runs : Life!Over(r) => active[r] = None
=============================================================================
