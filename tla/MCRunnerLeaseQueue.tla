------------------------- MODULE MCRunnerLeaseQueue -------------------------
(***************************************************************************)
(* A small instance of RunnerLeaseQueue for TLC, in two situations: with   *)
(* precise clocks, claims that may stall and redrives that race; and with  *)
(* clocks that are one unit wrong, prompt claims and no redrive.           *)
(***************************************************************************)
EXTENDS RunnerLeaseQueue, TLC

CONSTANTS r1, c1, c2

VARIABLE situation

(* Both consumers serve every Run. *)
MCServesAll == [c \in Consumers |-> Runs]

MCSymmetry == Permutations(Consumers)

MCInit == Init /\ situation \in {"precise", "skewed"}

PreciseTime == 3
SkewedEvents == 5
SkewedLeases == 2

(* Only these calls read the clock before the step that writes. *)
Prompt(e) == e.tag \in {"lease_claimed", "lease_reclaimed", "redriven"} \/ e.at = now

MCNext ==
  /\ Next
  /\ UNCHANGED situation
  /\ IF situation = "precise"
     THEN /\ now' <= PreciseTime
          /\ \A r \in Runs : events'[r] # events[r] => Prompt(Last(events'[r]))
          /\ \A d \in redriving' \ redriving : d.at = now
          /\ \A c \in Consumers : claim'[c].at = claim'[c].started
     ELSE /\ redriving' = {}
          /\ lastLease' <= SkewedLeases
          /\ \A r \in Runs : Len(events'[r]) <= SkewedEvents
          /\ now' # now => \A c \in Consumers : ~Claiming(c)

MCSpec == MCInit /\ [][MCNext]_<<vars, situation>>
=============================================================================
