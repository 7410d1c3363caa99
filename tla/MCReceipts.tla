----------------------------- MODULE MCReceipts -----------------------------
(***************************************************************************)
(* A small instance of Receipts for TLC, in three situations: the first    *)
(* Bundle is closed; a second one, which builds on it, is closed while the *)
(* first may be retracted; both have Receipts, whose histories go on.      *)
(***************************************************************************)
EXTENDS Receipts, TLC

CONSTANTS b1, b2, owner, p, q, k1, k2, attempt, c1, c2

VARIABLE situation

MCOwnerOf == [b \in {b1, b2} |-> owner]
MCAttemptOf == [b \in {b1, b2} |-> attempt]
MCDepsOf == b1 :> {} @@ b2 :> {b1}
MCActivatedAt == k1 :> 1 @@ k2 :> 2
MCIdOf == [w \in Work |->
            IF w.person = p THEN 1 ELSE IF w.person = q THEN 2 ELSE 3]

ReviewOf(b, r) == [bundle |-> b, claim |-> "kernel_accepted", person |-> r]
Positive(t) == [decision |-> "attested", at |-> t]

Taken ==
  CASE situation = "first" -> {ReviewOf(b1, p)}
    [] situation = "second" -> {ReviewOf(b2, q)}
    [] situation = "both" -> {}

(* The positive decisions there are, and when they were signed. *)
Decided(t) ==
  CASE situation = "first" -> << >>
    [] situation = "second" -> ReviewOf(b1, p) :> 1 @@ ReviewOf(b2, p) :> 1
    [] situation = "both" -> ReviewOf(b1, p) :> 1 @@ ReviewOf(b2, p) :> t

Closed ==
  CASE situation = "first" -> {}
    [] situation = "second" -> {b1}
    [] situation = "both" -> {b1, b2}

MCInit ==
  \E t \in 1..2 :
    /\ situation \in {"first", "second", "both"}
    /\ now = t /\ (situation # "both" => t = 1)
    /\ until = [r \in Persons |-> MaxTime + 1]
    /\ standing = [w \in Work |->
         IF w \in Taken THEN "open"
         ELSE IF w \in DOMAIN Decided(t) THEN "closed" ELSE "none"]
    /\ verdict = [w \in Work |->
         IF w \in DOMAIN Decided(t) THEN Positive(Decided(t)[w]) ELSE NoVerdict]
    /\ keys = [k \in Keys |->
         IF Closed # {} /\ k = k1 THEN Fresh(1) ELSE NoKeyRow]
    /\ keyLog = {[type |-> "activated", key |-> k] : k \in {x \in Keys : keys[x] # NoKeyRow}}
    /\ receipts = [b \in Bundles |->
         IF b \in Closed
         THEN [at |-> Decided(t)[ReviewOf(b, p)], key |-> k1, cites |-> {ReviewOf(b, p)}]
         ELSE NoReceipt]
    /\ events = {} /\ queued = {} /\ credited = {}
    /\ call = [c \in Callers |-> NoCall]

(* What goes on in each situation, besides what the World does. *)
Duties ==
  CASE situation = "first" -> Phases \ {"comparing", "recording"}
    [] situation = "second" -> Phases \ {"comparing", "rotating"}
    [] situation = "both" -> {"idle", "comparing", "recording", "rotating"}

MCNext ==
  /\ Next
  /\ UNCHANGED situation
  /\ \A c \in Callers : call'[c].phase \in Duties
  /\ call[c1].phase = "idle" /\ call[c2].phase = "idle" => UNCHANGED call[c2]
  /\ situation # "first" => \A k \in Keys : keys'[k].status # "revoked"
  /\ IF situation = "second" THEN UNCHANGED keys ELSE UNCHANGED until

MCSpec == MCInit /\ [][MCNext]_<<vars, situation>>
MCFair == MCSpec /\ \A b \in Bundles : WF_<<vars, situation>>(Intake(b) /\ UNCHANGED situation)

MCCallers == Permutations(Callers)
=============================================================================
