---------------------------- MODULE ReviewLedger ----------------------------
(***************************************************************************)
(* What the verification stores promise to the people who review and to    *)
(* the issuer of Receipts who reads the reviews: one review per Bundle,    *)
(* claim and Person, a bounded number of open reviews per Person, never of *)
(* one's own work, and a verdict that appears with the end of its review   *)
(* and stays.  VerificationMarket implements this module.                  *)
(***************************************************************************)
EXTENDS Naturals, FiniteSets

CONSTANTS
  Bundles,      \* staged Artifact Bundles
  ClaimTypes,   \* what can be said of one
  Persons,
  OwnerOf,      \* OwnerOf[b]: the Person whose Attempt made Bundle b
  Verdicts,     \* signed decisions
  NoVerdict,
  MaxActive     \* open reviews per Person

VARIABLES
  standing,     \* standing[w]: "none", "open", "declined" or "closed"
  verdict       \* verdict[w]: the decision, or NoVerdict

Work == [bundle: Bundles, claim: ClaimTypes, person: Persons]

OpenOf(p) == {w \in Work : w.person = p /\ standing[w] = "open"}

Init ==
  /\ standing \in [Work -> {"none", "open"}]
  /\ \A w \in Work : standing[w] = "open" => w.person # OwnerOf[w.bundle]
  /\ verdict = [w \in Work |-> NoVerdict]

(* A Person takes a review, or is given one. *)
Take(w) ==
  /\ standing[w] = "none"
  /\ w.person # OwnerOf[w.bundle]
  /\ Cardinality(OpenOf(w.person)) < MaxActive
  /\ standing' = [standing EXCEPT ![w] = "open"]
  /\ UNCHANGED verdict

Refuse(w) ==
  /\ standing[w] = "open"
  /\ standing' = [standing EXCEPT ![w] = "declined"]
  /\ UNCHANGED verdict

Conclude(w, v) ==
  /\ standing[w] = "open"
  /\ standing' = [standing EXCEPT ![w] = "closed"]
  /\ verdict' = [verdict EXCEPT ![w] = v]

Next ==
  \E w \in Work :
    \/ Take(w)
    \/ Refuse(w)
    \/ \E v \in Verdicts : Conclude(w, v)

Spec == Init /\ [][Next]_<<standing, verdict>>
=============================================================================
