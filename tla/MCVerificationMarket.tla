------------------------ MODULE MCVerificationMarket ------------------------
(***************************************************************************)
(* A small instance of VerificationMarket for TLC, in one of three         *)
(* situations, which the initial state chooses:                            *)
(*   claims: p may take both jobs of b by a market claim or a direct       *)
(*     assignment, q competes for one of them, and the credit pool and the *)
(*     delegations change meanwhile;                                       *)
(*   desk: p is assigned the replayed claim, accepts or declines it and    *)
(*     attests, while real time passes and keys are revoked;               *)
(*   closing: an early release attested the other claim for q and did not  *)
(*     close the assignment; the verdict is sent again.                    *)
(***************************************************************************)
EXTENDS VerificationMarket, TLC

CONSTANTS b, owner, p, q, c1, c2

MCOwnerOf == [x \in {b} |-> owner]
MCTwo == <<"kernel_accepted", "novelty_reviewed">>
MCReplay == {"kernel_accepted"}
Of(claim, person) == [bundle |-> b, claim |-> claim, person |-> person]
MCUnclosed == {Of("novelty_reviewed", q)}
MCRevocations == {[revoked |-> "delegation", at |-> 1],
                  [revoked |-> "key", at |-> 2]}
MCCallers == Permutations(Callers)

VARIABLE situation

InHand == {call[c].work : c \in Callers} \ {Nobody}
Doing == {call[c].phase : c \in Callers}

ClaimsOnly ==
  /\ now' = 1
  /\ replay' = replay
  /\ {"deciding", "reviewing"} \cap Doing' = {}
  /\ Of("novelty_reviewed", q) \notin InHand'

DeskOnly ==
  /\ pool' = "draft" /\ proved' = {}
  /\ "claiming" \notin Doing'
  /\ InHand' \subseteq {Of("kernel_accepted", p), Of("novelty_reviewed", q)}
  /\ \A x \in Persons : authority'[x].revoked # "delegation"

MCInit ==
  /\ Init
  /\ situation \in {"claims", "desk", "closing"}
  /\ situation = "closing" <=> \E w \in Work : att[w] # NoVerdict

MCNext ==
  /\ Next
  /\ situation' = situation
  /\ situation = "claims" => ClaimsOnly
  /\ situation # "claims" => DeskOnly
  /\ situation = "desk" => Of("novelty_reviewed", q) \notin InHand'
                           /\ authority'[q] = Granted
  /\ situation = "closing" => Of("kernel_accepted", p) \notin InHand'
                              /\ authority'[p] = Granted

MCSpec == MCInit /\ [][MCNext]_<<vars, situation>>
=============================================================================
