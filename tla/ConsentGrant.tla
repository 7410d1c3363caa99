---------------------------- MODULE ConsentGrant ----------------------------
(***************************************************************************)
(* What a Person's consent is worth: one approval, which is spent once, on *)
(* one authorization code, which is spent once, on one line of tokens.     *)
(* Whatever is lost on the way stays lost.  AgentAccess implements this    *)
(* module.                                                                 *)
(***************************************************************************)

CONSTANT Offers     \* consent challenges and local pairings

VARIABLE stage      \* stage[h]: what the authority of offer h is now

Stages == {"none", "open", "granting", "code", "redeeming", "tokens", "lost"}

(* Consents there were before have led to tokens. *)
Init == stage \in [Offers -> {"none", "tokens"}]

(* In which order consent turns into tokens. *)
Next ==
  \E h \in Offers, s \in Stages :
    /\ stage' = [stage EXCEPT ![h] = s]
    /\ \/ stage[h] = "none" /\ s = "open"
       \/ stage[h] = "open" /\ s = "granting"
       \/ stage[h] = "granting" /\ s \in {"code", "lost"}
       \/ stage[h] = "code" /\ s = "redeeming"
       \/ stage[h] = "redeeming" /\ s \in {"tokens", "lost"}

Spec == Init /\ [][Next]_stage
=============================================================================
