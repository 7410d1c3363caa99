---------------------------- MODULE MCAnchoring ----------------------------
(***************************************************************************)
(* A small instance of Anchoring for TLC, in two situations: two tickers   *)
(* compete over two records while an operator abandons batches; and two    *)
(* witnesses confirm the one batch of a single ticker, whose ticks are     *)
(* fair.  One transaction is reverted or expires, and who is otherwise     *)
(* interchangeable comes in a fixed order.                                 *)
(***************************************************************************)
EXTENDS Anchoring, TLC

CONSTANTS r1, r2, p1, p2, w1, w2

VARIABLE situation

MCInit == Init /\ situation \in {"competition", "witnesses"}

MCNext ==
  /\ Next
  /\ UNCHANGED situation
  /\ call[p1].at = "idle" /\ call[p2].at = "idle" => call'[p2] = call[p2]
  /\ rec'[r2] # Unknown => rec'[r1] # Unknown
  /\ Cardinality({t \in Txs : chain'[t] \in {"reverted", "expired"}}) <= 1
  /\ IF situation = "competition"
     THEN \A w \in Witnesses : call'[w].at = "idle"
     ELSE /\ call'[p2].at = "idle" /\ rec'[r2] = Unknown
          /\ batch'[2].status = "none"
          /\ UNCHANGED abandon
          /\ call'[p1].at # "idle" => lease' = p1
          /\ chain'[<<1, w2>>] # "absent" => chain'[<<1, w1>>] # "absent"

MCSpec == MCInit /\ [][MCNext]_<<vars, situation>>

Fair(A) == situation = "witnesses" /\ A /\ UNCHANGED situation

MCFairSpec ==
  /\ MCSpec
  /\ WF_<<vars, situation>>(Fair(StartTick(p1)))
  /\ WF_<<vars, situation>>(Fair(TickStep(p1)))
  /\ WF_<<vars, situation>>(Fair(Expire(p1)))

\* What died half-way through recording a final transaction is made good
\* (Reconciled), where ticks are fair: listSubmissionsForReconciliation.
ReconciledFairly == situation = "witnesses" => Reconciled
=============================================================================
