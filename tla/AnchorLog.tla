----------------------------- MODULE AnchorLog -----------------------------
(***************************************************************************)
(* What anchoring promises about the public record: a log to which sets of *)
(* records are appended, each record in one of them and none ever removed. *)
(* Batches, transactions, submissions and ticks do not show here.          *)
(***************************************************************************)
EXTENDS Sequences, SequencesExt

CONSTANT Records    \* the records that can be anchored

VARIABLE log        \* what has been anchored so far, oldest first

Anchored == UNION ToSet(log)

Init == log = <<>>

\* The next batch of records is anchored.
Anchor(leaves) ==
  /\ leaves # {}
  /\ leaves \cap Anchored = {}
  /\ log' = Append(log, leaves)

Next == \E leaves \in SUBSET Records : Anchor(leaves)

Spec == Init /\ [][Next]_log
=============================================================================
