---------------------------- MODULE ReceiptBook ----------------------------
(***************************************************************************)
(* What the Receipt store promises to those who read it: one Receipt per   *)
(* Bundle, which never changes; every required claim rests on a positive   *)
(* decision of somebody else than the author; what a Receipt builds on was *)
(* certified before it; what is said of a Receipt later is said after it   *)
(* was issued and points to a newer Receipt of the same Attempt; credit    *)
(* goes to public Receipts only.  Receipts implements this module.         *)
(***************************************************************************)
EXTENDS Naturals

CONSTANTS
  Bundles,      \* staged Artifact Bundles
  Claims,       \* contributionReceiptRequiredClaimTypes
  OwnerOf,      \* OwnerOf[b]: the Person whose Attempt made Bundle b
  AttemptOf,    \* AttemptOf[b]: that Attempt
  DepsOf,       \* DepsOf[b]: the Bundles on whose Receipts Bundle b builds
  Public        \* Bundles whose Receipts are public research

VARIABLES
  verdict,      \* the signed decisions (ReviewLedger)
  receipts,     \* receipts[b]: the Receipt of Bundle b, if its instant is not 0
  events,       \* what was said of Receipts later
  credited      \* Bundles whose Receipts earned their credits

Issued(b) == receipts[b].at # 0

Backed(b, cites) ==
  \A cl \in Claims : \E w \in cites :
    /\ w.bundle = b /\ w.claim = cl
    /\ w.person # OwnerOf[b]
    /\ verdict[w].decision = "attested"

Sound(b, r) ==
  /\ Backed(b, r.cites)
  /\ \A d \in DepsOf[b] : Issued(d) /\ receipts[d].at <= r.at

Init ==
  /\ \A b \in Bundles : Issued(b) => Sound(b, receipts[b])
  /\ events = {}
  /\ credited = {}

Issue(b, r) ==
  /\ ~ Issued(b)
  /\ Sound(b, r)
  /\ receipts' = [receipts EXCEPT ![b] = r]
  /\ UNCHANGED <<events, credited>>

Remark(e) ==
  /\ Issued(e.bundle)
  /\ receipts[e.bundle].at <= e.at
  /\ e.type # "retracted" =>
       /\ Issued(e.by)
       /\ AttemptOf[e.by] = AttemptOf[e.bundle]
       /\ receipts[e.by].at \in receipts[e.bundle].at + 1 .. e.at
  /\ events' = events \cup {e}
  /\ UNCHANGED <<receipts, credited>>

Credit(b) ==
  /\ Issued(b) /\ b \in Public
  /\ credited' = credited \cup {b}
  /\ UNCHANGED <<receipts, events>>

Next ==
  \/ \E b \in Bundles : Issue(b, receipts'[b]) \/ Credit(b)
  \/ \E e \in events' : Remark(e)

Spec == Init /\ [][Next]_<<receipts, events, credited>>
=============================================================================
