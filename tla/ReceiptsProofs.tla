--------------------------- MODULE ReceiptsProofs ---------------------------
(***************************************************************************)
(* Proofs about Receipts, for any Bundles, claims, reviewers, issuer keys, *)
(* callers and bounds.                                                     *)
(***************************************************************************)
EXTENDS Receipts, TLAPS

USE ReceiptsAssumption

-----------------------------------------------------------------------------
(* The inductive invariant *)

Decided == {w \in Work : verdict[w].decision # "none"}

(* A decision appears with the end of its review, and stays. *)
OpenUndecided == \A w \in Work : standing[w] = "open" => verdict[w] = NoVerdict

Before(v, w) ==
  \/ verdict[v].at < verdict[w].at
  \/ verdict[v].at = verdict[w].at /\ IdOf[v] <= IdOf[w]

(* They were made one by one: of any of them, one is latest. *)
Ranked ==
  \A S \in SUBSET Decided : S # {} => \E w \in S : \A v \in S : Before(v, w)

Dated == \A b \in Bundles : Issued(b) => receipts[b].at # 0

Issuing == {"registering", "gathering", "judging", "inserting"}
Remarking == {"comparing", "recording"}

(* What an operation has established on its way remains true until it is   *)
(* relied upon: decisions and Receipts never change.                       *)
IssuanceFits(u) ==
  /\ u.phase \in Issuing \cup {"announcing", "settling", "crediting"} => u.bundle \in Bundles
  /\ u.phase \in Issuing =>
       u.key \in Keys /\ u.draft.key = u.key /\ u.draft.at # 0
  /\ u.phase \in {"judging", "inserting"} => Book!Backed(u.bundle, u.draft.cites)
  /\ u.phase = "inserting" =>
       \A d \in DepsOf[u.bundle] : Issued(d) /\ receipts[d].at <= u.draft.at
  /\ u.phase = "crediting" => Issued(u.bundle) /\ u.bundle \in Public

Follows(e) ==
  /\ Issued(e.by)
  /\ AttemptOf[e.by] = AttemptOf[e.bundle]
  /\ receipts[e.by].at \in receipts[e.bundle].at + 1 .. e.at

RemarkFits(u) ==
  /\ u.phase \in Remarking =>
       /\ u.event \in Event
       /\ (u.event.by = NoBundle) = (u.event.type = "retracted")
       /\ Issued(u.event.bundle) /\ receipts[u.event.bundle].at <= u.event.at
  /\ u.phase = "comparing" => u.event.by # NoBundle
  /\ u.phase = "recording" /\ u.event.by # NoBundle => Follows(u.event)

CallFits(u) ==
  /\ u \in Call
  /\ IssuanceFits(u)
  /\ RemarkFits(u)
  /\ u.phase = "rotating" => u.key \in Keys /\ u.successor \in Keys

ReceiptsInv ==
  /\ TypeOK
  /\ now \in 1..MaxTime
  /\ OpenUndecided /\ Ranked /\ Dated
  /\ \A c \in Callers : CallFits(call[c])

-----------------------------------------------------------------------------
(* The latest decision *)

LEMMA Dates ==
  ASSUME TypeOK, NEW w \in Decided
  PROVE  /\ w \in Work /\ IdOf[w] \in Nat
         /\ verdict[w] \in Verdicts
         /\ verdict[w].at \in 1..MaxTime /\ verdict[w].decision \in {"attested", "rejected"}
BY DEF Decided, TypeOK, Verdicts, NoVerdict

LEMMA BundleWork ==
  ASSUME NEW b, NEW cl, NEW w \in DecidedOn(b, cl)
  PROVE  w \in Decided /\ w.bundle = b /\ w.claim = cl
BY DEF DecidedOn, Decided

LEMMA LatestIs ==
  ASSUME Ranked, NEW b, NEW cl, DecidedOn(b, cl) # {}
  PROVE  Latest(b, cl) \in DecidedOn(b, cl)
<1>1. DecidedOn(b, cl) \subseteq Decided  BY BundleWork
<1>2. PICK w \in DecidedOn(b, cl) : \A v \in DecidedOn(b, cl) : Before(v, w)
  BY <1>1 DEF Ranked
<1> QED  BY <1>2 DEF Latest, Before

(* What a Receipt cites when the Bundle can be closed. *)
LEMMA CitesAre ==
  ASSUME TypeOK, Ranked, NEW b, Closable(b)
  PROVE  /\ Cites(b) \subseteq Decided /\ Cites(b) # {}
         /\ Book!Backed(b, Cites(b))
<1>1. \A cl \in Claims : DecidedOn(b, cl) # {}  BY DEF Closable, Complete
<1>2. \A cl \in Claims : Latest(b, cl) \in DecidedOn(b, cl)  BY <1>1, LatestIs
<1>3. ASSUME NEW cl \in Claims
      PROVE  LET w == Latest(b, cl)
             IN  /\ w \in Decided /\ w.bundle = b /\ w.claim = cl
                 /\ w.person # OwnerOf[b] /\ verdict[w].decision = "attested"
  <2>1. PICK w \in DecidedOn(b, cl) : w = Latest(b, cl)  BY <1>2, <1>3
  <2>2. w \in Decided /\ w.bundle = b /\ w.claim = cl  BY <2>1, BundleWork
  <2>3. w.person # OwnerOf[b]  BY <2>1, <1>3 DEF Closable, Admissible
  <2>4. verdict[w].decision # "rejected"  BY <2>1, <1>3, <1>1 DEF Closable, Blocked
  <2>5. verdict[w].decision = "attested"  BY <2>2, <2>4, Dates
  <2> QED  BY <2>1, <2>2, <2>3, <2>5
<1>4. Cites(b) \subseteq Decided /\ Cites(b) # {}  BY <1>3 DEF Cites
<1>5. Book!Backed(b, Cites(b))  BY <1>3 DEF Cites, Book!Backed
<1> QED  BY <1>4, <1>5

LEMMA ClosedAtIs ==
  ASSUME TypeOK, Ranked, NEW b, Closable(b)
  PROVE  ClosedAt(b) \in 1..MaxTime
<1>1. Cites(b) \in SUBSET Decided /\ Cites(b) # {}  BY CitesAre
<1>2. PICK w \in Cites(b) : \A v \in Cites(b) : Before(v, w)  BY <1>1 DEF Ranked
<1>3. \A v \in Cites(b) : verdict[v].at \in 1..MaxTime  BY <1>1, Dates
<1>4. \A v \in Cites(b) : verdict[v].at <= verdict[w].at  BY <1>2, <1>3 DEF Before
<1> DEFINE T == {verdict[v].at : v \in Cites(b)}
<1>5. \E t \in T : \A v \in Cites(b) : verdict[v].at <= t  BY <1>2, <1>4
<1>6. T \subseteq 1..MaxTime  BY <1>3
<1> HIDE DEF T
<1>7. (CHOOSE t \in T : \A v \in Cites(b) : verdict[v].at <= t) \in T  BY <1>5
<1> QED  BY <1>6, <1>7 DEF ClosedAt, T

-----------------------------------------------------------------------------
(* Frames *)

Stores ==
  /\ now \in 1..MaxTime
  /\ standing \in [Work -> {"none", "open", "declined", "closed"}]
  /\ verdict \in [Work -> Verdicts \cup {NoVerdict}]
  /\ until \in [Persons -> Nat]
  /\ keys \in [Keys -> KeyRow] /\ keyLog \subseteq KeyEvent
  /\ receipts \in [Bundles -> Receipt] /\ events \subseteq Event
  /\ queued \subseteq Bundles /\ credited \subseteq Bundles
  /\ OpenUndecided /\ Ranked /\ Dated

LEMMA InvParts ==
  ReceiptsInv <=>
    /\ Stores
    /\ call \in [Callers -> Call] /\ \A c \in Callers : CallFits(call[c])
BY DEF ReceiptsInv, Stores, TypeOK

(* No step takes back a Receipt or a positive decision. *)
Keeps ==
  /\ \A b \in Bundles : Issued(b) => receipts'[b] = receipts[b]
  /\ \A w \in Work : verdict[w].decision = "attested" => verdict'[w] = verdict[w]

LEMMA CallFields ==
  ASSUME NEW u \in Call
  PROVE  /\ u.phase \in Phases /\ u.bundle \in Bundles \cup {NoBundle}
         /\ u.key \in Keys \cup {NoKey} /\ u.draft \in Receipt
         /\ u.draft.at \in Nat /\ u.draft.cites \subseteq Work
BY DEF Call, Receipt

LEMMA EventFields ==
  ASSUME NEW e \in Event
  PROVE  /\ e.bundle \in Bundles /\ e.by \in Bundles \cup {NoBundle}
         /\ e.at \in 1..MaxTime /\ e.key \in Keys
BY DEF Event

LEMMA FitsKept ==
  ASSUME Keeps, NEW u, CallFits(u)
  PROVE  CallFits(u)'
<1>1. u \in Call  BY DEF CallFits
<1>2. IssuanceFits(u)'
  <2>1. ASSUME Book!Backed(u.bundle, u.draft.cites)
        PROVE  Book!Backed(u.bundle, u.draft.cites)'
    <3>1. u.draft.cites \subseteq Work  BY <1>1, CallFields
    <3>2. \A w \in u.draft.cites :
            verdict[w].decision = "attested" => verdict'[w].decision = "attested"
      BY <3>1 DEF Keeps
    <3> QED  BY <2>1, <3>2 DEF Book!Backed
  <2>2. ASSUME NEW d \in Bundles, Issued(d)
        PROVE  Issued(d)' /\ receipts'[d] = receipts[d]
    BY <2>2 DEF Keeps, Issued
  <2>3. ASSUME u.phase = "inserting", NEW d \in DepsOf[u.bundle]
        PROVE  Issued(d)' /\ receipts'[d].at <= u.draft.at
    <3>1. u.bundle \in Bundles /\ Issued(d) /\ receipts[d].at <= u.draft.at
      BY <2>3 DEF CallFits, IssuanceFits, Issuing
    <3>2. d \in Bundles  BY <2>3, <3>1
    <3> QED  BY <2>2, <3>1, <3>2
  <2>4. u.phase = "crediting" => Issued(u.bundle)'
    BY <2>2 DEF CallFits, IssuanceFits
  <2> QED  BY <2>1, <2>3, <2>4 DEF CallFits, IssuanceFits
<1>3. RemarkFits(u)'
  <2>1. ASSUME NEW b \in Bundles, Issued(b)
        PROVE  Issued(b)' /\ receipts'[b] = receipts[b]
    BY <2>1 DEF Keeps, Issued
  <2>2. ASSUME NEW e \in Event, e.by # NoBundle, Issued(e.bundle), Follows(e)
        PROVE  Follows(e)'
    <3>1. e.bundle \in Bundles /\ e.by \in Bundles  BY <2>2, EventFields
    <3> QED  BY <2>1, <2>2, <3>1 DEF Follows
  <2>3. CASE u.phase \in Remarking
    <3>1. u.event \in Event /\ Issued(u.event.bundle)
      BY <2>3 DEF CallFits, RemarkFits
    <3>2. u.event.bundle \in Bundles  BY <3>1, EventFields
    <3>3. receipts'[u.event.bundle] = receipts[u.event.bundle] /\ Issued(u.event.bundle)'
      BY <3>1, <3>2, <2>1
    <3> QED  BY <2>2, <2>3, <3>1, <3>3 DEF CallFits, RemarkFits, Remarking
  <2>4. CASE u.phase \notin Remarking
    BY <2>4 DEF RemarkFits, Remarking
  <2> QED  BY <2>3, <2>4
<1> QED  BY <1>1, <1>2, <1>3 DEF CallFits

LEMMA StepKeeps ==
  ASSUME ReceiptsInv, Stores', Keeps,
         \/ UNCHANGED call
         \/ \E c \in Callers : \E u : CallFits(u)' /\ call' = [call EXCEPT ![c] = u]
  PROVE  ReceiptsInv'
<1>1. call \in [Callers -> Call] /\ \A c \in Callers : CallFits(call[c])  BY InvParts
<1>2. ASSUME NEW d \in Callers, UNCHANGED call[d] PROVE CallFits(call[d])'
  <2>1. PICK v : v = call[d]  OBVIOUS
  <2>2. CallFits(v)'  BY <1>1, <2>1, FitsKept
  <2>3. v = call'[d]  BY <1>2, <2>1
  <2> QED  BY <2>2, <2>3
<1>3. CASE UNCHANGED call
  <2>1. \A d \in Callers : CallFits(call[d])'  BY <1>2, <1>3
  <2>2. (call \in [Callers -> Call])'  BY <1>1, <1>3
  <2> QED  BY <2>1, <2>2 DEF ReceiptsInv, Stores, TypeOK
<1>4. ASSUME NEW c \in Callers, NEW u, CallFits(u)', call' = [call EXCEPT ![c] = u]
      PROVE  ReceiptsInv'
  <2>1. u \in Call  BY <1>4 DEF CallFits
  <2>2. (call \in [Callers -> Call])'  BY <1>1, <1>4, <2>1
  <2>3. ASSUME NEW d \in Callers PROVE CallFits(call[d])'
    <3>1. CASE d = c
      <4>1. u = call'[d]  BY <1>1, <1>4, <3>1
      <4> QED  BY <1>4, <4>1
    <3>2. CASE d # c  BY <1>1, <1>2, <1>4, <3>2
    <3> QED  BY <3>1, <3>2
  <2> QED  BY <2>2, <2>3 DEF ReceiptsInv, Stores, TypeOK
<1> QED  BY <1>3, <1>4

(* A step of which only the caller knows. *)
LEMMA OwnMove ==
  ASSUME ReceiptsInv, UNCHANGED <<now, reviews, registry, book, effects>>,
         NEW c \in Callers, NEW u, CallFits(u), call' = [call EXCEPT ![c] = u]
  PROVE  ReceiptsInv'
<1>1. Keeps  BY DEF Keeps, reviews, book
<1>2. Stores'
  <2>1. Stores  BY InvParts
  <2> QED
    BY <2>1 DEF Stores, reviews, registry, book, effects, OpenUndecided, Ranked, Before,
                Decided, Dated, Issued
<1>3. CallFits(u)'  BY <1>1, FitsKept
<1> QED  BY <1>1, <1>2, <1>3, StepKeeps

LEMMA Moved ==
  ASSUME call \in [Callers -> Call], NEW c \in Callers, NEW phase \in Phases,
         Become(c, phase)
  PROVE  \E u \in Call :
           /\ call' = [call EXCEPT ![c] = u] /\ u.phase = phase
           /\ u.bundle = call[c].bundle /\ u.key = call[c].key
           /\ u.successor = call[c].successor
           /\ u.draft = call[c].draft /\ u.event = call[c].event
<1> DEFINE u == [call[c] EXCEPT !.phase = phase]
<1>1. call[c] \in Call  OBVIOUS
<1>2. /\ u \in Call /\ u.phase = phase
      /\ u.bundle = call[c].bundle /\ u.key = call[c].key
      /\ u.successor = call[c].successor
      /\ u.draft = call[c].draft /\ u.event = call[c].event
  BY <1>1 DEF Call
<1>3. call' = [call EXCEPT ![c] = u]  BY DEF Become
<1> HIDE DEF u
<1> QED  BY <1>2, <1>3

LEMMA NoCallFits == CallFits(NoCall)
<1>1. NoCall \in Call /\ NoCall.phase = "idle"
  BY DEF NoCall, Call, Phases, NoReceipt, Receipt
<1> QED  BY <1>1 DEF CallFits, IssuanceFits, RemarkFits, Issuing, Remarking

LEMMA CallTyped ==
  ASSUME ReceiptsInv, NEW c \in Callers
  PROVE  call \in [Callers -> Call] /\ call[c] \in Call /\ CallFits(call[c])
BY DEF ReceiptsInv, TypeOK

LEMMA CloseKeeps ==
  ASSUME ReceiptsInv, NEW c \in Callers, NEW b \in Bundles, NEW k \in Keys, Close(c, b, k)
  PROVE  ReceiptsInv'
<1>0. PICK t \in Nat \ {0} : t = Later(ActivatedAt[k], ClosedAt(b))
  <2>1. ClosedAt(b) \in 1..MaxTime
    BY ClosedAtIs DEF ReceiptsInv, Close
  <2> QED  BY <2>1 DEF Later
<1> DEFINE d == [at |-> t, key |-> k, cites |-> {}]
           u == [NoCall EXCEPT !.phase = "registering", !.bundle = b, !.key = k,
                               !.draft = d]
<1>1. d \in Receipt /\ d.at # 0 /\ d.key = k  BY DEF Receipt
<1> HIDE DEF d
<1>2. /\ u \in Call /\ u.phase = "registering" /\ u.bundle = b
      /\ u.key = k /\ u.draft = d
  BY <1>1, NoCallFits DEF CallFits, Call, NoCall, Phases
<1>3. call' = [call EXCEPT ![c] = u]
  BY <1>0 DEF Close, Begin, d
<1>4. UNCHANGED <<now, reviews, registry, book, effects>>  BY DEF Close
<1> HIDE DEF u
<1>5. CallFits(u)
  BY <1>1, <1>2 DEF CallFits, IssuanceFits, RemarkFits, Remarking, Issuing
<1> QED  BY <1>3, <1>4, <1>5, OwnMove

LEMMA ResettleKeeps ==
  ASSUME ReceiptsInv, NEW c \in Callers, NEW b \in Bundles, Resettle(c, b)
  PROVE  ReceiptsInv'
<1> DEFINE u == [NoCall EXCEPT !.phase = "settling", !.bundle = b]
<1>1. u \in Call /\ u.phase = "settling" /\ u.bundle = b
  BY NoCallFits DEF CallFits, Call, NoCall, Phases
<1>2. call' = [call EXCEPT ![c] = u] /\ UNCHANGED <<now, reviews, registry, book, effects>>
  BY DEF Resettle, Begin
<1> HIDE DEF u
<1>3. CallFits(u)
  BY <1>1 DEF CallFits, IssuanceFits, RemarkFits, Remarking, Issuing
<1> QED  BY <1>2, <1>3, OwnMove

LEMMA RemarkKeeps ==
  ASSUME ReceiptsInv, NEW c \in Callers, NEW e \in Event, Remark(c, e)
  PROVE  ReceiptsInv'
<1>0. PICK phase \in Remarking : phase = IF e.by = NoBundle THEN "recording" ELSE "comparing"
  BY DEF Remarking
<1> DEFINE u == [NoCall EXCEPT !.phase = phase, !.event = e]
<1>1. u \in Call /\ u.phase = phase /\ u.event = e
  BY NoCallFits DEF CallFits, Call, NoCall, Phases, Remarking
<1>2. call' = [call EXCEPT ![c] = u] /\ UNCHANGED <<now, reviews, registry, book, effects>>
  BY <1>0 DEF Remark, Begin
<1> HIDE DEF u
<1>3. /\ Issued(e.bundle) /\ receipts[e.bundle].at <= e.at
      /\ (e.by = NoBundle) = (e.type = "retracted")
  BY DEF Remark, TrustedReceipt
<1>4. RemarkFits(u)  BY <1>0, <1>1, <1>3 DEF RemarkFits
<1>5. IssuanceFits(u)  BY <1>0, <1>1 DEF IssuanceFits, Issuing, Remarking
<1>6. CallFits(u)  BY <1>0, <1>1, <1>4, <1>5 DEF CallFits, Remarking
<1> QED  BY <1>2, <1>6, OwnMove

LEMMA RotateKeeps ==
  ASSUME ReceiptsInv, NEW c \in Callers, NEW k \in Keys, NEW successor \in Keys,
         NEW t \in 1..now, Rotate(c, k, successor, t)
  PROVE  ReceiptsInv'
<1>0. t \in Nat  BY DEF ReceiptsInv
<1> DEFINE u == [NoCall EXCEPT !.phase = "rotating", !.key = k,
                               !.successor = successor, !.at = t]
<1>1. u \in Call /\ u.phase = "rotating" /\ u.key = k /\ u.successor = successor
  BY <1>0, NoCallFits DEF CallFits, Call, NoCall, Phases
<1>2. call' = [call EXCEPT ![c] = u] /\ UNCHANGED <<now, reviews, registry, book, effects>>
  BY DEF Rotate, Begin
<1> HIDE DEF u
<1>3. CallFits(u)
  BY <1>1 DEF CallFits, IssuanceFits, RemarkFits, Remarking, Issuing
<1> QED  BY <1>2, <1>3, OwnMove

LEMMA GatherSets ==
  ASSUME ReceiptsInv, NEW c \in Callers, Gather(c)
  PROVE  \E u \in Call :
           /\ call' = [call EXCEPT ![c] = u] /\ u.phase = "judging"
           /\ u.bundle = call[c].bundle /\ u.key = call[c].key
           /\ u.draft.cites = Cites(call[c].bundle)
           /\ u.draft.key = call[c].draft.key /\ u.draft.at = call[c].draft.at
<1> DEFINE b == call[c].bundle
           d == [call[c].draft EXCEPT !.cites = Cites(b)]
           u == [call[c] EXCEPT !.phase = "judging", !.draft = d]
<1>1. call \in [Callers -> Call] /\ call[c] \in Call  BY CallTyped
<1>2. Cites(b) \subseteq Work  BY CitesAre, Dates DEF Gather, ReceiptsInv
<1>3. d \in Receipt /\ d.cites = Cites(b) /\ d.key = call[c].draft.key
                    /\ d.at = call[c].draft.at
  BY <1>1, <1>2 DEF Call, Receipt
<1>4. call' = [call EXCEPT ![c] = u]
  <2>1. PICK f : f = [call EXCEPT ![c].phase = "judging"]  OBVIOUS
  <2>2. PICK X : X = Cites(b)  OBVIOUS
  <2>3. call' = [f EXCEPT ![c].draft.cites = X]  BY <2>1, <2>2 DEF Gather
  <2>4. /\ f = [x \in Callers |-> IF x = c THEN f[c] ELSE call[x]]
        /\ f[c] = [call[c] EXCEPT !.phase = "judging"]
    BY <1>1, <2>1
  <2>5. [f[c] EXCEPT !.draft.cites = X] = u
    BY <1>1, <2>2, <2>4 DEF Call, d, u
  <2>6. call' = [x \in Callers |-> IF x = c THEN [f[c] EXCEPT !.draft.cites = X] ELSE call[x]]
    BY <2>3, <2>4
  <2> QED  BY <1>1, <2>5, <2>6
<1> HIDE DEF d
<1>5. u \in Call /\ u.phase = "judging" /\ u.bundle = b /\ u.key = call[c].key /\ u.draft = d
  BY <1>1, <1>3 DEF Call, Phases
<1> HIDE DEF u
<1> QED  BY <1>3, <1>4, <1>5

LEMMA GatherKeeps ==
  ASSUME ReceiptsInv, NEW c \in Callers, Gather(c)
  PROVE  ReceiptsInv'
<1>1. CallFits(call[c])  BY CallTyped
<1>2. PICK u \in Call :
        /\ call' = [call EXCEPT ![c] = u] /\ u.phase = "judging"
        /\ u.bundle = call[c].bundle /\ u.key = call[c].key
        /\ u.draft.cites = Cites(call[c].bundle)
        /\ u.draft.key = call[c].draft.key /\ u.draft.at = call[c].draft.at
  BY GatherSets
<1>3. Book!Backed(u.bundle, u.draft.cites)
  BY <1>2, CitesAre DEF Gather, ReceiptsInv
<1>4. u.bundle \in Bundles /\ u.key \in Keys /\ u.draft.key = u.key /\ u.draft.at # 0
  BY <1>1, <1>2 DEF Gather, CallFits, IssuanceFits, Issuing
<1>5. CallFits(u)
  BY <1>2, <1>3, <1>4 DEF CallFits, IssuanceFits, RemarkFits, Remarking, Issuing
<1>6. UNCHANGED <<now, reviews, registry, book, effects>>  BY DEF Gather
<1> QED  BY <1>2, <1>5, <1>6, OwnMove

LEMMA JudgeKeeps ==
  ASSUME ReceiptsInv, NEW c \in Callers, Judge(c)
  PROVE  ReceiptsInv'
<1>1. call \in [Callers -> Call] /\ CallFits(call[c])  BY CallTyped
<1>2. PICK phase \in {"announcing", "inserting"} : Become(c, phase)  BY DEF Judge
<1>3. PICK u \in Call :
        /\ call' = [call EXCEPT ![c] = u] /\ u.phase = phase
        /\ u.bundle = call[c].bundle /\ u.key = call[c].key /\ u.draft = call[c].draft
  BY <1>1, <1>2, Moved DEF Phases
<1>4. /\ u.bundle \in Bundles /\ u.key \in Keys /\ u.draft.key = u.key /\ u.draft.at # 0
      /\ Book!Backed(u.bundle, u.draft.cites)
  BY <1>1, <1>3 DEF Judge, CallFits, IssuanceFits, Issuing
<1>5. \A d \in DepsOf[u.bundle] : Issued(d) /\ receipts[d].at <= u.draft.at
  BY <1>3 DEF Judge, DependenciesHold, TrustedReceipt
<1>6. CallFits(u)
  BY <1>2, <1>3, <1>4, <1>5 DEF CallFits, IssuanceFits, RemarkFits, Remarking, Issuing
<1>7. UNCHANGED <<now, reviews, registry, book, effects>>  BY DEF Judge
<1> QED  BY <1>3, <1>6, <1>7, OwnMove

LEMMA CheckSettleKeeps ==
  ASSUME ReceiptsInv, NEW c \in Callers, CheckSettle(c)
  PROVE  ReceiptsInv'
<1>1. call \in [Callers -> Call] /\ CallFits(call[c])  BY CallTyped
<1>2. PICK u \in Call :
        /\ call' = [call EXCEPT ![c] = u] /\ u.phase = "crediting"
        /\ u.bundle = call[c].bundle
  BY <1>1, Moved DEF Phases, CheckSettle
<1>3. u.bundle \in Bundles /\ u.bundle \in Public /\ Issued(u.bundle)
  BY <1>2 DEF CheckSettle, Creditable, TrustedReceipt
<1>4. CallFits(u)
  BY <1>2, <1>3 DEF CallFits, IssuanceFits, RemarkFits, Remarking, Issuing
<1>5. UNCHANGED <<now, reviews, registry, book, effects>>  BY DEF CheckSettle
<1> QED  BY <1>2, <1>4, <1>5, OwnMove

LEMMA CompareKeeps ==
  ASSUME ReceiptsInv, NEW c \in Callers, Compare(c)
  PROVE  ReceiptsInv'
<1>1. call \in [Callers -> Call] /\ CallFits(call[c])  BY CallTyped
<1>2. PICK u \in Call :
        call' = [call EXCEPT ![c] = u] /\ u.phase = "recording" /\ u.event = call[c].event
  BY <1>1, Moved DEF Phases, Compare
<1>3. /\ u.event \in Event /\ (u.event.by = NoBundle) = (u.event.type = "retracted")
      /\ Issued(u.event.bundle) /\ receipts[u.event.bundle].at <= u.event.at
  BY <1>1, <1>2 DEF Compare, CallFits, RemarkFits, Remarking
<1>4. Follows(u.event)  BY <1>2 DEF Compare, Replaces, Follows, TrustedReceipt
<1>5. CallFits(u)
  BY <1>2, <1>3, <1>4 DEF CallFits, IssuanceFits, RemarkFits, Remarking, Issuing
<1>6. UNCHANGED <<now, reviews, registry, book, effects>>  BY DEF Compare
<1> QED  BY <1>2, <1>5, <1>6, OwnMove

LEMMA GiveUpKeeps ==
  ASSUME ReceiptsInv, NEW c \in Callers, GiveUp(c)
  PROVE  ReceiptsInv'
<1>1. call' = [call EXCEPT ![c] = NoCall] /\ UNCHANGED <<now, reviews, registry, book, effects>>
  BY DEF GiveUp, End
<1> QED  BY <1>1, NoCallFits, OwnMove

-----------------------------------------------------------------------------
(* Steps that write *)

LEMMA FreshTyped ==
  ASSUME NEW t \in Nat
  PROVE  Fresh(t) \in KeyRow /\ Fresh(t).status = "active"
BY DEF Fresh, NoKeyRow, KeyRow

LEMMA RetireTyped ==
  ASSUME NEW row \in KeyRow, NEW t \in Nat
  PROVE  /\ Retire(row, t) \in KeyRow
         /\ row.status # "active" => Retire(row, t) = row
         /\ row.status = "active" => Retire(row, t).status = "retired"
BY DEF Retire, KeyRow

(* What only depends on the reviews and the Receipts. *)
LEMMA ReviewsRest ==
  ASSUME Stores, UNCHANGED reviews
  PROVE  OpenUndecided' /\ Ranked'
BY DEF Stores, reviews, OpenUndecided, Ranked, Before, Decided

LEMMA ReceiptsRest ==
  ASSUME UNCHANGED <<reviews, receipts>>, Stores
  PROVE  Keeps /\ Dated'
BY DEF Stores, Keeps, reviews, Dated, Issued

LEMMA RegisterKeeps ==
  ASSUME ReceiptsInv, NEW c \in Callers, Register(c)
  PROVE  ReceiptsInv'
<1>0. Stores /\ call \in [Callers -> Call] /\ CallFits(call[c])  BY CallTyped, InvParts
<1>1. PICK u \in Call :
        /\ call' = [call EXCEPT ![c] = u] /\ u.phase = "gathering"
        /\ u.bundle = call[c].bundle /\ u.key = call[c].key /\ u.draft = call[c].draft
  BY <1>0, Moved DEF Phases, Register
<1>2. u.bundle \in Bundles /\ u.key \in Keys /\ u.draft.key = u.key /\ u.draft.at # 0
  BY <1>0, <1>1 DEF Register, CallFits, IssuanceFits, Issuing
<1>3. CallFits(u)'
  BY <1>1, <1>2 DEF CallFits, IssuanceFits, RemarkFits, Remarking, Issuing
<1>4. keys' \in [Keys -> KeyRow] /\ keyLog' \subseteq KeyEvent
  <2>1. PICK k \in Keys : k = call[c].key  BY <1>1, <1>2
  <2>2. Fresh(ActivatedAt[k]) \in KeyRow  BY FreshTyped
  <2>3. [type |-> "activated", key |-> k] \in KeyEvent  BY DEF KeyEvent
  <2> QED  BY <1>0, <2>1, <2>2, <2>3 DEF Register, Stores, registry
<1>5. UNCHANGED <<now, reviews, book, effects>>  BY DEF Register
<1>6. Keeps /\ Dated' /\ OpenUndecided' /\ Ranked'
  BY <1>0, <1>5, ReviewsRest, ReceiptsRest DEF book
<1>7. Stores'  BY <1>0, <1>4, <1>5, <1>6 DEF Stores, reviews, book, effects
<1> QED  BY <1>1, <1>3, <1>6, <1>7, StepKeeps

LEMMA InsertKeeps ==
  ASSUME ReceiptsInv, NEW c \in Callers, Insert(c)
  PROVE  ReceiptsInv'
<1>0. Stores /\ call \in [Callers -> Call] /\ CallFits(call[c])  BY CallTyped, InvParts
<1>1. PICK u \in Call :
        /\ call' = [call EXCEPT ![c] = u] /\ u.phase = "announcing"
        /\ u.bundle = call[c].bundle /\ u.draft = call[c].draft
  BY <1>0, Moved DEF Phases, Insert
<1>2. u.bundle \in Bundles /\ u.draft \in Receipt /\ u.draft.at # 0
  BY <1>0, <1>1, CallFields DEF Insert, CallFits, IssuanceFits, Issuing
<1>3. CallFits(u)'
  BY <1>1, <1>2 DEF CallFits, IssuanceFits, RemarkFits, Remarking, Issuing
<1>4. UNCHANGED <<now, reviews, registry, events, effects>>  BY DEF Insert
<1>5. CASE ~ Issued(u.bundle) /\ receipts' = [receipts EXCEPT ![u.bundle] = u.draft]
  <2>1. receipts' \in [Bundles -> Receipt]  BY <1>0, <1>2, <1>5 DEF Stores
  <2>2. Dated'  BY <1>0, <1>2, <1>5 DEF Stores, Dated, Issued
  <2>3. Keeps  BY <1>0, <1>4, <1>5 DEF Stores, Keeps, Issued, reviews
  <2>4. Stores'
    BY <1>0, <1>4, <2>1, <2>2, ReviewsRest DEF Stores, reviews, registry, effects
  <2> QED  BY <1>1, <1>3, <2>3, <2>4, StepKeeps
<1>6. CASE UNCHANGED receipts
  <2>1. Keeps /\ Dated' /\ OpenUndecided' /\ Ranked'
    BY <1>0, <1>4, <1>6, ReviewsRest, ReceiptsRest
  <2>2. Stores'  BY <1>0, <1>4, <1>6, <2>1 DEF Stores, reviews, registry, effects
  <2> QED  BY <1>1, <1>3, <2>1, <2>2, StepKeeps
<1> QED  BY <1>1, <1>5, <1>6 DEF Insert

LEMMA AnnounceKeeps ==
  ASSUME ReceiptsInv, NEW c \in Callers, Announce(c)
  PROVE  ReceiptsInv'
<1>0. Stores /\ call \in [Callers -> Call] /\ CallFits(call[c])  BY CallTyped, InvParts
<1>1. PICK u \in Call :
        /\ call' = [call EXCEPT ![c] = u] /\ u.phase = "settling"
        /\ u.bundle = call[c].bundle
  BY <1>0, Moved DEF Phases, Announce
<1>2. u.bundle \in Bundles
  BY <1>0, <1>1 DEF Announce, CallFits, IssuanceFits
<1>3. CallFits(u)'
  BY <1>1, <1>2 DEF CallFits, IssuanceFits, RemarkFits, Remarking, Issuing
<1>4. UNCHANGED <<now, reviews, registry, book, credited>> /\ queued' \subseteq Bundles
  BY <1>0 DEF Announce, Stores
<1>5. Keeps /\ Dated' /\ OpenUndecided' /\ Ranked'
  BY <1>0, <1>4, ReviewsRest, ReceiptsRest DEF book
<1>6. Stores'  BY <1>0, <1>4, <1>5 DEF Stores, reviews, registry, book
<1> QED  BY <1>1, <1>3, <1>5, <1>6, StepKeeps

LEMMA CreditKeeps ==
  ASSUME ReceiptsInv, NEW c \in Callers, Credit(c)
  PROVE  ReceiptsInv'
<1>0. Stores /\ call \in [Callers -> Call] /\ CallFits(call[c])  BY CallTyped, InvParts
<1>1. call' = [call EXCEPT ![c] = NoCall]  BY DEF Credit, End
<1>2. call[c].bundle \in Bundles  BY <1>0 DEF Credit, CallFits, IssuanceFits
<1>3. UNCHANGED <<now, reviews, registry, book, queued>> /\ credited' \subseteq Bundles
  BY <1>0, <1>2 DEF Credit, Stores
<1>4. Keeps /\ Dated' /\ OpenUndecided' /\ Ranked'
  BY <1>0, <1>3, ReviewsRest, ReceiptsRest DEF book
<1>5. Stores'  BY <1>0, <1>3, <1>4 DEF Stores, reviews, registry, book
<1>6. CallFits(NoCall)'  BY <1>4, NoCallFits, FitsKept
<1> QED  BY <1>1, <1>4, <1>5, <1>6, StepKeeps

LEMMA RecordKeeps ==
  ASSUME ReceiptsInv, NEW c \in Callers, Record(c)
  PROVE  ReceiptsInv'
<1>0. Stores /\ call \in [Callers -> Call] /\ CallFits(call[c])  BY CallTyped, InvParts
<1>1. call' = [call EXCEPT ![c] = NoCall]  BY DEF Record, End
<1>2. call[c].event \in Event  BY <1>0 DEF Record, CallFits, RemarkFits, Remarking
<1>3. UNCHANGED <<now, reviews, registry, receipts, effects>> /\ events' \subseteq Event
  BY <1>0, <1>2 DEF Record, Stores
<1>4. Keeps /\ Dated' /\ OpenUndecided' /\ Ranked'
  BY <1>0, <1>3, ReviewsRest, ReceiptsRest
<1>5. Stores'  BY <1>0, <1>3, <1>4 DEF Stores, reviews, registry, effects
<1>6. CallFits(NoCall)'  BY <1>4, NoCallFits, FitsKept
<1> QED  BY <1>1, <1>4, <1>5, <1>6, StepKeeps

LEMMA RotateBatchKeeps ==
  ASSUME ReceiptsInv, NEW c \in Callers, RotateBatch(c)
  PROVE  ReceiptsInv'
<1>0. Stores /\ call[c] \in Call /\ CallFits(call[c])  BY CallTyped, InvParts
<1>1. call' = [call EXCEPT ![c] = NoCall]  BY DEF RotateBatch, End
<1>2. PICK k \in Keys, successor \in Keys, t \in Nat :
        k = call[c].key /\ successor = call[c].successor /\ t = call[c].at
  BY <1>0 DEF RotateBatch, CallFits, Call
<1>3. keys' \in [Keys -> KeyRow]
  <2>1. Retire(keys[k], t) \in KeyRow /\ Fresh(t) \in KeyRow
    BY <1>0, FreshTyped, RetireTyped DEF Stores
  <2>2. keys' = [keys EXCEPT ![k] = Retire(@, t), ![successor] = Fresh(t)]
    BY <1>2 DEF RotateBatch
  <2> QED  BY <1>0, <2>1, <2>2 DEF Stores
<1>4. keyLog' \subseteq KeyEvent
  <2>1. {[type |-> "retired", key |-> k], [type |-> "activated", key |-> successor]}
          \subseteq KeyEvent
    BY DEF KeyEvent
  <2> QED  BY <1>0, <1>2, <2>1 DEF RotateBatch, Stores
<1>5. UNCHANGED <<now, reviews, book, effects>>  BY DEF RotateBatch
<1>6. Keeps /\ Dated' /\ OpenUndecided' /\ Ranked'
  BY <1>0, <1>5, ReviewsRest, ReceiptsRest DEF book
<1>7. Stores'  BY <1>0, <1>3, <1>4, <1>5, <1>6 DEF Stores, reviews, book, effects
<1>8. CallFits(NoCall)'  BY <1>6, NoCallFits, FitsKept
<1> QED  BY <1>1, <1>6, <1>7, <1>8, StepKeeps

LEMMA IntakeKeeps ==
  ASSUME ReceiptsInv, NEW b \in Bundles, Intake(b)
  PROVE  ReceiptsInv'
<1>0. Stores  BY InvParts
<1>1. UNCHANGED <<now, reviews, registry, book, credited, call>> /\ queued' \subseteq Bundles
  BY <1>0 DEF Intake, Stores
<1>2. Keeps /\ Dated' /\ OpenUndecided' /\ Ranked'
  BY <1>0, <1>1, ReviewsRest, ReceiptsRest DEF book
<1>3. Stores'  BY <1>0, <1>1, <1>2 DEF Stores, reviews, registry, book
<1> QED  BY <1>1, <1>2, <1>3, StepKeeps

LEMMA TickKeeps ==
  ASSUME ReceiptsInv, Tick
  PROVE  ReceiptsInv'
<1>0. Stores  BY InvParts
<1>1. UNCHANGED <<reviews, registry, book, effects, call>> /\ now' \in 1..MaxTime
  BY <1>0 DEF Tick, Stores
<1>2. Keeps /\ Dated' /\ OpenUndecided' /\ Ranked'
  BY <1>0, <1>1, ReviewsRest, ReceiptsRest DEF book
<1>3. Stores'  BY <1>0, <1>1, <1>2 DEF Stores, reviews, registry, book, effects
<1> QED  BY <1>1, <1>2, <1>3, StepKeeps

LEMMA RevokeKeeps ==
  ASSUME ReceiptsInv, NEW k \in Keys, NEW t \in 1..now, Revoke(k, t)
  PROVE  ReceiptsInv'
<1>0. Stores /\ t \in Nat  BY InvParts DEF Stores
<1>1. keys' \in [Keys -> KeyRow] /\ keyLog' \subseteq KeyEvent
  <2> DEFINE row == [keys[k] EXCEPT !.status = "revoked", !.revokedAt = t]
  <2>1. keys[k] \in KeyRow  BY <1>0 DEF Stores
  <2>2. row \in KeyRow  BY <1>0, <2>1 DEF KeyRow
  <2>3. keys' = [keys EXCEPT ![k] = row]
    <3>1. keys' = [[keys EXCEPT ![k].status = "revoked"] EXCEPT ![k].revokedAt = t]
      BY DEF Revoke
    <3> QED  BY <1>0, <3>1 DEF Stores
  <2>4. keyLog \subseteq KeyEvent /\ keyLog' = keyLog \cup {[type |-> "revoked", key |-> k]}
    BY <1>0 DEF Stores, Revoke
  <2>5. keys \in [Keys -> KeyRow]  BY <1>0 DEF Stores
  <2> HIDE DEF row
  <2>6. [type |-> "revoked", key |-> k] \in KeyEvent  BY DEF KeyEvent
  <2> QED  BY <2>2, <2>3, <2>4, <2>5, <2>6
<1>2. UNCHANGED <<now, reviews, book, effects, call>>  BY DEF Revoke
<1>3. Keeps /\ Dated' /\ OpenUndecided' /\ Ranked'
  BY <1>0, <1>2, ReviewsRest, ReceiptsRest DEF book
<1>4. Stores'  BY <1>0, <1>1, <1>2, <1>3 DEF Stores, reviews, book, effects
<1> QED  BY <1>2, <1>3, <1>4, StepKeeps

LEMMA DisownKeeps ==
  ASSUME ReceiptsInv, NEW p \in Persons, NEW t \in 1..now, Disown(p, t)
  PROVE  ReceiptsInv'
<1>0. Stores /\ t \in Nat  BY InvParts DEF Stores
<1>1. /\ UNCHANGED <<now, standing, verdict, registry, book, effects, call>>
      /\ until' \in [Persons -> Nat]
  BY <1>0 DEF Disown, Stores
<1>2. Keeps /\ Dated' /\ OpenUndecided' /\ Ranked'
  BY <1>0, <1>1
     DEF Stores, book, Keeps, Dated, Issued, OpenUndecided, Ranked, Before, Decided
<1>3. Stores'  BY <1>0, <1>1, <1>2 DEF Stores, registry, book, effects
<1> QED  BY <1>1, <1>2, <1>3, StepKeeps

(* One more decision: it is the latest, or what was remains so. *)
LEMMA RankedAgain ==
  ASSUME Stores, NEW w0 \in Work, NEW v0 \in Verdicts, w0 \notin Decided,
         verdict' = [verdict EXCEPT ![w0] = v0]
  PROVE  Ranked'
<1>1. /\ verdict'[w0] = v0 /\ v0.at \in 1..MaxTime /\ IdOf[w0] \in Nat
      /\ \A v \in Work : v # w0 => verdict'[v] = verdict[v]
  BY DEF Stores, Verdicts
<1>2. Decided' \subseteq Decided \cup {w0} /\ w0 \notin Decided
  BY <1>1 DEF Decided
<1>3. \A v \in Decided : verdict'[v] = verdict[v] /\ verdict[v].at \in 1..MaxTime
                          /\ IdOf[v] \in Nat
  BY <1>1, <1>2 DEF Stores, Decided, Verdicts, NoVerdict
<1>4. SUFFICES ASSUME NEW S \in SUBSET Decided', S # {}
               PROVE  \E w \in S : \A v \in S : Before(v, w)'
  BY DEF Ranked
<1>5. CASE S \ {w0} = {}
  <2>1. S = {w0}  BY <1>4, <1>5
  <2>2. Before(w0, w0)'  BY <1>1 DEF Before
  <2> QED  BY <2>1, <2>2
<1>6. CASE S \ {w0} # {}
  <2>1. S \ {w0} \in SUBSET Decided  BY <1>2, <1>4
  <2>2. PICK m \in S \ {w0} : \A v \in S \ {w0} : Before(v, m)
    BY <1>6, <2>1 DEF Stores, Ranked
  <2>3. \A v \in S \ {w0} : Before(v, m)'
    BY <1>3, <2>1, <2>2 DEF Before
  <2>4. m \in Decided /\ Before(m, m)'  BY <1>3, <2>1, <2>2, <2>3
  <2>5. CASE Before(w0, m)'
    <3>1. \A v \in S : Before(v, m)'  BY <2>3, <2>5
    <3> QED  BY <2>2, <3>1
  <2>6. CASE ~ Before(w0, m)' /\ w0 \in S
    <3>1. ASSUME NEW v \in S \ {w0} PROVE Before(v, w0)'
      <4>1. v \in Decided /\ Before(v, m)'  BY <2>1, <2>3, <3>1
      <4>2. /\ verdict'[v].at \in Nat /\ verdict'[m].at \in Nat /\ verdict'[w0].at \in Nat
            /\ IdOf[v] \in Nat /\ IdOf[m] \in Nat
        BY <1>1, <1>3, <2>4, <4>1
      <4> QED  BY <1>1, <2>6, <4>1, <4>2 DEF Before
    <3>2. Before(w0, w0)'  BY <1>1 DEF Before
    <3> QED  BY <2>6, <3>1, <3>2
  <2>7. CASE w0 \notin S  BY <2>2, <2>3, <2>7
  <2> QED  BY <2>5, <2>6, <2>7
<1> QED  BY <1>5, <1>6

LEMMA ReviewKeeps ==
  ASSUME ReceiptsInv, NEW w \in Work, NEW d \in {"attested", "rejected"}, NEW t \in 1..now,
         Review(w, d, t)
  PROVE  ReceiptsInv'
<1>0. Stores  BY InvParts
<1>1. PICK v \in Verdicts : v = [decision |-> d, at |-> t]
  <2>1. t \in 1..MaxTime  BY <1>0 DEF Stores
  <2>2. [decision |-> d, at |-> t] \in Verdicts  BY <2>1 DEF Verdicts
  <2> QED  BY <2>2
<1>2. /\ standing[w] = "open" /\ standing' = [standing EXCEPT ![w] = "closed"]
      /\ verdict' = [verdict EXCEPT ![w] = v]
  BY <1>1 DEF Review, Ledger!Conclude
<1>3. verdict[w] = NoVerdict  BY <1>0, <1>2 DEF Stores, OpenUndecided
<1>4. w \notin Decided /\ verdict[w].decision # "attested"  BY <1>3 DEF Decided, NoVerdict
<1>5. UNCHANGED <<now, until, registry, book, effects, call>>  BY DEF Review
<1>6. Ranked'  BY <1>0, <1>2, <1>4, RankedAgain
<1>7. OpenUndecided'  BY <1>0, <1>2 DEF Stores, OpenUndecided
<1>8. Keeps /\ Dated'
  BY <1>0, <1>2, <1>4, <1>5 DEF Stores, Keeps, Dated, Issued, book
<1>9. Stores'
  BY <1>0, <1>2, <1>5, <1>6, <1>7, <1>8 DEF Stores, registry, book, effects
<1> QED  BY <1>5, <1>8, <1>9, StepKeeps

-----------------------------------------------------------------------------
(* The invariant holds *)

LEMMA InvInit == Init => ReceiptsInv
<1> SUFFICES ASSUME Init PROVE ReceiptsInv
  OBVIOUS
<1>1. /\ standing \in [Work -> {"none", "open"}]
      /\ verdict = [w \in Work |-> NoVerdict]
  BY DEF Init, Ledger!Init, Work
<1>2. Decided = {}  BY <1>1 DEF Decided, NoVerdict
<1>3. OpenUndecided /\ Ranked
  <2>1. OpenUndecided  BY <1>1 DEF OpenUndecided
  <2>2. Ranked  BY <1>2 DEF Ranked
  <2> QED  BY <2>1, <2>2
<1>4. NoReceipt \in Receipt /\ NoKeyRow \in KeyRow
  BY DEF NoReceipt, Receipt, NoKeyRow, KeyRow
<1>5. Dated  BY DEF Init, Dated, Issued
<1>6. \A c \in Callers : call[c] = NoCall  BY DEF Init
<1>7. NoCall \in Call /\ \A c \in Callers : CallFits(call[c])
  BY <1>6, NoCallFits DEF CallFits
<1>8. standing \in [Work -> {"none", "open", "declined", "closed"}]  BY <1>1
<1>9. TypeOK  BY <1>1, <1>4, <1>7, <1>8 DEF Init, TypeOK
<1> QED  BY <1>3, <1>5, <1>7, <1>9 DEF ReceiptsInv, Init

LEMMA InvStep ==
  ASSUME ReceiptsInv, [Next]_vars
  PROVE  ReceiptsInv'
<1>1. CASE World
  BY <1>1, TickKeeps, ReviewKeeps, DisownKeeps, RevokeKeeps DEF World
<1>2. ASSUME NEW c \in Callers, Request(c)
      PROVE  ReceiptsInv'
  BY <1>2, CloseKeeps, ResettleKeeps, RemarkKeeps, RotateKeeps DEF Request
<1>3. ASSUME NEW c \in Callers, Proceed(c)
      PROVE  ReceiptsInv'
  BY <1>3, RegisterKeeps, GatherKeeps, JudgeKeeps, InsertKeeps, AnnounceKeeps,
     CheckSettleKeeps, CreditKeeps, CompareKeeps, RecordKeeps, RotateBatchKeeps,
     GiveUpKeeps DEF Proceed
<1>4. ASSUME NEW b \in Bundles, Intake(b)
      PROVE  ReceiptsInv'
  BY <1>4, IntakeKeeps
<1>5. CASE UNCHANGED vars
  <2>1. Stores  BY InvParts
  <2>2. UNCHANGED <<now, reviews, registry, book, effects, call>>  BY <1>5 DEF vars
  <2>3. Keeps /\ Dated' /\ OpenUndecided' /\ Ranked'
    BY <2>1, <2>2, ReviewsRest, ReceiptsRest DEF book
  <2>4. Stores'  BY <2>1, <2>2, <2>3 DEF Stores, reviews, registry, book, effects
  <2> QED  BY <2>2, <2>3, <2>4, StepKeeps
<1> QED  BY <1>1, <1>2, <1>3, <1>4, <1>5 DEF Next

LEMMA InvHolds == Spec => []ReceiptsInv
<1>1. ReceiptsInv /\ [Next]_vars => ReceiptsInv'  BY InvStep
<1> QED  BY <1>1, InvInit, PTL DEF Spec

(* Reviews, keys, Receipts, their events and the operations on them keep   *)
(* their shape; the instant of a Receipt is always defined, though it is   *)
(* that of the last of several decisions (reviewState().closedAt).         *)
THEOREM ReceiptsTypeCorrect == Spec => []TypeOK
<1>1. ReceiptsInv => TypeOK  BY DEF ReceiptsInv
<1> QED  BY <1>1, InvHolds, PTL

-----------------------------------------------------------------------------
(* Who does what *)

LEMMA MovesTo ==
  ASSUME call \in [Callers -> Call], NEW c \in Callers, NEW phase \in Phases,
         Become(c, phase)
  PROVE  /\ call'[c].phase = phase /\ call'[c].bundle = call[c].bundle
         /\ call'[c].key = call[c].key /\ call'[c].event = call[c].event
         /\ \A d \in Callers : d # c => call'[d] = call[d]
BY Moved

LEMMA EndsIdle ==
  ASSUME call \in [Callers -> Call], NEW c \in Callers, End(c)
  PROVE  /\ call'[c].phase = "idle"
         /\ \A d \in Callers : d # c => call'[d] = call[d]
BY DEF End, NoCall

(* How an operation gets to the phases in which it relies on what it read. *)
Arrival(c) ==
  /\ \A d \in Callers : d # c => call'[d] = call[d]
  /\ call'[c].phase = "judging" => Gather(c) /\ call'[c].bundle = call[c].bundle
  /\ call'[c].phase = "inserting" =>
       Judge(c) /\ call'[c].bundle = call[c].bundle /\ call'[c].key = call[c].key
                /\ ~ Issued(call[c].bundle) /\ CanIssue(call[c].key, call[c].draft.at)
  /\ call'[c].phase = "comparing" => \E e \in Event : Remark(c, e) /\ call'[c].event = e
  /\ call'[c].phase = "recording" =>
       \/ \E e \in Event : Remark(c, e) /\ call'[c].event = e
       \/ Compare(c) /\ call'[c].event = call[c].event
  /\ call'[c].phase = "crediting" => CheckSettle(c) /\ call'[c].bundle = call[c].bundle

LEMMA RequestArrives ==
  ASSUME ReceiptsInv, NEW c \in Callers, Request(c)
  PROVE  Arrival(c)
<1>0. call \in [Callers -> Call]  BY CallTyped
<1>1. ASSUME NEW u, Begin(c, u)
      PROVE  call'[c] = u /\ \A d \in Callers : d # c => call'[d] = call[d]
  BY <1>0, <1>1 DEF Begin
<1>2. ASSUME NEW b \in Bundles, NEW k \in Keys, Close(c, b, k) PROVE Arrival(c)
  <2> DEFINE u == [NoCall EXCEPT
                 !.phase = "registering", !.bundle = b, !.key = k,
                 !.draft = [at |-> Later(ActivatedAt[k], ClosedAt(b)),
                            key |-> k, cites |-> {}]]
  <2>1. Begin(c, u)  BY <1>2 DEF Close
  <2>2. u.phase = "registering"  BY DEF NoCall
  <2> HIDE DEF u
  <2> QED  BY <1>1, <2>1, <2>2 DEF Arrival
<1>3. ASSUME NEW b \in Bundles, Resettle(c, b) PROVE Arrival(c)
  <2> DEFINE u == [NoCall EXCEPT !.phase = "settling", !.bundle = b]
  <2>1. Begin(c, u)  BY <1>3 DEF Resettle
  <2>2. u.phase = "settling"  BY DEF NoCall
  <2> HIDE DEF u
  <2> QED  BY <1>1, <2>1, <2>2 DEF Arrival
<1>4. ASSUME NEW e \in Event, Remark(c, e) PROVE Arrival(c)
  <2> DEFINE u == [NoCall EXCEPT
                 !.phase = IF e.by = NoBundle THEN "recording" ELSE "comparing",
                 !.event = e]
  <2>1. Begin(c, u)  BY <1>4 DEF Remark
  <2>2. u.phase \in Remarking /\ u.event = e  BY DEF NoCall, Remarking
  <2> HIDE DEF u
  <2> QED  BY <1>1, <1>4, <2>1, <2>2 DEF Arrival, Remarking
<1>5. ASSUME NEW k \in Keys, NEW successor \in Keys, NEW t \in 1..now,
             Rotate(c, k, successor, t)
      PROVE  Arrival(c)
  <2> DEFINE u == [NoCall EXCEPT !.phase = "rotating", !.key = k,
                             !.successor = successor, !.at = t]
  <2>1. Begin(c, u)  BY <1>5 DEF Rotate
  <2>2. u.phase = "rotating"  BY DEF NoCall
  <2> HIDE DEF u
  <2> QED  BY <1>1, <2>1, <2>2 DEF Arrival
<1> QED  BY <1>2, <1>3, <1>4, <1>5 DEF Request

LEMMA ProceedArrives ==
  ASSUME ReceiptsInv, NEW c \in Callers, Proceed(c)
  PROVE  Arrival(c)
<1>0. call \in [Callers -> Call]  BY CallTyped
<1>1. CASE Credit(c) \/ Record(c) \/ RotateBatch(c) \/ GiveUp(c)
  <2>1. End(c)  BY <1>1 DEF Credit, Record, RotateBatch, GiveUp
  <2> QED  BY <1>0, <2>1, EndsIdle DEF Arrival
<1>2. CASE Register(c) \/ Insert(c) \/ Announce(c)
  <2>1. PICK phase \in {"gathering", "announcing", "settling"} : Become(c, phase)
    BY <1>2 DEF Register, Insert, Announce
  <2> QED  BY <1>0, <2>1, MovesTo DEF Arrival, Phases
<1>3. CASE Gather(c)
  <2>1. PICK u \in Call :
          /\ call' = [call EXCEPT ![c] = u]
          /\ u.phase = "judging" /\ u.bundle = call[c].bundle
    BY <1>3, GatherSets
  <2>2. call'[c] = u /\ \A d \in Callers : d # c => call'[d] = call[d]
    BY <1>0, <2>1
  <2> QED  BY <1>3, <2>1, <2>2 DEF Arrival
<1>4. CASE Judge(c)
  <2>1. PICK phase \in {"announcing", "inserting"} :
          /\ Become(c, phase)
          /\ phase = "inserting" =>
               ~ Issued(call[c].bundle) /\ CanIssue(call[c].key, call[c].draft.at)
    BY <1>4 DEF Judge
  <2> QED  BY <1>0, <1>4, <2>1, MovesTo DEF Arrival, Phases
<1>5. CASE CheckSettle(c)
  <2>1. Become(c, "crediting")  BY <1>5 DEF CheckSettle
  <2> QED  BY <1>0, <1>5, <2>1, MovesTo DEF Arrival, Phases
<1>6. CASE Compare(c)
  <2>1. Become(c, "recording")  BY <1>6 DEF Compare
  <2> QED  BY <1>0, <1>6, <2>1, MovesTo DEF Arrival, Phases
<1> QED  BY <1>1, <1>2, <1>3, <1>4, <1>5, <1>6 DEF Proceed

LEMMA WhoMoves ==
  ASSUME ReceiptsInv, Next
  PROVE  UNCHANGED call \/ \E c \in Callers : (Request(c) \/ Proceed(c)) /\ Arrival(c)
<1>1. CASE World  BY <1>1 DEF World, Tick, Review, Disown, Revoke
<1>2. CASE \E b \in Bundles : Intake(b)  BY <1>2 DEF Intake
<1> QED  BY <1>1, <1>2, RequestArrives, ProceedArrives DEF Next

(* Who writes what. *)
LEMMA WhoWrites ==
  ASSUME Next
  PROVE  /\ UNCHANGED receipts \/ \E c \in Callers : Insert(c)
         /\ UNCHANGED events \/ \E c \in Callers : Record(c)
         /\ UNCHANGED credited \/ \E c \in Callers : Credit(c)
         /\ \/ UNCHANGED keys
            \/ \E c \in Callers : Register(c) \/ RotateBatch(c)
            \/ \E k \in Keys, t \in 1..now : Revoke(k, t)
<1>1. CASE World
  BY <1>1 DEF World, Tick, Review, Disown, Revoke, registry, book, effects
<1>2. ASSUME NEW c \in Callers, Request(c)
      PROVE  UNCHANGED <<registry, book, effects>>
  BY <1>2 DEF Request, Close, Resettle, Remark, Rotate
<1>3. ASSUME NEW c \in Callers, Register(c) \/ RotateBatch(c)
      PROVE  UNCHANGED <<book, effects>>
  BY <1>3 DEF Register, RotateBatch
<1>4. ASSUME NEW c \in Callers, Gather(c) \/ Judge(c) \/ CheckSettle(c) \/ Compare(c) \/ GiveUp(c)
      PROVE  UNCHANGED <<registry, book, effects>>
  BY <1>4 DEF Gather, Judge, CheckSettle, Compare, GiveUp
<1>5. ASSUME NEW c \in Callers, Insert(c) PROVE UNCHANGED <<registry, events, effects>>
  BY <1>5 DEF Insert
<1>6. ASSUME NEW c \in Callers, Announce(c) PROVE UNCHANGED <<registry, book, credited>>
  BY <1>6 DEF Announce
<1>7. ASSUME NEW c \in Callers, Credit(c) PROVE UNCHANGED <<registry, book>>
  BY <1>7 DEF Credit
<1>8. ASSUME NEW c \in Callers, Record(c) PROVE UNCHANGED <<registry, receipts, effects>>
  BY <1>8 DEF Record
<1>9. ASSUME NEW b \in Bundles, Intake(b) PROVE UNCHANGED <<registry, book, credited>>
  BY <1>9 DEF Intake
<1> QED
  BY <1>1, <1>2, <1>3, <1>4, <1>5, <1>6, <1>7, <1>8, <1>9
     DEF Next, Proceed, registry, book, effects

-----------------------------------------------------------------------------
(* A decision against a Bundle holds *)

LEMMA BlockStep ==
  ASSUME ReceiptsInv, Next, NEW b \in Bundles, ~ Issued(b), Rejected(b), ~ GatheredFor(b)
  PROVE  ~ Issued(b)' /\ ~ GatheredFor(b)'
<1>1. ~ Issued(b)'
  <2>1. CASE UNCHANGED receipts  BY <2>1 DEF Issued
  <2>2. ASSUME NEW c \in Callers, Insert(c) PROVE ~ Issued(b)'
    <3>1. call[c].bundle # b  BY <2>2 DEF Insert, GatheredFor
    <3>2. receipts \in [Bundles -> Receipt]  BY DEF ReceiptsInv, TypeOK
    <3> QED  BY <2>2, <3>1, <3>2 DEF Insert, Issued
  <2> QED  BY <2>1, <2>2, WhoWrites
<1>2. ASSUME GatheredFor(b)' PROVE FALSE
  <2>1. PICK c \in Callers : call'[c].bundle = b /\ call'[c].phase \in {"judging", "inserting"}
    BY <1>2 DEF GatheredFor
  <2>2. call[c].bundle = b => call[c].phase \notin {"judging", "inserting"}
    BY DEF GatheredFor
  <2>3. Arrival(c)  BY <2>1, <2>2, WhoMoves DEF Arrival
  <2>4. CASE call'[c].phase = "judging"
    <3>1. Closable(b)  BY <2>1, <2>3, <2>4 DEF Arrival, Gather
    <3> QED  BY <3>1 DEF Rejected, Closable
  <2>5. CASE call'[c].phase = "inserting"
    <3>1. call[c].phase = "judging" /\ call[c].bundle = b
      BY <2>1, <2>3, <2>5 DEF Arrival, Judge
    <3> QED  BY <2>2, <3>1
  <2> QED  BY <2>1, <2>4, <2>5
<1> QED  BY <1>1, <1>2

(* While a decision against a Bundle stands, or a reviewer has lost the    *)
(* authority under which one was signed, no operation that has not yet     *)
(* read the evidence gives the Bundle a Receipt, however many run and      *)
(* whenever they die (tryIssueForBundle(), loadEvidence()).                *)
THEOREM BlockAlwaysHolds == Spec => BlockHolds
<1>1. ReceiptsInv /\ [Next]_vars =>
        [\A b \in Bundles :
           ~ Issued(b) /\ Rejected(b) /\ ~ GatheredFor(b) =>
             ~ Issued(b)' /\ (GatheredFor(b)' => ~ Rejected(b)')]_vars
  BY BlockStep
<1> QED  BY <1>1, InvHolds, PTL DEF Spec, BlockHolds

-----------------------------------------------------------------------------
(* A key that is no longer active is silent *)

LEMMA KeyStaysOver ==
  ASSUME ReceiptsInv, Next, NEW k \in Keys, keys[k].status \in {"retired", "revoked"}
  PROVE  keys'[k].status \in {"retired", "revoked"}
<1>1. keys \in [Keys -> KeyRow]  BY DEF ReceiptsInv, TypeOK
<1>2. ASSUME NEW c \in Callers, Register(c) PROVE keys'[k] = keys[k]
  <2>1. keys[k] # NoKeyRow  BY DEF NoKeyRow
  <2> QED  BY <1>1, <1>2, <2>1 DEF Register, registry
<1>3. ASSUME NEW c \in Callers, RotateBatch(c) PROVE keys'[k] = keys[k]
  <2>1. PICK j \in Keys, successor \in Keys, t \in Nat :
          j = call[c].key /\ successor = call[c].successor /\ t = call[c].at
    BY <1>3, CallTyped DEF RotateBatch, CallFits, Call
  <2>2. keys[successor].status = "none"  BY <1>3, <2>1 DEF RotateBatch
  <2>3. keys' = [keys EXCEPT ![j] = Retire(@, t), ![successor] = Fresh(t)]
    BY <1>3, <2>1 DEF RotateBatch
  <2>4. successor # k /\ Retire(keys[k], t) = keys[k]  BY <2>2 DEF Retire
  <2> QED  BY <1>1, <2>3, <2>4
<1>4. ASSUME NEW j \in Keys, NEW t \in 1..now, Revoke(j, t)
      PROVE  keys'[k].status \in {"retired", "revoked"}
  <2>1. keys[j] \in KeyRow  BY <1>1
  <2>2. keys'[j].status = "revoked"  BY <1>1, <1>4, <2>1 DEF Revoke, KeyRow
  <2>3. j # k => keys'[k] = keys[k]  BY <1>1, <1>4 DEF Revoke
  <2> QED  BY <2>2, <2>3
<1> QED  BY <1>2, <1>3, <1>4, WhoWrites

LEMMA SilentStep ==
  ASSUME ReceiptsInv, Next, NEW k \in Keys, Silent(k)
  PROVE  Silent(k)' /\ SignedWith(k)' = SignedWith(k)
<1>1. keys[k].status \in {"retired", "revoked"} /\ ~ JudgedWith(k)  BY DEF Silent
<1>2. keys'[k].status \in {"retired", "revoked"}  BY <1>1, KeyStaysOver
<1>3. ASSUME JudgedWith(k)' PROVE FALSE
  <2>1. PICK c \in Callers :
          \/ call'[c].phase = "inserting" /\ call'[c].key = k
          \/ call'[c].phase \in Remarking /\ call'[c].event.key = k
    BY <1>3 DEF JudgedWith, Remarking
  <2>2. /\ call[c].phase = "inserting" => call[c].key # k
        /\ call[c].phase \in Remarking => call[c].event.key # k
    BY <1>1 DEF JudgedWith, Remarking
  <2>3. Arrival(c)  BY <2>1, <2>2, WhoMoves DEF Arrival
  <2>4. \A t : ~ CanIssue(k, t)  BY <1>1 DEF CanIssue
  <2>5. CASE call'[c].phase = "inserting" /\ call'[c].key = k
    BY <2>3, <2>4, <2>5 DEF Arrival
  <2>6. ASSUME NEW e \in Event, Remark(c, e), call'[c].event = e
        PROVE  call'[c].event.key # k
    BY <2>4, <2>6 DEF Remark
  <2>7. CASE Compare(c) /\ call'[c].event = call[c].event
    BY <2>1, <2>2, <2>3, <2>5, <2>7 DEF Compare, Remarking
  <2> QED  BY <2>1, <2>3, <2>5, <2>6, <2>7 DEF Arrival, Remarking
<1>4. {b \in Bundles : receipts'[b].key = k} = {b \in Bundles : receipts[b].key = k}
  <2>1. ASSUME NEW c \in Callers, Insert(c), ~ Issued(call[c].bundle),
               receipts' = [receipts EXCEPT ![call[c].bundle] = call[c].draft]
        PROVE  \A b \in Bundles : receipts'[b].key = k <=> receipts[b].key = k
    <3>1. call[c].phase = "inserting" /\ call[c].key # k
      BY <1>1, <2>1 DEF Insert, JudgedWith
    <3>2. call[c].draft.key # k
      BY <3>1, CallTyped DEF CallFits, IssuanceFits, Issuing
    <3>3. receipts[call[c].bundle].key # k  BY <2>1 DEF Issued, NoReceipt
    <3>4. receipts \in [Bundles -> Receipt]  BY DEF ReceiptsInv, TypeOK
    <3> QED  BY <2>1, <3>2, <3>3, <3>4
  <2>2. ASSUME NEW c \in Callers, Insert(c)
        PROVE  \A b \in Bundles : receipts'[b].key = k <=> receipts[b].key = k
    BY <2>1, <2>2 DEF Insert
  <2> QED  BY <2>2, WhoWrites
<1>5. {e \in events' : e.key = k} = {e \in events : e.key = k}
  <2>1. ASSUME NEW c \in Callers, Record(c)
        PROVE  {e \in events' : e.key = k} = {e \in events : e.key = k}
    <3>1. call[c].event.key # k  BY <1>1, <2>1 DEF Record, JudgedWith
    <3>2. events' = events \cup {call[c].event}  BY <2>1 DEF Record
    <3> QED  BY <3>1, <3>2
  <2> QED  BY <2>1, WhoWrites
<1> QED  BY <1>2, <1>3, <1>4, <1>5 DEF Silent, SignedWith

(* A key that was retired or revoked signs no further Receipt and no       *)
(* further event, except for operations that had checked it before: a      *)
(* rotation or a revocation cannot be undone by one that overlaps it       *)
(* (assertCanIssue(), rotate(), revoke()).                                 *)
THEOREM RetiredKeysStaySilent == Spec => RetiredKeysSilent
<1>1. ReceiptsInv /\ [Next]_vars =>
        [\A k \in Keys : Silent(k) => Silent(k)' /\ SignedWith(k)' = SignedWith(k)]_vars
  BY SilentStep
<1> QED  BY <1>1, InvHolds, PTL DEF Spec, RetiredKeysSilent

-----------------------------------------------------------------------------
(* The end of a Receipt holds *)

LEMMA EventsGrow ==
  ASSUME Next
  PROVE  /\ events \subseteq events'
         /\ \A b \in Bundles : Over(b) => Over(b)'
<1>1. events \subseteq events'  BY WhoWrites DEF Record
<1> QED  BY <1>1 DEF Over, EventsOf

LEMMA FinishedStep ==
  ASSUME ReceiptsInv, Next, NEW b \in Bundles, Finished(b)
  PROVE  Finished(b)' /\ EventsOf(b)' = EventsOf(b)
<1>1. Over(b)'  BY EventsGrow DEF Finished
<1>2. ASSUME NEW c \in Callers, call'[c].phase \in Remarking, call'[c].event.bundle = b
      PROVE  FALSE
  <2>1. call[c].phase \in Remarking => call[c].event.bundle # b
    BY DEF Finished, Remarking
  <2>2. Arrival(c)  BY <1>2, <2>1, WhoMoves DEF Arrival
  <2>3. ASSUME NEW e \in Event, Remark(c, e), call'[c].event = e PROVE FALSE
    BY <1>2, <2>3 DEF Remark, Transition, Finished
  <2>4. CASE Compare(c) /\ call'[c].event = call[c].event
    BY <1>2, <2>1, <2>4 DEF Compare, Remarking
  <2> QED  BY <1>2, <2>2, <2>3, <2>4 DEF Arrival, Remarking
<1>3. EventsOf(b)' = EventsOf(b)
  <2>1. CASE UNCHANGED events  BY <2>1 DEF EventsOf
  <2>2. ASSUME NEW c \in Callers, Record(c) PROVE EventsOf(b)' = EventsOf(b)
    <3>1. call[c].event.bundle # b  BY <2>2 DEF Record, Finished
    <3>2. events' = events \cup {call[c].event}  BY <2>2 DEF Record
    <3> QED  BY <3>1, <3>2 DEF EventsOf
  <2> QED  BY <2>1, <2>2, WhoWrites
<1> QED  BY <1>1, <1>2, <1>3 DEF Finished, Remarking

LEMMA UncreditedStep ==
  ASSUME ReceiptsInv, Next, NEW b \in Bundles, Uncredited(b)
  PROVE  Uncredited(b)'
<1>1. PICK r \in {b} \cup DepsOf[b] : Over(r)  BY DEF Uncredited
<1>2. Over(r)'
  <2>1. r \in Bundles  BY <1>1
  <2> QED  BY <1>1, <2>1, EventsGrow
<1>3. b \notin credited'
  <2>1. ASSUME NEW c \in Callers, Credit(c) PROVE b \notin credited'
    BY <2>1 DEF Credit, Uncredited
  <2> QED  BY <2>1, WhoWrites DEF Uncredited
<1>4. ASSUME NEW c \in Callers, call'[c].phase = "crediting", call'[c].bundle = b
      PROVE  FALSE
  <2>1. call[c].phase = "crediting" => call[c].bundle # b  BY DEF Uncredited
  <2>2. Arrival(c)  BY <1>4, <2>1, WhoMoves DEF Arrival
  <2>3. Creditable(b)  BY <1>4, <2>2 DEF Arrival, CheckSettle
  <2> QED  BY <1>1, <2>3 DEF Creditable
<1> QED  BY <1>1, <1>2, <1>3, <1>4 DEF Uncredited

(* A Receipt that was superseded or retracted keeps its history but for    *)
(* operations under way, and neither it nor what builds on it is credited  *)
(* any more, however often it is settled again                             *)
(* (assertLifecycleTransition(), settleReceipt()).                         *)
THEOREM EndAlwaysHolds == Spec => EndedHolds
<1>1. ReceiptsInv /\ [Next]_vars =>
        [\A b \in Bundles :
           /\ Finished(b) => Finished(b)' /\ EventsOf(b)' = EventsOf(b)
           /\ Uncredited(b) => Uncredited(b)']_vars
  BY FinishedStep, UncreditedStep
<1> QED  BY <1>1, InvHolds, PTL DEF Spec, EndedHolds

-----------------------------------------------------------------------------
(* Readers see the book *)

LEMMA SameIssued ==
  ASSUME ReceiptsInv, NEW b \in Bundles
  PROVE  Issued(b) <=> Book!Issued(b)
<1>1. Issued(b) => receipts[b].at # 0  BY DEF ReceiptsInv, Dated
<1>2. ~ Issued(b) => receipts[b].at = 0  BY DEF Issued, NoReceipt
<1> QED  BY <1>1, <1>2 DEF Book!Issued

LEMMA InsertMaps ==
  ASSUME ReceiptsInv, NEW c \in Callers, Insert(c)
  PROVE  [Book!Next]_<<receipts, events, credited>>
<1>1. CallFits(call[c]) /\ receipts \in [Bundles -> Receipt]
  BY CallTyped DEF ReceiptsInv, TypeOK
<1>2. UNCHANGED <<events, credited>>  BY DEF Insert, effects
<1>3. CASE UNCHANGED receipts  BY <1>2, <1>3
<1>4. CASE /\ ~ Issued(call[c].bundle)
           /\ receipts' = [receipts EXCEPT ![call[c].bundle] = call[c].draft]
  <2>1. PICK b, r : b = call[c].bundle /\ r = call[c].draft  OBVIOUS
  <2>2. /\ b \in Bundles /\ Book!Backed(b, r.cites)
        /\ \A d \in DepsOf[b] : Issued(d) /\ receipts[d].at <= r.at
    BY <1>1, <2>1 DEF Insert, CallFits, IssuanceFits, Issuing
  <2>3. Book!Sound(b, r)  BY <2>2, SameIssued DEF Book!Sound
  <2>4. receipts'[b] = r  BY <1>1, <1>4, <2>1, <2>2
  <2>5. ~ Book!Issued(b)  BY <1>4, <2>1, <2>2, SameIssued
  <2>6. Book!Issue(b, receipts'[b])
    BY <1>2, <1>4, <2>1, <2>3, <2>4, <2>5 DEF Book!Issue
  <2> QED  BY <2>2, <2>6 DEF Book!Next
<1> QED  BY <1>3, <1>4 DEF Insert

LEMMA RecordMaps ==
  ASSUME ReceiptsInv, NEW c \in Callers, Record(c)
  PROVE  Book!Next
<1>1. PICK e : e = call[c].event  OBVIOUS
<1>2. CallFits(call[c]) /\ call[c].phase = "recording"  BY CallTyped DEF Record
<1>3. /\ e \in Event /\ (e.by = NoBundle) = (e.type = "retracted")
      /\ Issued(e.bundle) /\ receipts[e.bundle].at <= e.at
      /\ e.by # NoBundle => Follows(e)
  BY <1>1, <1>2 DEF CallFits, RemarkFits, Remarking
<1>4. e.bundle \in Bundles /\ e.by \in Bundles \cup {NoBundle}  BY <1>3, EventFields
<1>5. Book!Issued(e.bundle)  BY <1>3, <1>4, SameIssued
<1>6. e.type # "retracted" =>
        /\ Book!Issued(e.by) /\ AttemptOf[e.by] = AttemptOf[e.bundle]
        /\ receipts[e.by].at \in receipts[e.bundle].at + 1 .. e.at
  BY <1>3, <1>4, SameIssued DEF Follows
<1>7. events' = events \cup {e} /\ UNCHANGED <<receipts, credited>>
  BY <1>1 DEF Record, effects
<1>8. Book!Remark(e)  BY <1>3, <1>5, <1>6, <1>7 DEF Book!Remark
<1> QED  BY <1>7, <1>8 DEF Book!Next

LEMMA CreditMaps ==
  ASSUME ReceiptsInv, NEW c \in Callers, Credit(c)
  PROVE  Book!Next
<1>1. PICK b : b = call[c].bundle  OBVIOUS
<1>2. b \in Bundles /\ Issued(b) /\ b \in Public
  BY <1>1, CallTyped DEF Credit, CallFits, IssuanceFits
<1>3. Book!Issued(b)  BY <1>2, SameIssued
<1>4. credited' = credited \cup {b} /\ UNCHANGED <<receipts, events>>
  BY <1>1 DEF Credit, book
<1>5. Book!Credit(b)  BY <1>2, <1>3, <1>4 DEF Book!Credit
<1> QED  BY <1>2, <1>5 DEF Book!Next

LEMMA BookStep ==
  ReceiptsInv /\ [Next]_vars => [Book!Next]_<<receipts, events, credited>>
<1> SUFFICES ASSUME ReceiptsInv, [Next]_vars
             PROVE  [Book!Next]_<<receipts, events, credited>>
  OBVIOUS
<1>1. CASE UNCHANGED vars  BY <1>1 DEF vars, book, effects
<1>2. CASE UNCHANGED <<receipts, events, credited>>  BY <1>2
<1>3. CASE Next
  BY <1>2, <1>3, WhoWrites, InsertMaps, RecordMaps, CreditMaps
<1> QED  BY <1>1, <1>3

(* The coordinator, the registry, the settlement and the lifecycle of      *)
(* Receipts, each several round trips long and cut short anywhere, promise *)
(* their readers one Receipt per Bundle that rests on positive decisions   *)
(* of others and on earlier Receipts, and later remarks and credit in      *)
(* order (services/receipts, services/credits).                            *)
THEOREM ReceiptsImplementBook == Spec => ImplementsBook
<1>1. Init => Book!Init
  BY DEF Init, Book!Init, Book!Issued, NoReceipt
<1> QED  BY <1>1, BookStep, InvHolds, PTL DEF Spec, ImplementsBook, Book!Spec
=============================================================================
