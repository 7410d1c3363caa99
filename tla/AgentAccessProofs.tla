-------------------------- MODULE AgentAccessProofs --------------------------
(***************************************************************************)
(* Proofs about AgentAccess, for any keys, certificates, offers, numbers   *)
(* of ids and callers, and bounds.                                         *)
(***************************************************************************)
EXTENDS AgentAccess, TLAPS

USE AccessAssumption

-----------------------------------------------------------------------------
(* The inductive invariant *)

OpenCode(o, h) == codes[o].status = "open" /\ codes[o].offer = h
OpenPair(t, h) == pairs[t].status = "open" /\ pairs[t].offer = h

NoCallBears(h) == \A c \in Callers : ~ Carries(c, h)
NoCodeBears(h) == \A o \in Codes : ~ OpenCode(o, h)
NoPairBears(h) == \A t \in Pairs : ~ OpenPair(t, h)

OnlyCall(c, h) ==
  /\ Carries(c, h) /\ \A d \in Callers : Carries(d, h) => d = c
  /\ NoCodeBears(h) /\ NoPairBears(h)
OnlyCode(o, h) ==
  /\ OpenCode(o, h) /\ \A p \in Codes : OpenCode(p, h) => p = o
  /\ NoCallBears(h) /\ NoPairBears(h)
OnlyPair(t, h) ==
  /\ OpenPair(t, h) /\ \A u \in Pairs : OpenPair(u, h) => u = t
  /\ NoCallBears(h) /\ NoCodeBears(h)
NoOne(h) == NoCallBears(h) /\ NoCodeBears(h) /\ NoPairBears(h)

(* Who bears the authority of an offer bears it alone, and the offer is    *)
(* spent.                                                                  *)
Single(h) ==
  \/ NoOne(h)
  \/ /\ offers[h].status = "used"
     /\ \/ \E c \in Callers : OnlyCall(c, h)
        \/ \E o \in Codes : OnlyCode(o, h)
        \/ \E t \in Pairs : OnlyPair(t, h)

(* The certificate was issued, and its validity has begun. *)
Begun(d) == d \in Certs /\ certs[d] # "none" /\ StartOf[d] <= now

(* The installation is or was there. *)
Founded(i) == i \in Installs /\ installs[i].status # "none"

Consenting == {"choosing", "installing", "selecting", "approving", "coding",
               "redeeming", "issuing"}

(* What an operation may rely on in its phase. *)
CallGrounded(c) ==
  LET phase == call[c].phase
  IN  /\ call[c].offer \in Offers <=> phase \in Consenting
      /\ phase \in {"installing", "selecting"} => Begun(call[c].cert)
      /\ phase = "approving" => call[c].offer \in Pairings
      /\ phase \in {"approving", "coding", "redeeming", "issuing"} =>
           Founded(call[c].install)

InstallsGrounded == \A i \in Installs : installs[i].status # "none" => Begun(installs[i].cert)
CodesGrounded ==
  \A o \in Codes : codes[o].status # "none" =>
    codes[o].offer \in Offers /\ Founded(codes[o].install)
PairsGrounded ==
  \A t \in Pairs : pairs[t].status # "none" =>
    pairs[t].offer \in Offers /\ Founded(pairs[t].install)

Ground ==
  /\ AccessTypeOK
  /\ InstallsGrounded /\ CodesGrounded /\ PairsGrounded
  /\ \A c \in Callers : CallGrounded(c)

AccessInv == Ground /\ \A h \in Offers : Single(h)

-----------------------------------------------------------------------------
(* Bearers *)

(* Single offers have one bearer at most. *)
LEMMA SingleIsOne ==
  ASSUME \A h \in Offers : Single(h)
  PROVE  OneBearer
<1> SUFFICES ASSUME NEW h \in Offers, NEW x \in Bearers(h), NEW y \in Bearers(h)
             PROVE  x = y
  BY DEF OneBearer
<1>1. Single(h)  OBVIOUS
<1>2. ASSUME NEW z \in Bearers(h)
      PROVE  \/ z = <<"offer", h>> /\ offers[h].status = "open"
             \/ \E c \in Callers : z = <<"call", c>> /\ Carries(c, h)
             \/ \E o \in Codes : z = <<"code", o>> /\ OpenCode(o, h)
             \/ \E t \in Pairs : z = <<"pair", t>> /\ OpenPair(t, h)
  BY <1>2 DEF Bearers, OpenCode, OpenPair
<1>3. CASE NoOne(h)
  BY <1>2, <1>3 DEF NoOne, NoCallBears, NoCodeBears, NoPairBears
<1>4. CASE offers[h].status = "used" /\ \E c \in Callers : OnlyCall(c, h)
  <2>1. PICK c \in Callers : OnlyCall(c, h)  BY <1>4
  <2>2. \A z \in Bearers(h) : z = <<"call", c>>
    BY <1>2, <1>4, <2>1 DEF OnlyCall, NoCodeBears, NoPairBears
  <2> QED  BY <2>2
<1>5. CASE offers[h].status = "used" /\ \E o \in Codes : OnlyCode(o, h)
  <2>1. PICK o \in Codes : OnlyCode(o, h)  BY <1>5
  <2>2. \A z \in Bearers(h) : z = <<"code", o>>
    BY <1>2, <1>5, <2>1 DEF OnlyCode, NoCallBears, NoPairBears
  <2> QED  BY <2>2
<1>6. CASE offers[h].status = "used" /\ \E t \in Pairs : OnlyPair(t, h)
  <2>1. PICK t \in Pairs : OnlyPair(t, h)  BY <1>6
  <2>2. \A z \in Bearers(h) : z = <<"pair", t>>
    BY <1>2, <1>6, <2>1 DEF OnlyPair, NoCallBears, NoCodeBears
  <2> QED  BY <2>2
<1> QED  BY <1>1, <1>3, <1>4, <1>5, <1>6 DEF Single

(* An operation with a spent consent, before or after the code. *)
CallStage(c) ==
  IF call[c].phase \in {"redeeming", "issuing"} THEN "redeeming" ELSE "granting"

(* A step that leaves an offer and its bearers alone. *)
Untouched(h) ==
  /\ offers'[h].status = offers[h].status
  /\ \A c \in Callers : /\ Carries(c, h)' <=> Carries(c, h)
                        /\ Carries(c, h) => CallStage(c)' = CallStage(c)
  /\ \A o \in Codes : OpenCode(o, h)' <=> OpenCode(o, h)
  /\ \A t \in Pairs : OpenPair(t, h)' <=> OpenPair(t, h)

LEMMA UntouchedStaysSingle ==
  ASSUME NEW h \in Offers, Single(h), Untouched(h)
  PROVE  Single(h)'
<1>0. /\ NoCallBears(h)' <=> NoCallBears(h)
      /\ NoCodeBears(h)' <=> NoCodeBears(h)
      /\ NoPairBears(h)' <=> NoPairBears(h)
      /\ offers'[h].status = offers[h].status
  BY DEF Untouched, NoCallBears, NoCodeBears, NoPairBears
<1>1. CASE NoOne(h)  BY <1>0, <1>1 DEF Single, NoOne
<1>2. ASSUME offers[h].status = "used", NEW c \in Callers, OnlyCall(c, h) PROVE Single(h)'
  <2>1. OnlyCall(c, h)'  BY <1>0, <1>2 DEF OnlyCall, Untouched
  <2> QED  BY <1>0, <1>2, <2>1 DEF Single
<1>3. ASSUME offers[h].status = "used", NEW o \in Codes, OnlyCode(o, h) PROVE Single(h)'
  <2>1. OnlyCode(o, h)'  BY <1>0, <1>3 DEF OnlyCode, Untouched
  <2> QED  BY <1>0, <1>3, <2>1 DEF Single
<1>4. ASSUME offers[h].status = "used", NEW t \in Pairs, OnlyPair(t, h) PROVE Single(h)'
  <2>1. OnlyPair(t, h)'  BY <1>0, <1>4 DEF OnlyPair, Untouched
  <2> QED  BY <1>0, <1>4, <2>1 DEF Single
<1> QED  BY <1>1, <1>2, <1>3, <1>4 DEF Single

(* What becomes of an offer can be read off its bearers. *)
StageForm(h) ==
  IF offers[h].status # "used" THEN offers[h].status
  ELSE IF \E c \in Callers : Carries(c, h) /\ CallStage(c) = "redeeming" THEN "redeeming"
  ELSE IF ~ NoCallBears(h) THEN "granting"
  ELSE IF ~ NoCodeBears(h) THEN "code"
  ELSE IF ~ NoPairBears(h) THEN "tokens"
  ELSE "lost"

LEMMA StageIsForm == AccessTypeOK => \A h \in Offers : StageOf(h) = StageForm(h)
<1> SUFFICES ASSUME AccessTypeOK, NEW h \in Offers PROVE StageOf(h) = StageForm(h)
  OBVIOUS
<1>1. \A c \in Callers : call[c].phase \in Phases  BY DEF AccessTypeOK, Call
<1>2. (\E c \in Callers : Carries(c, h) /\ call[c].phase \in {"redeeming", "issuing"})
        <=> \E c \in Callers : Carries(c, h) /\ CallStage(c) = "redeeming"
  BY DEF CallStage
<1>3. (\E c \in Callers : Carries(c, h) /\ call[c].phase \in Phases) <=> ~ NoCallBears(h)
  BY <1>1 DEF NoCallBears
<1>4. (\E o \in Codes : codes[o].status = "open" /\ codes[o].offer = h) <=> ~ NoCodeBears(h)
  BY DEF NoCodeBears, OpenCode
<1>5. (\E t \in Pairs : pairs[t].status = "open" /\ pairs[t].offer = h) <=> ~ NoPairBears(h)
  BY DEF NoPairBears, OpenPair
<1> HIDE DEF Carries, NoCallBears, NoCodeBears, NoPairBears
<1> QED  BY <1>2, <1>3, <1>4, <1>5 DEF StageOf, StageForm

LEMMA StageIsFormNext == (AccessTypeOK => \A h \in Offers : StageOf(h) = StageForm(h))'
BY StageIsForm, PTL

LEMMA UntouchedKeepsStage ==
  ASSUME AccessTypeOK, AccessTypeOK', NEW h \in Offers, Untouched(h)
  PROVE  StageOf(h)' = StageOf(h)
<1>1. StageOf(h) = StageForm(h)  BY StageIsForm
<1>2. StageOf(h)' = StageForm(h)'  BY StageIsFormNext
<1>3. /\ NoCallBears(h)' <=> NoCallBears(h)
      /\ NoCodeBears(h)' <=> NoCodeBears(h)
      /\ NoPairBears(h)' <=> NoPairBears(h)
      /\ offers'[h].status = offers[h].status
      /\ (\E c \in Callers : Carries(c, h) /\ CallStage(c) = "redeeming")'
           <=> \E c \in Callers : Carries(c, h) /\ CallStage(c) = "redeeming"
  BY DEF Untouched, NoCallBears, NoCodeBears, NoPairBears
<1>4. StageForm(h)' = StageForm(h)
  BY <1>3 DEF StageForm
<1> QED  BY <1>1, <1>2, <1>4

LEMMA StageValues ==
  AccessTypeOK =>
    \A h \in Offers :
      /\ offers[h].status # "used" => StageOf(h) = offers[h].status
      /\ offers[h].status = "used" =>
           /\ \A c \in Callers : OnlyCall(c, h) => StageOf(h) = CallStage(c)
           /\ \A o \in Codes : OnlyCode(o, h) => StageOf(h) = "code"
           /\ \A t \in Pairs : OnlyPair(t, h) => StageOf(h) = "tokens"
           /\ NoOne(h) => StageOf(h) = "lost"
<1> SUFFICES ASSUME AccessTypeOK, NEW h \in Offers
             PROVE  /\ offers[h].status # "used" => StageForm(h) = offers[h].status
                    /\ offers[h].status = "used" =>
                         /\ \A c \in Callers : OnlyCall(c, h) => StageForm(h) = CallStage(c)
                         /\ \A o \in Codes : OnlyCode(o, h) => StageForm(h) = "code"
                         /\ \A t \in Pairs : OnlyPair(t, h) => StageForm(h) = "tokens"
                         /\ NoOne(h) => StageForm(h) = "lost"
  BY StageIsForm
<1>1. \A c \in Callers : CallStage(c) \in {"redeeming", "granting"}  BY DEF CallStage
<1>2. ASSUME offers[h].status = "used", NEW c \in Callers, OnlyCall(c, h)
      PROVE  StageForm(h) = CallStage(c)
  <2>1. ~ NoCallBears(h)  BY <1>2 DEF OnlyCall, NoCallBears
  <2>2. (\E d \in Callers : Carries(d, h) /\ CallStage(d) = "redeeming")
          <=> CallStage(c) = "redeeming"
    BY <1>2 DEF OnlyCall
  <2> HIDE DEF CallStage, Carries, NoCallBears, NoCodeBears, NoPairBears
  <2> QED  BY <1>1, <1>2, <2>1, <2>2 DEF StageForm
<1>3. ASSUME offers[h].status = "used", NoCallBears(h)
      PROVE  ~ \E d \in Callers : Carries(d, h) /\ CallStage(d) = "redeeming"
  BY <1>3 DEF NoCallBears
<1>4. ASSUME offers[h].status = "used", NEW o \in Codes, OnlyCode(o, h)
      PROVE  StageForm(h) = "code"
  BY <1>3, <1>4 DEF StageForm, OnlyCode, NoCodeBears
<1>5. ASSUME offers[h].status = "used", NEW t \in Pairs, OnlyPair(t, h)
      PROVE  StageForm(h) = "tokens"
  BY <1>3, <1>5 DEF StageForm, OnlyPair, NoPairBears
<1>6. ASSUME offers[h].status = "used", NoOne(h) PROVE StageForm(h) = "lost"
  BY <1>3, <1>6 DEF StageForm, NoOne
<1>7. offers[h].status # "used" => StageForm(h) = offers[h].status  BY DEF StageForm
<1> QED  BY <1>2, <1>4, <1>5, <1>6, <1>7

LEMMA StageValuesNext ==
  (AccessTypeOK =>
    \A h \in Offers :
      /\ offers[h].status # "used" => StageOf(h) = offers[h].status
      /\ offers[h].status = "used" =>
           /\ \A c \in Callers : OnlyCall(c, h) => StageOf(h) = CallStage(c)
           /\ \A o \in Codes : OnlyCode(o, h) => StageOf(h) = "code"
           /\ \A t \in Pairs : OnlyPair(t, h) => StageOf(h) = "tokens"
           /\ NoOne(h) => StageOf(h) = "lost")'
BY StageValues, PTL

(* How the authority of an offer may pass on: from the consent to a call,  *)
(* to a code, to the call that redeems it, to a token pair, to the next    *)
(* pair; and a call may lose it.                                           *)
Spent(h) == offers[h].status = "used"

Opens(h) == offers[h].status = "none" /\ offers'[h].status = "open" /\ NoOne(h)'
Granted(c, h) ==
  /\ offers[h].status = "open" /\ Spent(h)'
  /\ OnlyCall(c, h)' /\ CallStage(c)' = "granting"
Coded(c, o, h) ==
  /\ Spent(h) /\ OnlyCall(c, h) /\ CallStage(c) = "granting"
  /\ Spent(h)' /\ OnlyCode(o, h)'
Redeemed(o, c, h) ==
  /\ Spent(h) /\ OnlyCode(o, h)
  /\ Spent(h)' /\ OnlyCall(c, h)' /\ CallStage(c)' = "redeeming"
Paired(c, t, h) ==
  /\ Spent(h) /\ OnlyCall(c, h) /\ CallStage(c) = "redeeming"
  /\ Spent(h)' /\ OnlyPair(t, h)'
Rotated(t, u, h) == Spent(h) /\ OnlyPair(t, h) /\ Spent(h)' /\ OnlyPair(u, h)'
Lost(c, h) == Spent(h) /\ OnlyCall(c, h) /\ Spent(h)' /\ NoOne(h)'

Passes(h) ==
  \/ Opens(h)
  \/ \E c \in Callers : Granted(c, h) \/ Lost(c, h)
  \/ \E c \in Callers, o \in Codes : Coded(c, o, h) \/ Redeemed(o, c, h)
  \/ \E c \in Callers, t \in Pairs : Paired(c, t, h)
  \/ \E t, u \in Pairs : Rotated(t, u, h)

Effect ==
  \/ \A g \in Offers : Untouched(g)
  \/ \E h \in Offers : Passes(h) /\ \A g \in Offers \ {h} : Untouched(g)

Arc(a, b) ==
  \/ a = "none" /\ b = "open"
  \/ a = "open" /\ b = "granting"
  \/ a = "granting" /\ b \in {"code", "lost"}
  \/ a = "code" /\ b = "redeeming"
  \/ a = "redeeming" /\ b \in {"tokens", "lost"}

LEMMA PassIsArc ==
  ASSUME AccessTypeOK, AccessTypeOK', NEW h \in Offers, Passes(h)
  PROVE  Single(h)' /\ (StageOf(h)' = StageOf(h) \/ Arc(StageOf(h), StageOf(h)'))
<1> DEFINE before == StageOf(h)  after == StageOf(h)'
<1>1. /\ offers[h].status # "used" => before = offers[h].status
      /\ Spent(h) =>
           /\ \A c \in Callers : OnlyCall(c, h) => before = CallStage(c)
           /\ \A o \in Codes : OnlyCode(o, h) => before = "code"
           /\ \A t \in Pairs : OnlyPair(t, h) => before = "tokens"
  BY StageValues DEF Spent
<1>2. /\ offers'[h].status # "used" => after = offers'[h].status
      /\ Spent(h)' =>
           /\ \A c \in Callers : OnlyCall(c, h)' => after = CallStage(c)'
           /\ \A o \in Codes : OnlyCode(o, h)' => after = "code"
           /\ \A t \in Pairs : OnlyPair(t, h)' => after = "tokens"
           /\ NoOne(h)' => after = "lost"
  BY StageValuesNext DEF Spent
<1>3. \A c \in Callers : CallStage(c) \in {"redeeming", "granting"}  BY DEF CallStage
<1> HIDE DEF before, after
<1>4. CASE Opens(h)
  BY <1>1, <1>2, <1>4 DEF Opens, Arc, Single, before, after
<1>5. ASSUME NEW c \in Callers, Granted(c, h) \/ Lost(c, h)
      PROVE  Single(h)' /\ Arc(before, after)
  BY <1>1, <1>2, <1>3, <1>5 DEF Granted, Lost, Arc, Single, Spent
<1>6. ASSUME NEW c \in Callers, NEW o \in Codes, Coded(c, o, h) \/ Redeemed(o, c, h)
      PROVE  Single(h)' /\ Arc(before, after)
  BY <1>1, <1>2, <1>6 DEF Coded, Redeemed, Arc, Single, Spent
<1>7. ASSUME NEW c \in Callers, NEW t \in Pairs, Paired(c, t, h)
      PROVE  Single(h)' /\ Arc(before, after)
  BY <1>1, <1>2, <1>7 DEF Paired, Arc, Single, Spent
<1>8. ASSUME NEW t \in Pairs, NEW u \in Pairs, Rotated(t, u, h)
      PROVE  Single(h)' /\ before = after
  BY <1>1, <1>2, <1>8 DEF Rotated, Single, Spent
<1> QED  BY <1>4, <1>5, <1>6, <1>7, <1>8 DEF Passes, before, after

(* What a step does to the bearers keeps them single, and is a step or a   *)
(* stutter of ConsentGrant.                                                *)
LEMMA EffectIsGrantStep ==
  ASSUME AccessTypeOK, AccessTypeOK', \A h \in Offers : Single(h), Effect
  PROVE  /\ \A h \in Offers : Single(h)'
         /\ [Grant!Next]_([h \in Offers |-> StageOf(h)])
<1> DEFINE stages == [h \in Offers |-> StageOf(h)]
<1>1. CASE \A g \in Offers : Untouched(g)
  <2>1. \A g \in Offers : Single(g)'  BY <1>1, UntouchedStaysSingle
  <2>2. \A g \in Offers : StageOf(g)' = StageOf(g)  BY <1>1, UntouchedKeepsStage
  <2>3. stages' = stages  BY <2>2
  <2> QED  BY <2>1, <2>3
<1>2. ASSUME NEW h \in Offers, Passes(h), \A g \in Offers \ {h} : Untouched(g)
      PROVE  (\A g \in Offers : Single(g)') /\ [Grant!Next]_stages
  <2>1. \A g \in Offers \ {h} : Single(g)'  BY <1>2, UntouchedStaysSingle
  <2>2. \A g \in Offers \ {h} : StageOf(g)' = StageOf(g)  BY <1>2, UntouchedKeepsStage
  <2>3. Single(h)' /\ (StageOf(h)' = StageOf(h) \/ Arc(StageOf(h), StageOf(h)'))
    BY <1>2, PassIsArc
  <2>4. CASE StageOf(h)' = StageOf(h)
    <3>1. stages' = stages  BY <2>2, <2>4
    <3> QED  BY <2>1, <2>3, <3>1
  <2>5. CASE Arc(StageOf(h), StageOf(h)')
    <3>1. stages' = [stages EXCEPT ![h] = StageOf(h)']  BY <2>2
    <3>2. stages[h] = StageOf(h) /\ StageOf(h)' \in Grant!Stages
      BY <2>5 DEF Arc, Grant!Stages
    <3>3. Arc(stages[h], StageOf(h)')  BY <2>5, <3>2
    <3>4. Grant!Next  BY <3>1, <3>2, <3>3 DEF Grant!Next, Arc
    <3> QED  BY <2>1, <2>3, <3>4
  <2> QED  BY <2>3, <2>4, <2>5
<1> QED  BY <1>1, <1>2 DEF Effect

-----------------------------------------------------------------------------
(* What stays *)

(* Certificates and installations do not vanish. *)
Firm ==
  /\ now <= now'
  /\ \A d \in Certs : certs[d] # "none" => certs'[d] # "none"
  /\ \A i \in Installs :
       installs[i].status # "none" =>
         installs'[i].status # "none" /\ installs'[i].cert = installs[i].cert

LEMMA FirmStays ==
  ASSUME AccessTypeOK, AccessTypeOK', Firm
  PROVE  /\ \A d : Begun(d) => Begun(d)'
         /\ \A i : Founded(i) => Founded(i)'
<1>1. now \in Nat /\ now' \in Nat /\ \A d \in Certs : StartOf[d] \in Nat
  BY DEF AccessTypeOK
<1>2. ASSUME NEW d, Begun(d) PROVE Begun(d)'
  BY <1>1, <1>2 DEF Begun, Firm
<1>3. ASSUME NEW i, Founded(i) PROVE Founded(i)'
  BY <1>3 DEF Founded, Firm
<1> QED  BY <1>2, <1>3

LEMMA CallStands ==
  ASSUME AccessTypeOK, AccessTypeOK', Firm, NEW c \in Callers,
         CallGrounded(c), call'[c] = call[c]
  PROVE  CallGrounded(c)'
BY FirmStays DEF CallGrounded

LEMMA InstallsStand ==
  ASSUME AccessTypeOK, AccessTypeOK', Firm, InstallsGrounded,
         \A i \in Installs : installs[i].status = "none" /\ installs'[i].status # "none" =>
           Begun(installs[i].cert)'
  PROVE  InstallsGrounded'
<1> SUFFICES ASSUME NEW i \in Installs, installs'[i].status # "none"
             PROVE  Begun(installs[i].cert)'
  BY DEF InstallsGrounded
<1>1. CASE installs[i].status = "none"  BY <1>1
<1>2. CASE installs[i].status # "none"
  <2>1. Begun(installs[i].cert) /\ installs'[i].cert = installs[i].cert
    BY <1>2 DEF InstallsGrounded, Firm
  <2>2. PICK d : d = installs[i].cert  OBVIOUS
  <2>3. Begun(d)'  BY <2>1, <2>2, FirmStays
  <2> QED  BY <2>1, <2>2, <2>3
<1> QED  BY <1>1, <1>2

LEMMA TablesStand ==
  ASSUME AccessTypeOK, AccessTypeOK', Firm
  PROVE  /\ CodesGrounded /\ UNCHANGED codes => CodesGrounded'
         /\ PairsGrounded /\ UNCHANGED pairs => PairsGrounded'
BY FirmStays DEF CodesGrounded, PairsGrounded

(* A step of one call. *)
LEMMA GroundKeeps ==
  ASSUME Ground, AccessTypeOK', Firm, InstallsGrounded', CodesGrounded', PairsGrounded',
         NEW c \in Callers, \A d \in Callers \ {c} : call'[d] = call[d], CallGrounded(c)'
  PROVE  Ground'
<1>1. \A d \in Callers \ {c} : CallGrounded(d)'
  BY CallStands DEF Ground
<1> QED  BY <1>1 DEF Ground

(* A step that involves no call. *)
LEMMA TableMoves ==
  ASSUME Ground, AccessTypeOK', Firm,
         \A i \in Installs : installs[i].status = "none" => installs'[i].status = "none",
         UNCHANGED <<offers, codes, pairs, call>>
  PROVE  Ground' /\ Effect
<1>1. InstallsGrounded' /\ CodesGrounded' /\ PairsGrounded'
  BY InstallsStand, TablesStand DEF Ground
<1>2. \A c \in Callers : CallGrounded(c)'
  BY CallStands DEF Ground
<1>3. ASSUME NEW h \in Offers PROVE Untouched(h)
  BY DEF Untouched, Carries, CallStage, OpenCode, OpenPair
<1> QED  BY <1>1, <1>2, <1>3 DEF Ground, Effect

(* A step of a call that bears nothing, or goes on to bear the same. *)
LEMMA CallMoves ==
  ASSUME Ground, AccessTypeOK', Firm, InstallsGrounded',
         UNCHANGED <<offers, codes, pairs>>,
         NEW c \in Callers, \A d \in Callers \ {c} : call'[d] = call[d], CallGrounded(c)',
         \A h \in Offers : /\ Carries(c, h)' <=> Carries(c, h)
                           /\ Carries(c, h) => CallStage(c)' = CallStage(c)
  PROVE  Ground' /\ Effect
<1>1. CodesGrounded' /\ PairsGrounded'
  BY TablesStand DEF Ground
<1>2. Ground'  BY <1>1, GroundKeeps
<1>3. ASSUME NEW h \in Offers PROVE Untouched(h)
  <2>1. \A d \in Callers \ {c} : (Carries(d, h)' <=> Carries(d, h)) /\ CallStage(d)' = CallStage(d)
    BY DEF Carries, CallStage
  <2> HIDE DEF Carries, CallStage
  <2> QED  BY <2>1 DEF Untouched, OpenCode, OpenPair
<1> QED  BY <1>2, <1>3 DEF Effect

(* Nobody else's share of an offer depends on the call that moves. *)
LEMMA OtherCalls ==
  ASSUME NEW c \in Callers, \A d \in Callers \ {c} : call'[d] = call[d]
  PROVE  \A h \in Offers : \A d \in Callers \ {c} :
           (Carries(d, h)' <=> Carries(d, h)) /\ CallStage(d)' = CallStage(d)
BY DEF Carries, CallStage

LEMMA Typed ==
  /\ NoCall \in Call /\ NoKey \in KeyRow /\ NoInstall \in InstallRow
  /\ NoOffer \in OfferRow /\ NoCode \in CodeRow /\ NoPair \in PairRow
  /\ NoId \notin Offers
<1>1. NoCall \in Call  BY DEF NoCall, Call, Phases
<1>2. NoKey \in KeyRow  BY DEF NoKey, KeyRow
<1>3. NoInstall \in InstallRow  BY DEF NoInstall, InstallRow
<1>4. NoOffer \in OfferRow  BY DEF NoOffer, OfferRow
<1>5. NoCode \in CodeRow  BY DEF NoCode, CodeRow
<1>6. NoPair \in PairRow  BY DEF NoPair, PairRow
<1> QED  BY <1>1, <1>2, <1>3, <1>4, <1>5, <1>6

LEMMA CallIs ==
  ASSUME call \in [Callers -> Call], NEW c \in Callers, NEW rec \in Call,
         call' = [call EXCEPT ![c] = rec]
  PROVE  /\ call' \in [Callers -> Call] /\ call'[c] = rec
         /\ \A d \in Callers \ {c} : call'[d] = call[d]
OBVIOUS

LEMMA NewIsFree ==
  ASSUME NEW table, Free(table) # {}
  PROVE  New(table) \in DOMAIN table /\ table[New(table)].status = "none"
BY DEF New, Free

(* A call that has ended stands on nothing and bears nothing. *)
LEMMA EndedCall ==
  ASSUME AccessTypeOK, NEW c \in Callers, End(c)
  PROVE  /\ call' \in [Callers -> Call] /\ CallGrounded(c)'
         /\ \A d \in Callers \ {c} : call'[d] = call[d]
         /\ \A h \in Offers : ~ Carries(c, h)'
<1>1. /\ call' \in [Callers -> Call] /\ call'[c] = NoCall
      /\ \A d \in Callers \ {c} : call'[d] = call[d]
  BY Typed, CallIs DEF AccessTypeOK, End
<1>2. CallGrounded(c)'
  BY <1>1, Typed DEF CallGrounded, NoCall, Consenting
<1>3. \A h \in Offers : ~ Carries(c, h)'
  BY <1>1, Typed DEF Carries, NoCall
<1> QED  BY <1>1, <1>2, <1>3

(* Outside consent a call bears nothing. *)
LEMMA BearersConsent ==
  ASSUME Ground, NEW c \in Callers, call[c].phase \notin Consenting
  PROVE  \A h \in Offers : ~ Carries(c, h)
BY DEF Ground, CallGrounded, Carries

-----------------------------------------------------------------------------
(* Keys, certificates, time *)

LEMMA TablesMove ==
  ASSUME Ground,
         \/ \E k \in Keys : RegisterKey(k) \/ ChallengeKey(k)
         \/ \E d \in Certs : RevokeCert(d)
         \/ \E i \in Installs : RevokeInstall(i)
         \/ Tick
  PROVE  Ground' /\ Effect
<1> USE DEF Ground
<1>0. AccessTypeOK /\ now \in Nat  BY DEF AccessTypeOK
<1>1. ASSUME NEW k \in Keys, RegisterKey(k) \/ ChallengeKey(k) PROVE Ground' /\ Effect
  <2>1. UNCHANGED <<now, certs, installs, offers, codes, pairs, call>>
    BY <1>1 DEF RegisterKey, ChallengeKey, credentials
  <2>2. keys' \in [Keys -> KeyRow]
    <3>1. keys[k] \in KeyRow /\ now + ShortLife \in Nat  BY <1>0 DEF AccessTypeOK
    <3>2. /\ [keys[k] EXCEPT !.known = TRUE] \in KeyRow
          /\ [keys[k] EXCEPT !.dare = now + ShortLife] \in KeyRow
      BY <3>1 DEF KeyRow
    <3>3. PICK row \in KeyRow : keys' = [keys EXCEPT ![k] = row]
      BY <1>1, <3>2 DEF RegisterKey, ChallengeKey
    <3> QED  BY <1>0, <3>3 DEF AccessTypeOK
  <2>3. AccessTypeOK'  BY <1>0, <2>1, <2>2 DEF AccessTypeOK
  <2>4. Firm  BY <1>0, <2>1 DEF Firm
  <2> HIDE DEF Ground
  <2> QED  BY <2>1, <2>3, <2>4, TableMoves
<1>2. ASSUME NEW d \in Certs, RevokeCert(d) PROVE Ground' /\ Effect
  <2>1. /\ UNCHANGED <<now, keys, installs, offers, codes, pairs, call>>
        /\ certs' = [certs EXCEPT ![d] = "revoked"]
    BY <1>2 DEF RevokeCert, credentials
  <2>2. AccessTypeOK'  BY <1>0, <2>1 DEF AccessTypeOK
  <2>3. Firm  BY <1>0, <2>1 DEF Firm, AccessTypeOK
  <2> HIDE DEF Ground
  <2> QED  BY <2>1, <2>2, <2>3, TableMoves
<1>3. ASSUME NEW i \in Installs, RevokeInstall(i) PROVE Ground' /\ Effect
  <2> DEFINE row == [installs[i] EXCEPT !.status = "revoked"]
  <2>1. /\ UNCHANGED <<now, keys, certs, offers, codes, pairs, call>>
        /\ installs' = [installs EXCEPT ![i] = row]
        /\ installs[i].status = "active" /\ installs[i] \in InstallRow
    BY <1>0, <1>3 DEF RevokeInstall, credentials, authority, AccessTypeOK
  <2>2. row \in InstallRow /\ row.status = "revoked" /\ row.cert = installs[i].cert
    BY <2>1 DEF InstallRow
  <2> HIDE DEF row
  <2>3. AccessTypeOK'  BY <1>0, <2>1, <2>2 DEF AccessTypeOK
  <2>4. /\ Firm
        /\ \A j \in Installs : installs[j].status = "none" => installs'[j].status = "none"
    BY <1>0, <2>1, <2>2 DEF Firm, AccessTypeOK
  <2> HIDE DEF Ground
  <2> QED  BY <2>1, <2>3, <2>4, TableMoves
<1>4. CASE Tick
  <2>1. now' = now + 1 /\ UNCHANGED <<keys, certs, installs, offers, codes, pairs, call>>
    BY <1>4 DEF Tick, authority, credentials
  <2>2. AccessTypeOK'  BY <1>0, <2>1 DEF AccessTypeOK
  <2>3. Firm  BY <1>0, <2>1 DEF Firm
  <2> HIDE DEF Ground
  <2> QED  BY <2>1, <2>2, <2>3, TableMoves
<1> QED  BY <1>1, <1>2, <1>3, <1>4

(* The operations on keys and certificates bear nothing. *)
LEMMA KeyCallsMove ==
  ASSUME Ground, NEW c \in Callers,
         \/ \E k \in Keys :
              CheckProof(c, k) \/ \E urgent \in BOOLEAN : CheckRevocation(c, k, urgent)
         \/ \E d \in Certs : CheckSigner(c, d)
         \/ Prove(c) \/ RevokeKey(c) \/ Delegate(c)
  PROVE  Ground' /\ Effect
<1>0. /\ AccessTypeOK /\ InstallsGrounded /\ CodesGrounded /\ PairsGrounded
      /\ now \in Nat /\ call \in [Callers -> Call]
  BY DEF Ground, AccessTypeOK
<1>1. ASSUME NEW rec \in Call, call[c].phase = "idle", call' = [call EXCEPT ![c] = rec],
             rec.phase \notin Consenting, rec.offer = NoId,
             UNCHANGED <<now, keys, certs, installs, offers, codes, pairs>>
      PROVE  Ground' /\ Effect
  <2>1. /\ call' \in [Callers -> Call] /\ call'[c] = rec
        /\ \A d \in Callers \ {c} : call'[d] = call[d]
    BY <1>0, <1>1, CallIs
  <2>2. AccessTypeOK'  BY <1>0, <1>1, <2>1 DEF AccessTypeOK
  <2>3. Firm /\ InstallsGrounded'
    BY <1>0, <1>1 DEF Firm, InstallsGrounded, Begun
  <2>4. CallGrounded(c)'
    BY <1>1, <2>1, Typed DEF CallGrounded, Consenting
  <2>5. \A h \in Offers : ~ Carries(c, h)  BY <1>1, BearersConsent DEF Consenting
  <2>6. \A h \in Offers : ~ Carries(c, h)'  BY <1>1, <2>1, Typed DEF Carries
  <2> QED  BY <1>1, <2>1, <2>2, <2>3, <2>4, <2>5, <2>6, CallMoves
<1>2. ASSUME call[c].phase \notin Consenting, End(c), Firm, AccessTypeOK',
             UNCHANGED <<now, installs, offers, codes, pairs>>
      PROVE  Ground' /\ Effect
  <2>1. /\ CallGrounded(c)' /\ \A d \in Callers \ {c} : call'[d] = call[d]
        /\ \A h \in Offers : ~ Carries(c, h)'
    BY <1>0, <1>2, EndedCall
  <2>2. \A h \in Offers : ~ Carries(c, h)  BY <1>2, BearersConsent
  <2>3. InstallsGrounded'  BY <1>0, <1>2, InstallsStand
  <2> QED  BY <1>2, <2>1, <2>2, <2>3, CallMoves
<1>3. ASSUME NEW k \in Keys, CheckProof(c, k) PROVE Ground' /\ Effect
  <2> DEFINE rec == [NoCall EXCEPT !.phase = "proving", !.key = k]
  <2>1. rec \in Call /\ rec.phase \notin Consenting /\ rec.offer = NoId
    BY DEF NoCall, Call, Phases, Consenting
  <2> HIDE DEF rec
  <2> QED  BY <1>1, <1>3, <2>1 DEF CheckProof, Begin, authority, credentials, rec
<1>4. ASSUME NEW k \in Keys, NEW urgent \in BOOLEAN, CheckRevocation(c, k, urgent)
      PROVE  Ground' /\ Effect
  <2> DEFINE rec == [NoCall EXCEPT !.phase = "revoking", !.key = k, !.urgent = urgent]
  <2>1. rec \in Call /\ rec.phase \notin Consenting /\ rec.offer = NoId
    BY DEF NoCall, Call, Phases, Consenting
  <2> HIDE DEF rec
  <2> QED  BY <1>1, <1>4, <2>1 DEF CheckRevocation, Begin, authority, credentials, rec
<1>5. ASSUME NEW d \in Certs, CheckSigner(c, d) PROVE Ground' /\ Effect
  <2> DEFINE rec == [NoCall EXCEPT !.phase = "delegating", !.cert = d]
  <2>1. rec \in Call /\ rec.phase \notin Consenting /\ rec.offer = NoId
    BY DEF NoCall, Call, Phases, Consenting
  <2> HIDE DEF rec
  <2> QED  BY <1>1, <1>5, <2>1 DEF CheckSigner, Begin, authority, credentials, rec
<1>6. CASE Prove(c) \/ RevokeKey(c)
  <2>1. /\ call[c].phase \notin Consenting /\ End(c)
        /\ UNCHANGED <<now, certs, installs, offers, codes, pairs>>
    BY <1>6 DEF Prove, RevokeKey, credentials, Consenting
  <2>2. keys' \in [Keys -> KeyRow]
    <3> DEFINE k == call[c].key
    <3>1. CASE k \in Keys
      <4>1. keys[k] \in KeyRow  BY <1>0, <3>1 DEF AccessTypeOK
      <4>2. /\ [keys[k] EXCEPT !.proved = TRUE] \in KeyRow
            /\ [keys[k] EXCEPT !.revoked = TRUE] \in KeyRow
        BY <4>1 DEF KeyRow
      <4>3. PICK row \in KeyRow : keys' = [keys EXCEPT ![k] = row]
        BY <1>6, <4>2 DEF Prove, RevokeKey
      <4> QED  BY <1>0, <4>3 DEF AccessTypeOK
    <3>2. CASE k \notin Keys
      BY <1>0, <1>6, <3>2 DEF Prove, RevokeKey, AccessTypeOK
    <3> QED  BY <3>1, <3>2
  <2>3. call' \in [Callers -> Call]  BY <1>0, <2>1, EndedCall
  <2>4. AccessTypeOK'  BY <1>0, <2>1, <2>2, <2>3 DEF AccessTypeOK
  <2>5. Firm  BY <1>0, <2>1 DEF Firm
  <2> QED  BY <1>2, <2>1, <2>4, <2>5
<1>7. CASE Delegate(c)
  <2> DEFINE d == call[c].cert
             row == IF certs[d] = "none" THEN "issued" ELSE certs[d]
  <2>1. /\ call[c].phase \notin Consenting /\ End(c)
        /\ UNCHANGED <<now, keys, installs, offers, codes, pairs>>
        /\ certs' = [certs EXCEPT ![d] = row]
    BY <1>7 DEF Delegate, credentials, Consenting
  <2>2. /\ certs' \in [Certs -> {"none", "issued", "revoked"}]
        /\ \A e \in Certs : certs[e] # "none" => certs'[e] # "none"
    BY <1>0, <2>1 DEF AccessTypeOK
  <2>3. call' \in [Callers -> Call]  BY <1>0, <2>1, EndedCall
  <2>4. AccessTypeOK'  BY <1>0, <2>1, <2>2, <2>3 DEF AccessTypeOK
  <2>5. Firm  BY <1>0, <2>1, <2>2 DEF Firm
  <2> QED  BY <1>2, <2>1, <2>4, <2>5
<1> QED  BY <1>3, <1>4, <1>5, <1>6, <1>7

-----------------------------------------------------------------------------
(* One operation that bears, or comes to bear, an offer *)

(* Who is found bearing an offer bears it alone. *)
LEMMA BearerIs ==
  ASSUME NEW h \in Offers, Single(h)
  PROVE  /\ \A c \in Callers : Carries(c, h) => Spent(h) /\ OnlyCall(c, h)
         /\ \A o \in Codes : OpenCode(o, h) => Spent(h) /\ OnlyCode(o, h)
         /\ \A t \in Pairs : OpenPair(t, h) => Spent(h) /\ OnlyPair(t, h)
         /\ ~ Spent(h) => NoOne(h)
<1>1. ASSUME NEW c \in Callers, Carries(c, h) PROVE Spent(h) /\ OnlyCall(c, h)
  BY <1>1 DEF Single, Spent, NoOne, OnlyCall, OnlyCode, OnlyPair, NoCallBears
<1>2. ASSUME NEW o \in Codes, OpenCode(o, h) PROVE Spent(h) /\ OnlyCode(o, h)
  BY <1>2 DEF Single, Spent, NoOne, OnlyCall, OnlyCode, OnlyPair, NoCodeBears
<1>3. ASSUME NEW t \in Pairs, OpenPair(t, h) PROVE Spent(h) /\ OnlyPair(t, h)
  BY <1>3 DEF Single, Spent, NoOne, OnlyCall, OnlyCode, OnlyPair, NoPairBears
<1>4. ~ Spent(h) => NoOne(h)  BY DEF Single, Spent
<1> QED  BY <1>1, <1>2, <1>3, <1>4

(* A call with one offer in hand disturbs no other. *)
LEMMA OthersUntouched ==
  ASSUME NEW h \in Offers, NEW c \in Callers, \A d \in Callers \ {c} : call'[d] = call[d],
         \A g \in Offers \ {h} :
           /\ ~ Carries(c, g) /\ ~ Carries(c, g)'
           /\ offers'[g].status = offers[g].status
           /\ \A o \in Codes : OpenCode(o, g)' <=> OpenCode(o, g)
           /\ \A t \in Pairs : OpenPair(t, g)' <=> OpenPair(t, g)
  PROVE  \A g \in Offers \ {h} : Untouched(g)
<1> SUFFICES ASSUME NEW g \in Offers \ {h} PROVE Untouched(g)
  OBVIOUS
<1>1. \A d \in Callers \ {c} : (Carries(d, g)' <=> Carries(d, g)) /\ CallStage(d)' = CallStage(d)
  BY OtherCalls
<1> HIDE DEF Carries, CallStage, OpenCode, OpenPair
<1> QED  BY <1>1 DEF Untouched

LEMMA GroundStands ==
  ASSUME Ground, AccessTypeOK', Firm, InstallsGrounded', CodesGrounded', PairsGrounded',
         UNCHANGED call
  PROVE  Ground'
<1>1. \A d \in Callers : CallGrounded(d)'
  BY CallStands DEF Ground
<1> QED  BY <1>1 DEF Ground

LEMMA BecomeIs ==
  ASSUME AccessTypeOK, NEW c \in Callers, NEW phase \in Phases, Become(c, phase)
  PROVE  /\ call' \in [Callers -> Call]
         /\ \A d \in Callers \ {c} : call'[d] = call[d]
         /\ call'[c].phase = phase /\ call'[c].offer = call[c].offer
         /\ call'[c].cert = call[c].cert /\ call'[c].install = call[c].install
<1> DEFINE rec == [call[c] EXCEPT !.phase = phase]
<1>1. call[c] \in Call  BY DEF AccessTypeOK
<1>2. /\ rec \in Call /\ rec.phase = phase /\ rec.offer = call[c].offer
      /\ rec.cert = call[c].cert /\ rec.install = call[c].install
  BY <1>1 DEF Call
<1>3. call' = [call EXCEPT ![c] = rec]  BY DEF Become
<1> HIDE DEF rec
<1> QED  BY <1>2, <1>3, CallIs DEF AccessTypeOK

LEMMA OpenOfferMoves ==
  ASSUME AccessInv, NEW h \in Offers, OpenOffer(h)
  PROVE  Ground' /\ Effect
<1> DEFINE row == [status |-> "open", until |-> now + ShortLife]
<1>1. /\ offers[h].status = "none" /\ offers' = [offers EXCEPT ![h] = row]
      /\ UNCHANGED <<now, keys, certs, installs, codes, pairs, call>>
  BY DEF OpenOffer, authority
<1>2. Ground /\ AccessTypeOK /\ now \in Nat /\ Single(h)  BY DEF AccessInv, Ground, AccessTypeOK
<1>3. row \in OfferRow /\ row.status = "open"  BY <1>2 DEF OfferRow
<1> HIDE DEF row
<1>4. AccessTypeOK'  BY <1>1, <1>2, <1>3 DEF AccessTypeOK
<1>5. Firm /\ InstallsGrounded'
  BY <1>1, <1>2 DEF Firm, Ground, InstallsGrounded, Begun
<1>6. CodesGrounded' /\ PairsGrounded'  BY <1>1, <1>2, <1>4, <1>5, TablesStand DEF Ground
<1>7. Ground'  BY <1>1, <1>2, <1>4, <1>5, <1>6, GroundStands
<1>8. \A g \in Offers \ {h} : Untouched(g)
  BY <1>1, <1>2 DEF Untouched, Carries, CallStage, OpenCode, OpenPair, AccessTypeOK
<1>9. NoOne(h)  BY <1>1, <1>2, BearerIs DEF Spent
<1>10. NoOne(h)'
  BY <1>1, <1>9
     DEF NoOne, NoCallBears, NoCodeBears, NoPairBears, Carries, OpenCode, OpenPair
<1>11. offers'[h].status = "open"  BY <1>1, <1>2, <1>3 DEF AccessTypeOK
<1>12. Opens(h)  BY <1>1, <1>10, <1>11 DEF Opens
<1> QED  BY <1>7, <1>8, <1>12 DEF Effect, Passes

(* An offer is spent, and the call that spent it bears its authority. *)
LEMMA SpendGrants ==
  ASSUME AccessInv, NEW h \in Offers, NEW c \in Callers, Spend(h),
         UNCHANGED <<now, keys, certs, installs, codes, pairs>>,
         call' \in [Callers -> Call], \A d \in Callers \ {c} : call'[d] = call[d],
         \A g \in Offers \ {h} : ~ Carries(c, g),
         CallGrounded(c)', call'[c].offer = h,
         call'[c].phase \notin {"redeeming", "issuing"},
         h \in Pairings => call'[c].phase = "coding"
  PROVE  Ground' /\ Effect
<1> DEFINE row == [offers[h] EXCEPT !.status = "used"]
<1>1. /\ offers[h].status = "open" /\ offers' = [offers EXCEPT ![h] = row]
  BY DEF Spend, Pending
<1>2. Ground /\ AccessTypeOK /\ offers[h] \in OfferRow /\ Single(h)
  BY DEF AccessInv, Ground, AccessTypeOK
<1>3. row \in OfferRow /\ row.status = "used"  BY <1>2 DEF OfferRow
<1> HIDE DEF row
<1>4. AccessTypeOK'  BY <1>1, <1>2, <1>3 DEF AccessTypeOK
<1>5. Firm /\ InstallsGrounded'
  BY <1>2 DEF Firm, Ground, InstallsGrounded, Begun, AccessTypeOK
<1>6. CodesGrounded' /\ PairsGrounded'  BY <1>2, <1>4, <1>5, TablesStand DEF Ground
<1>7. Ground'  BY <1>2, <1>4, <1>5, <1>6, GroundKeeps
<1>8. \A g \in Offers : g # h => ~ Carries(c, g)'  BY DEF Carries
<1>9. \A g \in Offers \ {h} : Untouched(g)
  <2>1. \A g \in Offers \ {h} : offers'[g].status = offers[g].status
    BY <1>1, <1>2 DEF AccessTypeOK
  <2>2. \A g \in Offers : /\ \A o \in Codes : OpenCode(o, g)' <=> OpenCode(o, g)
                          /\ \A t \in Pairs : OpenPair(t, g)' <=> OpenPair(t, g)
    BY DEF OpenCode, OpenPair
  <2> QED  BY <1>8, <2>1, <2>2, OthersUntouched
<1>10. NoOne(h)  BY <1>1, <1>2, BearerIs DEF Spent
<1>11. Spent(h)'  BY <1>1, <1>2, <1>3 DEF Spent, AccessTypeOK
<1>12. OnlyCall(c, h)' /\ CallStage(c)' = "granting"
  <2>1. Carries(c, h)' /\ CallStage(c)' = "granting"  BY DEF Carries, CallStage
  <2>2. \A d \in Callers : Carries(d, h)' => d = c
    BY <1>10, OtherCalls DEF NoOne, NoCallBears
  <2>3. NoCodeBears(h)' /\ NoPairBears(h)'
    BY <1>10 DEF NoOne, NoCodeBears, NoPairBears, OpenCode, OpenPair
  <2> QED  BY <2>1, <2>2, <2>3 DEF OnlyCall
<1>13. Granted(c, h)  BY <1>1, <1>11, <1>12 DEF Granted
<1> QED  BY <1>7, <1>9, <1>13 DEF Effect, Passes

LEMMA ConsentMoves ==
  ASSUME AccessInv, NEW c \in Callers, NEW h \in Offers, Consent(c, h)
  PROVE  Ground' /\ Effect
<1> DEFINE rec == [NoCall EXCEPT !.phase = "choosing", !.offer = h]
<1>1. /\ h \notin Pairings /\ Spend(h) /\ call[c].phase = "idle"
      /\ call' = [call EXCEPT ![c] = rec]
      /\ UNCHANGED <<now, keys, certs, installs, codes, pairs>>
  BY DEF Consent, Begin, authority
<1>2. Ground /\ call \in [Callers -> Call]  BY DEF AccessInv, Ground, AccessTypeOK
<1>3. rec \in Call /\ rec.phase = "choosing" /\ rec.offer = h
  BY DEF NoCall, Call, Phases
<1> HIDE DEF rec
<1>4. /\ call' \in [Callers -> Call] /\ call'[c] = rec
      /\ \A d \in Callers \ {c} : call'[d] = call[d]
  BY <1>1, <1>2, <1>3, CallIs
<1>5. CallGrounded(c)'  BY <1>3, <1>4 DEF CallGrounded, Consenting
<1>6. \A g \in Offers : ~ Carries(c, g)  BY <1>1, <1>2, BearersConsent DEF Consenting
<1> QED  BY <1>1, <1>3, <1>4, <1>5, <1>6, SpendGrants

LEMMA ApproveMoves ==
  ASSUME AccessInv, NEW c \in Callers, Approve(c)
  PROVE  Ground' /\ Effect
<1> DEFINE h == call[c].offer
<1>1. /\ call[c].phase = "approving" /\ Spend(h) /\ Become(c, "coding")
      /\ UNCHANGED <<now, keys, certs, installs, codes, pairs>>
  BY DEF Approve, authority
<1>2. Ground /\ AccessTypeOK /\ CallGrounded(c)  BY DEF AccessInv, Ground
<1>3. h \in Offers /\ h \in Pairings /\ Founded(call[c].install)
  BY <1>1, <1>2 DEF CallGrounded, Consenting
<1>4. /\ call' \in [Callers -> Call] /\ \A d \in Callers \ {c} : call'[d] = call[d]
      /\ call'[c].phase = "coding" /\ call'[c].offer = h
      /\ call'[c].install = call[c].install
  BY <1>1, <1>2, BecomeIs DEF Phases
<1>5. CallGrounded(c)'
  BY <1>1, <1>3, <1>4 DEF CallGrounded, Consenting, Founded
<1>6. \A g \in Offers \ {h} : ~ Carries(c, g)  BY DEF Carries
<1> QED  BY <1>1, <1>3, <1>4, <1>5, <1>6, SpendGrants

(* A call that goes on with the offer it has, in the same part of the flow. *)
LEMMA GoesOn ==
  ASSUME Ground, Firm, InstallsGrounded', NEW c \in Callers,
         installs' \in [Installs -> InstallRow],
         UNCHANGED <<now, keys, certs, offers, codes, pairs>>,
         call' \in [Callers -> Call], \A d \in Callers \ {c} : call'[d] = call[d],
         CallGrounded(c)',
         \/ \A h \in Offers : ~ Carries(c, h) /\ ~ Carries(c, h)'
         \/ /\ call'[c].offer = call[c].offer
            /\ CallStage(c)' = CallStage(c)
            /\ call[c].offer \in Pairings =>
                 (call[c].phase \in {"coding", "redeeming", "issuing"}
                    <=> call'[c].phase \in {"coding", "redeeming", "issuing"})
  PROVE  Ground' /\ Effect
<1>1. AccessTypeOK'  BY DEF Ground, AccessTypeOK
<1>2. \A h \in Offers : /\ Carries(c, h)' <=> Carries(c, h)
                        /\ Carries(c, h) => CallStage(c)' = CallStage(c)
  BY DEF Carries
<1> QED  BY <1>1, <1>2, CallMoves

LEMMA InspectMoves ==
  ASSUME Ground, NEW c \in Callers, NEW h \in Offers, Inspect(c, h)
  PROVE  Ground' /\ Effect
<1> DEFINE rec == [NoCall EXCEPT !.phase = "choosing", !.offer = h]
<1>1. /\ h \in Pairings /\ call[c].phase = "idle"
      /\ call' = [call EXCEPT ![c] = rec]
      /\ UNCHANGED <<now, keys, certs, installs, offers, codes, pairs>>
  BY DEF Inspect, Begin, authority, credentials
<1>2. call \in [Callers -> Call] /\ AccessTypeOK /\ InstallsGrounded
  BY DEF Ground, AccessTypeOK
<1>3. rec \in Call /\ rec.phase = "choosing" /\ rec.offer = h
  BY DEF NoCall, Call, Phases
<1> HIDE DEF rec
<1>4. /\ call' \in [Callers -> Call] /\ call'[c] = rec
      /\ \A d \in Callers \ {c} : call'[d] = call[d]
  BY <1>1, <1>2, <1>3, CallIs
<1>5. CallGrounded(c)'  BY <1>3, <1>4 DEF CallGrounded, Consenting
<1>6. \A g \in Offers : ~ Carries(c, g)  BY <1>1, BearersConsent DEF Consenting
<1>7. \A g \in Offers : ~ Carries(c, g)'  BY <1>1, <1>3, <1>4 DEF Carries
<1>8. Firm /\ InstallsGrounded' /\ installs' \in [Installs -> InstallRow]
  BY <1>1, <1>2 DEF Firm, InstallsGrounded, Begun, AccessTypeOK
<1> QED  BY <1>1, <1>4, <1>5, <1>6, <1>7, <1>8, GoesOn

LEMMA ChooseMoves ==
  ASSUME Ground, NEW c \in Callers, NEW d \in Certs, Choose(c, d)
  PROVE  Ground' /\ Effect
<1> DEFINE rec == [call[c] EXCEPT !.phase = "installing", !.cert = d]
<1>1. /\ call[c].phase = "choosing" /\ Eligible(d)
      /\ call' = [call EXCEPT ![c] = rec]
      /\ UNCHANGED <<now, keys, certs, installs, offers, codes, pairs>>
  BY DEF Choose, authority, credentials
<1>2. /\ call \in [Callers -> Call] /\ call[c] \in Call /\ AccessTypeOK
      /\ InstallsGrounded /\ CallGrounded(c)
  BY DEF Ground, AccessTypeOK
<1>3. /\ rec \in Call /\ rec.phase = "installing" /\ rec.offer = call[c].offer
      /\ rec.cert = d
  BY <1>2 DEF Call, Phases
<1> HIDE DEF rec
<1>4. /\ call' \in [Callers -> Call] /\ call'[c] = rec
      /\ \A e \in Callers \ {c} : call'[e] = call[e]
  BY <1>1, <1>2, <1>3, CallIs
<1>5. Begun(d)'  BY <1>1 DEF Eligible, Begun
<1>6. CallGrounded(c)'
  BY <1>1, <1>2, <1>3, <1>4, <1>5 DEF CallGrounded, Consenting
<1>7. CallStage(c)' = CallStage(c)  BY <1>1, <1>3, <1>4 DEF CallStage
<1>8. Firm /\ InstallsGrounded' /\ installs' \in [Installs -> InstallRow]
  BY <1>1, <1>2 DEF Firm, InstallsGrounded, Begun, AccessTypeOK
<1> QED  BY <1>1, <1>3, <1>4, <1>6, <1>7, <1>8, GoesOn

LEMMA InstallMoves ==
  ASSUME Ground, NEW c \in Callers, Install(c)
  PROVE  Ground' /\ Effect
<1>0. PICK d : d = call[c].cert  OBVIOUS
<1> DEFINE row == [status |-> "active", cert |-> d]
<1>1. /\ call[c].phase = "installing" /\ EnsureInstall(c) /\ Become(c, "selecting")
      /\ UNCHANGED <<now, keys, certs, offers, codes, pairs>>
  BY DEF Install, authority, credentials
<1>2. AccessTypeOK /\ InstallsGrounded /\ CallGrounded(c) /\ Begun(d)
  BY <1>0, <1>1 DEF Ground, CallGrounded
<1>3. /\ call' \in [Callers -> Call] /\ \A e \in Callers \ {c} : call'[e] = call[e]
      /\ call'[c].phase = "selecting" /\ call'[c].offer = call[c].offer
      /\ call'[c].cert = d
  BY <1>0, <1>1, <1>2, BecomeIs DEF Phases
<1>4. Begun(d)'  BY <1>1, <1>2 DEF Begun
<1>5. CallGrounded(c)'  BY <1>1, <1>2, <1>3, <1>4 DEF CallGrounded, Consenting
<1>6. CallStage(c)' = CallStage(c)  BY <1>1, <1>3 DEF CallStage
<1>7. row \in InstallRow /\ row.status = "active" /\ row.cert = d
  BY <1>2 DEF InstallRow, Begun
<1>8. \/ UNCHANGED installs
      \/ \E n \in Installs :
           installs[n].status = "none" /\ installs' = [installs EXCEPT ![n] = row]
  <2>1. ASSUME Free(installs) # {}, installs' = [installs EXCEPT ![New(installs)] = row]
        PROVE  \E n \in Installs :
                 installs[n].status = "none" /\ installs' = [installs EXCEPT ![n] = row]
    <3>1. New(installs) \in Installs /\ installs[New(installs)].status = "none"
      BY <1>2, <2>1, NewIsFree DEF AccessTypeOK
    <3> QED  BY <2>1, <3>1
  <2> QED  BY <1>0, <1>1, <2>1 DEF EnsureInstall
<1> HIDE DEF row
<1>9. /\ installs' \in [Installs -> InstallRow]
      /\ \A i \in Installs :
           \/ installs'[i] = installs[i]
           \/ installs[i].status = "none" /\ installs'[i] = row
  BY <1>2, <1>7, <1>8 DEF AccessTypeOK
<1>10. Firm  BY <1>1, <1>2, <1>9 DEF Firm, AccessTypeOK
<1>11. InstallsGrounded'
  BY <1>1, <1>2, <1>4, <1>7, <1>9 DEF InstallsGrounded, Begun
<1> QED  BY <1>1, <1>3, <1>5, <1>6, <1>9, <1>10, <1>11, GoesOn

LEMMA SelectMoves ==
  ASSUME Ground, NEW c \in Callers, NEW i \in Installs, Select(c, i)
  PROVE  Ground' /\ Effect
<1> DEFINE local == call[c].offer \in Pairings
           phase == IF local THEN "approving" ELSE "coding"
           rec == [call[c] EXCEPT !.install = i, !.phase = phase]
<1>1. /\ call[c].phase = "selecting" /\ i \in ActiveFor(call[c].cert)
      /\ call' = [call EXCEPT ![c] = rec]
      /\ UNCHANGED <<now, keys, certs, installs, offers, codes, pairs>>
  BY DEF Select, authority, credentials
<1>2. /\ call \in [Callers -> Call] /\ call[c] \in Call /\ AccessTypeOK
      /\ InstallsGrounded /\ CallGrounded(c)
  BY DEF Ground, AccessTypeOK
<1>3. /\ rec \in Call /\ rec.phase = phase /\ rec.offer = call[c].offer
      /\ rec.install = i
  BY <1>2 DEF Call, Phases
<1> HIDE DEF rec
<1>4. /\ call' \in [Callers -> Call] /\ call'[c] = rec
      /\ \A e \in Callers \ {c} : call'[e] = call[e]
  BY <1>1, <1>2, <1>3, CallIs
<1>5. Founded(i)'  BY <1>1 DEF ActiveFor, Founded
<1>6. CallGrounded(c)'
  BY <1>1, <1>2, <1>3, <1>4, <1>5 DEF CallGrounded, Consenting
<1>7. CallStage(c)' = CallStage(c)  BY <1>1, <1>3, <1>4 DEF CallStage
<1>8. Firm /\ InstallsGrounded' /\ installs' \in [Installs -> InstallRow]
  BY <1>1, <1>2 DEF Firm, InstallsGrounded, Begun, AccessTypeOK
<1>9. call[c].offer \in Pairings => call'[c].phase = "approving"  BY <1>3, <1>4
<1> QED  BY <1>1, <1>3, <1>4, <1>6, <1>7, <1>8, <1>9, GoesOn

LEMMA CheckGrantMoves ==
  ASSUME Ground, NEW c \in Callers, CheckGrant(c)
  PROVE  Ground' /\ Effect
<1>1. /\ call[c].phase = "redeeming" /\ Become(c, "issuing")
      /\ UNCHANGED <<now, keys, certs, installs, offers, codes, pairs>>
  BY DEF CheckGrant, authority, credentials
<1>2. AccessTypeOK /\ InstallsGrounded /\ CallGrounded(c)
  BY DEF Ground
<1>3. /\ call' \in [Callers -> Call] /\ \A e \in Callers \ {c} : call'[e] = call[e]
      /\ call'[c].phase = "issuing" /\ call'[c].offer = call[c].offer
      /\ call'[c].install = call[c].install
  BY <1>1, <1>2, BecomeIs DEF Phases
<1>4. CallGrounded(c)'
  BY <1>1, <1>2, <1>3 DEF CallGrounded, Consenting, Founded
<1>5. CallStage(c)' = CallStage(c)  BY <1>1, <1>3 DEF CallStage
<1>6. Firm /\ InstallsGrounded' /\ installs' \in [Installs -> InstallRow]
  BY <1>1, <1>2 DEF Firm, InstallsGrounded, Begun, AccessTypeOK
<1> QED  BY <1>1, <1>3, <1>4, <1>5, <1>6, GoesOn

LEMMA IssueCodeMoves ==
  ASSUME AccessInv, NEW c \in Callers, IssueCode(c)
  PROVE  Ground' /\ Effect
<1>0. PICK h, n : h = call[c].offer /\ n = New(codes)  OBVIOUS
<1> DEFINE row == [status |-> "open", offer |-> h, install |-> call[c].install,
                   until |-> now + ShortLife]
<1>1. /\ call[c].phase = "coding" /\ Free(codes) # {} /\ End(c)
      /\ codes' = [codes EXCEPT ![n] = row]
      /\ UNCHANGED <<now, keys, certs, installs, offers, pairs>>
  BY <1>0 DEF IssueCode, authority
<1>2. Ground /\ AccessTypeOK /\ now \in Nat /\ CallGrounded(c)
  BY DEF AccessInv, Ground, AccessTypeOK
<1>3. h \in Offers /\ Founded(call[c].install) /\ Carries(c, h) /\ CallStage(c) = "granting"
  BY <1>0, <1>1, <1>2 DEF CallGrounded, Consenting, Carries, CallStage
<1>4. Spent(h) /\ OnlyCall(c, h)  BY <1>3, BearerIs DEF AccessInv
<1>5. n \in Codes /\ codes[n].status = "none"
  BY <1>0, <1>1, <1>2, NewIsFree DEF AccessTypeOK
<1>6. /\ call' \in [Callers -> Call] /\ CallGrounded(c)'
      /\ \A d \in Callers \ {c} : call'[d] = call[d]
      /\ \A g \in Offers : ~ Carries(c, g)'
  BY <1>1, <1>2, EndedCall
<1>7. /\ row \in CodeRow /\ row.status = "open" /\ row.offer = h
      /\ row.install = call[c].install
  BY <1>2, <1>3 DEF CodeRow, Founded
<1> HIDE DEF row
<1>8. /\ codes' \in [Codes -> CodeRow] /\ codes'[n] = row
      /\ \A o \in Codes \ {n} : codes'[o] = codes[o]
  BY <1>1, <1>2, <1>5, <1>7 DEF AccessTypeOK
<1>9. AccessTypeOK'  BY <1>1, <1>2, <1>6, <1>8 DEF AccessTypeOK
<1>10. Firm /\ InstallsGrounded' /\ PairsGrounded'
  BY <1>1, <1>2 DEF Firm, Ground, InstallsGrounded, PairsGrounded, Begun, Founded
<1>11. CodesGrounded'
  BY <1>1, <1>2, <1>3, <1>7, <1>8 DEF Ground, CodesGrounded, Founded
<1>12. Ground'  BY <1>2, <1>6, <1>9, <1>10, <1>11, GroundKeeps
<1>13. \A g \in Offers \ {h} : Untouched(g)
  <2>1. \A g \in Offers \ {h} : ~ Carries(c, g)  BY <1>0 DEF Carries
  <2>2. \A g \in Offers \ {h} : \A o \in Codes : OpenCode(o, g)' <=> OpenCode(o, g)
    BY <1>5, <1>7, <1>8 DEF OpenCode
  <2>3. \A g \in Offers : \A t \in Pairs : OpenPair(t, g)' <=> OpenPair(t, g)
    BY <1>1 DEF OpenPair
  <2> QED  BY <1>1, <1>3, <1>6, <2>1, <2>2, <2>3, OthersUntouched
<1>14. Spent(h)' /\ OnlyCode(n, h)'
  <2>1. Spent(h)'  BY <1>1, <1>4 DEF Spent
  <2>2. NoCallBears(h)'
    BY <1>3, <1>4, <1>6, OtherCalls DEF NoCallBears, OnlyCall
  <2>3. NoPairBears(h)'  BY <1>1, <1>4 DEF OnlyCall, NoPairBears, OpenPair
  <2>4. OpenCode(n, h)'  BY <1>7, <1>8 DEF OpenCode
  <2>5. \A o \in Codes : OpenCode(o, h)' => o = n
    BY <1>4, <1>8 DEF OnlyCall, NoCodeBears, OpenCode
  <2> QED  BY <2>1, <2>2, <2>3, <2>4, <2>5 DEF OnlyCode
<1>15. Coded(c, n, h)  BY <1>3, <1>4, <1>14 DEF Coded
<1> QED  BY <1>3, <1>5, <1>12, <1>13, <1>15 DEF Effect, Passes

LEMMA RedeemMoves ==
  ASSUME AccessInv, NEW c \in Callers, NEW o \in Codes, Redeem(c, o)
  PROVE  Ground' /\ Effect
<1>0. PICK h, i : h = codes[o].offer /\ i = codes[o].install  OBVIOUS
<1> DEFINE row == [codes[o] EXCEPT !.status = "used"]
           rec == [NoCall EXCEPT !.phase = "redeeming", !.offer = h, !.install = i]
<1>1. /\ codes[o].status = "open" /\ call[c].phase = "idle"
      /\ codes' = [codes EXCEPT ![o] = row]
      /\ call' = [call EXCEPT ![c] = rec]
      /\ UNCHANGED <<now, keys, certs, installs, offers, pairs>>
  BY <1>0 DEF Redeem, Begin, authority
<1>2. /\ Ground /\ AccessTypeOK /\ codes[o] \in CodeRow /\ CallGrounded(c)
      /\ call \in [Callers -> Call]
  BY DEF AccessInv, Ground, AccessTypeOK
<1>3. h \in Offers /\ Founded(i) /\ OpenCode(o, h)
  BY <1>0, <1>1, <1>2 DEF Ground, CodesGrounded, OpenCode
<1>4. Spent(h) /\ OnlyCode(o, h)  BY <1>3, BearerIs DEF AccessInv
<1>5. /\ row \in CodeRow /\ row.status = "used" /\ row.offer = h /\ row.install = i
  BY <1>0, <1>2 DEF CodeRow
<1>6. rec \in Call /\ rec.phase = "redeeming" /\ rec.offer = h /\ rec.install = i
  BY <1>3 DEF NoCall, Call, Phases, Founded
<1> HIDE DEF row, rec
<1>7. /\ call' \in [Callers -> Call] /\ call'[c] = rec
      /\ \A d \in Callers \ {c} : call'[d] = call[d]
  BY <1>1, <1>2, <1>6, CallIs
<1>8. /\ codes' \in [Codes -> CodeRow] /\ codes'[o] = row
      /\ \A p \in Codes \ {o} : codes'[p] = codes[p]
  BY <1>1, <1>2, <1>5 DEF AccessTypeOK
<1>9. AccessTypeOK'  BY <1>1, <1>2, <1>7, <1>8 DEF AccessTypeOK
<1>10. Firm /\ InstallsGrounded' /\ PairsGrounded' /\ Founded(i)'
  BY <1>1, <1>2, <1>3
     DEF Firm, Ground, InstallsGrounded, PairsGrounded, Begun, Founded, AccessTypeOK
<1>11. CodesGrounded'
  BY <1>1, <1>2, <1>3, <1>5, <1>8 DEF Ground, CodesGrounded, Founded
<1>12. CallGrounded(c)'
  BY <1>3, <1>6, <1>7, <1>10 DEF CallGrounded, Consenting
<1>13. Ground'  BY <1>2, <1>7, <1>9, <1>10, <1>11, <1>12, GroundKeeps
<1>14. \A g \in Offers : ~ Carries(c, g)  BY <1>1, <1>2, BearersConsent DEF Consenting
<1>15. \A g \in Offers \ {h} : Untouched(g)
  <2>1. \A g \in Offers : g # h => ~ Carries(c, g)'  BY <1>6, <1>7 DEF Carries
  <2>2. \A g \in Offers \ {h} : \A p \in Codes : OpenCode(p, g)' <=> OpenCode(p, g)
    BY <1>0, <1>5, <1>8 DEF OpenCode
  <2>3. \A g \in Offers : \A t \in Pairs : OpenPair(t, g)' <=> OpenPair(t, g)
    BY <1>1 DEF OpenPair
  <2> QED  BY <1>1, <1>3, <1>7, <1>14, <2>1, <2>2, <2>3, OthersUntouched
<1>16. Spent(h)' /\ OnlyCall(c, h)' /\ CallStage(c)' = "redeeming"
  <2>1. Spent(h)'  BY <1>1, <1>4 DEF Spent
  <2>2. Carries(c, h)' /\ CallStage(c)' = "redeeming"
    BY <1>6, <1>7 DEF Carries, CallStage
  <2>3. \A d \in Callers : Carries(d, h)' => d = c
    BY <1>3, <1>4, <1>7, OtherCalls DEF NoCallBears, OnlyCode
  <2>4. NoPairBears(h)'  BY <1>1, <1>4 DEF OnlyCode, NoPairBears, OpenPair
  <2>5. NoCodeBears(h)'  BY <1>4, <1>5, <1>8 DEF OnlyCode, NoCodeBears, OpenCode
  <2> QED  BY <2>1, <2>2, <2>3, <2>4, <2>5 DEF OnlyCall
<1>17. Redeemed(o, c, h)  BY <1>4, <1>16 DEF Redeemed
<1> QED  BY <1>3, <1>13, <1>15, <1>17 DEF Effect, Passes

(* A call that ends with its pair issued, or given up. *)
LEMMA IssuePairMoves ==
  ASSUME AccessInv, NEW c \in Callers, IssuePair(c)
  PROVE  Ground' /\ Effect
<1>0. PICK h, i, n : h = call[c].offer /\ i = call[c].install /\ n = New(pairs)
  OBVIOUS
<1> DEFINE row == NewPair(h, i)
<1>1. /\ call[c].phase = "issuing" /\ Free(pairs) # {} /\ End(c)
      /\ pairs' = [pairs EXCEPT ![n] = row]
      /\ UNCHANGED <<now, keys, certs, installs, offers, codes>>
  BY <1>0 DEF IssuePair, authority
<1>2. Ground /\ AccessTypeOK /\ now \in Nat /\ CallGrounded(c)
  BY DEF AccessInv, Ground, AccessTypeOK
<1>3. h \in Offers /\ Founded(i) /\ Carries(c, h) /\ CallStage(c) = "redeeming"
  BY <1>0, <1>1, <1>2 DEF CallGrounded, Consenting, Carries, CallStage
<1>4. Spent(h) /\ OnlyCall(c, h)  BY <1>3, BearerIs DEF AccessInv
<1>5. n \in Pairs /\ pairs[n].status = "none"
  BY <1>0, <1>1, <1>2, NewIsFree DEF AccessTypeOK
<1>6. /\ call' \in [Callers -> Call] /\ CallGrounded(c)'
      /\ \A d \in Callers \ {c} : call'[d] = call[d]
      /\ \A g \in Offers : ~ Carries(c, g)'
  BY <1>1, <1>2, EndedCall
<1>7. row \in PairRow /\ row.status = "open" /\ row.offer = h /\ row.install = i
  BY <1>2, <1>3 DEF NewPair, PairRow, Founded
<1> HIDE DEF row
<1>8. /\ pairs' \in [Pairs -> PairRow] /\ pairs'[n] = row
      /\ \A t \in Pairs \ {n} : pairs'[t] = pairs[t]
  BY <1>1, <1>2, <1>5, <1>7 DEF AccessTypeOK
<1>9. AccessTypeOK'  BY <1>1, <1>2, <1>6, <1>8 DEF AccessTypeOK
<1>10. Firm /\ InstallsGrounded' /\ CodesGrounded'
  BY <1>1, <1>2 DEF Firm, Ground, InstallsGrounded, CodesGrounded, Begun, Founded
<1>11. PairsGrounded'
  BY <1>1, <1>2, <1>3, <1>7, <1>8 DEF Ground, PairsGrounded, Founded
<1>12. Ground'  BY <1>2, <1>6, <1>9, <1>10, <1>11, GroundKeeps
<1>13. \A g \in Offers \ {h} : Untouched(g)
  <2>1. \A g \in Offers \ {h} : ~ Carries(c, g)  BY <1>0 DEF Carries
  <2>2. \A g \in Offers \ {h} : \A t \in Pairs : OpenPair(t, g)' <=> OpenPair(t, g)
    BY <1>5, <1>7, <1>8 DEF OpenPair
  <2>3. \A g \in Offers : \A o \in Codes : OpenCode(o, g)' <=> OpenCode(o, g)
    BY <1>1 DEF OpenCode
  <2> QED  BY <1>1, <1>3, <1>6, <2>1, <2>2, <2>3, OthersUntouched
<1>14. Spent(h)' /\ OnlyPair(n, h)'
  <2>1. Spent(h)'  BY <1>1, <1>4 DEF Spent
  <2>2. NoCallBears(h)'
    BY <1>3, <1>4, <1>6, OtherCalls DEF NoCallBears, OnlyCall
  <2>3. NoCodeBears(h)'  BY <1>1, <1>4 DEF OnlyCall, NoCodeBears, OpenCode
  <2>4. OpenPair(n, h)'  BY <1>7, <1>8 DEF OpenPair
  <2>5. \A t \in Pairs : OpenPair(t, h)' => t = n
    BY <1>4, <1>8 DEF OnlyCall, NoPairBears, OpenPair
  <2> QED  BY <2>1, <2>2, <2>3, <2>4, <2>5 DEF OnlyPair
<1>15. Paired(c, n, h)  BY <1>3, <1>4, <1>14 DEF Paired
<1> QED  BY <1>3, <1>5, <1>12, <1>13, <1>15 DEF Effect, Passes

LEMMA RotateMoves ==
  ASSUME AccessInv, NEW t \in Pairs, Rotate(t)
  PROVE  Ground' /\ Effect
<1>0. PICK h, i, n : h = pairs[t].offer /\ i = pairs[t].install /\ n = New(pairs)
  OBVIOUS
<1> DEFINE old == [pairs[t] EXCEPT !.status = "used"]
           row == NewPair(h, i)
<1>1. /\ pairs[t].status = "open" /\ Free(pairs) # {} /\ Replace(t)
      /\ UNCHANGED <<now, keys, certs, installs, offers, codes, call>>
  BY DEF Rotate, authority
<1>2. Ground /\ AccessTypeOK /\ now \in Nat /\ pairs[t] \in PairRow
  BY DEF AccessInv, Ground, AccessTypeOK
<1>3. h \in Offers /\ Founded(i) /\ OpenPair(t, h)
  BY <1>0, <1>1, <1>2 DEF Ground, PairsGrounded, OpenPair
<1>4. Spent(h) /\ OnlyPair(t, h)  BY <1>3, BearerIs DEF AccessInv
<1>5. n \in Pairs /\ pairs[n].status = "none" /\ n # t
  BY <1>0, <1>1, <1>2, NewIsFree DEF AccessTypeOK
<1>6. row \in PairRow /\ row.status = "open" /\ row.offer = h /\ row.install = i
  BY <1>2, <1>3 DEF NewPair, PairRow, Founded
<1>7. old \in PairRow /\ old.status = "used" /\ old.offer = h /\ old.install = i
  BY <1>0, <1>2 DEF PairRow
<1>8. pairs' = [pairs EXCEPT ![t] = old, ![n] = row]
  BY <1>0, <1>1, <1>5 DEF Replace
<1> HIDE DEF row, old
<1>9. /\ pairs' \in [Pairs -> PairRow] /\ pairs'[n] = row /\ pairs'[t] = old
      /\ \A u \in Pairs : u # t /\ u # n => pairs'[u] = pairs[u]
  BY <1>2, <1>5, <1>6, <1>7, <1>8 DEF AccessTypeOK
<1>10. AccessTypeOK'  BY <1>1, <1>2, <1>9 DEF AccessTypeOK
<1>11. Firm /\ InstallsGrounded' /\ CodesGrounded'
  BY <1>1, <1>2 DEF Firm, Ground, InstallsGrounded, CodesGrounded, Begun, Founded
<1>12. PairsGrounded'
  BY <1>1, <1>2, <1>3, <1>6, <1>7, <1>9 DEF Ground, PairsGrounded, Founded
<1>13. Ground'  BY <1>1, <1>2, <1>10, <1>11, <1>12, GroundStands
<1>14. \A g \in Offers \ {h} : Untouched(g)
  <2>1. \A g \in Offers \ {h} : \A u \in Pairs : OpenPair(u, g)' <=> OpenPair(u, g)
    BY <1>0, <1>5, <1>6, <1>7, <1>9 DEF OpenPair
  <2>2. \A g \in Offers : \A o \in Codes : OpenCode(o, g)' <=> OpenCode(o, g)
    BY <1>1 DEF OpenCode
  <2>3. \A g \in Offers : \A c \in Callers :
          (Carries(c, g)' <=> Carries(c, g)) /\ CallStage(c)' = CallStage(c)
    BY <1>1 DEF Carries, CallStage
  <2> HIDE DEF Carries, CallStage
  <2> QED  BY <1>1, <2>1, <2>2, <2>3 DEF Untouched
<1>15. Spent(h)' /\ OnlyPair(n, h)'
  <2>1. Spent(h)'  BY <1>1, <1>4 DEF Spent
  <2>2. NoCallBears(h)'  BY <1>1, <1>4 DEF NoCallBears, OnlyPair, Carries
  <2>3. NoCodeBears(h)'  BY <1>1, <1>4 DEF OnlyPair, NoCodeBears, OpenCode
  <2>4. OpenPair(n, h)'  BY <1>6, <1>9 DEF OpenPair
  <2>5. \A u \in Pairs : OpenPair(u, h)' => u = n
    BY <1>4, <1>7, <1>9 DEF OnlyPair, OpenPair
  <2> QED  BY <2>1, <2>2, <2>3, <2>4, <2>5 DEF OnlyPair
<1>16. Rotated(t, n, h)  BY <1>4, <1>15 DEF Rotated
<1> QED  BY <1>3, <1>5, <1>13, <1>14, <1>16 DEF Effect, Passes

LEMMA GiveUpMoves ==
  ASSUME AccessInv, NEW c \in Callers, GiveUp(c)
  PROVE  Ground' /\ Effect
<1>0. PICK h : h = call[c].offer  OBVIOUS
<1>1. End(c) /\ UNCHANGED <<now, keys, certs, installs, offers, codes, pairs>>
  BY DEF GiveUp, authority, credentials
<1>2. Ground /\ AccessTypeOK  BY DEF AccessInv, Ground
<1>3. /\ call' \in [Callers -> Call] /\ CallGrounded(c)'
      /\ \A d \in Callers \ {c} : call'[d] = call[d]
      /\ \A g \in Offers : ~ Carries(c, g)'
  BY <1>1, <1>2, EndedCall
<1>4. Firm /\ InstallsGrounded' /\ CodesGrounded' /\ PairsGrounded'
  BY <1>1, <1>2
     DEF Firm, Ground, InstallsGrounded, CodesGrounded, PairsGrounded, Begun, Founded,
         AccessTypeOK
<1>5. /\ AccessTypeOK' /\ installs' \in [Installs -> InstallRow]
  BY <1>1, <1>2, <1>3 DEF AccessTypeOK
<1>6. CASE \A g \in Offers : ~ Carries(c, g)
  BY <1>1, <1>2, <1>3, <1>4, <1>5, <1>6, GoesOn
<1>7. CASE \E g \in Offers : Carries(c, g)
  <2>1. h \in Offers /\ Carries(c, h) /\ \A g \in Offers \ {h} : ~ Carries(c, g)
    BY <1>0, <1>7 DEF Carries
  <2>2. Spent(h) /\ OnlyCall(c, h)  BY <2>1, BearerIs DEF AccessInv
  <2>3. \A g \in Offers :
          /\ \A o \in Codes : OpenCode(o, g)' <=> OpenCode(o, g)
          /\ \A t \in Pairs : OpenPair(t, g)' <=> OpenPair(t, g)
    BY <1>1 DEF OpenCode, OpenPair
  <2>4. \A g \in Offers \ {h} : Untouched(g)
    BY <1>1, <1>3, <2>1, <2>3, OthersUntouched
  <2>5. Spent(h)' /\ NoCodeBears(h)' /\ NoPairBears(h)'
    BY <1>1, <2>1, <2>2, <2>3 DEF Spent, OnlyCall, NoCodeBears, NoPairBears
  <2>6. NoCallBears(h)'
    BY <1>3, <2>1, <2>2, OtherCalls DEF NoCallBears, OnlyCall
  <2>7. Lost(c, h)  BY <2>2, <2>5, <2>6 DEF Lost, NoOne
  <2>8. Ground'  BY <1>2, <1>3, <1>4, <1>5, GroundKeeps
  <2> QED  BY <2>1, <2>4, <2>7, <2>8 DEF Effect, Passes
<1> QED  BY <1>6, <1>7

-----------------------------------------------------------------------------
(* The invariant *)

LEMMA AccessInvInit == AccessInit => AccessInv
<1> SUFFICES ASSUME AccessInit PROVE AccessInv
  OBVIOUS
<1>1. AccessTypeOK  BY Typed DEF AccessInit, AccessTypeOK
<1>2. \A c \in Callers : call[c] = NoCall  BY DEF AccessInit
<1>3. \A c \in Callers : CallGrounded(c) /\ \A h \in Offers : ~ Carries(c, h)
  BY <1>2, Typed DEF CallGrounded, Carries, NoCall, Consenting
<1>4. InstallsGrounded /\ CodesGrounded /\ PairsGrounded
  BY DEF AccessInit, InstallsGrounded, CodesGrounded, PairsGrounded, NoInstall, NoCode, NoPair
<1>5. \A h \in Offers : NoOne(h)
  BY <1>3 DEF AccessInit, NoOne, NoCallBears, NoCodeBears, NoPairBears, OpenCode, OpenPair,
              NoCode, NoPair
<1> QED  BY <1>1, <1>3, <1>4, <1>5 DEF AccessInv, Ground, Single

LEMMA StepMoves ==
  ASSUME AccessInv, AccessNext
  PROVE  Ground' /\ Effect
<1>0. Ground  BY DEF AccessInv
<1>1. CASE \/ \E k \in Keys : RegisterKey(k) \/ ChallengeKey(k)
           \/ \E d \in Certs : RevokeCert(d)
           \/ \E i \in Installs : RevokeInstall(i)
           \/ Tick
  BY <1>0, <1>1, TablesMove
<1>2. ASSUME NEW h \in Offers, OpenOffer(h) PROVE Ground' /\ Effect
  BY <1>2, OpenOfferMoves
<1>3. ASSUME NEW t \in Pairs, Rotate(t) PROVE Ground' /\ Effect
  BY <1>3, RotateMoves
<1>4. ASSUME NEW c \in Callers,
             \/ \E k \in Keys :
                  CheckProof(c, k) \/ \E urgent \in BOOLEAN : CheckRevocation(c, k, urgent)
             \/ \E d \in Certs : CheckSigner(c, d)
             \/ Prove(c) \/ RevokeKey(c) \/ Delegate(c)
      PROVE  Ground' /\ Effect
  BY <1>0, <1>4, KeyCallsMove
<1>5. ASSUME NEW c \in Callers, NEW d \in Certs, Choose(c, d) PROVE Ground' /\ Effect
  BY <1>0, <1>5, ChooseMoves
<1>6. ASSUME NEW c \in Callers, NEW h \in Offers, Consent(c, h) PROVE Ground' /\ Effect
  BY <1>6, ConsentMoves
<1>7. ASSUME NEW c \in Callers, NEW h \in Offers, Inspect(c, h) PROVE Ground' /\ Effect
  BY <1>0, <1>7, InspectMoves
<1>8. ASSUME NEW c \in Callers, NEW i \in Installs, Select(c, i) PROVE Ground' /\ Effect
  BY <1>0, <1>8, SelectMoves
<1>9. ASSUME NEW c \in Callers, NEW o \in Codes, Redeem(c, o) PROVE Ground' /\ Effect
  BY <1>9, RedeemMoves
<1>10. ASSUME NEW c \in Callers, Install(c) PROVE Ground' /\ Effect
  BY <1>0, <1>10, InstallMoves
<1>11. ASSUME NEW c \in Callers, Approve(c) PROVE Ground' /\ Effect
  BY <1>11, ApproveMoves
<1>12. ASSUME NEW c \in Callers, IssueCode(c) PROVE Ground' /\ Effect
  BY <1>12, IssueCodeMoves
<1>13. ASSUME NEW c \in Callers, CheckGrant(c) PROVE Ground' /\ Effect
  BY <1>0, <1>13, CheckGrantMoves
<1>14. ASSUME NEW c \in Callers, IssuePair(c) PROVE Ground' /\ Effect
  BY <1>14, IssuePairMoves
<1>15. ASSUME NEW c \in Callers, GiveUp(c) PROVE Ground' /\ Effect
  BY <1>15, GiveUpMoves
<1> QED
  BY <1>1, <1>2, <1>3, <1>4, <1>5, <1>6, <1>7, <1>8, <1>9, <1>10, <1>11, <1>12, <1>13,
     <1>14, <1>15 DEF AccessNext

LEMMA StutterMoves ==
  ASSUME AccessInv, UNCHANGED accessVars
  PROVE  Ground' /\ Effect
<1>1. /\ Ground /\ AccessTypeOK
      /\ UNCHANGED <<now, keys, certs, installs, offers, codes, pairs, call>>
  BY DEF AccessInv, Ground, accessVars, authority, credentials
<1>2. AccessTypeOK'  BY <1>1 DEF AccessTypeOK
<1>3. Firm  BY <1>1 DEF Firm, AccessTypeOK
<1> QED  BY <1>1, <1>2, <1>3, TableMoves

LEMMA AccessStep ==
  ASSUME AccessInv, [AccessNext]_accessVars
  PROVE  AccessInv' /\ [Grant!Next]_([h \in Offers |-> StageOf(h)])
<1>1. Ground' /\ Effect  BY StepMoves, StutterMoves
<1>2. AccessTypeOK /\ AccessTypeOK'  BY <1>1 DEF AccessInv, Ground
<1>3. /\ \A h \in Offers : Single(h)'
      /\ [Grant!Next]_([h \in Offers |-> StageOf(h)])
  BY <1>1, <1>2, EffectIsGrantStep DEF AccessInv
<1> QED  BY <1>1, <1>3 DEF AccessInv

LEMMA AccessInvariant == AccessSpec => []AccessInv
<1>1. AccessInit => AccessInv  BY AccessInvInit
<1>2. AccessInv /\ [AccessNext]_accessVars => AccessInv'  BY AccessStep
<1> QED  BY <1>1, <1>2, PTL DEF AccessSpec

(* Keys, certificates, installations, offers, codes and token pairs keep   *)
(* their shape, and every operation the local variables of its phase.      *)
THEOREM AccessTypeCorrect == AccessSpec => []AccessTypeOK
<1>1. AccessInv => AccessTypeOK  BY DEF AccessInv, Ground
<1> QED  BY <1>1, AccessInvariant, PTL

(* A consent is never worth two: of an open offer, an operation, an        *)
(* unspent code and an unspent refresh token, one at most carries its      *)
(* authority, whatever races (services/proofweave-identity).               *)
THEOREM ConsentHasOneBearer == AccessSpec => []OneBearer
<1>1. AccessInv => OneBearer  BY SingleIsOne DEF AccessInv
<1> QED  BY <1>1, AccessInvariant, PTL

(* Seen from one offer, the consent challenges, codes and token pairs      *)
(* follow ConsentGrant: consent, code, tokens, each once, or lost.         *)
THEOREM AccessImplementsGrant == AccessSpec => ImplementsGrant
<1>1. AccessInit => Grant!Init
  <2> SUFFICES ASSUME AccessInit PROVE Grant!Init
    OBVIOUS
  <2>1. \A h \in Offers : offers[h].status = "none"  BY DEF AccessInit, NoOffer
  <2>2. \A h \in Offers : StageOf(h) = "none"  BY <2>1 DEF StageOf
  <2> QED  BY <2>2 DEF Grant!Init
<1>2. AccessInv /\ [AccessNext]_accessVars => [Grant!Next]_([h \in Offers |-> StageOf(h)])
  BY AccessStep
<1> QED  BY <1>1, <1>2, AccessInvariant, PTL DEF AccessSpec, ImplementsGrant, Grant!Spec

-----------------------------------------------------------------------------
(* Refused for good *)

(* What a step never takes back. *)
Irrevocable ==
  /\ now <= now'
  /\ \A k \in Keys : keys[k].revoked => keys'[k].revoked
  /\ \A d \in Certs : certs[d] = "revoked" => certs'[d] = "revoked"
  /\ \A i \in Installs : installs[i].status # "none" =>
       /\ installs'[i].cert = installs[i].cert
       /\ installs'[i].status = "active" => installs[i].status = "active"
  /\ \A t \in Pairs : pairs[t].status # "none" =>
       pairs'[t].install = pairs[t].install /\ pairs'[t].access = pairs[t].access

LEMMA RefusedStays ==
  ASSUME AccessInv, AccessTypeOK', Irrevocable,
         NEW t \in Pairs, pairs[t].status # "none", Accepts(t)'
  PROVE  Accepts(t)
<1>0. AccessTypeOK  BY DEF AccessInv, Ground
<1>1. PICK i : i = pairs[t].install  OBVIOUS
<1>2. Founded(i) /\ pairs'[t].install = i /\ pairs'[t].access = pairs[t].access
  BY <1>1 DEF AccessInv, Ground, PairsGrounded, Irrevocable
<1>3. PICK d : d = installs[i].cert  OBVIOUS
<1>4. Begun(d) /\ installs'[i].cert = d
  BY <1>2, <1>3 DEF AccessInv, Ground, InstallsGrounded, Founded, Irrevocable
<1>5. /\ now' < pairs[t].access
      /\ installs'[i].status = "active"
      /\ certs'[d] = "issued" /\ now' < EndOf[d] /\ ~ keys'[SignerOf[d]].revoked
  BY <1>2, <1>4 DEF Accepts, Authorised, Eligible
<1>6. installs[i].status = "active"  BY <1>2, <1>5 DEF Founded, Irrevocable
<1>7. certs[d] = "issued" /\ StartOf[d] <= now
  BY <1>0, <1>4, <1>5 DEF Begun, Irrevocable, AccessTypeOK
<1>8. SignerOf[d] \in Keys /\ ~ keys[SignerOf[d]].revoked
  BY <1>4, <1>5 DEF Begun, Irrevocable
<1>9. now < pairs[t].access /\ now < EndOf[d]
  <2>1. /\ now \in Nat /\ now' \in Nat /\ pairs[t].access \in Nat /\ EndOf[d] \in Nat
        /\ now <= now'
    BY <1>0, <1>4 DEF AccessTypeOK, PairRow, Begun, Irrevocable
  <2> QED  BY <1>5, <2>1
<1> QED
  BY <1>1, <1>3, <1>6, <1>7, <1>8, <1>9 DEF Accepts, Authorised, Eligible

LEMMA NothingReturns ==
  ASSUME AccessInv, [AccessNext]_accessVars
  PROVE  Irrevocable
<1>0. /\ AccessTypeOK /\ now \in Nat /\ InstallsGrounded
  BY DEF AccessInv, Ground, AccessTypeOK
<1>1. now <= now'
  <2>1. now' = now \/ now' = now + 1
    BY DEF AccessNext, accessVars, RegisterKey, ChallengeKey, RevokeCert, RevokeInstall,
           OpenOffer, Rotate, CheckProof, CheckRevocation, Prove, RevokeKey, CheckSigner,
           Choose, Delegate, Consent, Inspect, Install, Select, Approve, IssueCode, Redeem,
           CheckGrant, IssuePair, GiveUp, Tick
  <2> QED  BY <1>0, <2>1
<1>2. ASSUME NEW k \in Keys, keys[k].revoked PROVE keys'[k].revoked
  <2>1. \/ UNCHANGED keys
        \/ \E j : \/ keys' = [keys EXCEPT ![j].known = TRUE]
                  \/ keys' = [keys EXCEPT ![j].dare = now + ShortLife]
                  \/ keys' = [keys EXCEPT ![j].proved = TRUE]
                  \/ keys' = [keys EXCEPT ![j].revoked = TRUE]
    BY DEF AccessNext, accessVars, authority, RegisterKey, ChallengeKey, RevokeCert,
           RevokeInstall, OpenOffer, Rotate, CheckProof, CheckRevocation, Prove, RevokeKey,
           CheckSigner, Choose, Delegate, Consent, Inspect, Install, Select, Approve,
           IssueCode, Redeem, CheckGrant, IssuePair, GiveUp, Tick
  <2>2. keys \in [Keys -> KeyRow] /\ keys[k] \in KeyRow  BY <1>0 DEF AccessTypeOK
  <2> QED  BY <1>2, <2>1, <2>2 DEF KeyRow
<1>3. ASSUME NEW d \in Certs, certs[d] = "revoked" PROVE certs'[d] = "revoked"
  <2>1. \/ UNCHANGED certs
        \/ \E e : \/ certs' = [certs EXCEPT ![e] = "revoked"]
                  \/ certs' = [certs EXCEPT ![e] = IF @ = "none" THEN "issued" ELSE @]
    BY DEF AccessNext, accessVars, authority, RegisterKey, ChallengeKey, RevokeCert,
           RevokeInstall, OpenOffer, Rotate, CheckProof, CheckRevocation, Prove, RevokeKey,
           CheckSigner, Choose, Delegate, Consent, Inspect, Install, Select, Approve,
           IssueCode, Redeem, CheckGrant, IssuePair, GiveUp, Tick
  <2> QED  BY <1>0, <1>3, <2>1 DEF AccessTypeOK
<1>4. ASSUME NEW i \in Installs, installs[i].status # "none"
      PROVE  /\ installs'[i].cert = installs[i].cert
             /\ installs'[i].status = "active" => installs[i].status = "active"
  <2>1. \/ UNCHANGED installs
        \/ \E j \in Installs : installs' = [installs EXCEPT ![j].status = "revoked"]
        \/ \E d : /\ Free(installs) # {}
                  /\ installs' = [installs EXCEPT ![New(installs)] =
                                   [status |-> "active", cert |-> d]]
    BY DEF AccessNext, accessVars, authority, RegisterKey, ChallengeKey, RevokeCert,
           RevokeInstall, OpenOffer, Rotate, CheckProof, CheckRevocation, Prove, RevokeKey,
           CheckSigner, Choose, Delegate, Consent, Inspect, Install, EnsureInstall, Select,
           Approve, IssueCode, Redeem, CheckGrant, IssuePair, GiveUp, Tick
  <2>2. installs \in [Installs -> InstallRow] /\ installs[i] \in InstallRow
    BY <1>0 DEF AccessTypeOK
  <2>3. Free(installs) # {} => installs[New(installs)].status = "none"
    BY NewIsFree
  <2> QED  BY <1>4, <2>1, <2>2, <2>3 DEF InstallRow
<1>5. ASSUME NEW t \in Pairs, pairs[t].status # "none"
      PROVE  pairs'[t].install = pairs[t].install /\ pairs'[t].access = pairs[t].access
  <2>1. \/ UNCHANGED pairs
        \/ \E u \in Pairs : Replace(u) /\ Free(pairs) # {}
        \/ \E row : /\ Free(pairs) # {}
                    /\ pairs' = [pairs EXCEPT ![New(pairs)] = row]
    BY DEF AccessNext, accessVars, credentials, RegisterKey, ChallengeKey, RevokeCert,
           RevokeInstall, OpenOffer, Rotate, CheckProof, CheckRevocation, Prove, RevokeKey,
           CheckSigner, Choose, Delegate, Consent, Inspect, Install, Select, Approve,
           IssueCode, Redeem, CheckGrant, IssuePair, GiveUp, Tick
  <2>2. pairs \in [Pairs -> PairRow] /\ pairs[t] \in PairRow
    BY <1>0 DEF AccessTypeOK
  <2>3. Free(pairs) # {} => pairs[New(pairs)].status = "none"
    BY NewIsFree
  <2>4. ASSUME NEW u \in Pairs, Replace(u), Free(pairs) # {}
        PROVE  pairs'[t].install = pairs[t].install /\ pairs'[t].access = pairs[t].access
    BY <1>5, <2>2, <2>3, <2>4 DEF Replace, PairRow
  <2> QED  BY <1>5, <2>1, <2>2, <2>3, <2>4
<1> QED  BY <1>1, <1>2, <1>3, <1>4, <1>5 DEF Irrevocable

(* An access token that is refused stays refused: neither a new approval,  *)
(* nor a new installation, nor a certificate lets it in again.             *)
THEOREM RefusalIsFinal == AccessSpec => RefusedForGood
<1>1. AccessInv /\ AccessInv' /\ [AccessNext]_accessVars =>
        [\A t \in Pairs : pairs[t].status # "none" /\ ~ Accepts(t) => ~ Accepts(t)']_accessVars
  <2> SUFFICES ASSUME AccessInv, AccessInv', [AccessNext]_accessVars,
                      NEW t \in Pairs, pairs[t].status # "none", Accepts(t)'
               PROVE  Accepts(t)
    OBVIOUS
  <2>1. AccessTypeOK'  BY DEF AccessInv, Ground
  <2> QED  BY <2>1, NothingReturns, RefusedStays
<1> QED  BY <1>1, AccessInvariant, PTL DEF AccessSpec, RefusedForGood
=============================================================================
