---------------------------- MODULE AgentAccess ----------------------------
(***************************************************************************)
(* How an Agent comes to act for a Person: the Person's signing keys and   *)
(* the delegation certificates they sign (db/repositories/delegation), the *)
(* consent challenges and local pairings that turn a certificate into an   *)
(* installation, and the authorization codes and token pairs of that       *)
(* installation (services/proofweave-identity).  One Person, one Agent,    *)
(* one OAuth client, and scopes that every certificate covers: rows of     *)
(* others are never written together with these.                           *)
(*                                                                         *)
(* Each round trip to the database that matters is an action, a batch is   *)
(* atomic, what was read stays in call[c].  A process may die, a request   *)
(* be refused or an answer be lost at any point: a call can always be      *)
(* given up.  So two reads of which the later can pass only if the earlier *)
(* does are one action, at the later, and a refusal is no step.            *)
(***************************************************************************)
EXTENDS Naturals, FiniteSets

CONSTANTS
  Keys,         \* signing keys of the Person
  Certs,        \* delegation certificates of the Agent
  SignerOf,     \* SignerOf[d]: the key that signs certificate d
  StartOf,      \* StartOf[d]: valid_from
  EndOf,        \* EndOf[d]: valid_until
  Offers,       \* consent challenges and local pairings
  Pairings,     \* those that are local pairings
  Installs,     \* ids of agent_installations
  Codes,        \* ids of oauth_authorization_codes
  Pairs,        \* ids of token pairs: an access and a refresh token
  Callers,      \* concurrent operations
  NoId,
  ShortLife,    \* lifetime of a challenge, a pairing, a code, a proof challenge
  AccessLife, RefreshLife,
  MaxTime       \* bound: real time

VARIABLES
  now,
  keys,         \* rows of person_keys, their proofs and revocations
  certs,        \* delegation_certificates and delegation_revocations
  installs,     \* rows of agent_installations
  offers,       \* oauth_consent_challenges, local_codex_pairing_sessions
  codes,        \* rows of oauth_authorization_codes
  pairs,        \* rows of oauth_access_tokens and oauth_refresh_tokens
  call          \* call[c]: local variables of operation c

authority == <<keys, certs>>
credentials == <<offers, codes, pairs>>
accessVars == <<now, authority, installs, credentials, call>>

ASSUME AccessAssumption ==
  /\ SignerOf \in [Certs -> Keys]
  /\ StartOf \in [Certs -> Nat] /\ EndOf \in [Certs -> Nat]
  /\ Pairings \subseteq Offers
  /\ NoId \notin Keys \cup Certs \cup Offers \cup Installs \cup Codes \cup Pairs
  /\ ShortLife \in Nat /\ AccessLife \in Nat /\ RefreshLife \in Nat
  /\ MaxTime \in Nat

-----------------------------------------------------------------------------
(* Data *)

(* dare: when the open proof challenge of the key expires. *)
KeyRow == [known: BOOLEAN, dare: Nat, proved: BOOLEAN, revoked: BOOLEAN]
NoKey == [known |-> FALSE, dare |-> 0, proved |-> FALSE, revoked |-> FALSE]

InstallRow == [status: {"none", "active", "revoked"}, cert: Certs \cup {NoId}]
NoInstall == [status |-> "none", cert |-> NoId]

OfferRow == [status: {"none", "open", "used"}, until: Nat]
NoOffer == [status |-> "none", until |-> 0]

(* offer: not a column, but where the credential comes from. *)
CodeRow == [status: {"none", "open", "used"}, offer: Offers \cup {NoId},
            install: Installs \cup {NoId}, until: Nat]
NoCode == [status |-> "none", offer |-> NoId, install |-> NoId, until |-> 0]

(* status, until: of the refresh token; access: when the access token ends. *)
PairRow == [status: {"none", "open", "used"}, offer: Offers \cup {NoId},
            install: Installs \cup {NoId}, access: Nat, until: Nat]
NoPair == [status |-> "none", offer |-> NoId, install |-> NoId,
           access |-> 0, until |-> 0]

Phases == {"idle", "proving", "revoking", "delegating",
           "choosing", "installing", "selecting", "approving", "coding",
           "redeeming", "issuing"}

Call == [phase: Phases, key: Keys \cup {NoId}, urgent: BOOLEAN,
         cert: Certs \cup {NoId}, offer: Offers \cup {NoId},
         install: Installs \cup {NoId}]
NoCall == [phase |-> "idle", key |-> NoId, urgent |-> FALSE, cert |-> NoId,
           offer |-> NoId, install |-> NoId]

AccessTypeOK ==
  /\ now \in Nat
  /\ keys \in [Keys -> KeyRow]
  /\ certs \in [Certs -> {"none", "issued", "revoked"}]
  /\ installs \in [Installs -> InstallRow]
  /\ offers \in [Offers -> OfferRow]
  /\ codes \in [Codes -> CodeRow]
  /\ pairs \in [Pairs -> PairRow]
  /\ call \in [Callers -> Call]

AccessInit ==
  /\ now = 1
  /\ keys = [k \in Keys |-> NoKey]
  /\ certs = [d \in Certs |-> "none"]
  /\ installs = [i \in Installs |-> NoInstall]
  /\ offers = [h \in Offers |-> NoOffer]
  /\ codes = [o \in Codes |-> NoCode]
  /\ pairs = [t \in Pairs |-> NoPair]
  /\ call = [c \in Callers |-> NoCall]

Begin(c, rec) == call[c].phase = "idle" /\ call' = [call EXCEPT ![c] = rec]
Become(c, phase) == call' = [call EXCEPT ![c].phase = phase]
End(c) == call' = [call EXCEPT ![c] = NoCall]

(* A random id that no row has. *)
Free(table) == {x \in DOMAIN table : table[x].status = "none"}
New(table) == CHOOSE x \in Free(table) : TRUE

-----------------------------------------------------------------------------
(* Signing keys and certificates *)

Usable(k) == keys[k].known /\ ~ keys[k].revoked /\ keys[k].proved

RegisterKey(k) ==
  /\ ~ keys[k].known
  /\ keys' = [keys EXCEPT ![k].known = TRUE]
  /\ UNCHANGED <<now, certs, installs, credentials, call>>

ChallengeKey(k) ==
  /\ keys[k].known /\ ~ keys[k].revoked
  /\ keys' = [keys EXCEPT ![k].dare = now + ShortLife]
  /\ UNCHANGED <<now, certs, installs, credentials, call>>

(* verifyPersonKeyProof(): what it reads *)
CheckProof(c, k) ==
  /\ keys[k].known /\ ~ keys[k].revoked
  /\ now <= keys[k].dare
  /\ Begin(c, [NoCall EXCEPT !.phase = "proving", !.key = k])
  /\ UNCHANGED <<now, authority, installs, credentials>>

Prove(c) ==
  /\ call[c].phase = "proving"
  /\ keys' = [keys EXCEPT ![call[c].key].proved = TRUE]
  /\ End(c)
  /\ UNCHANGED <<now, certs, installs, credentials>>

(* hasAlternativeVerifiedPersonKey() *)
Alternative(k) == \E j \in Keys \ {k} : Usable(j)

CheckRevocation(c, k, urgent) ==
  /\ keys[k].known /\ ~ keys[k].revoked
  /\ ~ urgent => Alternative(k)
  /\ Begin(c, [NoCall EXCEPT !.phase = "revoking", !.key = k, !.urgent = urgent])
  /\ UNCHANGED <<now, authority, installs, credentials>>

RevokeKey(c) ==
  /\ call[c].phase = "revoking"
  /\ keys' = [keys EXCEPT ![call[c].key].revoked = TRUE]
  /\ End(c)
  /\ UNCHANGED <<now, certs, installs, credentials>>

CheckSigner(c, d) ==
  /\ Usable(SignerOf[d])
  /\ certs[d] = "none"
  /\ Begin(c, [NoCall EXCEPT !.phase = "delegating", !.cert = d])
  /\ UNCHANGED <<now, authority, installs, credentials>>

Delegate(c) ==
  LET d == call[c].cert
  IN /\ call[c].phase = "delegating"
     /\ certs' = [certs EXCEPT ![d] = IF @ = "none" THEN "issued" ELSE @]
     /\ End(c)
     /\ UNCHANGED <<now, keys, installs, credentials>>

RevokeCert(d) ==
  /\ certs[d] = "issued"
  /\ certs' = [certs EXCEPT ![d] = "revoked"]
  /\ UNCHANGED <<now, keys, installs, credentials, call>>

-----------------------------------------------------------------------------
(* Installations *)

(* listEligibleAgents() *)
Eligible(d) ==
  /\ certs[d] = "issued"
  /\ StartOf[d] <= now /\ now < EndOf[d]
  /\ ~ keys[SignerOf[d]].revoked

(* findAgentInstallation() *)
Authorised(i) == installs[i].status = "active" /\ Eligible(installs[i].cert)

ActiveFor(d) == {i \in Installs : installs[i].status = "active" /\ installs[i].cert = d}

RevokeInstall(i) ==
  /\ installs[i].status = "active"
  /\ installs' = [installs EXCEPT ![i].status = "revoked"]
  /\ UNCHANGED <<now, authority, credentials, call>>

-----------------------------------------------------------------------------
(* Consent *)

OpenOffer(h) ==
  /\ offers[h].status = "none"
  /\ offers' = [offers EXCEPT ![h] = [status |-> "open", until |-> now + ShortLife]]
  /\ UNCHANGED <<now, authority, installs, codes, pairs, call>>

Pending(h) == offers[h].status = "open" /\ now < offers[h].until

(* Mutant: the guard of the UPDATE is dropped, the earlier read stays. *)
SpendUnguarded(h) ==
  /\ offers[h].status # "none"
  /\ offers' = [offers EXCEPT ![h].status = "used"]

(* The guarded UPDATE that gives an offer to one caller only. *)
Spend(h) == Pending(h) /\ offers' = [offers EXCEPT ![h].status = "used"]

(* Browser: the consent is spent first ... *)
Consent(c, h) ==
  /\ h \notin Pairings
  /\ Spend(h)
  /\ Begin(c, [NoCall EXCEPT !.phase = "choosing", !.offer = h])
  /\ UNCHANGED <<now, authority, installs, codes, pairs>>

(* ... local pairing: it is only looked at. *)
Inspect(c, h) ==
  /\ h \in Pairings
  /\ Pending(h)
  /\ Begin(c, [NoCall EXCEPT !.phase = "choosing", !.offer = h])
  /\ UNCHANGED <<now, authority, installs, credentials>>

Choose(c, d) ==
  /\ call[c].phase = "choosing"
  /\ Eligible(d)
  /\ call' = [call EXCEPT ![c].phase = "installing", ![c].cert = d]
  /\ UNCHANGED <<now, authority, installs, credentials>>

(* Mutant: the row there was for the certificate is taken again. *)
InstallReviving(c) ==
  LET d == call[c].cert
      old == {i \in Installs : installs[i].cert = d}
      i == IF old # {} THEN CHOOSE j \in old : TRUE ELSE New(installs)
  IN /\ old = {} => Free(installs) # {}
     /\ installs' = [installs EXCEPT ![i] = [status |-> "active", cert |-> d]]

(* ensureAgentInstallation(): INSERT ... ON CONFLICT DO NOTHING *)
EnsureInstall(c) ==
  LET d == call[c].cert
  IN \/ ActiveFor(d) # {} /\ UNCHANGED installs
     \/ /\ ActiveFor(d) = {} /\ Free(installs) # {}
        /\ installs' = [installs EXCEPT ![New(installs)] =
                         [status |-> "active", cert |-> d]]

Install(c) ==
  /\ call[c].phase = "installing"
  /\ EnsureInstall(c)
  /\ Become(c, "selecting")
  /\ UNCHANGED <<now, authority, credentials>>

(* The row is read again; the browser's flow also re-checks its authority. *)
Select(c, i) ==
  LET local == call[c].offer \in Pairings
  IN /\ call[c].phase = "selecting"
     /\ i \in ActiveFor(call[c].cert)
     /\ ~ local => Authorised(i)
     /\ call' = [call EXCEPT ![c].install = i,
                             ![c].phase = IF local THEN "approving" ELSE "coding"]
     /\ UNCHANGED <<now, authority, installs, credentials>>

Approve(c) ==
  /\ call[c].phase = "approving"
  /\ Spend(call[c].offer)
  /\ Become(c, "coding")
  /\ UNCHANGED <<now, authority, installs, codes, pairs>>

IssueCode(c) ==
  /\ call[c].phase = "coding"
  /\ Free(codes) # {}
  /\ codes' = [codes EXCEPT ![New(codes)] =
                [status |-> "open", offer |-> call[c].offer,
                 install |-> call[c].install, until |-> now + ShortLife]]
  /\ End(c)
  /\ UNCHANGED <<now, authority, installs, offers, pairs>>

-----------------------------------------------------------------------------
(* Tokens *)

NewPair(h, i) ==
  [status |-> "open", offer |-> h, install |-> i,
   access |-> now + AccessLife, until |-> now + RefreshLife]

(* consumeAuthorizationCode(): spent whatever is found wrong afterwards *)
Redeem(c, o) ==
  /\ codes[o].status = "open" /\ now < codes[o].until
  /\ codes' = [codes EXCEPT ![o].status = "used"]
  /\ Begin(c, [NoCall EXCEPT !.phase = "redeeming", !.offer = codes[o].offer,
                             !.install = codes[o].install])
  /\ UNCHANGED <<now, authority, installs, offers, pairs>>

CheckGrant(c) ==
  /\ call[c].phase = "redeeming"
  /\ Authorised(call[c].install)
  /\ Become(c, "issuing")
  /\ UNCHANGED <<now, authority, installs, credentials>>

IssuePair(c) ==
  /\ call[c].phase = "issuing"
  /\ Free(pairs) # {}
  /\ pairs' = [pairs EXCEPT ![New(pairs)] = NewPair(call[c].offer, call[c].install)]
  /\ End(c)
  /\ UNCHANGED <<now, authority, installs, offers, codes>>

(* Mutant: nothing marks the old refresh token as used. *)
ReplaceKeeping(t) ==
  pairs' = [pairs EXCEPT ![New(pairs)] = NewPair(pairs[t].offer, pairs[t].install)]

Replace(t) ==
  pairs' = [pairs EXCEPT ![t].status = "used",
                         ![New(pairs)] = NewPair(pairs[t].offer, pairs[t].install)]

(* rotateExistingRefreshToken(): three statements, one predicate, one batch *)
Rotate(t) ==
  /\ pairs[t].status = "open" /\ now < pairs[t].until
  /\ Authorised(pairs[t].install)
  /\ Free(pairs) # {}
  /\ Replace(t)
  /\ UNCHANGED <<now, authority, installs, offers, codes, call>>

(* findAccessToken() *)
Accepts(t) ==
  /\ pairs[t].status # "none"
  /\ now < pairs[t].access
  /\ Authorised(pairs[t].install)

-----------------------------------------------------------------------------
GiveUp(c) ==
  /\ call[c].phase # "idle"
  /\ End(c)
  /\ UNCHANGED <<now, authority, installs, credentials>>

Tick ==
  /\ now < MaxTime
  /\ now' = now + 1
  /\ UNCHANGED <<authority, installs, credentials, call>>

AccessNext ==
  \/ \E k \in Keys : RegisterKey(k) \/ ChallengeKey(k)
  \/ \E d \in Certs : RevokeCert(d)
  \/ \E i \in Installs : RevokeInstall(i)
  \/ \E h \in Offers : OpenOffer(h)
  \/ \E t \in Pairs : Rotate(t)
  \/ \E c \in Callers :
       \/ \E k \in Keys :
            CheckProof(c, k) \/ \E urgent \in BOOLEAN : CheckRevocation(c, k, urgent)
       \/ Prove(c) \/ RevokeKey(c)
       \/ \E d \in Certs : CheckSigner(c, d) \/ Choose(c, d)
       \/ Delegate(c)
       \/ \E h \in Offers : Consent(c, h) \/ Inspect(c, h)
       \/ Install(c) \/ \E i \in Installs : Select(c, i)
       \/ Approve(c) \/ IssueCode(c)
       \/ \E o \in Codes : Redeem(c, o)
       \/ CheckGrant(c) \/ IssuePair(c)
       \/ GiveUp(c)
  \/ Tick

AccessSpec == AccessInit /\ [][AccessNext]_accessVars
-----------------------------------------------------------------------------
(* Properties *)

(* c carries the authority of offer h; a pairing is only looked at first. *)
Carries(c, h) ==
  /\ call[c].offer = h
  /\ h \in Pairings => call[c].phase \in {"coding", "redeeming", "issuing"}

Bearers(h) ==
  {<<"offer", x>> : x \in {y \in {h} : offers[y].status = "open"}}
    \cup {<<"call", c>> : c \in {x \in Callers : Carries(x, h)}}
    \cup {<<"code", o>> : o \in {x \in Codes : codes[x].status = "open" /\ codes[x].offer = h}}
    \cup {<<"pair", t>> : t \in {x \in Pairs : pairs[x].status = "open" /\ pairs[x].offer = h}}

(***************************************************************************)
(* A consent is never worth two: at most one of an open offer, an          *)
(* operation, an unspent code and an unspent refresh token carries its     *)
(* authority on, however approvals, code exchanges and rotations of the    *)
(* same credential race (services/proofweave-identity/d1-oauth-store.mjs). *)
(***************************************************************************)
OneBearer == \A h \in Offers : \A x, y \in Bearers(h) : x = y

(* The same as a course of events: AgentAccess implements ConsentGrant. *)
StageOf(h) ==
  LET at(phases) == \E c \in Callers : Carries(c, h) /\ call[c].phase \in phases
  IN IF offers[h].status # "used" THEN offers[h].status
     ELSE IF at({"redeeming", "issuing"}) THEN "redeeming"
     ELSE IF at(Phases) THEN "granting"
     ELSE IF \E o \in Codes : codes[o].status = "open" /\ codes[o].offer = h THEN "code"
     ELSE IF \E t \in Pairs : pairs[t].status = "open" /\ pairs[t].offer = h THEN "tokens"
     ELSE "lost"

Grant == INSTANCE ConsentGrant WITH stage <- [h \in Offers |-> StageOf(h)]

ImplementsGrant == Grant!Spec

(***************************************************************************)
(* An access token that is refused stays refused: no later approval, new   *)
(* installation or certificate lets the tokens of a revoked installation,  *)
(* certificate or key in again (ensureAgentInstallation() promises not to  *)
(* revive a revoked installation).                                         *)
(***************************************************************************)
RefusedForGood ==
  [][\A t \in Pairs : pairs[t].status # "none" /\ ~ Accepts(t) => ~ Accepts(t)']_accessVars

(***************************************************************************)
(* "A normal revocation requires another possession-verified Person key"   *)
(* (docs/agent-delegation-api.md): a revocation that is not urgent leaves  *)
(* the Person a usable key.                                                *)
(***************************************************************************)
LastKeyKept ==
  [][\A c \in Callers :
       /\ call[c].phase = "revoking" /\ ~ call[c].urgent
       /\ call'[c].phase = "idle" /\ keys' # keys
       => \E k \in Keys : Usable(k)']_accessVars
=============================================================================
