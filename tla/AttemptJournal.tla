--------------------------- MODULE AttemptJournal ---------------------------
(***************************************************************************)
(* Attempts: what a connected Agent works on, and the journal of each      *)
(* (services/proofweave-mcp-gateway/d1-gateway-store.mjs for the Agent,    *)
(* db/repositories/mcp.ts for the owner).  The authority of every Agent    *)
(* operation is that of AgentAccess.  A round trip is an action, as there; *)
(* the sequence number of an event is its place in the journal.  An event  *)
(* has an idempotency key, unique among all events of its Attempt whatever *)
(* their types: the owner's decisions and the notes of the gateway have    *)
(* keys of a fixed form, and the key of a progress report is any string    *)
(* the Agent chooses, one of those included.                               *)
(***************************************************************************)
EXTENDS AgentAccess, Sequences

CONSTANTS
  Attempts,     \* a client names an Attempt it opens by its idempotency key
  Reports,      \* idempotency keys that Agents choose for progress reports
  Evidence,     \* what else is noted in a journal: see AttemptEvidence
  MaxActive,    \* closedAlphaAttemptLimits.maximumActiveAttemptsPerPerson
  Workers,      \* concurrent operations on Attempts
  MaxEvents     \* bound: events of a journal

VARIABLES
  attempts,     \* rows of agent_attempts
  journal,      \* journal[a]: rows of agent_attempt_events
  renewed,      \* rows of attempt_authority_events
  work          \* work[c]: local variables of operation c

research == <<attempts, journal, renewed>>
journalVars == <<accessVars, research, work>>

-----------------------------------------------------------------------------
(* attempt-lifecycle:<id>:<version> and attempt-cancelled:<id>; then       *)
(* attempt-created:<key> and what nobody but an Agent uses; and the keys   *)
(* that name a certificate, a Bundle or a checkpoint.                      *)
DecisionKeys == {"lifecycle", "cancelled"} \X Nat
EventKey == DecisionKeys \cup ({"created", "report"} \X Nat)
              \cup ({"renewed"} \X Certs) \cup ({"staged", "published"} \X Evidence)

ASSUME AttemptsAssumption ==
  MaxActive \in Nat /\ MaxEvents \in Nat /\ Reports \subseteq EventKey

Status == {"none", "active", "paused", "cancelled", "abandoned"}

AttemptRow == [status: Status, version: Nat, cert: Certs \cup {NoId},
               progress: Reports \cup {NoId}]
NoAttempt == [status |-> "none", version |-> 0, cert |-> NoId, progress |-> NoId]

Lifecycle == {"paused", "resumed", "cancelled", "abandoned"}
Event == [type: {"created", "reported", "renewed", "staged", "published"}
                  \cup Lifecycle,
          key: EventKey]

Actions == {"pause", "resume", "abandon"}

WorkPhases == {"idle", "creating", "opening", "renewing", "noting",
               "reporting", "progressing", "deciding"}
Work == [phase: WorkPhases, attempt: Attempts \cup {NoId},
         cert: Certs \cup {NoId}, report: Reports \cup {NoId},
         action: Actions \cup {NoId}, version: Nat]
NoWork == [phase |-> "idle", attempt |-> NoId, cert |-> NoId, report |-> NoId,
           action |-> NoId, version |-> 0]

JournalTypeOK ==
  /\ AccessTypeOK
  /\ attempts \in [Attempts -> AttemptRow]
  /\ journal \in [Attempts -> Seq(Event)]
  /\ renewed \subseteq Attempts \X Certs
  /\ work \in [Workers -> Work]

JournalInit ==
  /\ AccessInit
  /\ attempts = [a \in Attempts |-> NoAttempt]
  /\ journal = [a \in Attempts |-> << >>]
  /\ renewed = {}
  /\ work = [c \in Workers |-> NoWork]

Start(c, rec) == work[c].phase = "idle" /\ work' = [work EXCEPT ![c] = rec]
Go(c, phase) == work' = [work EXCEPT ![c].phase = phase]
Finish(c) == work' = [work EXCEPT ![c] = NoWork]

Active == {a \in Attempts : attempts[a].status = "active"}
Recorded(a, e) == \E n \in DOMAIN journal[a] : journal[a][n] = e

Taken(a, key) == \E n \in DOMAIN journal[a] : journal[a][n].key = key

(* INSERT OR IGNORE ... SELECT MAX(sequence) + 1: ignored when its key is  *)
(* there, with whatever event.                                             *)
Note(a, e) ==
  \/ Taken(a, e.key) /\ UNCHANGED journal
  \/ /\ ~ Taken(a, e.key) /\ Len(journal[a]) < MaxEvents
     /\ journal' = [journal EXCEPT ![a] = Append(@, e)]

-----------------------------------------------------------------------------
(* The Agent.  The request is authenticated and its authority read. *)

AskCreate(c, t, a) ==
  /\ Accepts(t)
  /\ Start(c, [NoWork EXCEPT !.phase = "creating", !.attempt = a,
                             !.cert = installs[pairs[t].install].cert])
  /\ UNCHANGED <<accessVars, research>>

(* In the WHERE clause of the statement that takes the place. *)
Room == Cardinality(Active) < MaxActive

Create(c) ==
  LET a == work[c].attempt
  IN /\ work[c].phase = "creating"
     /\ \/ /\ attempts[a].status = "none" /\ Room
           /\ attempts' = [attempts EXCEPT ![a].status = "active",
                                           ![a].cert = work[c].cert]
        \/ /\ attempts[a].status # "none" /\ attempts[a].cert = work[c].cert
           /\ UNCHANGED attempts
     /\ Go(c, "opening")
     /\ UNCHANGED <<accessVars, journal, renewed>>

(* Its sequence number is 1: ignored if another event has it. *)
Open(c) ==
  LET a == work[c].attempt
  IN /\ work[c].phase = "opening"
     /\ journal' = IF journal[a] = << >>
                   THEN [journal EXCEPT ![a] =
                           <<[type |-> "created", key |-> <<"created", 0>>]>>]
                   ELSE journal
     /\ Finish(c)
     /\ UNCHANGED <<accessVars, attempts, renewed>>

AskReport(c, t, a, r) ==
  LET d == installs[pairs[t].install].cert
  IN /\ Accepts(t)
     /\ attempts[a].status = "active"
     /\ Start(c, [NoWork EXCEPT !.phase = IF d = attempts[a].cert THEN "reporting"
                                          ELSE "renewing",
                                !.attempt = a, !.cert = d, !.report = r])
     /\ UNCHANGED <<accessVars, research>>

(* recordAttemptAuthorityRenewal(): noted in the journal by who inserts it *)
Renew(c) ==
  LET row == <<work[c].attempt, work[c].cert>>
  IN /\ work[c].phase = "renewing"
     /\ renewed' = renewed \cup {row}
     /\ Go(c, IF row \in renewed THEN "reporting" ELSE "noting")
     /\ UNCHANGED <<accessVars, attempts, journal>>

NoteRenewal(c) ==
  /\ work[c].phase = "noting"
  /\ Note(work[c].attempt, [type |-> "renewed", key |-> <<"renewed", work[c].cert>>])
  /\ Go(c, "reporting")
  /\ UNCHANGED <<accessVars, attempts, renewed>>

(* A key that is there answers: as a repetition, or, if findEvent() finds  *)
(* another event under it, as a conflict.                                  *)
Report(c) ==
  LET a == work[c].attempt
      key == work[c].report
  IN /\ work[c].phase = "reporting"
     /\ Note(a, [type |-> "reported", key |-> key])
     /\ IF Taken(a, key) THEN Finish(c) ELSE Go(c, "progressing")
     /\ UNCHANGED <<accessVars, attempts, renewed>>

Progress(c) ==
  /\ work[c].phase = "progressing"
  /\ attempts' = [attempts EXCEPT ![work[c].attempt].progress = work[c].report]
  /\ Finish(c)
  /\ UNCHANGED <<accessVars, journal, renewed>>

-----------------------------------------------------------------------------
(* The owner *)

From == [pause |-> {"active"}, resume |-> {"paused"},
         abandon |-> {"active", "paused"}]
(* Mutant: a status that no reader knows. *)
ToClosed == [pause |-> "paused", resume |-> "active", abandon |-> "closed"]

To == [pause |-> "paused", resume |-> "active", abandon |-> "abandoned"]
EventOf == [pause |-> "paused", resume |-> "resumed", abandon |-> "abandoned"]

(* transitionAttempt(): the row and its version are read ... *)
AskTransition(c, a, action) ==
  /\ attempts[a].status \in From[action]
  /\ Start(c, [NoWork EXCEPT !.phase = "deciding", !.attempt = a,
                             !.action = action, !.version = attempts[a].version])
  /\ UNCHANGED <<accessVars, research>>

(* Mutant: the version that was read is not compared. *)
MatchesAnyVersion(c) ==
  LET row == attempts[work[c].attempt]
  IN /\ row.status \in From[work[c].action]
     /\ work[c].action = "resume" => Room

Matches(c) ==
  LET row == attempts[work[c].attempt]
  IN /\ row.status \in From[work[c].action]
     /\ row.version = work[c].version
     /\ work[c].action = "resume" => Room

(* ... and a batch updates it and records the event, if the row is now as  *)
(* this operation would have it.                                           *)
Transition(c) ==
  LET a == work[c].attempt
      next == work[c].version + 1
      row == IF Matches(c)
             THEN [attempts[a] EXCEPT !.status = To[work[c].action], !.version = next]
             ELSE attempts[a]
  IN /\ work[c].phase = "deciding"
     /\ attempts' = [attempts EXCEPT ![a] = row]
     /\ IF row.status = To[work[c].action] /\ row.version = next
        THEN Note(a, [type |-> EventOf[work[c].action], key |-> <<"lifecycle", next>>])
        ELSE UNCHANGED journal
     /\ Finish(c)
     /\ UNCHANGED <<accessVars, renewed>>

(* cancelAttempt(): its guarded UPDATE and its event are one batch. *)
Cancel(a) ==
  /\ attempts[a].status = "active"
  /\ attempts' = [attempts EXCEPT ![a].status = "cancelled", ![a].version = @ + 1]
  /\ Note(a, [type |-> "cancelled", key |-> <<"cancelled", 0>>])
  /\ UNCHANGED <<accessVars, renewed, work>>

-----------------------------------------------------------------------------
Drop(c) ==
  /\ work[c].phase # "idle"
  /\ Finish(c)
  /\ UNCHANGED <<accessVars, research>>

WorkNext ==
  \/ \E c \in Workers :
       \/ \E t \in Pairs, a \in Attempts :
            AskCreate(c, t, a) \/ \E r \in Reports : AskReport(c, t, a, r)
       \/ Create(c) \/ Open(c)
       \/ Renew(c) \/ NoteRenewal(c) \/ Report(c) \/ Progress(c)
       \/ \E a \in Attempts, action \in Actions : AskTransition(c, a, action)
       \/ Transition(c)
       \/ Drop(c)
  \/ \E a \in Attempts : Cancel(a)

JournalNext == (AccessNext /\ UNCHANGED <<research, work>>) \/ WorkNext

JournalSpec == JournalInit /\ [][JournalNext]_journalVars

-----------------------------------------------------------------------------
(* Properties *)

StatusAfter(type) ==
  [resumed |-> "active", paused |-> "paused",
   cancelled |-> "cancelled", abandoned |-> "abandoned"][type]

(* The key of the decision that led to version v of a row. *)
KeyOf(row, v) ==
  IF v = row.version /\ row.status = "cancelled" THEN <<"cancelled", 0>>
  ELSE <<"lifecycle", v>>

DecisionsIn(s) == {n \in DOMAIN s : s[n].type \in Lifecycle}

InOrder(s, row) ==
  \A m, n \in DecisionsIn(s) : \A v, w \in 1 .. row.version :
    s[m].key = KeyOf(row, v) /\ s[n].key = KeyOf(row, w) /\ m < n => v < w

Tells(s, row) ==
  /\ \A v \in 1 .. row.version : \E n \in DOMAIN s : s[n].key = KeyOf(row, v)
  /\ \A n \in DOMAIN s :
       s[n].key \in DecisionKeys => s[n].type \in Lifecycle \cup {"reported"}
  /\ \A n \in DecisionsIn(s) : \E v \in 1 .. row.version : s[n].key = KeyOf(row, v)
  /\ \A n \in DecisionsIn(s) :
       s[n].key = KeyOf(row, row.version) => row.status = StatusAfter(s[n].type)
  /\ InOrder(s, row)
  /\ row.version = 0 => row.status \in {"none", "active"}
  /\ \A m, n \in DOMAIN s : s[m].key = s[n].key => m = n

(***************************************************************************)
(* The journal tells the row: each version of it has a decision of the     *)
(* owner, or else an Agent's report that took the key of that decision     *)
(* first, in which case the decision was dropped without a word; there is  *)
(* no decision besides, they are in the order of their versions, the one   *)
(* that made the present version says the status, and nothing is recorded  *)
(* twice, whoever raced, retried or died (transitionAttempt() and          *)
(* cancelAttempt() of db/repositories/mcp, reportProgress() of the         *)
(* gateway).                                                               *)
(***************************************************************************)
JournalTellsRow == \A a \in Attempts : Tells(journal[a], attempts[a])
=============================================================================
