-------------------------- MODULE AttemptEvidence --------------------------
(***************************************************************************)
(* What an Agent attaches to an Attempt: objects and the signed Bundles of *)
(* them (services/artifacts), with the entry of provisional credit a       *)
(* Bundle earns, and the checkpoints of the research graph                 *)
(* (services/research/d1-research-graph-store).  The gateway authorises    *)
(* them as it does reports (AttemptJournal).                               *)
(*                                                                         *)
(* Staging a Bundle is no transaction: its row, its entry and its event    *)
(* are written one by one, and a call that is cut short is repeated,       *)
(* perhaps under a renewed certificate.  A round trip is an action; of two *)
(* reads, and of a read that a constraint repeats, the later stands for    *)
(* both.                                                                   *)
(***************************************************************************)
EXTENDS AttemptJournal

CONSTANTS
  Contents,     \* contents of objects, that is, their hashes
  Small,        \* those up to maxInlineArtifactObjectBytes
  Names,        \* file names, each with its media type
  Bundles, Nodes,
  HomeOf,       \* HomeOf[x]: the Attempt of Bundle or checkpoint x
  ManifestOf,   \* ManifestOf[b]: the object that Bundle b itself becomes
  RefsOf,       \* RefsOf[b]: the objects it refers to
  EventIdOf,    \* EventIdOf[b]: the Agent event that signs it
  SignedAt,     \* SignedAt[b]: and the instant it states
  ParentsOf,    \* ParentsOf[p]: the checkpoints that checkpoint p derives from
  CitesOf,      \* CitesOf[p]: the Bundle it rests on, or none
  Uploaders     \* concurrent operations

VARIABLES
  bytes,        \* keys of the bucket and of inline_artifact_bytes
  objects,      \* objects[x]: name of content x in artifact_objects
  bundles,      \* bundles[b]: certificate in its row of artifact_bundles
  shares,       \* shares[b]: the same in provisional_contributions
  nodes,        \* rows of research_nodes, with their edges
  upload        \* upload[c]: local variables of operation c

shelf == <<bytes, objects, bundles, shares, nodes>>
vars == <<journalVars, shelf, upload>>

Object == Contents \X Names
NoObject == <<NoId, NoId>>

ASSUME EvidenceAssumption ==
  /\ Small \subseteq Contents
  /\ Bundles \cup Nodes \subseteq Evidence
  /\ Bundles \cap Nodes = {} /\ NoId \notin Contents \cup Names \cup Evidence
  /\ HomeOf \in [Bundles \cup Nodes -> Attempts]
  /\ ManifestOf \in [Bundles -> Object] /\ RefsOf \in [Bundles -> SUBSET Object]
  /\ SignedAt \in [Bundles -> Nat] /\ DOMAIN EventIdOf = Bundles
  /\ ParentsOf \in [Nodes -> SUBSET Nodes] /\ \A p \in Nodes : p \notin ParentsOf[p]
  /\ CitesOf \in [Nodes -> SUBSET Bundles]

UploadPhases == {"idle", "renewing", "noting", "weighing", "placing", "indexing",
                 "putting", "inserting", "looking", "storing", "sharing",
                 "announcing", "checking", "publishing"}

(* open: whether the Attempt was read as active; item: the Bundle or       *)
(* checkpoint that is submitted, if it is one; object: the object that is  *)
(* put, for a Bundle its manifest.                                         *)
Upload == [phase: UploadPhases, attempt: Attempts \cup {NoId},
           open: BOOLEAN, cert: Certs \cup {NoId},
           item: Bundles \cup Nodes \cup {NoId}, object: Object \cup {NoObject}]
NoUpload == [phase |-> "idle", attempt |-> NoId, open |-> FALSE, cert |-> NoId,
             item |-> NoId, object |-> NoObject]

TypeOK ==
  /\ JournalTypeOK
  /\ bytes \subseteq Object
  /\ objects \in [Contents -> Names \cup {NoId}]
  /\ bundles \in [Bundles -> Certs \cup {NoId}]
  /\ shares \in [Bundles -> Certs \cup {NoId}]
  /\ nodes \subseteq Nodes
  /\ upload \in [Uploaders -> Upload]

Init ==
  /\ JournalInit
  /\ bytes = {} /\ nodes = {}
  /\ objects = [x \in Contents |-> NoId]
  /\ bundles = [b \in Bundles |-> NoId]
  /\ shares = [b \in Bundles |-> NoId]
  /\ upload = [c \in Uploaders |-> NoUpload]

Move(c, phase) == upload' = [upload EXCEPT ![c].phase = phase]
Leave(c) == upload' = [upload EXCEPT ![c] = NoUpload]

-----------------------------------------------------------------------------
(* The gateway: an active Attempt of this Agent, its authority renewed;    *)
(* the status is not asked for a checkpoint until that is done.            *)

(* A deployment without a bucket puts the bytes before it looks at the     *)
(* index; one that has a bucket keeps small objects inline all the same.   *)
Entries(o) == {"indexing"} \cup {p \in {"placing"} : o[1] \in Small}

EntriesOf(rec) ==
  IF rec.item \in Bundles THEN {"weighing"}
  ELSE IF rec.item \in Nodes THEN {"checking"}
  ELSE Entries(rec.object)

Ask(c, t, rec) ==
  LET d == installs[pairs[t].install].cert
  IN /\ upload[c].phase = "idle"
     /\ Accepts(t)
     /\ attempts[rec.attempt].status # "none"
     /\ rec.item \notin Nodes => attempts[rec.attempt].status = "active"
     /\ \E phase \in IF d = attempts[rec.attempt].cert THEN EntriesOf(rec)
                     ELSE {"renewing"} :
          upload' = [upload EXCEPT ![c] =
            [rec EXCEPT !.phase = phase, !.cert = d,
                        !.open = attempts[rec.attempt].status = "active"]]
     /\ UNCHANGED <<journalVars, shelf>>

AskPut(c, t, a, o) == Ask(c, t, [NoUpload EXCEPT !.attempt = a, !.object = o])
AskAttach(c, t, x) == Ask(c, t, [NoUpload EXCEPT !.attempt = HomeOf[x], !.item = x])

RenewFirst(c) ==
  LET row == <<upload[c].attempt, upload[c].cert>>
  IN /\ upload[c].phase = "renewing"
     /\ renewed' = renewed \cup {row}
     /\ \E phase \in IF row \in renewed THEN EntriesOf(upload[c]) ELSE {"noting"} :
          Move(c, phase)
     /\ UNCHANGED <<accessVars, attempts, journal, work, shelf>>

NoteFirst(c) ==
  /\ upload[c].phase = "noting"
  /\ Note(upload[c].attempt, [type |-> "renewed", key |-> <<"renewed", upload[c].cert>>])
  /\ \E phase \in EntriesOf(upload[c]) : Move(c, phase)
  /\ UNCHANGED <<accessVars, attempts, renewed, work, shelf>>

-----------------------------------------------------------------------------
(* putObject() *)

Stored(o) == objects[o[1]] = o[2] /\ o \in bytes

(* When the object is there, an upload is done and a Bundle goes on. *)
Arrived(c) == IF upload[c].item \in Bundles THEN Move(c, "looking") ELSE Leave(c)

(* A key holds the hash and the name, so it is written once; the same      *)
(* bytes may lie under several keys.                                       *)
PutBytes(o) == bytes' = bytes \cup {o}

Place(c) ==
  /\ upload[c].phase = "placing"
  /\ PutBytes(upload[c].object)
  /\ Move(c, "indexing")
  /\ UNCHANGED <<journalVars, objects, bundles, shares, nodes>>

Index(c) ==
  LET o == upload[c].object
  IN /\ upload[c].phase = "indexing"
     /\ \/ Stored(o) /\ Arrived(c)
        \/ objects[o[1]] = NoId /\ Move(c, "putting")
     /\ UNCHANGED <<journalVars, shelf>>

Put(c) ==
  /\ upload[c].phase = "putting"
  /\ PutBytes(upload[c].object)
  /\ Move(c, "inserting")
  /\ UNCHANGED <<journalVars, objects, bundles, shares, nodes>>

(* Who loses the race for the index accepts the same name. *)
Insert(c) ==
  LET o == upload[c].object
  IN /\ upload[c].phase = "inserting"
     /\ objects[o[1]] \in {NoId, o[2]}
     /\ objects' = [objects EXCEPT ![o[1]] = o[2]]
     /\ Arrived(c)
     /\ UNCHANGED <<journalVars, bytes, bundles, shares, nodes>>

-----------------------------------------------------------------------------
(* stageBundle() *)

(* assertAttemptAuthority() and assertObjectPresent().  A revocation after *)
(* the request was accepted leaves earlier events valid.                   *)
Weigh(c) ==
  LET b == upload[c].item
      d == upload[c].cert
  IN /\ upload[c].phase = "weighing"
     /\ StartOf[d] <= SignedAt[b] /\ SignedAt[b] < EndOf[d]
     /\ \A o \in RefsOf[b] : Stored(o)
     /\ \E phase \in Entries(ManifestOf[b]) :
          upload' = [upload EXCEPT ![c].object = ManifestOf[b], ![c].phase = phase]
     /\ UNCHANGED <<journalVars, shelf>>

(* Mutant: the entry is made in the name of the request at hand. *)
CreditedAsAsked(c) == upload[c].cert

(* A repeated request goes on for the certificate of the stored row. *)
Credited(c) ==
  LET row == bundles[upload[c].item]
  IN IF row = NoId THEN upload[c].cert ELSE row

Look(c) ==
  /\ upload[c].phase = "looking"
  /\ upload' = [upload EXCEPT
       ![c].phase = IF bundles[upload[c].item] = NoId THEN "storing" ELSE "sharing",
       ![c].cert = Credited(c)]
  /\ UNCHANGED <<journalVars, shelf>>

SameEvent(b) == {x \in Bundles : bundles[x] # NoId /\ EventIdOf[x] = EventIdOf[b]}

(* The loser of a race fails, and starts again. *)
Store(c) ==
  LET b == upload[c].item
  IN /\ upload[c].phase = "storing"
     /\ SameEvent(b) = {}
     /\ bundles' = [bundles EXCEPT ![b] = upload[c].cert]
     /\ Move(c, "sharing")
     /\ UNCHANGED <<journalVars, bytes, objects, shares, nodes>>

(* recordProvisionalContribution(): inserted or ignored, and compared. *)
Share(c) ==
  LET b == upload[c].item
  IN /\ upload[c].phase = "sharing"
     /\ shares[b] \in {NoId, upload[c].cert}
     /\ shares' = [shares EXCEPT ![b] = upload[c].cert]
     /\ Move(c, "announcing")
     /\ UNCHANGED <<journalVars, bytes, objects, bundles, nodes>>

(* recordBundleStagedEvent() *)
Announce(c) ==
  /\ upload[c].phase = "announcing"
  /\ Note(upload[c].attempt, [type |-> "staged", key |-> <<"staged", upload[c].item>>])
  /\ Leave(c)
  /\ UNCHANGED <<accessVars, attempts, renewed, work, shelf>>

-----------------------------------------------------------------------------
(* publishCheckpoint() *)

(* assertParents(), assertArtifactBundle() *)
Rooted(p) ==
  /\ ParentsOf[p] \subseteq nodes
  /\ \A b \in CitesOf[p] : bundles[b] # NoId /\ HomeOf[b] = HomeOf[p]

Check(c) ==
  LET p == upload[c].item
  IN /\ upload[c].phase = "checking" /\ upload[c].open
     /\ \/ p \in nodes /\ Leave(c)
        \/ p \notin nodes /\ Rooted(p) /\ Move(c, "publishing")
     /\ UNCHANGED <<journalVars, shelf>>

(* One batch of plain INSERTs.  It aborts when the checkpoint is there,    *)
(* which is the answer then, or when a report has the key of its event:    *)
(* the checkpoint cannot be published any more.                            *)
Publish(c) ==
  LET p == upload[c].item
      e == [type |-> "published", key |-> <<"published", p>>]
  IN /\ upload[c].phase = "publishing"
     /\ \/ /\ p \in nodes \/ Taken(HomeOf[p], e.key)
           /\ UNCHANGED <<nodes, journal>>
        \/ /\ p \notin nodes /\ ~ Taken(HomeOf[p], e.key)
           /\ nodes' = nodes \cup {p}
           /\ Note(HomeOf[p], e)
     /\ Leave(c)
     /\ UNCHANGED <<accessVars, attempts, renewed, work, bytes, objects, bundles, shares>>

-----------------------------------------------------------------------------
(* The process dies, the request is refused or its answer lost. *)
Abort(c) ==
  /\ upload[c].phase # "idle"
  /\ Leave(c)
  /\ UNCHANGED <<journalVars, shelf>>

EvidenceNext ==
  \E c \in Uploaders :
    \/ \E t \in Pairs :
         \/ \E a \in Attempts, o \in Object : AskPut(c, t, a, o)
         \/ \E x \in Bundles \cup Nodes : AskAttach(c, t, x)
    \/ RenewFirst(c) \/ NoteFirst(c)
    \/ Place(c) \/ Index(c) \/ Put(c) \/ Insert(c)
    \/ Weigh(c) \/ Look(c) \/ Store(c) \/ Share(c) \/ Announce(c)
    \/ Check(c) \/ Publish(c)
    \/ Abort(c)

Next == (JournalNext /\ UNCHANGED <<shelf, upload>>) \/ EvidenceNext

Spec == Init /\ [][Next]_vars

-----------------------------------------------------------------------------
(* Properties *)

(* What a staged Bundle is made of can be read: an index row is never      *)
(* ahead of its bytes, nor a Bundle ahead of its objects.                  *)
Backed ==
  /\ \A x \in Contents : objects[x] # NoId => <<x, objects[x]>> \in bytes
  /\ \A b \in Bundles :
       bundles[b] # NoId => \A o \in RefsOf[b] \cup {ManifestOf[b]} : Stored(o)

(* The entry of a Bundle names the certificate of its row, the journal     *)
(* mentions no Bundle that lacks its entry, and an Agent event signs one.  *)
Attributed ==
  \A b \in Bundles :
    /\ shares[b] \in {NoId, bundles[b]}
    /\ \A a \in Attempts : Recorded(a, [type |-> "staged", key |-> <<"staged", b>>])
         => a = HomeOf[b] /\ shares[b] # NoId
    /\ Cardinality(SameEvent(b)) <= 1

(* The research graph has no cycle and hangs on nothing that is missing,   *)
(* and a checkpoint is in the journal of its Attempt as it is in the graph.*)
Grounded ==
  /\ \A S \in SUBSET nodes : S # {} => \E p \in S : ParentsOf[p] \cap S = {}
  /\ \A p \in Nodes :
       /\ p \in nodes => Rooted(p)
       /\ \A a \in Attempts : Recorded(a, [type |-> "published", key |-> <<"published", p>>])
            <=> a = HomeOf[p] /\ p \in nodes

(***************************************************************************)
(* However uploads, stagings and publications race, stop half-way and are  *)
(* repeated under another certificate, evidence is complete, credited as   *)
(* it was staged, and grounded ("acyclic by construction",                 *)
(* services/research/d1-research-graph-store.mjs).                         *)
(***************************************************************************)
EvidenceStands == Backed /\ Attributed /\ Grounded
=============================================================================
