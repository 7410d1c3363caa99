------------------------- MODULE MCAttemptEvidence -------------------------
(***************************************************************************)
(* A small instance of AttemptEvidence for TLC, in seven situations: a     *)
(* Person sets up signing keys and delegations; a proved key and an issued *)
(* certificate are there and connections are made; two connections are     *)
(* there, by an old and by a renewed certificate, and an Attempt is        *)
(* reported on; the owner decides on two Attempts; or the Attempt gets     *)
(* objects, Bundles of them, or checkpoints.  There are two Bundles with   *)
(* one event id, of which the first refers to a large object; a content    *)
(* that is also put under another name; a chain of two checkpoints, and    *)
(* two that name each other as parents.  An Agent reports under a key of   *)
(* its own, or under the key of a decision of the owner, or has reported   *)
(* under the key of a Bundle or of a checkpoint, and then c1 works alone.  *)
(* Of the two Attempts the second is decided on once.                      *)
(***************************************************************************)
EXTENDS AttemptEvidence, TLC

CONSTANTS k1, k2, d1, d2, h1, h2, i1, i2, o1, o2, t1, t2, t3, c1, c2, a1, a2,
  x1, x2, x3, n1, n2, b1, b2, e1, p1, p2, p3, p4

VARIABLE situation

MCReports == {<<"report", 1>>, <<"lifecycle", 1>>, <<"cancelled", 0>>,
              <<"staged", b1>>, <<"published", p2>>}
MCSignerOf == d1 :> k1 @@ d2 :> k2
MCStartOf == [d \in {d1, d2} |-> 1]
MCEndOf == [d \in {d1, d2} |-> 3]
MCHomeOf == [x \in {b1, b2, p1, p2, p3, p4} |-> a1]
MCManifestOf == b1 :> <<x2, n1>> @@ b2 :> <<x3, n1>>
MCRefsOf == b1 :> {<<x1, n1>>} @@ b2 :> {}
MCEventIdOf == [b \in {b1, b2} |-> e1]
MCSignedAt == [b \in {b1, b2} |-> 1]
MCParentsOf == p1 :> {} @@ p2 :> {p1} @@ p3 :> {p4} @@ p4 :> {p3}
MCCitesOf == p1 :> {b1} @@ [p \in {p2, p3, p4} |-> {}]
Puts == {<<x1, n1>>, <<x1, n2>>, <<x2, n2>>}

Proved == [known |-> TRUE, dare |-> 1 + ShortLife, proved |-> TRUE, revoked |-> FALSE]
UsedOffer == [status |-> "used", until |-> 1 + ShortLife]
UsedCode(h, i) ==
  [status |-> "used", offer |-> h, install |-> i, until |-> 1 + ShortLife]
FirstPair(h, i) ==
  [status |-> "open", offer |-> h, install |-> i,
   access |-> 1 + AccessLife, until |-> 1 + RefreshLife]

Connected ==
  /\ installs = i1 :> [status |-> "active", cert |-> d1]
             @@ i2 :> [status |-> "active", cert |-> d2]
  /\ offers = [h \in Offers |-> UsedOffer]
  /\ codes = o1 :> UsedCode(h1, i1) @@ o2 :> UsedCode(h2, i2)
  /\ pairs = t1 :> FirstPair(h1, i1) @@ t2 :> FirstPair(h2, i2) @@ t3 :> NoPair

Unconnected ==
  /\ installs = [i \in Installs |-> NoInstall]
  /\ offers = [h \in Offers |-> NoOffer]
  /\ codes = [o \in Codes |-> NoCode]
  /\ pairs = [t \in Pairs |-> NoPair]

Attaching == situation \in {"objects", "bundles", "graph"}
AtWork == situation \in {"reports", "decisions"} \/ Attaching
Deposited(o) == situation \in {"bundles", "graph"} /\ o = <<x1, n1>>

Opened == [NoAttempt EXCEPT !.status = "active", !.cert = d1]
Opening == <<[type |-> "created", key |-> <<"created", 0>>]>>

(* The key an earlier report may have taken. *)
Squatted ==
  IF situation = "bundles" THEN {<<"staged", b1>>}
  ELSE IF situation = "graph" THEN {<<"published", p2>>} ELSE {}
Openings == {Opening} \cup
  {Append(Opening, [type |-> "reported", key |-> key]) : key \in Squatted}

(* The keys that are chosen in each situation. *)
Chosen == IF situation = "reports" THEN {<<"report", 1>>} ELSE Reports \cap DecisionKeys

Reported(a) == \E n \in DOMAIN journal[a] : journal[a][n].type = "reported"

MCInit ==
  /\ situation \in {"keys", "connections", "reports", "decisions",
                    "objects", "bundles", "graph"}
  /\ now = 1
  /\ keys = [k \in Keys |-> IF situation = "keys" THEN NoKey ELSE Proved]
  /\ certs = [d \in Certs |->
       IF AtWork \/ (situation = "connections" /\ d = d1)
       THEN "issued" ELSE "none"]
  /\ IF AtWork THEN Connected ELSE Unconnected
  /\ call = [c \in Callers |-> NoCall]
  /\ attempts = [a \in Attempts |->
       IF Attaching /\ a = a1 THEN Opened ELSE NoAttempt]
  /\ \E s \in Openings : journal = [a \in Attempts |->
       IF Attaching /\ a = a1 THEN s ELSE << >>]
  /\ renewed = {}
  /\ work = [c \in Workers |-> NoWork]
  /\ bytes = {o \in Object : Deposited(o)} /\ nodes = {}
  /\ objects = [x \in Contents |-> IF Deposited(<<x, n1>>) THEN n1 ELSE NoId]
  /\ bundles = [b \in Bundles |-> NoId]
  /\ shares = [b \in Bundles |-> NoId]
  /\ upload = [c \in Uploaders |-> NoUpload]

MCNext ==
  /\ UNCHANGED situation
  /\ IF Attaching
     THEN \/ EvidenceNext
          \/ situation = "graph" /\ Cancel(a1) /\ UNCHANGED <<shelf, upload>>
     ELSE /\ IF situation = "decisions" THEN WorkNext ELSE JournalNext
          /\ UNCHANGED <<shelf, upload>>
  /\ call[c1].phase = "idle" /\ call[c2].phase = "idle" => UNCHANGED call[c2]
  /\ work[c1].phase = "idle" /\ work[c2].phase = "idle" => UNCHANGED work[c2]
  /\ upload[c1].phase = "idle" /\ upload[c2].phase = "idle" => UNCHANGED upload[c2]
  /\ Attaching /\ Reported(a1) => UNCHANGED upload[c2]
  /\ situation \in {"keys", "connections"} => UNCHANGED <<research, work>>
  /\ \A c \in Workers : work'[c].report \in Chosen \cup {NoId}
  /\ ~ Attaching => \A a \in Attempts : Len(journal'[a]) < MaxEvents
  /\ situation = "keys" => UNCHANGED <<installs, credentials>>
  /\ situation = "connections" =>
       /\ \A c \in Callers : call'[c].phase \notin {"proving", "revoking", "delegating"}
       /\ call'[c1].offer # NoId /\ call'[c2].offer # NoId
            => call'[c1].offer = call'[c2].offer
       /\ UNCHANGED authority
       /\ offers[h1].status # "used" => offers'[h2] = NoOffer
  /\ AtWork => UNCHANGED <<now, keys, installs, credentials, call>>
  /\ situation = "reports" =>
       /\ attempts'[a2] = NoAttempt
       /\ \A c \in Workers : work'[c].phase # "deciding"
       /\ certs'[d2] = certs[d2]
  /\ situation = "decisions" =>
       /\ \A c \in Workers : work'[c].cert # d2
       /\ work'[c2].report = NoId
       /\ work[c1].phase = "idle" /\ work'[c1].report # NoId =>
            journal[a1] = Opening /\ work'[c1].attempt = a1
       /\ work'[c1].report # NoId \/ Reported(a1) => attempts'[a2] = NoAttempt
       /\ attempts'[a2].version <= 1
  /\ \A c \in Uploaders : upload'[c] # upload[c] /\ upload[c].phase = "idle" =>
       LET rec == upload'[c]
       IN CASE situation = "objects" -> rec.object \in Puts
            [] situation = "bundles" -> rec.item \in Bundles
            [] situation = "graph" -> /\ rec.item \in Nodes \cup {b1}
                                      /\ rec.cert = d1 \/ rec.item = p1

MCSpec == MCInit /\ [][MCNext]_<<vars, situation>>
=============================================================================
