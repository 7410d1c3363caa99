---------------------------- MODULE AttemptProofs ----------------------------
(***************************************************************************)
(* Proofs about AttemptJournal and AttemptEvidence, for any Attempts,      *)
(* reports, objects, Bundles, checkpoints, numbers of operations and       *)
(* bounds.  The authority of every operation is that of AgentAccess, whose *)
(* invariant says that it is a certificate that was issued.                *)
(***************************************************************************)
EXTENDS AttemptEvidence, AgentAccessProofs, FiniteSetTheorems

-----------------------------------------------------------------------------
(* The inductive invariant: the journal *)

(* An event that is no decision and, unless an Agent chose its key, has    *)
(* not the key of one.                                                     *)
Plain(e) ==
  e.type \notin Lifecycle /\ (e.type = "reported" \/ e.key \notin DecisionKeys)

(* What an operation on an Attempt may rely on in its phase. *)
WorkFits(w) ==
  /\ w.phase # "idle" => w.attempt \in Attempts
  /\ w.phase \in {"renewing", "noting"} => w.cert \in Certs
  /\ w.phase \in {"renewing", "noting", "reporting", "progressing"} => w.report \in Reports
  /\ w.phase = "deciding" => w.action \in Actions

JournalInv ==
  /\ AccessInv /\ JournalTypeOK
  /\ \A c \in Workers : WorkFits(work[c])
  /\ \A a \in Attempts : Tells(journal[a], attempts[a])

-----------------------------------------------------------------------------
(* The inductive invariant: evidence *)

(* A Bundle on its way into the store, and what it has there already. *)
Carrying == {"placing", "indexing", "putting", "inserting"}
Staging == Carrying \cup {"weighing", "looking", "storing", "sharing", "announcing"}

(* What an upload or a submission may rely on in its phase. *)
UploadFits(u) ==
  /\ u.phase # "idle" => u.attempt \in Attempts /\ u.cert \in Certs
  /\ u.phase # "idle" /\ u.item # NoId => u.attempt = HomeOf[u.item]
  /\ u.phase \in Staging \ Carrying => u.item \in Bundles
  /\ u.phase \in {"checking", "publishing"} => u.item \in Nodes
  /\ u.phase \in Carrying =>
       /\ u.object \in Object /\ u.item \notin Nodes
       /\ u.item \in Bundles =>
            u.object = ManifestOf[u.item] /\ \A o \in RefsOf[u.item] : Stored(o)
  /\ u.phase = "inserting" => u.object \in bytes
  /\ u.phase \in {"looking", "storing"} =>
       \A o \in RefsOf[u.item] \cup {ManifestOf[u.item]} : Stored(o)
  /\ u.phase \in {"renewing", "noting"} /\ u.item = NoId => u.object \in Object
  /\ u.phase = "sharing" => bundles[u.item] = u.cert
  /\ u.phase = "announcing" => shares[u.item] # NoId
  /\ u.phase = "publishing" => Rooted(u.item)

OneEach == \A x, y \in Bundles :
  bundles[x] # NoId /\ bundles[y] # NoId /\ EventIdOf[x] = EventIdOf[y] => x = y

CreditedOnce ==
  \A b \in Bundles :
    /\ shares[b] \in {NoId, bundles[b]}
    /\ \A a \in Attempts : Recorded(a, [type |-> "staged", key |-> <<"staged", b>>])
         => a = HomeOf[b] /\ shares[b] # NoId

EvidenceInv ==
  /\ JournalInv /\ TypeOK
  /\ \A c \in Uploaders : UploadFits(upload[c])
  /\ Backed /\ OneEach /\ CreditedOnce /\ Grounded

-----------------------------------------------------------------------------
(* Journals *)

LEMMA StatusAfterIs ==
  /\ StatusAfter("resumed") = "active" /\ StatusAfter("paused") = "paused"
  /\ StatusAfter("cancelled") = "cancelled" /\ StatusAfter("abandoned") = "abandoned"
BY DEF StatusAfter

LEMMA ActionIs ==
  ASSUME NEW action \in Actions
  PROVE  /\ EventOf[action] \in Lifecycle \ {"cancelled"}
         /\ StatusAfter(EventOf[action]) = To[action]
         /\ To[action] \in {"paused", "active", "abandoned"}
         /\ From[action] \subseteq {"active", "paused"}
         /\ \A type \in Lifecycle : StatusAfter(type) = To[action] => type = EventOf[action]
<1>1. action = "pause" \/ action = "resume" \/ action = "abandon"  BY DEF Actions
<1>2. /\ EventOf["pause"] = "paused" /\ EventOf["resume"] = "resumed"
      /\ EventOf["abandon"] = "abandoned"
  BY DEF EventOf
<1>3. To["pause"] = "paused" /\ To["resume"] = "active" /\ To["abandon"] = "abandoned"
  BY DEF To
<1>4. /\ From["pause"] = {"active"} /\ From["resume"] = {"paused"}
      /\ From["abandon"] = {"active", "paused"}
  BY DEF From
<1>5. \A type \in Lifecycle :
        type = "paused" \/ type = "resumed" \/ type = "cancelled" \/ type = "abandoned"
  BY DEF Lifecycle
<1> QED  BY <1>1, <1>2, <1>3, <1>4, <1>5, StatusAfterIs DEF Lifecycle

(* Keys of decisions differ by their version, and from that of a           *)
(* cancellation.                                                           *)
LEMMA KeysAre ==
  ASSUME NEW row, row.version \in Nat
  PROVE  /\ \A v \in Nat : <<"lifecycle", v>> \in DecisionKeys
         /\ <<"cancelled", 0>> \in DecisionKeys
         /\ \A v \in Nat : <<"lifecycle", v>> # <<"cancelled", 0>>
         /\ \A v \in Nat : KeyOf(row, v) =
              IF v = row.version /\ row.status = "cancelled" THEN <<"cancelled", 0>>
              ELSE <<"lifecycle", v>>
         /\ \A v, w \in Nat : <<"lifecycle", v>> = <<"lifecycle", w>> => v = w
BY DEF KeyOf, DecisionKeys

(* The row as a decision found it and as it leaves it agree about earlier  *)
(* versions, and the decision has a key of its own.                        *)
LEMMA KeysStay ==
  ASSUME NEW row, NEW next, row.version \in Nat, next.version = row.version + 1,
         row.status # "cancelled"
  PROVE  /\ \A v \in 1 .. row.version : KeyOf(next, v) = KeyOf(row, v)
         /\ \A v \in 1 .. row.version : KeyOf(row, v) # KeyOf(next, next.version)
         /\ KeyOf(next, next.version) \in DecisionKeys
         /\ next.version \in Nat /\ next.version # 0 /\ next.version \in 1 .. next.version
         /\ 1 .. next.version = (1 .. row.version) \cup {next.version}
         /\ \A v \in 1 .. row.version : v < next.version /\ v # next.version
<1>1. /\ next.version \in Nat /\ next.version # 0 /\ next.version \in 1 .. next.version
      /\ 1 .. next.version = (1 .. row.version) \cup {next.version}
      /\ \A v \in 1 .. row.version : v < next.version /\ v # next.version /\ v \in Nat
  OBVIOUS
<1>2. \A v \in 1 .. row.version : KeyOf(row, v) = <<"lifecycle", v>>
  BY <1>1, KeysAre
<1>3. \A v \in 1 .. row.version : KeyOf(next, v) = <<"lifecycle", v>>
  BY <1>1, KeysAre
<1>4. /\ KeyOf(next, next.version) \in {<<"cancelled", 0>>, <<"lifecycle", next.version>>}
      /\ KeyOf(next, next.version) \in DecisionKeys
  BY <1>1, KeysAre
<1>5. \A v \in 1 .. row.version : <<"lifecycle", v>> # KeyOf(next, next.version)
  BY <1>1, <1>4, KeysAre
<1> QED  BY <1>1, <1>2, <1>3, <1>4, <1>5

LEMMA AppendIs ==
  ASSUME NEW s \in Seq(Event), NEW e \in Event
  PROVE  /\ Append(s, e) \in Seq(Event) /\ Len(s) \in Nat
         /\ DOMAIN s = 1 .. Len(s) /\ DOMAIN Append(s, e) = 1 .. Len(s) + 1
         /\ Append(s, e)[Len(s) + 1] = e
         /\ \A n \in 1 .. Len(s) : Append(s, e)[n] = s[n] /\ n # Len(s) + 1
OBVIOUS

(* Nothing but a decision changes what a journal tells, and nothing but a  *)
(* report takes the key of a decision.                                     *)
LEMMA AppendPlain ==
  ASSUME NEW s \in Seq(Event), NEW e \in Event, NEW row, Tells(s, row),
         Plain(e),
         \A n \in DOMAIN s : s[n].key # e.key
  PROVE  Tells(Append(s, e), row)
<1> DEFINE t == Append(s, e)
<1>1. /\ Len(s) \in Nat /\ DOMAIN s = 1 .. Len(s) /\ DOMAIN t = 1 .. Len(s) + 1
      /\ t[Len(s) + 1] = e /\ \A n \in DOMAIN s : t[n] = s[n] /\ n # Len(s) + 1
  BY AppendIs
<1>2. \A n \in DOMAIN t : n \in DOMAIN s \/ n = Len(s) + 1  BY <1>1
<1>3. DOMAIN s \subseteq DOMAIN t  BY <1>1
<1> HIDE DEF t
<1>4. DecisionsIn(t) = DecisionsIn(s)  BY <1>1, <1>2, <1>3 DEF DecisionsIn, Plain
<1>5. \A n \in DecisionsIn(s) : t[n] = s[n]  BY <1>1 DEF DecisionsIn
<1>6. \A m, n \in DOMAIN t : t[m].key = t[n].key => m = n  BY <1>1, <1>2 DEF Tells
<1>7. \A v \in 1 .. row.version : \E n \in DOMAIN t : t[n].key = KeyOf(row, v)
  BY <1>1, <1>3 DEF Tells
<1>8. \A n \in DOMAIN t :
        t[n].key \in DecisionKeys => t[n].type \in Lifecycle \cup {"reported"}
  BY <1>1, <1>2 DEF Tells, Plain
<1>9. InOrder(t, row)  BY <1>4, <1>5 DEF Tells, InOrder
<1>10. Tells(t, row)  BY <1>4, <1>5, <1>6, <1>7, <1>8, <1>9 DEF Tells
<1> QED  BY <1>10 DEF t

(* A decision is the next version of the row. *)
LEMMA AppendDecision ==
  ASSUME NEW s \in Seq(Event), NEW e \in Event, NEW row, NEW next, Tells(s, row),
         row.version \in Nat, next.version = row.version + 1,
         row.status # "cancelled",
         e.type \in Lifecycle, next.status = StatusAfter(e.type),
         e.key = KeyOf(next, next.version),
         \A n \in DOMAIN s : s[n].key # e.key
  PROVE  Tells(Append(s, e), next)
<1> DEFINE t == Append(s, e)
           last == Len(s) + 1
<1>1. /\ Len(s) \in Nat /\ DOMAIN s = 1 .. Len(s) /\ DOMAIN t = 1 .. last
      /\ t[last] = e /\ \A n \in DOMAIN s : t[n] = s[n] /\ n # last /\ n < last
      /\ last \in Nat /\ last \notin DOMAIN s /\ last \in DOMAIN t
  BY AppendIs
<1>2. \A n \in DOMAIN t : n \in DOMAIN s \/ n = last  BY <1>1
<1>3. DOMAIN s \subseteq DOMAIN t  BY <1>1
<1> HIDE DEF t, last
<1>4. DecisionsIn(t) = DecisionsIn(s) \cup {last}  BY <1>1, <1>2, <1>3 DEF DecisionsIn
<1>5. \A n \in DecisionsIn(s) : t[n] = s[n] /\ n \in DOMAIN s  BY <1>1 DEF DecisionsIn
<1>0. PICK last_ : last_ = next.version  OBVIOUS
<1>6. /\ \A v \in 1 .. row.version : KeyOf(next, v) = KeyOf(row, v)
      /\ \A v \in 1 .. row.version : KeyOf(row, v) # KeyOf(next, last_)
      /\ last_ \in 1 .. next.version /\ last_ # 0
      /\ 1 .. next.version = (1 .. row.version) \cup {last_}
      /\ \A v \in 1 .. row.version : v < last_ /\ v # last_
  BY <1>0, KeysStay
<1>7. \A m, n \in DOMAIN t : t[m].key = t[n].key => m = n  BY <1>1, <1>2 DEF Tells
<1>8. \A v \in 1 .. next.version : \E n \in DOMAIN t : t[n].key = KeyOf(next, v)
  <2>1. \A v \in 1 .. row.version : \E n \in DOMAIN t : t[n].key = KeyOf(next, v)
    BY <1>1, <1>3, <1>6 DEF Tells
  <2> QED  BY <1>0, <1>1, <1>6, <2>1
<1>9. \A n \in DOMAIN t :
        t[n].key \in DecisionKeys => t[n].type \in Lifecycle \cup {"reported"}
  BY <1>1, <1>2 DEF Tells
<1>10. \A n \in DecisionsIn(s) :
         \E v \in 1 .. row.version : t[n].key = KeyOf(row, v) /\ t[n].key = KeyOf(next, v)
  BY <1>5, <1>6 DEF Tells
<1>11. \A n \in DecisionsIn(t) : \E v \in 1 .. next.version : t[n].key = KeyOf(next, v)
  BY <1>0, <1>1, <1>4, <1>6, <1>10
<1>12. \A n \in DecisionsIn(s) : t[n].key # KeyOf(next, last_)
  BY <1>6, <1>10
<1>13. \A n \in DecisionsIn(t) :
         t[n].key = KeyOf(next, next.version) => next.status = StatusAfter(t[n].type)
  BY <1>0, <1>1, <1>4, <1>12
<1>14. InOrder(t, next)
  <2> SUFFICES ASSUME NEW m \in DecisionsIn(t), NEW n \in DecisionsIn(t),
                      NEW v \in 1 .. next.version, NEW w \in 1 .. next.version,
                      t[m].key = KeyOf(next, v), t[n].key = KeyOf(next, w), m < n
               PROVE  v < w
    BY DEF InOrder
  <2>1. m \in DecisionsIn(s)
    <3>1. last \in Nat /\ \A x \in DecisionsIn(t) : x \in Nat /\ x <= last
      BY <1>1, <1>4, <1>5
    <3>2. m # last  BY <3>1
    <3> QED  BY <1>4, <3>2
  <2>2. v \in 1 .. row.version /\ t[m].key = KeyOf(row, v)
    <3>1. v # last_  BY <1>12, <2>1
    <3> QED  BY <1>6, <3>1
  <2>3. CASE w = last_  BY <1>6, <2>2, <2>3
  <2>4. CASE w # last_
    <3>1. w \in 1 .. row.version /\ t[n].key = KeyOf(row, w)  BY <1>6, <2>4
    <3>2. n \in DecisionsIn(s)
      <4>1. t[last].key = KeyOf(next, last_)  BY <1>0, <1>1
      <4> QED  BY <1>4, <1>6, <3>1, <4>1
    <3> QED  BY <1>5, <2>1, <2>2, <3>1, <3>2 DEF Tells, InOrder
  <2> QED  BY <2>3, <2>4
<1>15. Tells(t, next)
  BY <1>0, <1>6, <1>7, <1>8, <1>9, <1>11, <1>13, <1>14 DEF Tells
<1> QED  BY <1>15 DEF t

(* A decision whose key an Agent took before: the journal, which does not  *)
(* grow, tells the row all the same.                                       *)
LEMMA DroppedDecision ==
  ASSUME NEW s \in Seq(Event), NEW row, NEW next, Tells(s, row),
         row.version \in Nat, next.version = row.version + 1,
         row.status # "cancelled",
         NEW k \in DOMAIN s, s[k].key = KeyOf(next, next.version)
  PROVE  Tells(s, next)
<1>0. PICK last : last = next.version  OBVIOUS
<1>1. /\ \A v \in 1 .. row.version : KeyOf(next, v) = KeyOf(row, v)
      /\ \A v \in 1 .. row.version : KeyOf(row, v) # KeyOf(next, last)
      /\ last \in 1 .. next.version /\ last # 0
      /\ 1 .. next.version = (1 .. row.version) \cup {last}
  BY <1>0, KeysStay
<1>2. \A v \in 1 .. next.version : \E n \in DOMAIN s : s[n].key = KeyOf(next, v)
  BY <1>0, <1>1 DEF Tells
<1>3. \A n \in DecisionsIn(s) :
        \E v \in 1 .. row.version : s[n].key = KeyOf(row, v) /\ s[n].key = KeyOf(next, v)
  <2>1. \A n \in DecisionsIn(s) : \E v \in 1 .. row.version : s[n].key = KeyOf(row, v)
    BY DEF Tells
  <2> QED  BY <1>1, <2>1
<1>4. \A n \in DecisionsIn(s) : s[n].key # KeyOf(next, last)  BY <1>1, <1>3
<1>5. \A n \in DecisionsIn(s) : \E v \in 1 .. next.version : s[n].key = KeyOf(next, v)
  BY <1>1, <1>3
<1>6. InOrder(s, next)
  <2> SUFFICES ASSUME NEW m \in DecisionsIn(s), NEW n \in DecisionsIn(s),
                      NEW v \in 1 .. next.version, NEW w \in 1 .. next.version,
                      s[m].key = KeyOf(next, v), s[n].key = KeyOf(next, w), m < n
               PROVE  v < w
    BY DEF InOrder
  <2>1. v \in 1 .. row.version /\ w \in 1 .. row.version  BY <1>1, <1>4
  <2> QED  BY <1>1, <2>1 DEF Tells, InOrder
<1> QED  BY <1>0, <1>1, <1>2, <1>4, <1>5, <1>6 DEF Tells

LEMMA TellsSame ==
  ASSUME NEW s, NEW row, NEW next, Tells(s, row),
         next.version = row.version, next.status = row.status
  PROVE  Tells(s, next)
<1>1. \A v : KeyOf(next, v) = KeyOf(row, v)  BY DEF KeyOf
<1> HIDE DEF KeyOf
<1>2. InOrder(s, next)  BY <1>1 DEF Tells, InOrder
<1> QED  BY <1>1, <1>2 DEF Tells

LEMMA TellsOpened ==
  ASSUME NEW s \in Seq(Event), NEW row, NEW next, Tells(s, row),
         row.status = "none", next.version = row.version, next.status = "active"
  PROVE  Tells(s, next)
<1>1. \A v : KeyOf(next, v) = KeyOf(row, v)  BY DEF KeyOf
<1>2. \A n \in DecisionsIn(s) : StatusAfter(s[n].type) # "none"
  BY StatusAfterIs DEF DecisionsIn, Lifecycle
<1>3. InOrder(s, next)  BY <1>1 DEF Tells, InOrder
<1>4. \A n \in DecisionsIn(s) : s[n].key # KeyOf(next, next.version)
  BY <1>1, <1>2 DEF Tells
<1> QED  BY <1>1, <1>3, <1>4 DEF Tells

(* The events an operation notes. *)
LEMMA EventsAre ==
  /\ [type |-> "created", key |-> <<"created", 0>>] \in Event
  /\ <<"created", 0>> \notin DecisionKeys
  /\ \A r \in Reports : [type |-> "reported", key |-> r] \in Event
  /\ \A d \in Certs : /\ [type |-> "renewed", key |-> <<"renewed", d>>] \in Event
                       /\ <<"renewed", d>> \notin DecisionKeys
  /\ \A x \in Evidence :
       /\ [type |-> "staged", key |-> <<"staged", x>>] \in Event
       /\ [type |-> "published", key |-> <<"published", x>>] \in Event
       /\ <<"staged", x>> \notin DecisionKeys /\ <<"published", x>> \notin DecisionKeys
  /\ \A type \in Lifecycle : \A v \in Nat :
       [type |-> type, key |-> <<"lifecycle", v>>] \in Event
  /\ [type |-> "cancelled", key |-> <<"cancelled", 0>>] \in Event
<1> DEFINE types == {"created", "reported", "renewed", "staged", "published"} \cup Lifecycle
<1>1. \A type \in types : \A key \in EventKey : [type |-> type, key |-> key] \in Event
  BY DEF Event
<1>2. <<"created", 0>> \in EventKey /\ <<"created", 0>> \notin DecisionKeys
  BY DEF EventKey, DecisionKeys
<1>3. \A r \in Reports : r \in EventKey  BY AttemptsAssumption
<1>4. \A d \in Certs : <<"renewed", d>> \in EventKey /\ <<"renewed", d>> \notin DecisionKeys
  BY DEF EventKey, DecisionKeys
<1>5. \A x \in Evidence :
        /\ <<"staged", x>> \in EventKey /\ <<"staged", x>> \notin DecisionKeys
        /\ <<"published", x>> \in EventKey /\ <<"published", x>> \notin DecisionKeys
  BY DEF EventKey, DecisionKeys
<1>6. \A v \in Nat : <<"lifecycle", v>> \in EventKey  BY DEF EventKey, DecisionKeys
<1>7. <<"cancelled", 0>> \in EventKey  BY DEF EventKey, DecisionKeys
<1>8. "cancelled" \in Lifecycle  BY DEF Lifecycle
<1> HIDE DEF EventKey, DecisionKeys
<1> QED  BY <1>1, <1>2, <1>3, <1>4, <1>5, <1>6, <1>7, <1>8

(* INSERT OR IGNORE: afterwards an event of this key is there. *)
LEMMA NoteIs ==
  ASSUME journal \in [Attempts -> Seq(Event)], NEW a \in Attempts, NEW e \in Event, Note(a, e)
  PROVE  /\ journal' \in [Attempts -> Seq(Event)]
         /\ \A b \in Attempts : b # a => journal'[b] = journal[b]
         /\ \/ Taken(a, e.key) /\ journal'[a] = journal[a]
            \/ ~ Taken(a, e.key) /\ journal'[a] = Append(journal[a], e)
<1>1. CASE Taken(a, e.key) /\ UNCHANGED journal  BY <1>1
<1>2. CASE ~ Taken(a, e.key) /\ journal' = [journal EXCEPT ![a] = Append(journal[a], e)]
  <2>1. Append(journal[a], e) \in Seq(Event)  BY AppendIs
  <2> HIDE DEF Taken
  <2> QED  BY <1>2, <2>1
<1> QED  BY <1>1, <1>2 DEF Note

LEMMA NotedIs ==
  ASSUME journal \in [Attempts -> Seq(Event)], NEW a \in Attempts, NEW e \in Event, Note(a, e)
  PROVE  \A b \in Attempts : \A f :
           Recorded(b, f)' <=> Recorded(b, f) \/ (b = a /\ f = e /\ ~ Taken(a, e.key))
<1> DEFINE taken == Taken(a, e.key)
<1>1. /\ \A b \in Attempts : b # a => journal'[b] = journal[b]
      /\ \/ taken /\ journal'[a] = journal[a]
         \/ ~ taken /\ journal'[a] = Append(journal[a], e)
  BY NoteIs
<1> HIDE DEF taken
<1> SUFFICES ASSUME NEW b \in Attempts, NEW f
             PROVE  Recorded(b, f)' <=> Recorded(b, f) \/ (b = a /\ f = e /\ ~ taken)
  BY DEF taken
<1>2. CASE b # a  BY <1>1, <1>2 DEF Recorded
<1>3. CASE b = a /\ taken /\ journal'[a] = journal[a]
  BY <1>3 DEF Recorded
<1>4. CASE b = a /\ ~ taken /\ journal'[a] = Append(journal[a], e)
  <2> DEFINE s == journal[a]  t == Append(s, e)
  <2>1. s \in Seq(Event)  OBVIOUS
  <2>2. /\ Len(s) \in Nat /\ DOMAIN s = 1 .. Len(s) /\ DOMAIN t = 1 .. Len(s) + 1
        /\ t[Len(s) + 1] = e /\ \A n \in 1 .. Len(s) : t[n] = s[n]
    BY <2>1, AppendIs
  <2>3. \A n \in DOMAIN t : n \in DOMAIN s \/ n = Len(s) + 1  BY <2>2
  <2>4. DOMAIN s \subseteq DOMAIN t /\ Len(s) + 1 \in DOMAIN t  BY <2>2
  <2> HIDE DEF t
  <2>5. (\E n \in DOMAIN t : t[n] = f) <=> (\E n \in DOMAIN s : s[n] = f) \/ f = e
    BY <2>2, <2>3, <2>4
  <2>6. journal'[a] = t  BY <1>4 DEF t
  <2> QED  BY <1>4, <2>5, <2>6 DEF Recorded
<1> QED  BY <1>1, <1>2, <1>3, <1>4

(* An event that decides nothing leaves every journal true. *)
LEMMA PlainNote ==
  ASSUME journal \in [Attempts -> Seq(Event)],
         \A b \in Attempts : Tells(journal[b], attempts[b]),
         NEW a \in Attempts, NEW e \in Event, Plain(e), Note(a, e)
  PROVE  \A b \in Attempts : Tells(journal'[b], attempts[b])
<1>1. /\ \A b \in Attempts : b # a => journal'[b] = journal[b]
      /\ \/ Taken(a, e.key) /\ journal'[a] = journal[a]
         \/ ~ Taken(a, e.key) /\ journal'[a] = Append(journal[a], e)
  BY NoteIs
<1>2. ASSUME ~ Taken(a, e.key) PROVE Tells(Append(journal[a], e), attempts[a])
  <2>1. journal[a] \in Seq(Event) /\ \A n \in DOMAIN journal[a] : journal[a][n].key # e.key
    BY <1>2 DEF Taken
  <2> QED  BY <2>1, AppendPlain
<1> QED  BY <1>1, <1>2

-----------------------------------------------------------------------------
(* Operations on Attempts *)

(* The certificate a request is accepted under was issued. *)
LEMMA AuthorityHeld ==
  ASSUME AccessInv, NEW t \in Pairs, Accepts(t)
  PROVE  installs[pairs[t].install].cert \in Certs
<1>1. pairs[t].status # "none"  BY DEF Accepts
<1>2. Founded(pairs[t].install)  BY <1>1 DEF AccessInv, Ground, PairsGrounded
<1>3. Begun(installs[pairs[t].install].cert)
  BY <1>2 DEF AccessInv, Ground, InstallsGrounded, Founded
<1> QED  BY <1>3 DEF Begun

LEMMA AccessStays ==
  ASSUME AccessInv, UNCHANGED accessVars
  PROVE  AccessInv' /\ AccessTypeOK'
<1>1. AccessInv'  BY AccessStep
<1> QED  BY <1>1 DEF AccessInv, Ground

LEMMA NoWorkFits == NoWork \in Work /\ WorkFits(NoWork) /\ NoAttempt \in AttemptRow
<1>1. NoWork \in Work  BY DEF NoWork, Work, WorkPhases
<1>2. WorkFits(NoWork)  BY DEF NoWork, WorkFits
<1>3. NoAttempt \in AttemptRow  BY DEF NoAttempt, AttemptRow, Status
<1> QED  BY <1>1, <1>2, <1>3

LEMMA WorkMoves ==
  ASSUME JournalInv, UNCHANGED accessVars,
         NEW c \in Workers, NEW rec \in Work, WorkFits(rec), work' = [work EXCEPT ![c] = rec],
         attempts' \in [Attempts -> AttemptRow], journal' \in [Attempts -> Seq(Event)],
         renewed' \subseteq Attempts \X Certs,
         \A a \in Attempts : Tells(journal'[a], attempts'[a])
  PROVE  JournalInv'
<1>1. AccessInv' /\ AccessTypeOK'  BY AccessStays DEF JournalInv
<1>2. work \in [Workers -> Work] /\ \A d \in Workers : WorkFits(work[d])
  BY DEF JournalInv, JournalTypeOK
<1>3. work' \in [Workers -> Work] /\ \A d \in Workers : work'[d] = rec \/ work'[d] = work[d]
  BY <1>2
<1>4. \A d \in Workers : WorkFits(work'[d])  BY <1>2, <1>3
<1>5. JournalTypeOK'  BY <1>1, <1>3 DEF JournalTypeOK
<1>6. (\A d \in Workers : WorkFits(work[d]))'
  BY <1>4 DEF WorkFits
<1>7. (\A a \in Attempts : Tells(journal[a], attempts[a]))'
  BY DEF Tells, InOrder, DecisionsIn, KeyOf
<1> QED  BY <1>1, <1>5, <1>6, <1>7 DEF JournalInv

(* Requests are read, and given up. *)
LEMMA AsksKeep ==
  ASSUME JournalInv, NEW c \in Workers,
         \/ \E t \in Pairs, a \in Attempts :
              AskCreate(c, t, a) \/ \E r \in Reports : AskReport(c, t, a, r)
         \/ \E a \in Attempts, action \in Actions : AskTransition(c, a, action)
         \/ Drop(c)
  PROVE  JournalInv'
<1>1. /\ attempts \in [Attempts -> AttemptRow] /\ journal \in [Attempts -> Seq(Event)]
      /\ renewed \subseteq Attempts \X Certs /\ AccessInv
      /\ \A a \in Attempts : Tells(journal[a], attempts[a])
  BY DEF JournalInv, JournalTypeOK
<1>2. ASSUME NEW rec \in Work, WorkFits(rec), work' = [work EXCEPT ![c] = rec],
             UNCHANGED <<accessVars, research>>
      PROVE  JournalInv'
  <2>1. UNCHANGED <<accessVars, attempts, journal, renewed>>  BY <1>2 DEF research
  <2> QED  BY <1>1, <1>2, <2>1, WorkMoves
<1>3. ASSUME NEW t \in Pairs, NEW a \in Attempts, AskCreate(c, t, a) PROVE JournalInv'
  <2> DEFINE rec == [NoWork EXCEPT !.phase = "creating", !.attempt = a,
                                   !.cert = installs[pairs[t].install].cert]
  <2>1. installs[pairs[t].install].cert \in Certs  BY <1>1, <1>3, AuthorityHeld DEF AskCreate
  <2>2. rec \in Work /\ WorkFits(rec)
    BY <2>1 DEF NoWork, Work, WorkPhases, WorkFits
  <2> HIDE DEF rec
  <2> QED  BY <1>2, <1>3, <2>2 DEF AskCreate, Start, rec
<1>4. ASSUME NEW t \in Pairs, NEW a \in Attempts, NEW r \in Reports, AskReport(c, t, a, r)
      PROVE  JournalInv'
  <2> DEFINE d == installs[pairs[t].install].cert
             phase == IF d = attempts[a].cert THEN "reporting" ELSE "renewing"
             rec == [NoWork EXCEPT !.phase = phase, !.attempt = a, !.cert = d, !.report = r]
  <2>1. d \in Certs  BY <1>1, <1>4, AuthorityHeld DEF AskReport
  <2>2. phase \in {"reporting", "renewing"}  OBVIOUS
  <2> HIDE DEF d, phase
  <2>3. rec \in Work /\ WorkFits(rec)
    BY <2>1, <2>2 DEF NoWork, Work, WorkPhases, WorkFits
  <2> HIDE DEF rec
  <2> QED  BY <1>2, <1>4, <2>3 DEF AskReport, Start, rec, phase, d
<1>5. ASSUME NEW a \in Attempts, NEW action \in Actions, AskTransition(c, a, action)
      PROVE  JournalInv'
  <2> DEFINE rec == [NoWork EXCEPT !.phase = "deciding", !.attempt = a, !.action = action,
                                   !.version = attempts[a].version]
  <2>1. attempts[a].version \in Nat  BY <1>1 DEF AttemptRow
  <2>2. rec \in Work /\ WorkFits(rec)
    BY <2>1 DEF NoWork, Work, WorkPhases, WorkFits
  <2> HIDE DEF rec
  <2> QED  BY <1>2, <1>5, <2>2 DEF AskTransition, Start, rec
<1>6. CASE Drop(c)
  BY <1>2, <1>6, NoWorkFits DEF Drop, Finish
<1> QED  BY <1>3, <1>4, <1>5, <1>6

LEMMA GoIs ==
  ASSUME JournalTypeOK, NEW c \in Workers, NEW phase \in WorkPhases, Go(c, phase)
  PROVE  \E rec \in Work :
           /\ work' = [work EXCEPT ![c] = rec] /\ rec.phase = phase
           /\ rec.attempt = work[c].attempt /\ rec.cert = work[c].cert
           /\ rec.report = work[c].report /\ rec.action = work[c].action
<1> DEFINE rec == [work[c] EXCEPT !.phase = phase]
<1>1. work[c] \in Work  BY DEF JournalTypeOK
<1>2. /\ rec \in Work /\ rec.phase = phase
      /\ rec.attempt = work[c].attempt /\ rec.cert = work[c].cert
      /\ rec.report = work[c].report /\ rec.action = work[c].action
  BY <1>1 DEF Work
<1>3. work' = [work EXCEPT ![c] = rec]  BY DEF Go
<1> HIDE DEF rec
<1> QED  BY <1>2, <1>3

LEMMA CreateKeeps ==
  ASSUME JournalInv, NEW c \in Workers, Create(c)
  PROVE  JournalInv'
<1>0. PICK a : a = work[c].attempt  OBVIOUS
<1>1. /\ work[c].phase = "creating" /\ Go(c, "opening")
      /\ UNCHANGED <<accessVars, journal, renewed>>
  BY DEF Create
<1>2. /\ JournalTypeOK /\ WorkFits(work[c]) /\ work[c] \in Work
      /\ attempts \in [Attempts -> AttemptRow] /\ journal \in [Attempts -> Seq(Event)]
      /\ renewed \subseteq Attempts \X Certs
      /\ \A b \in Attempts : Tells(journal[b], attempts[b])
  BY DEF JournalInv, JournalTypeOK
<1>3. a \in Attempts /\ work[c].cert \in Certs \cup {NoId} /\ attempts[a] \in AttemptRow
  BY <1>0, <1>1, <1>2 DEF WorkFits, Work
<1>4. PICK rec \in Work : work' = [work EXCEPT ![c] = rec] /\ rec.phase = "opening"
                          /\ rec.attempt = a
  BY <1>0, <1>1, <1>2, GoIs DEF WorkPhases
<1>5. WorkFits(rec)  BY <1>3, <1>4 DEF WorkFits
<1>6. CASE UNCHANGED attempts
  BY <1>1, <1>2, <1>4, <1>5, <1>6, WorkMoves
<1>7. CASE /\ attempts[a].status = "none"
           /\ attempts' = [attempts EXCEPT ![a].status = "active", ![a].cert = work[c].cert]
  <2> DEFINE row == [attempts[a] EXCEPT !.status = "active", !.cert = work[c].cert]
  <2>1. /\ row \in AttemptRow /\ row.status = "active" /\ row.version = attempts[a].version
    BY <1>3 DEF AttemptRow, Status
  <2>2. attempts' = [attempts EXCEPT ![a] = row]  BY <1>7
  <2> HIDE DEF row
  <2>3. attempts' \in [Attempts -> AttemptRow]  BY <1>2, <2>1, <2>2
  <2>4. Tells(journal[a], row)  BY <1>2, <1>3, <1>7, <2>1, TellsOpened
  <2>5. \A b \in Attempts : Tells(journal'[b], attempts'[b])
    BY <1>1, <1>2, <2>2, <2>4
  <2> QED  BY <1>1, <1>2, <1>4, <1>5, <2>3, <2>5, WorkMoves
<1> QED  BY <1>0, <1>6, <1>7 DEF Create

LEMMA OpenKeeps ==
  ASSUME JournalInv, NEW c \in Workers, Open(c)
  PROVE  JournalInv'
<1>0. PICK a : a = work[c].attempt  OBVIOUS
<1> DEFINE e == [type |-> "created", key |-> <<"created", 0>>]
<1>1. /\ work[c].phase = "opening" /\ work' = [work EXCEPT ![c] = NoWork]
      /\ UNCHANGED <<accessVars, attempts, renewed>>
      /\ journal' = IF journal[a] = << >> THEN [journal EXCEPT ![a] = <<e>>] ELSE journal
  BY <1>0 DEF Open, Finish
<1>2. /\ JournalTypeOK /\ WorkFits(work[c])
      /\ attempts \in [Attempts -> AttemptRow] /\ journal \in [Attempts -> Seq(Event)]
      /\ renewed \subseteq Attempts \X Certs
      /\ \A b \in Attempts : Tells(journal[b], attempts[b])
  BY DEF JournalInv, JournalTypeOK
<1>3. a \in Attempts  BY <1>0, <1>1, <1>2 DEF WorkFits
<1>4. e \in Event /\ Plain(e)  BY EventsAre DEF Plain, Lifecycle
<1> HIDE DEF e
<1>5. CASE journal[a] = << >>
  <2>1. Append(journal[a], e) = <<e>> /\ <<e>> \in Seq(Event)  BY <1>4, <1>5
  <2>2. \A n \in DOMAIN journal[a] : journal[a][n].key # e.key  BY <1>5
  <2>3. Tells(Append(journal[a], e), attempts[a])
    BY <1>2, <1>3, <1>4, <2>2, AppendPlain
  <2>4. journal' \in [Attempts -> Seq(Event)]  BY <1>1, <1>2, <1>5, <2>1
  <2>5. \A b \in Attempts : Tells(journal'[b], attempts'[b])
    BY <1>1, <1>2, <1>5, <2>1, <2>3
  <2> QED  BY <1>1, <1>2, <2>4, <2>5, NoWorkFits, WorkMoves
<1>6. CASE journal[a] # << >>
  BY <1>1, <1>2, <1>6, NoWorkFits, WorkMoves
<1> QED  BY <1>5, <1>6

(* Renewals of the authority and progress reports. *)
LEMMA ReportsKeep ==
  ASSUME JournalInv, NEW c \in Workers,
         Renew(c) \/ NoteRenewal(c) \/ Report(c) \/ Progress(c)
  PROVE  JournalInv'
<1>0. PICK a, d, r : a = work[c].attempt /\ d = work[c].cert /\ r = work[c].report
  OBVIOUS
<1>1. /\ JournalTypeOK /\ WorkFits(work[c]) /\ work[c] \in Work
      /\ attempts \in [Attempts -> AttemptRow] /\ journal \in [Attempts -> Seq(Event)]
      /\ renewed \subseteq Attempts \X Certs
      /\ \A b \in Attempts : Tells(journal[b], attempts[b])
  BY DEF JournalInv, JournalTypeOK
<1>2. a \in Attempts /\ r \in Reports
  BY <1>0, <1>1 DEF WorkFits, Renew, NoteRenewal, Report, Progress
<1>3. ASSUME NEW phase \in {"noting", "reporting", "progressing"}, Go(c, phase),
             phase = "noting" => d \in Certs
      PROVE  \E rec \in Work : WorkFits(rec) /\ work' = [work EXCEPT ![c] = rec]
  <2>1. PICK rec \in Work :
          /\ work' = [work EXCEPT ![c] = rec] /\ rec.phase = phase
          /\ rec.attempt = a /\ rec.cert = d /\ rec.report = r
    <3>1. phase \in WorkPhases  BY DEF WorkPhases
    <3> QED  BY <1>0, <1>1, <1>3, <3>1, GoIs
  <2>2. WorkFits(rec)  BY <1>2, <1>3, <2>1 DEF WorkFits
  <2> QED  BY <2>1, <2>2
<1>4. ASSUME Finish(c)
      PROVE  \E rec \in Work : WorkFits(rec) /\ work' = [work EXCEPT ![c] = rec]
  BY <1>4, NoWorkFits DEF Finish
<1>5. ASSUME NEW e \in Event, Plain(e), Note(a, e)
      PROVE  /\ journal' \in [Attempts -> Seq(Event)]
             /\ \A b \in Attempts : Tells(journal'[b], attempts[b])
  BY <1>1, <1>2, <1>5, NoteIs, PlainNote
<1>6. CASE Renew(c)
  <2> DEFINE phase == IF <<a, d>> \in renewed THEN "reporting" ELSE "noting"
  <2>1. d \in Certs  BY <1>0, <1>1, <1>6 DEF Renew, WorkFits
  <2>2. phase \in {"noting", "reporting", "progressing"}  OBVIOUS
  <2>3. Go(c, phase) /\ UNCHANGED <<accessVars, attempts, journal>>
        /\ renewed' = renewed \cup {<<a, d>>}
    BY <1>0, <1>6 DEF Renew
  <2> HIDE DEF phase
  <2>4. PICK rec \in Work : WorkFits(rec) /\ work' = [work EXCEPT ![c] = rec]
    BY <1>3, <2>1, <2>2, <2>3
  <2>5. renewed' \subseteq Attempts \X Certs  BY <1>1, <1>2, <2>1, <2>3
  <2>6. /\ attempts' \in [Attempts -> AttemptRow] /\ journal' \in [Attempts -> Seq(Event)]
        /\ \A b \in Attempts : Tells(journal'[b], attempts'[b])
    BY <1>1, <2>3
  <2> QED  BY <2>3, <2>4, <2>5, <2>6, WorkMoves
<1>7. CASE NoteRenewal(c)
  <2> DEFINE e == [type |-> "renewed", key |-> <<"renewed", d>>]
  <2>1. /\ d \in Certs /\ Note(a, e) /\ Go(c, "reporting")
        /\ UNCHANGED <<accessVars, attempts, renewed>>
    BY <1>0, <1>1, <1>7 DEF NoteRenewal, WorkFits
  <2>2. e \in Event /\ Plain(e)  BY <2>1, EventsAre DEF Plain, Lifecycle
  <2> HIDE DEF e
  <2>3. PICK rec \in Work : WorkFits(rec) /\ work' = [work EXCEPT ![c] = rec]
    BY <1>3, <2>1
  <2>4. /\ attempts' \in [Attempts -> AttemptRow] /\ journal' \in [Attempts -> Seq(Event)]
        /\ renewed' \subseteq Attempts \X Certs
        /\ \A b \in Attempts : Tells(journal'[b], attempts'[b])
    BY <1>1, <1>5, <2>1, <2>2
  <2> QED  BY <2>1, <2>3, <2>4, WorkMoves
<1>8. CASE Report(c)
  <2> DEFINE e == [type |-> "reported", key |-> r]
  <2>1. /\ Note(a, e) /\ (Finish(c) \/ Go(c, "progressing"))
        /\ UNCHANGED <<accessVars, attempts, renewed>>
    BY <1>0, <1>8 DEF Report
  <2>2. e \in Event /\ Plain(e)  BY <1>2, EventsAre DEF Plain, Lifecycle
  <2> HIDE DEF e
  <2>3. PICK rec \in Work : WorkFits(rec) /\ work' = [work EXCEPT ![c] = rec]
    BY <1>3, <1>4, <2>1
  <2>4. /\ attempts' \in [Attempts -> AttemptRow] /\ journal' \in [Attempts -> Seq(Event)]
        /\ renewed' \subseteq Attempts \X Certs
        /\ \A b \in Attempts : Tells(journal'[b], attempts'[b])
    BY <1>1, <1>5, <2>1, <2>2
  <2> QED  BY <2>1, <2>3, <2>4, WorkMoves
<1>9. CASE Progress(c)
  <2> DEFINE row == [attempts[a] EXCEPT !.progress = r]
  <2>1. /\ attempts' = [attempts EXCEPT ![a] = row] /\ Finish(c)
        /\ UNCHANGED <<accessVars, journal, renewed>>
    BY <1>0, <1>9 DEF Progress
  <2>2. attempts[a] \in AttemptRow  BY <1>1, <1>2
  <2>3. /\ row \in AttemptRow /\ row.version = attempts[a].version
        /\ row.status = attempts[a].status
    BY <1>2, <2>2 DEF AttemptRow
  <2> HIDE DEF row
  <2>4. Tells(journal[a], row)  BY <1>1, <1>2, <2>3, TellsSame
  <2>5. /\ attempts' \in [Attempts -> AttemptRow] /\ journal' \in [Attempts -> Seq(Event)]
        /\ renewed' \subseteq Attempts \X Certs
        /\ \A b \in Attempts : Tells(journal'[b], attempts'[b])
    BY <1>1, <2>1, <2>3, <2>4
  <2>6. PICK rec \in Work : WorkFits(rec) /\ work' = [work EXCEPT ![c] = rec]
    BY <1>4, <2>1
  <2> QED  BY <2>1, <2>5, <2>6, WorkMoves
<1> QED  BY <1>6, <1>7, <1>8, <1>9

-----------------------------------------------------------------------------
(* Decisions of the owner *)

(* A decision and its event, together. *)
LEMMA DecisionTells ==
  ASSUME JournalInv, NEW a \in Attempts, NEW e \in Event, NEW row \in AttemptRow,
         attempts[a].status # "cancelled", row.version = attempts[a].version + 1,
         e.type \in Lifecycle, row.status = StatusAfter(e.type),
         e.key = KeyOf(row, row.version),
         attempts' = [attempts EXCEPT ![a] = row], Note(a, e)
  PROVE  /\ attempts' \in [Attempts -> AttemptRow] /\ journal' \in [Attempts -> Seq(Event)]
         /\ \A b \in Attempts : Tells(journal'[b], attempts'[b])
<1>1. /\ attempts \in [Attempts -> AttemptRow] /\ journal \in [Attempts -> Seq(Event)]
      /\ \A b \in Attempts : Tells(journal[b], attempts[b])
  BY DEF JournalInv, JournalTypeOK
<1>0. PICK s, old : s = journal[a] /\ old = attempts[a]  OBVIOUS
<1>2. s \in Seq(Event) /\ old.version \in Nat /\ Tells(s, old)
  BY <1>0, <1>1 DEF AttemptRow
<1>3. row.version = old.version + 1 /\ old.status # "cancelled"  BY <1>0
<1>4. /\ journal' \in [Attempts -> Seq(Event)]
      /\ \A b \in Attempts : b # a => journal'[b] = journal[b]
      /\ \/ Taken(a, e.key) /\ journal'[a] = s
         \/ ~ Taken(a, e.key) /\ journal'[a] = Append(s, e)
  BY <1>0, <1>1, NoteIs
<1>5. Tells(journal'[a], row)
  <2>1. CASE Taken(a, e.key) /\ journal'[a] = s
    <3>1. PICK k \in DOMAIN s : s[k].key = KeyOf(row, row.version)
      BY <1>0, <2>1 DEF Taken
    <3>2. Tells(s, row)  BY <1>2, <1>3, <3>1, DroppedDecision
    <3> QED  BY <2>1, <3>2
  <2>2. CASE ~ Taken(a, e.key) /\ journal'[a] = Append(s, e)
    <3>1. \A n \in DOMAIN s : s[n].key # e.key  BY <1>0, <2>2 DEF Taken
    <3>2. Tells(Append(s, e), row)  BY <1>2, <1>3, <3>1, AppendDecision
    <3> QED  BY <2>2, <3>2
  <2> QED  BY <1>4, <2>1, <2>2
<1>6. attempts' \in [Attempts -> AttemptRow]  BY <1>1
<1>7. \A b \in Attempts : Tells(journal'[b], attempts'[b])
  BY <1>0, <1>1, <1>4, <1>5
<1> QED  BY <1>4, <1>6, <1>7

LEMMA TransitionKeeps ==
  ASSUME JournalInv, NEW c \in Workers, Transition(c)
  PROVE  JournalInv'
<1>0. PICK a, action, next :
        a = work[c].attempt /\ action = work[c].action /\ next = work[c].version + 1
  OBVIOUS
<1> DEFINE taken == [attempts[a] EXCEPT !.status = To[action], !.version = next]
           row == IF Matches(c) THEN taken ELSE attempts[a]
           e == [type |-> EventOf[action], key |-> <<"lifecycle", next>>]
<1>1. /\ work[c].phase = "deciding" /\ work' = [work EXCEPT ![c] = NoWork]
      /\ attempts' = [attempts EXCEPT ![a] = row]
      /\ IF row.status = To[action] /\ row.version = next THEN Note(a, e)
         ELSE UNCHANGED journal
      /\ UNCHANGED <<accessVars, renewed>>
  BY <1>0 DEF Transition, Finish
<1>2. /\ JournalTypeOK /\ WorkFits(work[c]) /\ work[c] \in Work
      /\ attempts \in [Attempts -> AttemptRow] /\ journal \in [Attempts -> Seq(Event)]
      /\ renewed \subseteq Attempts \X Certs
      /\ \A b \in Attempts : Tells(journal[b], attempts[b])
  BY DEF JournalInv, JournalTypeOK
<1>3. /\ a \in Attempts /\ action \in Actions /\ next \in Nat /\ next # 0
      /\ attempts[a] \in AttemptRow
  BY <1>0, <1>1, <1>2 DEF WorkFits, Work
<1>4. e \in Event /\ e.type \in Lifecycle /\ e.key = <<"lifecycle", next>>
      /\ StatusAfter(e.type) = To[action] /\ To[action] # "cancelled"
  BY <1>3, ActionIs, EventsAre
<1>5. /\ attempts' \in [Attempts -> AttemptRow] /\ journal' \in [Attempts -> Seq(Event)]
      /\ \A b \in Attempts : Tells(journal'[b], attempts'[b])
  <2>1. CASE Matches(c)
    <3>1. attempts[a].status \in From[action] /\ next = attempts[a].version + 1
      BY <1>0, <2>1 DEF Matches
    <3>2. attempts[a].status # "cancelled"  BY <1>3, <3>1, ActionIs
    <3>3. To[action] \in Status  BY <1>3, ActionIs DEF Status
    <3>4. taken \in AttemptRow /\ taken.status = To[action] /\ taken.version = next
      BY <1>3, <3>3 DEF AttemptRow
    <3>5. attempts' = [attempts EXCEPT ![a] = taken] /\ Note(a, e)
      BY <1>1, <2>1, <3>4
    <3> HIDE DEF taken, e
    <3>6. e.key = KeyOf(taken, taken.version)  BY <1>4, <3>4 DEF KeyOf
    <3> QED  BY <1>3, <1>4, <3>1, <3>2, <3>4, <3>5, <3>6, DecisionTells
  <2>2. CASE ~ Matches(c)
    <3>1. UNCHANGED attempts  BY <1>1, <1>2, <1>3, <2>2
    <3>2. UNCHANGED journal
      <4>1. CASE ~ (attempts[a].status = To[action] /\ attempts[a].version = next)
        BY <1>1, <2>2, <4>1
      <4>2. CASE attempts[a].status = To[action] /\ attempts[a].version = next
        <5>1. Note(a, e)  BY <1>1, <2>2, <4>2
        <5>2. Taken(a, e.key)
          <6>1. attempts[a].version \in 1 .. attempts[a].version
            BY <1>3, <4>2
          <6>2. KeyOf(attempts[a], attempts[a].version) = e.key
            BY <1>4, <4>2 DEF KeyOf
          <6>3. \E n \in DOMAIN journal[a] :
                  journal[a][n].key = KeyOf(attempts[a], attempts[a].version)
            BY <1>2, <1>3, <6>1 DEF Tells
          <6> HIDE DEF e
          <6> QED  BY <6>2, <6>3 DEF Taken
        <5> QED  BY <5>1, <5>2 DEF Note
      <4> QED  BY <4>1, <4>2
    <3> QED  BY <1>2, <3>1, <3>2
  <2> QED  BY <2>1, <2>2
<1> QED  BY <1>1, <1>2, <1>5, NoWorkFits, WorkMoves

LEMMA CancelTells ==
  ASSUME JournalInv, NEW a \in Attempts, Cancel(a)
  PROVE  /\ attempts' \in [Attempts -> AttemptRow] /\ journal' \in [Attempts -> Seq(Event)]
         /\ \A b \in Attempts : Tells(journal'[b], attempts'[b])
<1> DEFINE next == attempts[a].version + 1
           row == [attempts[a] EXCEPT !.status = "cancelled", !.version = next]
           e == [type |-> "cancelled", key |-> <<"cancelled", 0>>]
<1>0. next \in Nat  BY DEF JournalInv, JournalTypeOK, AttemptRow
<1>1. /\ attempts[a].status = "active" /\ attempts' = [attempts EXCEPT ![a] = row]
      /\ Note(a, e)
  BY DEF Cancel
<1>2. attempts[a] \in AttemptRow  BY DEF JournalInv, JournalTypeOK
<1> HIDE DEF next
<1>3. row \in AttemptRow /\ row.status = "cancelled" /\ row.version = next
  BY <1>0, <1>2 DEF AttemptRow, Status
<1>4. e \in Event /\ e.type \in Lifecycle /\ e.key = <<"cancelled", 0>>
      /\ StatusAfter(e.type) = "cancelled"
  BY StatusAfterIs, EventsAre DEF Lifecycle
<1> HIDE DEF row, e
<1>5. e.key = KeyOf(row, row.version)  BY <1>3, <1>4 DEF KeyOf
<1> QED  BY <1>1, <1>3, <1>4, <1>5, DecisionTells DEF next

LEMMA CancelKeeps ==
  ASSUME JournalInv, NEW a \in Attempts, Cancel(a)
  PROVE  JournalInv'
<1>1. UNCHANGED <<accessVars, renewed, work>>  BY DEF Cancel
<1>2. /\ attempts' \in [Attempts -> AttemptRow] /\ journal' \in [Attempts -> Seq(Event)]
      /\ \A b \in Attempts : Tells(journal'[b], attempts'[b])
  BY CancelTells
<1>3. AccessInv' /\ AccessTypeOK'  BY <1>1, AccessStays DEF JournalInv
<1>4. JournalTypeOK'  BY <1>1, <1>2, <1>3 DEF JournalInv, JournalTypeOK
<1>5. (\A c \in Workers : WorkFits(work[c]))'
  BY <1>1 DEF JournalInv, WorkFits
<1>6. (\A b \in Attempts : Tells(journal[b], attempts[b]))'
  BY <1>2 DEF Tells, InOrder, DecisionsIn, KeyOf
<1> QED  BY <1>3, <1>4, <1>5, <1>6 DEF JournalInv

LEMMA WorkStep ==
  ASSUME JournalInv, WorkNext
  PROVE  JournalInv'
<1>1. ASSUME NEW c \in Workers,
             \/ \E t \in Pairs, a \in Attempts :
                  AskCreate(c, t, a) \/ \E r \in Reports : AskReport(c, t, a, r)
             \/ \E a \in Attempts, action \in Actions : AskTransition(c, a, action)
             \/ Drop(c)
      PROVE  JournalInv'
  BY <1>1, AsksKeep
<1>2. ASSUME NEW c \in Workers, Create(c) PROVE JournalInv'  BY <1>2, CreateKeeps
<1>3. ASSUME NEW c \in Workers, Open(c) PROVE JournalInv'  BY <1>3, OpenKeeps
<1>4. ASSUME NEW c \in Workers, Renew(c) \/ NoteRenewal(c) \/ Report(c) \/ Progress(c)
      PROVE  JournalInv'
  BY <1>4, ReportsKeep
<1>5. ASSUME NEW c \in Workers, Transition(c) PROVE JournalInv'  BY <1>5, TransitionKeeps
<1>6. ASSUME NEW a \in Attempts, Cancel(a) PROVE JournalInv'  BY <1>6, CancelKeeps
<1> QED  BY <1>1, <1>2, <1>3, <1>4, <1>5, <1>6 DEF WorkNext

(* A step of AgentAccess, or none. *)
LEMMA AuthorityStep ==
  ASSUME JournalInv, [AccessNext]_accessVars, UNCHANGED <<research, work>>
  PROVE  JournalInv'
<1>1. AccessInv'  BY AccessStep DEF JournalInv
<1>2. AccessTypeOK'  BY <1>1 DEF AccessInv, Ground
<1>3. UNCHANGED <<attempts, journal, renewed, work>>  BY DEF research
<1>4. JournalTypeOK'  BY <1>2, <1>3 DEF JournalInv, JournalTypeOK
<1>5. (\A c \in Workers : WorkFits(work[c]))'
  BY <1>3 DEF JournalInv, WorkFits
<1>6. (\A b \in Attempts : Tells(journal[b], attempts[b]))'
  BY <1>3 DEF JournalInv, Tells, InOrder, DecisionsIn, KeyOf
<1> QED  BY <1>1, <1>4, <1>5, <1>6 DEF JournalInv

LEMMA JournalStep ==
  ASSUME JournalInv, [JournalNext]_journalVars
  PROVE  JournalInv'
<1>1. CASE AccessNext /\ UNCHANGED <<research, work>>  BY <1>1, AuthorityStep
<1>2. CASE WorkNext  BY <1>2, WorkStep
<1>3. CASE UNCHANGED journalVars  BY <1>3, AuthorityStep DEF journalVars
<1> QED  BY <1>1, <1>2, <1>3 DEF JournalNext

LEMMA JournalInvInit == JournalInit => JournalInv
<1> SUFFICES ASSUME JournalInit PROVE JournalInv
  OBVIOUS
<1>1. AccessInv  BY AccessInvInit DEF JournalInit
<1>2. AccessTypeOK  BY <1>1 DEF AccessInv, Ground
<1>3. \A c \in Workers : work[c] = NoWork  BY DEF JournalInit
<1>4. \A c \in Workers : WorkFits(work[c])  BY <1>3, NoWorkFits
<1>5. JournalTypeOK
  BY <1>2, NoWorkFits DEF JournalInit, JournalTypeOK
<1>6. Tells(<< >>, NoAttempt)
  <2> DEFINE s == << >>
  <2>1. DOMAIN s = {}  OBVIOUS
  <2> HIDE DEF s
  <2>2. DecisionsIn(s) = {}  BY <2>1 DEF DecisionsIn
  <2>3. NoAttempt.version = 0 /\ NoAttempt.status = "none"  BY DEF NoAttempt
  <2>4. 1 .. NoAttempt.version = {}  BY <2>3
  <2>5. Tells(s, NoAttempt)  BY <2>1, <2>2, <2>3, <2>4 DEF Tells, InOrder
  <2> QED  BY <2>5 DEF s
<1>7. \A a \in Attempts : Tells(journal[a], attempts[a])  BY <1>6 DEF JournalInit
<1> QED  BY <1>1, <1>4, <1>5, <1>7 DEF JournalInv

LEMMA TellsTheRow == JournalInv => JournalTellsRow
BY DEF JournalInv, JournalTellsRow

(* The journal of every Attempt tells its row, whoever raced, died or      *)
(* retried: each version has its decision, or a report that took its key   *)
(* (db/repositories/mcp, d1-gateway-store).                                *)
THEOREM JournalAlwaysTells == JournalSpec => []JournalTellsRow
<1>1. JournalInit => JournalInv  BY JournalInvInit
<1>2. JournalInv /\ [JournalNext]_journalVars => JournalInv'  BY JournalStep
<1>3. JournalInv => JournalTellsRow  BY TellsTheRow
<1> QED  BY <1>1, <1>2, <1>3, PTL DEF JournalSpec

-----------------------------------------------------------------------------
(* Evidence: what stays *)

(* Nothing that is stored, staged, credited or published is taken away. *)
Grows ==
  /\ bytes \subseteq bytes'
  /\ \A x \in Contents : objects[x] # NoId => objects'[x] = objects[x]
  /\ \A b \in Bundles : bundles[b] # NoId => bundles'[b] = bundles[b]
  /\ \A b \in Bundles : shares[b] # NoId => shares'[b] = shares[b]
  /\ nodes \subseteq nodes'

(* No event of a Bundle or a checkpoint. *)
NoNews ==
  \A a \in Attempts : \A e : e.type \in {"staged", "published"} =>
    (Recorded(a, e)' <=> Recorded(a, e))

LEMMA StoredStays ==
  ASSUME Grows
  PROVE  /\ \A o \in Object : Stored(o) => Stored(o)'
         /\ \A p \in Nodes : Rooted(p) => Rooted(p)'
<1>1. ASSUME NEW o \in Object, Stored(o) PROVE Stored(o)'
  <2>1. o[1] \in Contents /\ o[2] # NoId  BY EvidenceAssumption DEF Object
  <2> QED  BY <1>1, <2>1 DEF Stored, Grows
<1>2. ASSUME NEW p \in Nodes, Rooted(p) PROVE Rooted(p)'
  <2>1. CitesOf[p] \subseteq Bundles  BY EvidenceAssumption
  <2> QED  BY <1>2, <2>1 DEF Rooted, Grows
<1> QED  BY <1>1, <1>2

LEMMA FitsStays ==
  ASSUME Grows, NEW u \in Upload, UploadFits(u)
  PROVE  UploadFits(u)'
<1>1. /\ \A o \in Object : Stored(o) => Stored(o)'
      /\ \A p \in Nodes : Rooted(p) => Rooted(p)'
  BY StoredStays
<1>2. u.item \in Bundles => RefsOf[u.item] \cup {ManifestOf[u.item]} \subseteq Object
  BY EvidenceAssumption
<1>3. u.phase = "sharing" => u.cert # NoId /\ u.item \in Bundles
  BY AccessAssumption DEF UploadFits, Staging, Carrying
<1>4. u.phase \in {"looking", "storing", "announcing"} => u.item \in Bundles
  BY DEF UploadFits, Staging, Carrying
<1>5. u.phase = "sharing" => bundles'[u.item] = u.cert
  BY <1>3 DEF UploadFits, Grows
<1>6. u.phase = "announcing" => shares'[u.item] # NoId
  BY <1>4 DEF UploadFits, Grows
<1>7. u.phase = "publishing" => Rooted(u.item)'
  BY <1>1 DEF UploadFits
<1>8. u.phase \in {"looking", "storing"} =>
        \A o \in RefsOf[u.item] \cup {ManifestOf[u.item]} : Stored(o)'
  BY <1>1, <1>2, <1>4 DEF UploadFits
<1>9. u.phase \in Carrying =>
       /\ u.object \in Object /\ u.item \notin Nodes
       /\ u.item \in Bundles =>
            u.object = ManifestOf[u.item] /\ \A o \in RefsOf[u.item] : Stored(o)'
  BY <1>1, <1>2 DEF UploadFits
<1>10. u.phase = "inserting" => u.object \in bytes'
  BY DEF UploadFits, Grows
<1> HIDE DEF Stored, Rooted
<1> QED  BY <1>5, <1>6, <1>7, <1>8, <1>9, <1>10 DEF UploadFits

LEMMA UploadsFit ==
  ASSUME Grows, upload \in [Uploaders -> Upload], \A d \in Uploaders : UploadFits(upload[d]),
         NEW c \in Uploaders, NEW rec \in Upload, UploadFits(rec)',
         upload' = [upload EXCEPT ![c] = rec]
  PROVE  upload' \in [Uploaders -> Upload] /\ (\A d \in Uploaders : UploadFits(upload[d]))'
<1>1. upload' \in [Uploaders -> Upload]  OBVIOUS
<1>2. ASSUME NEW d \in Uploaders PROVE UploadFits(upload[d])'
  <2>1. PICK u : u = upload'[d]  OBVIOUS
  <2>2. UploadFits(u)'
    <3>1. CASE d = c  BY <2>1, <3>1
    <3>2. CASE d # c
      <4>1. u \in Upload /\ UploadFits(u)  BY <2>1, <3>2
      <4> QED  BY <4>1, FitsStays
    <3> QED  BY <3>1, <3>2
  <2> QED  BY <2>1, <2>2
<1> QED  BY <1>1, <1>2

LEMMA BackedStays ==
  ASSUME Backed, Grows, UNCHANGED <<objects, bundles>>
  PROVE  Backed'
<1>1. \A x \in Contents : objects[x] # NoId => <<x, objects[x]>> \in bytes'
  BY DEF Backed, Grows
<1>2. ASSUME NEW b \in Bundles, bundles[b] # NoId,
             NEW o \in RefsOf[b] \cup {ManifestOf[b]}
      PROVE  Stored(o)'
  <2>1. o \in Object  BY EvidenceAssumption
  <2> QED  BY <1>2, <2>1, StoredStays DEF Backed
<1> HIDE DEF Stored
<1> QED  BY <1>1, <1>2 DEF Backed

LEMMA CreditedStays ==
  ASSUME CreditedOnce, Grows, NoNews, UNCHANGED shares
  PROVE  CreditedOnce'
<1>1. ASSUME NEW b \in Bundles PROVE shares'[b] \in {NoId, bundles'[b]}
  BY DEF CreditedOnce, Grows
<1>2. ASSUME NEW b \in Bundles, NEW a \in Attempts,
             Recorded(a, [type |-> "staged", key |-> <<"staged", b>>])'
      PROVE  a = HomeOf[b] /\ shares'[b] # NoId
  <2>1. Recorded(a, [type |-> "staged", key |-> <<"staged", b>>])  BY <1>2 DEF NoNews
  <2> QED  BY <2>1 DEF CreditedOnce
<1> HIDE DEF Recorded
<1> QED  BY <1>1, <1>2 DEF CreditedOnce

LEMMA GroundedStays ==
  ASSUME Grounded, Grows, NoNews, UNCHANGED nodes
  PROVE  Grounded'
<1>1. \A p \in Nodes : p \in nodes' => Rooted(p)'
  BY StoredStays DEF Grounded
<1>2. ASSUME NEW p \in Nodes, NEW a \in Attempts
      PROVE  Recorded(a, [type |-> "published", key |-> <<"published", p>>])' <=> a = HomeOf[p] /\ p \in nodes'
  <2>1. Recorded(a, [type |-> "published", key |-> <<"published", p>>])'
          <=> Recorded(a, [type |-> "published", key |-> <<"published", p>>])
    BY DEF NoNews
  <2> QED  BY <2>1 DEF Grounded
<1>3. \A S \in SUBSET nodes' : S # {} => \E p \in S : ParentsOf[p] \cap S = {}
  BY DEF Grounded
<1> HIDE DEF Recorded, Rooted
<1> QED  BY <1>1, <1>2, <1>3 DEF Grounded

LEMMA EvidenceTyped ==
  ASSUME EvidenceInv
  PROVE  /\ JournalInv /\ JournalTypeOK /\ AccessInv /\ bytes \subseteq Object
         /\ objects \in [Contents -> Names \cup {NoId}]
         /\ bundles \in [Bundles -> Certs \cup {NoId}]
         /\ shares \in [Bundles -> Certs \cup {NoId}]
         /\ nodes \subseteq Nodes /\ upload \in [Uploaders -> Upload]
         /\ journal \in [Attempts -> Seq(Event)]
         /\ renewed \subseteq Attempts \X Certs
         /\ \A d \in Uploaders : UploadFits(upload[d])
         /\ Backed /\ OneEach /\ CreditedOnce /\ Grounded
BY DEF EvidenceInv, TypeOK, JournalInv, JournalTypeOK

LEMMA JournalIsTyped == JournalInv => JournalTypeOK
BY DEF JournalInv

LEMMA JournalIsTypedNext == (JournalInv => JournalTypeOK)'
BY JournalIsTyped, PTL

(* A step that adds bytes at most. *)
LEMMA QuietMoves ==
  ASSUME EvidenceInv, JournalInv', NoNews,
         bytes \subseteq bytes', bytes' \subseteq Object,
         UNCHANGED <<objects, bundles, shares, nodes>>,
         NEW c \in Uploaders, NEW rec \in Upload, UploadFits(rec)',
         upload' = [upload EXCEPT ![c] = rec]
  PROVE  EvidenceInv'
<1>1. Grows  BY DEF Grows
<1>2. upload' \in [Uploaders -> Upload] /\ (\A d \in Uploaders : UploadFits(upload[d]))'
  BY <1>1, UploadsFit, EvidenceTyped
<1>3. TypeOK'
  BY <1>2, EvidenceTyped, JournalIsTypedNext DEF TypeOK
<1>4. OneEach'  BY EvidenceTyped DEF OneEach
<1>5. Backed' /\ CreditedOnce' /\ Grounded'
  BY <1>1, EvidenceTyped, BackedStays, CreditedStays, GroundedStays
<1> QED  BY <1>2, <1>3, <1>4, <1>5 DEF EvidenceInv

(* A step of the journal alone. *)
LEMMA ShelfStands ==
  ASSUME EvidenceInv, JournalInv', NoNews, UNCHANGED <<shelf, upload>>
  PROVE  EvidenceInv'
<1>1. UNCHANGED <<bytes, objects, bundles, shares, nodes, upload>>  BY DEF shelf
<1>2. Grows  BY <1>1 DEF Grows
<1>3. (\A d \in Uploaders : UploadFits(upload[d]))'
  <2> SUFFICES ASSUME NEW d \in Uploaders PROVE UploadFits(upload[d])'
    OBVIOUS
  <2>1. PICK u : u = upload[d]  OBVIOUS
  <2>2. u \in Upload /\ UploadFits(u)  BY <2>1, EvidenceTyped
  <2>3. UploadFits(u)'  BY <1>2, <2>2, FitsStays
  <2> QED  BY <1>1, <2>1, <2>3
<1>4. TypeOK'
  BY <1>1, EvidenceTyped, JournalIsTypedNext DEF TypeOK
<1>5. OneEach'  BY <1>1, EvidenceTyped DEF OneEach
<1>6. Backed' /\ CreditedOnce' /\ Grounded'
  BY <1>1, <1>2, EvidenceTyped, BackedStays, CreditedStays, GroundedStays
<1> QED  BY <1>3, <1>4, <1>5, <1>6 DEF EvidenceInv

-----------------------------------------------------------------------------
(* What the journal of an Attempt is told *)

LEMMA SameJournalNoNews ==
  ASSUME UNCHANGED journal
  PROVE  NoNews
BY DEF NoNews, Recorded

LEMMA PlainNoteNoNews ==
  ASSUME journal \in [Attempts -> Seq(Event)], NEW a \in Attempts, NEW e \in Event,
         e.type \notin {"staged", "published"}, Note(a, e)
  PROVE  NoNews
<1>1. \A b \in Attempts : \A f :
        Recorded(b, f)' <=> Recorded(b, f) \/ (b = a /\ f = e /\ ~ Taken(a, e.key))
  BY NotedIs
<1> HIDE DEF Recorded, Taken
<1> QED  BY <1>1 DEF NoNews

LEMMA OpeningNoNews ==
  ASSUME journal \in [Attempts -> Seq(Event)], NEW c \in Workers, Open(c)
  PROVE  NoNews
<1>0. PICK a : a = work[c].attempt  OBVIOUS
<1> DEFINE e == [type |-> "created", key |-> <<"created", 0>>]
<1>1. journal' = IF journal[a] = << >> THEN [journal EXCEPT ![a] = <<e>>] ELSE journal
  BY <1>0 DEF Open
<1>2. CASE journal[a] = << >> /\ a \in Attempts
  <2>1. \A b \in Attempts \ {a} : journal'[b] = journal[b]  BY <1>1, <1>2
  <2>2. journal'[a] = <<e>>  BY <1>1, <1>2
  <2>3. \A f : ~ Recorded(a, f)  BY <1>2 DEF Recorded
  <2>4. \A f : f.type # "created" => ~ Recorded(a, f)'
    <3>1. DOMAIN <<e>> = {1} /\ <<e>>[1] = e /\ e.type = "created"  OBVIOUS
    <3> HIDE DEF e
    <3> QED  BY <2>2, <3>1 DEF Recorded
  <2>5. \A b \in Attempts \ {a} : \A f : Recorded(b, f)' <=> Recorded(b, f)
    BY <2>1 DEF Recorded
  <2> HIDE DEF Recorded
  <2> QED  BY <2>3, <2>4, <2>5 DEF NoNews
<1>3. CASE ~ (journal[a] = << >> /\ a \in Attempts)
  <2>1. UNCHANGED journal  BY <1>1, <1>3
  <2> QED  BY <2>1, SameJournalNoNews
<1> QED  BY <1>2, <1>3

(* Neither the connections nor the work on Attempts touch evidence. *)
LEMMA JournalStepNoNews ==
  ASSUME JournalInv, [JournalNext]_journalVars
  PROVE  NoNews
<1>0. journal \in [Attempts -> Seq(Event)]  BY DEF JournalInv, JournalTypeOK
<1>1. CASE UNCHANGED journal  BY <1>1, SameJournalNoNews
<1>2. ASSUME NEW c \in Workers, Open(c) PROVE NoNews  BY <1>0, <1>2, OpeningNoNews
<1>3. ASSUME NEW c \in Workers, NoteRenewal(c) \/ Report(c) PROVE NoNews
  <2>0. PICK a, d, r : a = work[c].attempt /\ d = work[c].cert /\ r = work[c].report
    OBVIOUS
  <2>1. /\ a \in Attempts /\ r \in Reports
        /\ NoteRenewal(c) => d \in Certs
    BY <1>3, <2>0 DEF JournalInv, WorkFits, NoteRenewal, Report
  <2>2. CASE NoteRenewal(c)
    <3> DEFINE e == [type |-> "renewed", key |-> <<"renewed", d>>]
    <3>1. e \in Event /\ e.type = "renewed"  BY <2>1, <2>2, EventsAre
    <3>2. Note(a, e)  BY <2>0, <2>2 DEF NoteRenewal
    <3> HIDE DEF e
    <3> QED  BY <1>0, <2>1, <3>1, <3>2, PlainNoteNoNews
  <2>3. CASE Report(c)
    <3> DEFINE e == [type |-> "reported", key |-> r]
    <3>1. e \in Event /\ e.type = "reported"  BY <2>1, EventsAre
    <3>2. Note(a, e)  BY <2>0, <2>3 DEF Report
    <3> HIDE DEF e
    <3> QED  BY <1>0, <2>1, <3>1, <3>2, PlainNoteNoNews
  <2> QED  BY <1>3, <2>2, <2>3
<1>4. ASSUME NEW c \in Workers, Transition(c) PROVE NoNews
  <2>0. PICK a, action, next :
          a = work[c].attempt /\ action = work[c].action /\ next = work[c].version + 1
    OBVIOUS
  <2> DEFINE e == [type |-> EventOf[action], key |-> <<"lifecycle", next>>]
  <2>1. a \in Attempts /\ action \in Actions /\ next \in Nat
    BY <1>4, <2>0 DEF JournalInv, JournalTypeOK, WorkFits, Work, Transition
  <2>2. e \in Event /\ e.type \in Lifecycle  BY <2>1, ActionIs, EventsAre
  <2>3. Note(a, e) \/ UNCHANGED journal  BY <1>4, <2>0 DEF Transition
  <2>4. e.type \notin {"staged", "published"}  BY <2>2 DEF Lifecycle
  <2> HIDE DEF e
  <2> QED  BY <1>0, <2>1, <2>2, <2>3, <2>4, PlainNoteNoNews, SameJournalNoNews
<1>5. ASSUME NEW a \in Attempts, Cancel(a) PROVE NoNews
  <2> DEFINE e == [type |-> "cancelled", key |-> <<"cancelled", 0>>]
  <2>1. e \in Event /\ e.type = "cancelled"  BY EventsAre
  <2>2. Note(a, e)  BY <1>5 DEF Cancel
  <2> HIDE DEF e
  <2> QED  BY <1>0, <2>1, <2>2, PlainNoteNoNews
<1>6. \/ UNCHANGED journal
      \/ \E c \in Workers : Open(c) \/ NoteRenewal(c) \/ Report(c) \/ Transition(c)
      \/ \E a \in Attempts : Cancel(a)
  BY DEF JournalNext, WorkNext, journalVars, research, AskCreate, AskReport, Create, Renew,
         Progress, AskTransition, Drop
<1> QED  BY <1>1, <1>2, <1>3, <1>4, <1>5, <1>6

(* An operation on evidence leaves the rows of Attempts alone, and what it *)
(* tells their journals decides nothing.                                   *)
LEMMA JournalFollows ==
  ASSUME JournalInv, UNCHANGED <<accessVars, attempts, work>>,
         renewed' \subseteq Attempts \X Certs,
         \/ UNCHANGED journal
         \/ \E a \in Attempts, e \in Event : Plain(e) /\ Note(a, e)
  PROVE  JournalInv'
<1>1. /\ journal \in [Attempts -> Seq(Event)]
      /\ \A a \in Attempts : Tells(journal[a], attempts[a])
  BY DEF JournalInv, JournalTypeOK
<1>2. /\ journal' \in [Attempts -> Seq(Event)]
      /\ \A b \in Attempts : Tells(journal'[b], attempts'[b])
  <2>1. \A b \in Attempts : Tells(journal'[b], attempts[b])  BY <1>1, PlainNote
  <2> QED  BY <1>1, <2>1, NoteIs
<1>3. AccessInv' /\ AccessTypeOK'  BY AccessStays DEF JournalInv
<1>4. JournalTypeOK'  BY <1>2, <1>3 DEF JournalInv, JournalTypeOK
<1>5. (\A c \in Workers : WorkFits(work[c]))'
  BY DEF JournalInv, WorkFits
<1>6. (\A b \in Attempts : Tells(journal[b], attempts[b]))'
  BY <1>2 DEF Tells, InOrder, DecisionsIn, KeyOf
<1> QED  BY <1>3, <1>4, <1>5, <1>6 DEF JournalInv

(* It does not concern the journal at all. *)
LEMMA JournalRests ==
  ASSUME EvidenceInv, UNCHANGED journalVars
  PROVE  JournalInv' /\ NoNews
<1>1. JournalInv'  BY EvidenceTyped, JournalStep
<1>2. UNCHANGED journal  BY DEF journalVars, research
<1> QED  BY <1>1, <1>2, SameJournalNoNews

-----------------------------------------------------------------------------
(* Evidence: requests, and what they put *)

LEMMA NoUploadFits == NoUpload \in Upload /\ UploadFits(NoUpload)'
<1>1. NoUpload \in Upload  BY DEF NoUpload, Upload, UploadPhases
<1>2. UploadFits(NoUpload)'  BY DEF NoUpload, UploadFits, Staging, Carrying
<1> QED  BY <1>1, <1>2

LEMMA MoveIs ==
  ASSUME upload \in [Uploaders -> Upload], NEW c \in Uploaders,
         NEW phase, phase \in UploadPhases, Move(c, phase)
  PROVE  \E rec \in Upload :
           /\ upload' = [upload EXCEPT ![c] = rec] /\ rec.phase = phase
           /\ rec.attempt = upload[c].attempt /\ rec.cert = upload[c].cert
           /\ rec.item = upload[c].item /\ rec.object = upload[c].object
<1> DEFINE rec == [upload[c] EXCEPT !.phase = phase]
<1>1. upload[c] \in Upload  OBVIOUS
<1>2. /\ rec \in Upload /\ rec.phase = phase
      /\ rec.attempt = upload[c].attempt /\ rec.cert = upload[c].cert
      /\ rec.item = upload[c].item /\ rec.object = upload[c].object
  BY <1>1 DEF Upload
<1>3. upload' = [upload EXCEPT ![c] = rec]  BY DEF Move
<1> HIDE DEF rec
<1> QED  BY <1>2, <1>3

(* Where a request goes first. *)
LEMMA EntriesAre ==
  ASSUME NEW u
  PROVE  /\ EntriesOf(u) \subseteq UploadPhases
         /\ u.item \in Bundles => EntriesOf(u) = {"weighing"}
         /\ u.item \in Nodes => EntriesOf(u) = {"checking"}
         /\ u.item \notin Bundles \cup Nodes => EntriesOf(u) \subseteq {"placing", "indexing"}
<1>1. Bundles \cap Nodes = {}  BY EvidenceAssumption
<1> QED  BY <1>1 DEF EntriesOf, Entries, UploadPhases

LEMMA EntryFits ==
  ASSUME NEW u \in Upload, NEW w \in Upload, w.phase \in EntriesOf(u),
         w.item = u.item, w.attempt \in Attempts, w.cert \in Certs,
         w.item # NoId => w.attempt = HomeOf[w.item],
         w.item = NoId => w.object \in Object
  PROVE  UploadFits(w)'
<1>0. Bundles \cap Nodes = {} /\ NoId \notin Bundles \cup Nodes  BY EvidenceAssumption
<1>1. CASE u.item \in Bundles
  <2>1. w.phase = "weighing"  BY <1>1, EntriesAre
  <2> QED  BY <1>1, <2>1 DEF UploadFits, Staging, Carrying
<1>2. CASE u.item \in Nodes
  <2>1. w.phase = "checking"  BY <1>2, EntriesAre
  <2> QED  BY <1>2, <2>1 DEF UploadFits, Staging, Carrying
<1>3. CASE u.item = NoId
  <2>1. w.phase \in {"placing", "indexing"}  BY <1>0, <1>3, EntriesAre
  <2> QED  BY <1>0, <1>3, <2>1 DEF UploadFits, Staging, Carrying
<1> QED  BY <1>1, <1>2, <1>3 DEF Upload

LEMMA AskKeeps ==
  ASSUME EvidenceInv, NEW c \in Uploaders, NEW t \in Pairs, NEW u \in Upload,
         u.attempt \in Attempts, u.item # NoId => u.attempt = HomeOf[u.item],
         u.item = NoId => u.object \in Object, Ask(c, t, u)
  PROVE  EvidenceInv'
<1>0. PICK d : d = installs[pairs[t].install].cert  OBVIOUS
<1>1. d \in Certs  BY <1>0, EvidenceTyped, AuthorityHeld DEF Ask
<1>2. PICK phase \in EntriesOf(u) \cup {"renewing"}, open \in BOOLEAN :
        upload' = [upload EXCEPT ![c] = [u EXCEPT !.phase = phase, !.cert = d, !.open = open]]
  BY <1>0 DEF Ask
<1>3. phase \in UploadPhases  BY EntriesAre DEF UploadPhases
<1> DEFINE rec == [u EXCEPT !.phase = phase, !.cert = d, !.open = open]
<1>4. /\ rec \in Upload /\ rec.phase = phase /\ rec.cert = d
      /\ rec.attempt = u.attempt /\ rec.item = u.item /\ rec.object = u.object
  BY <1>1, <1>3 DEF Upload
<1> HIDE DEF rec
<1>5. UploadFits(rec)'
  <2>1. CASE phase \in EntriesOf(u)  BY <1>1, <1>4, <2>1, EntryFits
  <2>2. CASE phase = "renewing"
    BY <1>1, <1>4, <2>2 DEF UploadFits, Staging, Carrying
  <2> QED  BY <2>1, <2>2
<1>6. UNCHANGED <<journalVars, bytes, objects, bundles, shares, nodes>>  BY DEF Ask, shelf
<1>7. JournalInv' /\ NoNews  BY <1>6, JournalRests
<1>8. upload' = [upload EXCEPT ![c] = rec]  BY <1>2 DEF rec
<1> QED  BY <1>4, <1>5, <1>6, <1>7, <1>8, EvidenceTyped, QuietMoves

LEMMA AsksEvidenceKeep ==
  ASSUME EvidenceInv, NEW c \in Uploaders, NEW t \in Pairs,
         \/ \E a \in Attempts, o \in Object : AskPut(c, t, a, o)
         \/ \E x \in Bundles \cup Nodes : AskAttach(c, t, x)
  PROVE  EvidenceInv'
<1>1. ASSUME NEW a \in Attempts, NEW o \in Object, AskPut(c, t, a, o) PROVE EvidenceInv'
  <2> DEFINE u == [NoUpload EXCEPT !.attempt = a, !.object = o]
  <2>1. u \in Upload /\ u.attempt = a /\ u.item = NoId /\ u.object = o
    BY DEF NoUpload, Upload, UploadPhases
  <2>2. Ask(c, t, u)  BY <1>1 DEF AskPut
  <2> HIDE DEF u
  <2> QED  BY <2>1, <2>2, AskKeeps
<1>2. ASSUME NEW x \in Bundles \cup Nodes, AskAttach(c, t, x) PROVE EvidenceInv'
  <2> DEFINE u == [NoUpload EXCEPT !.attempt = HomeOf[x], !.item = x]
  <2>1. HomeOf[x] \in Attempts /\ x # NoId  BY EvidenceAssumption
  <2>2. u \in Upload /\ u.attempt = HomeOf[x] /\ u.item = x
    BY <2>1 DEF NoUpload, Upload, UploadPhases
  <2>3. Ask(c, t, u)  BY <1>2 DEF AskAttach
  <2> HIDE DEF u
  <2> QED  BY <2>1, <2>2, <2>3, AskKeeps
<1> QED  BY <1>1, <1>2

(* The authority of a request is renewed and noted on its Attempt. *)
LEMMA RenewalsKeep ==
  ASSUME EvidenceInv, NEW c \in Uploaders, RenewFirst(c) \/ NoteFirst(c)
  PROVE  EvidenceInv'
<1>0. PICK u, a, d : u = upload[c] /\ a = u.attempt /\ d = u.cert  OBVIOUS
<1>1. /\ u \in Upload /\ UploadFits(u) /\ u.phase \in {"renewing", "noting"}
  BY <1>0, EvidenceTyped DEF RenewFirst, NoteFirst
<1>2. /\ a \in Attempts /\ d \in Certs
      /\ u.item # NoId => a = HomeOf[u.item]
      /\ u.item = NoId => u.object \in Object
  BY <1>0, <1>1 DEF UploadFits
<1>3. UNCHANGED <<accessVars, attempts, work, bytes, objects, bundles, shares, nodes>>
  BY DEF RenewFirst, NoteFirst, shelf
<1> DEFINE e == [type |-> "renewed", key |-> <<"renewed", d>>]
<1>4. e \in Event /\ e.type = "renewed" /\ Plain(e)
  BY <1>2, EventsAre DEF Plain, Lifecycle
<1>5. \/ renewed' = renewed \cup {<<a, d>>} /\ UNCHANGED journal
      \/ Note(a, e) /\ UNCHANGED renewed
  BY <1>0 DEF RenewFirst, NoteFirst
<1>6. \E phase \in EntriesOf(u) \cup {"noting"} : Move(c, phase)
  BY <1>0 DEF RenewFirst, NoteFirst
<1> HIDE DEF e
<1>7. NoNews  BY <1>2, <1>4, <1>5, EvidenceTyped, SameJournalNoNews, PlainNoteNoNews
<1>8. JournalInv'
  <2>1. renewed' \subseteq Attempts \X Certs  BY <1>2, <1>5, EvidenceTyped
  <2> QED  BY <1>2, <1>3, <1>4, <1>5, <2>1, EvidenceTyped, JournalFollows
<1>9. PICK phase : phase \in EntriesOf(u) \cup {"noting"} /\ Move(c, phase)  BY <1>6
<1>10. phase \in UploadPhases  BY <1>9, EntriesAre DEF UploadPhases
<1>11. PICK rec \in Upload :
         /\ upload' = [upload EXCEPT ![c] = rec] /\ rec.phase = phase
         /\ rec.attempt = a /\ rec.cert = d /\ rec.item = u.item /\ rec.object = u.object
  BY <1>0, <1>9, <1>10, EvidenceTyped, MoveIs
<1>12. UploadFits(rec)'
  <2>1. CASE phase \in EntriesOf(u)  BY <1>1, <1>2, <1>11, <2>1, EntryFits
  <2>2. CASE phase = "noting"
    BY <1>2, <1>11, <2>2 DEF UploadFits, Staging, Carrying
  <2> QED  BY <1>9, <2>1, <2>2
<1> QED  BY <1>3, <1>7, <1>8, <1>11, <1>12, EvidenceTyped, QuietMoves

LEMMA AbortKeeps ==
  ASSUME EvidenceInv, NEW c \in Uploaders, Leave(c),
         UNCHANGED <<journalVars, bytes, objects, bundles, shares, nodes>>
  PROVE  EvidenceInv'
<1>1. upload' = [upload EXCEPT ![c] = NoUpload]  BY DEF Leave
<1> QED  BY <1>1, EvidenceTyped, JournalRests, NoUploadFits, QuietMoves

(* An object that is stored: an upload is done, a Bundle goes on. *)
LEMMA ArrivedFits ==
  ASSUME NEW c \in Uploaders, upload \in [Uploaders -> Upload], UploadFits(upload[c]),
         upload[c].phase \in Carrying, Grows,
         NEW stored, stored = upload[c].object, Stored(stored)', Arrived(c)
  PROVE  \E rec \in Upload : UploadFits(rec)' /\ upload' = [upload EXCEPT ![c] = rec]
<1>0. PICK u : u = upload[c]  OBVIOUS
<1>1. /\ u \in Upload /\ u.object \in Object
      /\ u.attempt \in Attempts /\ u.cert \in Certs
      /\ u.item # NoId => u.attempt = HomeOf[u.item]
      /\ u.item \in Bundles =>
           u.object = ManifestOf[u.item] /\ \A o \in RefsOf[u.item] : Stored(o)
  BY <1>0 DEF UploadFits, Carrying
<1>2. CASE u.item \in Bundles
  <2>1. Move(c, "looking") /\ "looking" \in UploadPhases
    BY <1>0, <1>2 DEF Arrived, UploadPhases
  <2>2. PICK rec \in Upload :
          /\ upload' = [upload EXCEPT ![c] = rec] /\ rec.phase = "looking"
          /\ rec.attempt = u.attempt /\ rec.cert = u.cert
          /\ rec.item = u.item /\ rec.object = u.object
    BY <1>0, <2>1, MoveIs
  <2>3. Stored(ManifestOf[u.item])'
    <3>1. ManifestOf[u.item] = stored  BY <1>0, <1>1, <1>2
    <3> QED  BY <3>1
  <2>4. \A o \in RefsOf[u.item] : Stored(o)'
    <3>1. RefsOf[u.item] \subseteq Object  BY <1>2, EvidenceAssumption
    <3> QED  BY <1>1, <1>2, <3>1, StoredStays
  <2> HIDE DEF Stored
  <2>5. UploadFits(rec)'
    BY <1>1, <1>2, <2>2, <2>3, <2>4 DEF UploadFits, Staging, Carrying
  <2> QED  BY <2>2, <2>5
<1>3. CASE u.item \notin Bundles
  <2>1. upload' = [upload EXCEPT ![c] = NoUpload]  BY <1>0, <1>3 DEF Arrived, Leave
  <2> QED  BY <2>1, NoUploadFits
<1> QED  BY <1>2, <1>3

(* The bytes first ... *)
LEMMA PutsKeep ==
  ASSUME EvidenceInv, NEW c \in Uploaders, Place(c) \/ Put(c)
  PROVE  EvidenceInv'
<1>0. PICK u : u = upload[c]  OBVIOUS
<1>1. /\ u \in Upload /\ UploadFits(u) /\ u.phase \in {"placing", "putting"}
      /\ bytes' = bytes \cup {u.object}
      /\ UNCHANGED <<journalVars, objects, bundles, shares, nodes>>
      /\ Move(c, "indexing") \/ Move(c, "inserting")
  BY <1>0, EvidenceTyped DEF Place, Put, PutBytes
<1>2. PICK phase \in {"indexing", "inserting"} : Move(c, phase)  BY <1>1
<1>3. phase \in UploadPhases  BY <1>2 DEF UploadPhases
<1>4. PICK rec \in Upload :
        /\ upload' = [upload EXCEPT ![c] = rec] /\ rec.phase = phase
        /\ rec.attempt = u.attempt /\ rec.cert = u.cert
        /\ rec.item = u.item /\ rec.object = u.object
  BY <1>0, <1>2, <1>3, EvidenceTyped, MoveIs
<1>5. /\ u.object \in Object /\ u.item \notin Nodes /\ u.attempt \in Attempts
      /\ u.cert \in Certs
      /\ u.item # NoId => u.attempt = HomeOf[u.item]
      /\ u.item \in Bundles =>
           u.object = ManifestOf[u.item] /\ \A o \in RefsOf[u.item] : Stored(o)
  BY <1>1 DEF UploadFits, Carrying
<1>6. Grows  BY <1>1 DEF Grows
<1>7. u.item \in Bundles => \A o \in RefsOf[u.item] : Stored(o)'
  BY <1>5, <1>6, EvidenceAssumption, StoredStays
<1>8. rec.object \in bytes'  BY <1>1, <1>4
<1>9. UploadFits(rec)'
  <2> HIDE DEF Stored
  <2> QED  BY <1>2, <1>4, <1>5, <1>7, <1>8 DEF UploadFits, Staging, Carrying
<1>10. bytes' \subseteq Object  BY <1>1, <1>5, EvidenceTyped
<1> QED  BY <1>1, <1>4, <1>9, <1>10, EvidenceTyped, JournalRests, QuietMoves

(* ... then the index. *)
LEMMA IndexKeeps ==
  ASSUME EvidenceInv, NEW c \in Uploaders, Index(c)
  PROVE  EvidenceInv'
<1>0. PICK u, o : u = upload[c] /\ o = u.object  OBVIOUS
<1>1. /\ u \in Upload /\ UploadFits(u) /\ u.phase = "indexing"
      /\ UNCHANGED <<journalVars, bytes, objects, bundles, shares, nodes>>
      /\ (Stored(o) /\ Arrived(c)) \/ Move(c, "putting")
  BY <1>0, EvidenceTyped DEF Index, shelf
<1>2. Grows /\ o \in Object  BY <1>0, <1>1 DEF Grows, UploadFits, Carrying
<1>3. CASE Stored(o) /\ Arrived(c)
  <2>1. Stored(o)'  BY <1>2, <1>3, StoredStays
  <2>2. \E rec \in Upload : UploadFits(rec)' /\ upload' = [upload EXCEPT ![c] = rec]
    BY <1>0, <1>1, <1>2, <1>3, <2>1, EvidenceTyped, ArrivedFits DEF Carrying
  <2> QED  BY <1>1, <2>2, EvidenceTyped, JournalRests, QuietMoves
<1>4. CASE Move(c, "putting")
  <2>1. "putting" \in UploadPhases  BY DEF UploadPhases
  <2>2. PICK rec \in Upload :
          /\ upload' = [upload EXCEPT ![c] = rec] /\ rec.phase = "putting"
          /\ rec.attempt = u.attempt /\ rec.cert = u.cert
          /\ rec.item = u.item /\ rec.object = u.object
    BY <1>0, <1>4, <2>1, EvidenceTyped, MoveIs
  <2>3. UploadFits(rec)
    BY <1>1, <2>2 DEF UploadFits, Staging, Carrying
  <2>4. UploadFits(rec)'  BY <1>2, <2>2, <2>3, FitsStays
  <2> QED  BY <1>1, <2>2, <2>4, EvidenceTyped, JournalRests, QuietMoves
<1> QED  BY <1>1, <1>3, <1>4

LEMMA InsertKeeps ==
  ASSUME EvidenceInv, NEW c \in Uploaders, Insert(c)
  PROVE  EvidenceInv'
<1>0. PICK u, o : u = upload[c] /\ o = u.object  OBVIOUS
<1>1. /\ u \in Upload /\ UploadFits(u) /\ u.phase = "inserting"
      /\ UNCHANGED <<journalVars, bytes, bundles, shares, nodes>>
      /\ objects[o[1]] \in {NoId, o[2]} /\ objects' = [objects EXCEPT ![o[1]] = o[2]]
      /\ Arrived(c)
  BY <1>0, EvidenceTyped DEF Insert
<1>2. /\ o \in Object /\ o \in bytes /\ o[1] \in Contents /\ o[2] \in Names
      /\ o = <<o[1], o[2]>>
  BY <1>0, <1>1 DEF UploadFits, Carrying, Object
<1>3. /\ objects' \in [Contents -> Names \cup {NoId}]
      /\ \A x \in Contents : objects'[x] = IF x = o[1] THEN o[2] ELSE objects[x]
  BY <1>1, <1>2, EvidenceTyped
<1>4. Grows /\ Stored(o)'  BY <1>1, <1>2, <1>3 DEF Grows, Stored
<1>5. PICK rec \in Upload : UploadFits(rec)' /\ upload' = [upload EXCEPT ![c] = rec]
  BY <1>0, <1>1, <1>4, EvidenceTyped, ArrivedFits DEF Carrying
<1>6. JournalInv' /\ NoNews  BY <1>1, JournalRests
<1>7. upload' \in [Uploaders -> Upload] /\ (\A d \in Uploaders : UploadFits(upload[d]))'
  BY <1>4, <1>5, EvidenceTyped, UploadsFit
<1>8. TypeOK'
  BY <1>1, <1>3, <1>6, <1>7, EvidenceTyped, JournalIsTypedNext DEF TypeOK
<1>9. Backed'
  <2>1. ASSUME NEW x \in Contents, objects'[x] # NoId PROVE <<x, objects'[x]>> \in bytes'
    BY <1>1, <1>2, <1>3, <2>1, EvidenceTyped DEF Backed
  <2>2. ASSUME NEW b \in Bundles, bundles'[b] # NoId,
               NEW r \in RefsOf[b] \cup {ManifestOf[b]}
        PROVE  Stored(r)'
    <3>1. r \in Object  BY EvidenceAssumption
    <3>2. Stored(r)  BY <1>1, <2>2, EvidenceTyped DEF Backed
    <3> QED  BY <1>4, <3>1, <3>2, StoredStays
  <2> HIDE DEF Stored
  <2> QED  BY <2>1, <2>2 DEF Backed
<1>10. OneEach'  BY <1>1, EvidenceTyped DEF OneEach
<1>11. CreditedOnce' /\ Grounded'
  BY <1>1, <1>4, <1>6, EvidenceTyped, CreditedStays, GroundedStays
<1> QED  BY <1>6, <1>7, <1>8, <1>9, <1>10, <1>11 DEF EvidenceInv

-----------------------------------------------------------------------------
(* Evidence: staging a Bundle *)

LEMMA WeighKeeps ==
  ASSUME EvidenceInv, NEW c \in Uploaders, Weigh(c)
  PROVE  EvidenceInv'
<1>0. PICK u, b : u = upload[c] /\ b = u.item  OBVIOUS
<1>1. /\ u \in Upload /\ UploadFits(u) /\ u.phase = "weighing" /\ b \in Bundles
      /\ UNCHANGED <<journalVars, bytes, objects, bundles, shares, nodes>>
      /\ \A o \in RefsOf[b] : Stored(o)
  BY <1>0, EvidenceTyped DEF Weigh, shelf, UploadFits, Staging, Carrying
<1>2. PICK phase \in Entries(ManifestOf[b]) :
        upload' = [upload EXCEPT ![c] = [u EXCEPT !.object = ManifestOf[b], !.phase = phase]]
  <2>1. PICK phase \in Entries(ManifestOf[b]) :
          upload' = [upload EXCEPT ![c].object = ManifestOf[b], ![c].phase = phase]
    BY <1>0, Zenon DEF Weigh
  <2>2. upload' = [upload EXCEPT ![c] = [u EXCEPT !.object = ManifestOf[b], !.phase = phase]]
    BY <1>0, <1>1, <2>1, EvidenceTyped DEF Upload
  <2> QED  BY <2>2
<1>3. phase \in {"placing", "indexing"} /\ ManifestOf[b] \in Object
  BY <1>1, EvidenceAssumption DEF Entries
<1> DEFINE rec == [u EXCEPT !.object = ManifestOf[b], !.phase = phase]
<1>4. /\ rec \in Upload /\ rec.phase = phase /\ rec.object = ManifestOf[b]
      /\ rec.attempt = u.attempt /\ rec.cert = u.cert /\ rec.item = b
  BY <1>0, <1>1, <1>3 DEF Upload, UploadPhases
<1>5. upload' = [upload EXCEPT ![c] = rec]  BY <1>2
<1> HIDE DEF rec
<1>6. b \notin Nodes  BY <1>1, EvidenceAssumption
<1>7. UploadFits(rec)
  BY <1>0, <1>1, <1>3, <1>4, <1>6 DEF UploadFits, Staging, Carrying
<1>8. Grows  BY <1>1 DEF Grows
<1>9. UploadFits(rec)'  BY <1>4, <1>7, <1>8, FitsStays
<1> QED  BY <1>1, <1>4, <1>5, <1>9, EvidenceTyped, JournalRests, QuietMoves

LEMMA LookKeeps ==
  ASSUME EvidenceInv, NEW c \in Uploaders, Look(c)
  PROVE  EvidenceInv'
<1>0. PICK u, b, d, phase :
        /\ u = upload[c] /\ b = u.item /\ d = Credited(c)
        /\ phase = IF bundles[b] = NoId THEN "storing" ELSE "sharing"
  OBVIOUS
<1> DEFINE rec == [u EXCEPT !.phase = phase, !.cert = d]
<1>1. /\ u \in Upload /\ UploadFits(u) /\ u.phase = "looking" /\ b \in Bundles
      /\ u.cert \in Certs /\ u.attempt \in Attempts /\ u.attempt = HomeOf[b]
      /\ UNCHANGED <<journalVars, bytes, objects, bundles, shares, nodes>>
      /\ upload' = [upload EXCEPT ![c] = rec]
  <2>1. NoId \notin Bundles  BY EvidenceAssumption
  <2> QED  BY <1>0, <2>1, EvidenceTyped DEF Look, shelf, UploadFits, Staging, Carrying
<1>2. d \in Certs /\ (bundles[b] # NoId => d = bundles[b])
  BY <1>0, <1>1, EvidenceTyped DEF Credited
<1>3. phase \in {"storing", "sharing"} /\ (phase = "sharing" => bundles[b] = d)
  BY <1>0, <1>2
<1>4. /\ rec \in Upload /\ rec.phase = phase /\ rec.cert = d
      /\ rec.attempt = u.attempt /\ rec.item = b
  BY <1>0, <1>1, <1>2, <1>3 DEF Upload, UploadPhases
<1> HIDE DEF rec
<1>5. UploadFits(rec)
  BY <1>0, <1>1, <1>2, <1>3, <1>4 DEF UploadFits, Staging, Carrying
<1>6. Grows  BY <1>1 DEF Grows
<1>7. UploadFits(rec)'  BY <1>4, <1>5, <1>6, FitsStays
<1> QED  BY <1>1, <1>4, <1>7, EvidenceTyped, JournalRests, QuietMoves

(* The row is inserted if no Bundle has its event. *)
LEMMA StoreKeeps ==
  ASSUME EvidenceInv, NEW c \in Uploaders, Store(c)
  PROVE  EvidenceInv'
<1>0. PICK u, b, d : u = upload[c] /\ b = u.item /\ d = u.cert  OBVIOUS
<1>1. /\ u \in Upload /\ UploadFits(u) /\ u.phase = "storing" /\ b \in Bundles
      /\ d \in Certs /\ u.attempt \in Attempts /\ u.attempt = HomeOf[b]
      /\ \A o \in RefsOf[b] \cup {ManifestOf[b]} : Stored(o)
      /\ SameEvent(b) = {} /\ bundles' = [bundles EXCEPT ![b] = d]
      /\ Move(c, "sharing")
      /\ UNCHANGED <<journalVars, bytes, objects, shares, nodes>>
  <2>1. NoId \notin Bundles  BY EvidenceAssumption
  <2> QED  BY <1>0, <2>1, EvidenceTyped DEF Store, UploadFits, Staging, Carrying
<1>2. /\ bundles' \in [Bundles -> Certs \cup {NoId}] /\ bundles'[b] = d
      /\ \A x \in Bundles \ {b} : bundles'[x] = bundles[x]
  BY <1>1, EvidenceTyped
<1>3. \A x \in Bundles : bundles[x] # NoId => EventIdOf[x] # EventIdOf[b]
  BY <1>1 DEF SameEvent
<1>4. bundles[b] = NoId /\ d # NoId  BY <1>1, <1>3, AccessAssumption
<1>5. Grows  BY <1>1, <1>2, <1>4 DEF Grows
<1>6. "sharing" \in UploadPhases  BY DEF UploadPhases
<1>7. PICK rec \in Upload :
        /\ upload' = [upload EXCEPT ![c] = rec] /\ rec.phase = "sharing"
        /\ rec.attempt = u.attempt /\ rec.cert = d /\ rec.item = b
  BY <1>0, <1>1, <1>6, EvidenceTyped, MoveIs
<1>8. UploadFits(rec)'
  BY <1>1, <1>2, <1>7 DEF UploadFits, Staging, Carrying
<1>9. JournalInv' /\ NoNews  BY <1>1, JournalRests
<1>10. upload' \in [Uploaders -> Upload] /\ (\A x \in Uploaders : UploadFits(upload[x]))'
  BY <1>5, <1>7, <1>8, EvidenceTyped, UploadsFit
<1>11. TypeOK'
  BY <1>1, <1>2, <1>9, <1>10, EvidenceTyped, JournalIsTypedNext DEF TypeOK
<1>12. OneEach'
  BY <1>2, <1>3, EvidenceTyped DEF OneEach
<1>13. Backed'
  <2>1. \A x \in Contents : objects'[x] # NoId => <<x, objects'[x]>> \in bytes'
    BY <1>1, EvidenceTyped DEF Backed
  <2>2. ASSUME NEW x \in Bundles, bundles'[x] # NoId,
               NEW o \in RefsOf[x] \cup {ManifestOf[x]}
        PROVE  Stored(o)'
    <3>1. o \in Object  BY EvidenceAssumption
    <3>2. Stored(o)  BY <1>1, <1>2, <2>2, EvidenceTyped DEF Backed
    <3> QED  BY <1>5, <3>1, <3>2, StoredStays
  <2> HIDE DEF Stored
  <2> QED  BY <2>1, <2>2 DEF Backed
<1>14. CreditedOnce' /\ Grounded'
  BY <1>1, <1>5, <1>9, EvidenceTyped, CreditedStays, GroundedStays
<1> QED  BY <1>9, <1>10, <1>11, <1>12, <1>13, <1>14 DEF EvidenceInv

(* The entry is made for the certificate of the row. *)
LEMMA ShareKeeps ==
  ASSUME EvidenceInv, NEW c \in Uploaders, Share(c)
  PROVE  EvidenceInv'
<1>0. PICK u, b, d : u = upload[c] /\ b = u.item /\ d = u.cert  OBVIOUS
<1>1. /\ u \in Upload /\ UploadFits(u) /\ u.phase = "sharing" /\ b \in Bundles
      /\ d \in Certs /\ u.attempt \in Attempts /\ u.attempt = HomeOf[b]
      /\ bundles[b] = d /\ shares[b] \in {NoId, d}
      /\ shares' = [shares EXCEPT ![b] = d]
      /\ Move(c, "announcing")
      /\ UNCHANGED <<journalVars, bytes, objects, bundles, nodes>>
  <2>1. NoId \notin Bundles  BY EvidenceAssumption
  <2> QED  BY <1>0, <2>1, EvidenceTyped DEF Share, UploadFits, Staging, Carrying
<1>2. /\ shares' \in [Bundles -> Certs \cup {NoId}] /\ shares'[b] = d /\ d # NoId
      /\ \A x \in Bundles \ {b} : shares'[x] = shares[x]
  BY <1>1, EvidenceTyped, AccessAssumption
<1>3. Grows  BY <1>1, <1>2 DEF Grows
<1>4. "announcing" \in UploadPhases  BY DEF UploadPhases
<1>5. PICK rec \in Upload :
        /\ upload' = [upload EXCEPT ![c] = rec] /\ rec.phase = "announcing"
        /\ rec.attempt = u.attempt /\ rec.cert = d /\ rec.item = b
  BY <1>0, <1>1, <1>4, EvidenceTyped, MoveIs
<1>6. UploadFits(rec)'
  BY <1>1, <1>2, <1>5 DEF UploadFits, Staging, Carrying
<1>7. JournalInv' /\ NoNews  BY <1>1, JournalRests
<1>8. upload' \in [Uploaders -> Upload] /\ (\A x \in Uploaders : UploadFits(upload[x]))'
  BY <1>3, <1>5, <1>6, EvidenceTyped, UploadsFit
<1>9. TypeOK'
  BY <1>1, <1>2, <1>7, <1>8, EvidenceTyped, JournalIsTypedNext DEF TypeOK
<1>10. OneEach' /\ Backed' /\ Grounded'
  <2>1. OneEach'  BY <1>1, EvidenceTyped DEF OneEach
  <2> QED  BY <1>1, <1>3, <1>7, <2>1, EvidenceTyped, BackedStays, GroundedStays
<1>11. CreditedOnce'
  <2>1. \A x \in Bundles : shares'[x] \in {NoId, bundles'[x]}
    BY <1>1, <1>2, EvidenceTyped DEF CreditedOnce
  <2>2. ASSUME NEW x \in Bundles, NEW a \in Attempts,
               Recorded(a, [type |-> "staged", key |-> <<"staged", x>>])'
        PROVE  a = HomeOf[x] /\ shares'[x] # NoId
    <3>1. Recorded(a, [type |-> "staged", key |-> <<"staged", x>>])  BY <1>7, <2>2 DEF NoNews
    <3> QED  BY <1>2, <3>1, EvidenceTyped DEF CreditedOnce
  <2> HIDE DEF Recorded
  <2> QED  BY <2>1, <2>2 DEF CreditedOnce
<1> QED  BY <1>7, <1>8, <1>9, <1>10, <1>11 DEF EvidenceInv

(* What is told about a Bundle is told last. *)
LEMMA AnnounceKeeps ==
  ASSUME EvidenceInv, NEW c \in Uploaders, Announce(c)
  PROVE  EvidenceInv'
<1>0. PICK u, a, b : u = upload[c] /\ a = u.attempt /\ b = u.item  OBVIOUS
<1> DEFINE e == [type |-> "staged", key |-> <<"staged", b>>]
<1>1. /\ u \in Upload /\ UploadFits(u) /\ u.phase = "announcing" /\ b \in Bundles
      /\ a \in Attempts /\ a = HomeOf[b] /\ shares[b] # NoId
      /\ Note(a, e)
      /\ upload' = [upload EXCEPT ![c] = NoUpload]
      /\ UNCHANGED <<accessVars, attempts, renewed, work,
                     bytes, objects, bundles, shares, nodes>>
  <2>1. NoId \notin Bundles  BY EvidenceAssumption
  <2> QED
    BY <1>0, <2>1, EvidenceTyped DEF Announce, Leave, shelf, UploadFits, Staging, Carrying
<1>2. e \in Event /\ e.type = "staged" /\ Plain(e)
  <2>1. b \in Evidence  BY <1>1, EvidenceAssumption
  <2> QED  BY <2>1, EventsAre DEF Plain, Lifecycle
<1>3. JournalInv'  BY <1>1, <1>2, EvidenceTyped, JournalFollows
<1>4. \A x \in Attempts : \A f :
        /\ Recorded(x, f) => Recorded(x, f)'
        /\ Recorded(x, f)' => Recorded(x, f) \/ (x = a /\ f = e)
  <2> HIDE DEF e, Recorded, Taken
  <2> QED  BY <1>1, <1>2, EvidenceTyped, NotedIs
<1>5. Grows  BY <1>1 DEF Grows
<1>6. upload' \in [Uploaders -> Upload] /\ (\A d \in Uploaders : UploadFits(upload[d]))'
  BY <1>1, <1>5, EvidenceTyped, NoUploadFits, UploadsFit
<1>7. TypeOK'
  BY <1>1, <1>3, <1>6, EvidenceTyped, JournalIsTypedNext DEF TypeOK
<1>8. OneEach' /\ Backed'
  <2>1. OneEach'  BY <1>1, EvidenceTyped DEF OneEach
  <2> QED  BY <1>1, <1>5, <2>1, EvidenceTyped, BackedStays
<1>9. CreditedOnce'
  <2>1. \A x \in Bundles : shares'[x] \in {NoId, bundles'[x]}
    BY <1>1, EvidenceTyped DEF CreditedOnce
  <2>2. ASSUME NEW x \in Bundles, NEW y \in Attempts,
               Recorded(y, [type |-> "staged", key |-> <<"staged", x>>])'
        PROVE  y = HomeOf[x] /\ shares'[x] # NoId
    <3>1. CASE Recorded(y, [type |-> "staged", key |-> <<"staged", x>>])
      BY <1>1, <3>1, EvidenceTyped DEF CreditedOnce
    <3>2. CASE y = a /\ [type |-> "staged", key |-> <<"staged", x>>] = e
      <4>1. x = b  BY <3>2
      <4> QED  BY <1>1, <3>2, <4>1
    <3> QED  BY <1>4, <2>2, <3>1, <3>2
  <2> HIDE DEF Recorded, e
  <2> QED  BY <2>1, <2>2 DEF CreditedOnce
<1>10. Grounded'
  <2>1. \A p \in Nodes : p \in nodes' => Rooted(p)'
    BY <1>1, <1>5, EvidenceTyped, StoredStays DEF Grounded
  <2>2. ASSUME NEW p \in Nodes, NEW y \in Attempts
        PROVE  Recorded(y, [type |-> "published", key |-> <<"published", p>>])'
                 <=> y = HomeOf[p] /\ p \in nodes'
    <3>1. [type |-> "published", key |-> <<"published", p>>] # e
      <4>1. [type |-> "published", key |-> <<"published", p>>].type = "published"  OBVIOUS
      <4> QED  BY <1>2, <4>1
    <3>2. Recorded(y, [type |-> "published", key |-> <<"published", p>>])'
            <=> Recorded(y, [type |-> "published", key |-> <<"published", p>>])
      BY <1>4, <3>1
    <3> HIDE DEF Recorded
    <3> QED  BY <1>1, <3>2, EvidenceTyped DEF Grounded
  <2>3. \A S \in SUBSET nodes' : S # {} => \E p \in S : ParentsOf[p] \cap S = {}
    BY <1>1, EvidenceTyped DEF Grounded
  <2> HIDE DEF Recorded, Rooted
  <2> QED  BY <2>1, <2>2, <2>3 DEF Grounded
<1> QED  BY <1>3, <1>6, <1>7, <1>8, <1>9, <1>10 DEF EvidenceInv

-----------------------------------------------------------------------------
(* Evidence: the research graph *)

LEMMA CheckKeeps ==
  ASSUME EvidenceInv, NEW c \in Uploaders, Check(c)
  PROVE  EvidenceInv'
<1>0. PICK u, p : u = upload[c] /\ p = u.item  OBVIOUS
<1>1. /\ u \in Upload /\ UploadFits(u) /\ u.phase = "checking" /\ p \in Nodes
      /\ u.attempt \in Attempts /\ u.cert \in Certs /\ u.attempt = HomeOf[p]
      /\ UNCHANGED <<journalVars, bytes, objects, bundles, shares, nodes>>
      /\ Leave(c) \/ (Rooted(p) /\ Move(c, "publishing"))
  <2>1. NoId \notin Nodes  BY EvidenceAssumption
  <2> QED  BY <1>0, <2>1, EvidenceTyped DEF Check, shelf, UploadFits, Staging, Carrying
<1>2. CASE Leave(c)  BY <1>1, <1>2, AbortKeeps
<1>3. CASE Rooted(p) /\ Move(c, "publishing")
  <2>1. "publishing" \in UploadPhases  BY DEF UploadPhases
  <2>2. PICK rec \in Upload :
          /\ upload' = [upload EXCEPT ![c] = rec] /\ rec.phase = "publishing"
          /\ rec.attempt = u.attempt /\ rec.cert = u.cert /\ rec.item = p
    BY <1>0, <1>3, <2>1, EvidenceTyped, MoveIs
  <2>3. UploadFits(rec)
    BY <1>1, <1>3, <2>2 DEF UploadFits, Staging, Carrying
  <2>4. Grows  BY <1>1 DEF Grows
  <2>5. UploadFits(rec)'  BY <2>2, <2>3, <2>4, FitsStays
  <2> QED  BY <1>1, <2>2, <2>5, EvidenceTyped, JournalRests, QuietMoves
<1> QED  BY <1>1, <1>2, <1>3

(* A checkpoint that is new hangs below what is there: no cycle closes.    *)
LEMMA StillAcyclic ==
  ASSUME NEW old \in SUBSET Nodes, NEW p \in Nodes \ old, ParentsOf[p] \subseteq old,
         \A q \in old : ParentsOf[q] \subseteq old,
         \A S \in SUBSET old : S # {} => \E q \in S : ParentsOf[q] \cap S = {}
  PROVE  \A S \in SUBSET (old \cup {p}) : S # {} => \E q \in S : ParentsOf[q] \cap S = {}
<1> SUFFICES ASSUME NEW S \in SUBSET (old \cup {p}), S # {}
             PROVE  \E q \in S : ParentsOf[q] \cap S = {}
  OBVIOUS
<1>1. CASE S \ {p} = {}
  <2>1. S = {p}  BY <1>1
  <2> QED  BY <2>1
<1>2. CASE S \ {p} # {}
  <2>1. S \ {p} \in SUBSET old  OBVIOUS
  <2>2. PICK q \in S \ {p} : ParentsOf[q] \cap (S \ {p}) = {}  BY <1>2, <2>1
  <2>3. q \in old /\ p \notin ParentsOf[q]  BY <2>1
  <2> QED  BY <2>2, <2>3
<1> QED  BY <1>1, <1>2

LEMMA PublishKeeps ==
  ASSUME EvidenceInv, NEW c \in Uploaders, Publish(c)
  PROVE  EvidenceInv'
<1>0. PICK u, p : u = upload[c] /\ p = u.item  OBVIOUS
<1> DEFINE a == HomeOf[p]
           e == [type |-> "published", key |-> <<"published", p>>]
<1>1. /\ u \in Upload /\ UploadFits(u) /\ u.phase = "publishing" /\ p \in Nodes
      /\ Rooted(p)
      /\ \/ UNCHANGED <<nodes, journal>>
         \/ /\ p \notin nodes /\ ~ Taken(a, e.key)
            /\ nodes' = nodes \cup {p} /\ Note(a, e)
      /\ Leave(c) /\ upload' = [upload EXCEPT ![c] = NoUpload]
      /\ UNCHANGED <<accessVars, attempts, renewed, work, bytes, objects, bundles, shares>>
  BY <1>0, EvidenceTyped DEF Publish, Leave, UploadFits, Staging, Carrying
<1>2. CASE UNCHANGED <<nodes, journal>>
  <2>1. UNCHANGED <<journalVars, bytes, objects, bundles, shares, nodes>>
    BY <1>1, <1>2 DEF journalVars, research
  <2> QED  BY <1>1, <2>1, AbortKeeps
<1>3. CASE p \notin nodes /\ ~ Taken(a, e.key) /\ nodes' = nodes \cup {p} /\ Note(a, e)
  <2>1. a \in Attempts /\ p \in Evidence /\ p \notin ParentsOf[p]
    BY <1>1, EvidenceAssumption
  <2>2. e \in Event /\ e.type = "published" /\ Plain(e)
    BY <2>1, EventsAre DEF Plain, Lifecycle
  <2>3. JournalInv'  BY <1>1, <1>3, <2>1, <2>2, EvidenceTyped, JournalFollows
  <2>4. \A x \in Attempts : \A f : Recorded(x, f)' <=> Recorded(x, f) \/ (x = a /\ f = e)
    <3> HIDE DEF a, e, Recorded, Taken
    <3> QED  BY <1>3, <2>1, <2>2, EvidenceTyped, NotedIs
  <2>5. Grows  BY <1>1, <1>3 DEF Grows
  <2>6. upload' \in [Uploaders -> Upload] /\ (\A d \in Uploaders : UploadFits(upload[d]))'
    BY <1>1, <2>5, EvidenceTyped, NoUploadFits, UploadsFit
  <2>7. TypeOK'
    BY <1>1, <1>3, <2>3, <2>6, EvidenceTyped, JournalIsTypedNext DEF TypeOK
  <2>8. OneEach' /\ Backed'
    <3>1. OneEach'  BY <1>1, EvidenceTyped DEF OneEach
    <3> QED  BY <1>1, <2>5, <3>1, EvidenceTyped, BackedStays
  <2>9. CreditedOnce'
    <3>1. \A x \in Bundles : shares'[x] \in {NoId, bundles'[x]}
      BY <1>1, EvidenceTyped DEF CreditedOnce
    <3>2. ASSUME NEW x \in Bundles, NEW y \in Attempts,
                 Recorded(y, [type |-> "staged", key |-> <<"staged", x>>])'
          PROVE  y = HomeOf[x] /\ shares'[x] # NoId
      <4>1. [type |-> "staged", key |-> <<"staged", x>>] # e
        <5>1. [type |-> "staged", key |-> <<"staged", x>>].type = "staged"  OBVIOUS
        <5> QED  BY <2>2, <5>1
      <4>2. Recorded(y, [type |-> "staged", key |-> <<"staged", x>>])  BY <2>4, <3>2, <4>1
      <4> QED  BY <1>1, <4>2, EvidenceTyped DEF CreditedOnce
    <3> HIDE DEF Recorded, e
    <3> QED  BY <3>1, <3>2 DEF CreditedOnce
  <2>10. Grounded'
    <3>1. ASSUME NEW q \in Nodes, q \in nodes' PROVE Rooted(q)'
      <4>1. Rooted(q)  BY <1>1, <1>3, <3>1, EvidenceTyped DEF Grounded
      <4> QED  BY <2>5, <4>1, StoredStays
    <3>2. ASSUME NEW q \in Nodes, NEW y \in Attempts
          PROVE  Recorded(y, [type |-> "published", key |-> <<"published", q>>])'
                   <=> y = HomeOf[q] /\ q \in nodes'
      <4>1. Recorded(y, [type |-> "published", key |-> <<"published", q>>])
              <=> y = HomeOf[q] /\ q \in nodes
        BY EvidenceTyped DEF Grounded
      <4>2. [type |-> "published", key |-> <<"published", q>>] = e <=> q = p
        <5>1. /\ [type |-> "published", key |-> <<"published", q>>].key = <<"published", q>>
              /\ e.key = <<"published", p>>
          OBVIOUS
        <5> QED  BY <5>1
      <4>3. Recorded(y, [type |-> "published", key |-> <<"published", q>>])'
              <=> Recorded(y, [type |-> "published", key |-> <<"published", q>>]) \/ (y = a /\ q = p)
        BY <2>4, <4>2
      <4> HIDE DEF Recorded
      <4> QED  BY <1>3, <4>1, <4>3
    <3>3. \A S \in SUBSET nodes' : S # {} => \E q \in S : ParentsOf[q] \cap S = {}
      <4>1. PICK old : old = nodes  OBVIOUS
      <4>2. /\ old \in SUBSET Nodes /\ p \in Nodes \ old /\ ParentsOf[p] \subseteq old
            /\ \A q \in old : ParentsOf[q] \subseteq old
            /\ \A S \in SUBSET old : S # {} => \E q \in S : ParentsOf[q] \cap S = {}
        BY <1>1, <1>3, <4>1, EvidenceTyped DEF Grounded, Rooted
      <4>3. nodes' = old \cup {p}  BY <1>3, <4>1
      <4> QED  BY <2>1, <4>2, <4>3, StillAcyclic
    <3> HIDE DEF Recorded, Rooted
    <3> QED  BY <3>1, <3>2, <3>3 DEF Grounded
  <2> QED  BY <2>3, <2>6, <2>7, <2>8, <2>9, <2>10 DEF EvidenceInv
<1> QED  BY <1>1, <1>2, <1>3

-----------------------------------------------------------------------------
(* Evidence: the invariant *)

LEMMA EvidenceNextKeeps ==
  ASSUME EvidenceInv, EvidenceNext
  PROVE  EvidenceInv'
<1> SUFFICES ASSUME NEW c \in Uploaders,
                    \/ \E t \in Pairs :
                         \/ \E a \in Attempts, o \in Object : AskPut(c, t, a, o)
                         \/ \E x \in Bundles \cup Nodes : AskAttach(c, t, x)
                    \/ RenewFirst(c) \/ NoteFirst(c)
                    \/ Place(c) \/ Index(c) \/ Put(c) \/ Insert(c)
                    \/ Weigh(c) \/ Look(c) \/ Store(c) \/ Share(c) \/ Announce(c)
                    \/ Check(c) \/ Publish(c)
                    \/ Abort(c)
             PROVE  EvidenceInv'
  BY DEF EvidenceNext
<1>1. ASSUME NEW t \in Pairs,
             \/ \E a \in Attempts, o \in Object : AskPut(c, t, a, o)
             \/ \E x \in Bundles \cup Nodes : AskAttach(c, t, x)
      PROVE  EvidenceInv'
  BY <1>1, AsksEvidenceKeep
<1>2. CASE RenewFirst(c) \/ NoteFirst(c)  BY <1>2, RenewalsKeep
<1>3. CASE Place(c) \/ Put(c)  BY <1>3, PutsKeep
<1>4. CASE Index(c)  BY <1>4, IndexKeeps
<1>5. CASE Insert(c)  BY <1>5, InsertKeeps
<1>6. CASE Weigh(c)  BY <1>6, WeighKeeps
<1>7. CASE Look(c)  BY <1>7, LookKeeps
<1>8. CASE Store(c)  BY <1>8, StoreKeeps
<1>9. CASE Share(c)  BY <1>9, ShareKeeps
<1>10. CASE Announce(c)  BY <1>10, AnnounceKeeps
<1>11. CASE Check(c)  BY <1>11, CheckKeeps
<1>12. CASE Publish(c)  BY <1>12, PublishKeeps
<1>13. CASE Abort(c)
  <2>1. Leave(c) /\ UNCHANGED <<journalVars, bytes, objects, bundles, shares, nodes>>
    BY <1>13 DEF Abort, shelf
  <2> QED  BY <2>1, AbortKeeps
<1> QED
  BY <1>1, <1>2, <1>3, <1>4, <1>5, <1>6, <1>7, <1>8, <1>9, <1>10, <1>11, <1>12, <1>13

LEMMA EvidenceStep ==
  ASSUME EvidenceInv, [Next]_vars
  PROVE  EvidenceInv'
<1>1. CASE [JournalNext]_journalVars /\ UNCHANGED <<shelf, upload>>
  <2>1. JournalInv' /\ NoNews  BY <1>1, EvidenceTyped, JournalStep, JournalStepNoNews
  <2> QED  BY <1>1, <2>1, ShelfStands
<1>2. CASE EvidenceNext  BY <1>2, EvidenceNextKeeps
<1> QED  BY <1>1, <1>2 DEF Next, vars

LEMMA EvidenceInvInit == Init => EvidenceInv
<1> SUFFICES ASSUME Init PROVE EvidenceInv
  OBVIOUS
<1>1. JournalInv /\ JournalTypeOK  BY JournalInvInit DEF Init, JournalInv
<1>2. \A c \in Uploaders : upload[c] = NoUpload  BY DEF Init
<1>3. NoUpload \in Upload /\ UploadFits(NoUpload)
  <2>1. UploadFits(NoUpload)  BY DEF NoUpload, UploadFits, Staging, Carrying
  <2> QED  BY <2>1, NoUploadFits
<1>4. \A c \in Uploaders : UploadFits(upload[c])  BY <1>2, <1>3
<1>5. TypeOK  BY <1>1, <1>3 DEF Init, TypeOK
<1>6. Backed /\ OneEach  BY DEF Init, Backed, OneEach
<1>7. \A a \in Attempts : \A e : ~ Recorded(a, e)
  BY DEF Init, JournalInit, Recorded
<1>8. CreditedOnce /\ Grounded
  <2> HIDE DEF Recorded
  <2> QED  BY <1>7 DEF Init, CreditedOnce, Grounded
<1> QED  BY <1>1, <1>4, <1>5, <1>6, <1>8 DEF EvidenceInv

LEMMA EvidenceInvariant == Spec => []EvidenceInv
<1>1. EvidenceInv /\ [Next]_vars => EvidenceInv'  BY EvidenceStep
<1> QED  BY <1>1, EvidenceInvInit, PTL DEF Spec

(* Objects, Bundles, entries of credit, checkpoints and the operations on  *)
(* them keep their shape.                                                  *)
THEOREM EvidenceTypeCorrect == Spec => []TypeOK
<1>1. EvidenceInv => TypeOK  BY DEF EvidenceInv
<1> QED  BY <1>1, EvidenceInvariant, PTL

(* However uploads, stagings and publications race, stop half-way and are  *)
(* repeated, evidence is complete, credited as it was staged, and grounded *)
(* (services/artifacts, services/research/d1-research-graph-store).        *)
THEOREM EvidenceAlwaysStands == Spec => []EvidenceStands
<1>1. EvidenceInv => EvidenceStands
  <2> SUFFICES ASSUME EvidenceInv PROVE EvidenceStands
    OBVIOUS
  <2>1. Backed /\ OneEach /\ CreditedOnce /\ Grounded  BY DEF EvidenceInv
  <2>2. ASSUME NEW b \in Bundles PROVE Cardinality(SameEvent(b)) <= 1
    <3>1. \A x, y \in SameEvent(b) : x = y
      BY <2>1 DEF SameEvent, OneEach
    <3>2. CASE SameEvent(b) = {}  BY <3>2, FS_EmptySet
    <3>3. CASE SameEvent(b) # {}
      <4>1. PICK x : x \in SameEvent(b)  BY <3>3
      <4> HIDE DEF SameEvent
      <4>2. SameEvent(b) = {x}  BY <3>1, <4>1
      <4>3. Cardinality({x}) = 1  BY FS_Singleton
      <4> QED  BY <4>2, <4>3
    <3> QED  BY <3>2, <3>3
  <2>3. Attributed
    <3> HIDE DEF Recorded, SameEvent
    <3> QED  BY <2>1, <2>2 DEF Attributed, CreditedOnce
  <2> QED  BY <2>1, <2>3 DEF EvidenceStands
<1> QED  BY <1>1, EvidenceInvariant, PTL

(* The evidence on an Attempt is attached beside the work on it, under     *)
(* keys of its own: the journal still tells the row, each version by its   *)
(* decision or by the report that took its key.                            *)
THEOREM JournalTellsUnderEvidence == Spec => []JournalTellsRow
<1>1. EvidenceInv => JournalTellsRow  BY TellsTheRow DEF EvidenceInv
<1> QED  BY <1>1, EvidenceInvariant, PTL

LEMMA WorkKeepsAccess ==
  ASSUME WorkNext
  PROVE  UNCHANGED accessVars
<1>1. ASSUME NEW c \in Workers, NEW t \in Pairs, NEW a \in Attempts, NEW r \in Reports,
             AskReport(c, t, a, r)
      PROVE  UNCHANGED accessVars
  BY <1>1 DEF AskReport
<1>2. ASSUME NEW c \in Workers, NEW t \in Pairs, NEW a \in Attempts, AskCreate(c, t, a)
      PROVE  UNCHANGED accessVars
  BY <1>2 DEF AskCreate
<1>3. ASSUME NEW c \in Workers, Create(c) \/ Open(c) \/ Renew(c) \/ NoteRenewal(c)
      PROVE  UNCHANGED accessVars
  BY <1>3 DEF Create, Open, Renew, NoteRenewal
<1>4. ASSUME NEW c \in Workers, Report(c) \/ Progress(c)
      PROVE  UNCHANGED accessVars
  BY <1>4 DEF Report, Progress
<1>5. ASSUME NEW c \in Workers, NEW a \in Attempts, NEW action \in Actions,
             AskTransition(c, a, action)
      PROVE  UNCHANGED accessVars
  BY <1>5 DEF AskTransition
<1>6. ASSUME NEW c \in Workers, Transition(c) \/ Drop(c)
      PROVE  UNCHANGED accessVars
  BY <1>6 DEF Transition, Drop
<1>7. ASSUME NEW a \in Attempts, Cancel(a)
      PROVE  UNCHANGED accessVars
  BY <1>7 DEF Cancel
<1> HIDE DEF accessVars
<1> QED  BY <1>1, <1>2, <1>3, <1>4, <1>5, <1>6, <1>7 DEF WorkNext

LEMMA EvidenceNextKeepsAccess ==
  ASSUME EvidenceNext
  PROVE  UNCHANGED accessVars
<1> HIDE DEF accessVars
<1>1. ASSUME NEW c \in Uploaders, NEW t \in Pairs, NEW a \in Attempts, NEW o \in Object,
             AskPut(c, t, a, o)
      PROVE  UNCHANGED accessVars
  BY <1>1 DEF AskPut, Ask, journalVars
<1>2. ASSUME NEW c \in Uploaders, NEW t \in Pairs, NEW x \in Bundles \cup Nodes,
             AskAttach(c, t, x)
      PROVE  UNCHANGED accessVars
  BY <1>2 DEF AskAttach, Ask, journalVars
<1>3. ASSUME NEW c \in Uploaders, RenewFirst(c) \/ NoteFirst(c) \/ Announce(c) \/ Publish(c)
      PROVE  UNCHANGED accessVars
  BY <1>3 DEF RenewFirst, NoteFirst, Announce, Publish
<1>4. ASSUME NEW c \in Uploaders, Place(c) \/ Index(c) \/ Put(c) \/ Insert(c)
      PROVE  UNCHANGED accessVars
  BY <1>4 DEF Place, Index, Put, Insert, journalVars
<1>5. ASSUME NEW c \in Uploaders,
             Weigh(c) \/ Look(c) \/ Store(c) \/ Share(c) \/ Check(c) \/ Abort(c)
      PROVE  UNCHANGED accessVars
  BY <1>5 DEF Weigh, Look, Store, Share, Check, Abort, journalVars
<1> QED  BY <1>1, <1>2, <1>3, <1>4, <1>5 DEF EvidenceNext

(* Nor does it touch the connections of the Agent: what is proved of       *)
(* AgentAccess holds of the gateway as a whole.                            *)
THEOREM EvidenceKeepsAccess == Spec => AccessSpec
<1>1. Init => AccessInit  BY DEF Init, JournalInit
<1>2. [Next]_vars => [AccessNext]_accessVars
  <2> SUFFICES ASSUME [Next]_vars PROVE [AccessNext]_accessVars
    OBVIOUS
  <2>1. CASE JournalNext  BY <2>1, WorkKeepsAccess DEF JournalNext
  <2>2. CASE EvidenceNext  BY <2>2, EvidenceNextKeepsAccess
  <2>3. CASE UNCHANGED vars  BY <2>3 DEF vars, journalVars
  <2> QED  BY <2>1, <2>2, <2>3 DEF Next
<1> QED  BY <1>1, <1>2, PTL DEF Spec, AccessSpec
=============================================================================
