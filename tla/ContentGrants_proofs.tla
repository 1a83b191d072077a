------------------------- MODULE ContentGrants_proofs -------------------------
(***************************************************************************)
(* Theorems about ContentGrants, for every set of items, protocols,        *)
(* sessions and forms.                                                     *)
(***************************************************************************)
EXTENDS ContentGrants, TLAPS

------------------------------------------------------------------------------
(* Type correctness. *)

LEMMA RowsType ==
    ASSUME NEW ps \in SUBSET Protocols, NEW v, NEW acc
    PROVE  Rows(ps, v, acc) \in SUBSET (Realms \cup Protocols)
BY DEF Rows, Realms

LEMMA InitTypeOK == Init => TypeOK
<1> SUFFICES ASSUME Init PROVE TypeOK
  OBVIOUS
<1>1. /\ StoredAs[1] \in SUBSET Protocols
      /\ StoredAs[2] \in Privacy
  BY FormsAssumption
<1>2. grants \in [Items -> SUBSET (Realms \cup Protocols)]
  BY <1>1, RowsType DEF Init, RowsOf
<1>3. AllOpen \in [Protocols -> Access]
  BY DEF AllOpen, Access
<1> QED BY <1>1, <1>2, <1>3 DEF Init, TypeOK, Points

LEMMA EndTypeOK ==
    ASSUME TypeOK, NEW s \in Sessions, End(s),
           access' \in [Protocols -> Access],
           UNCHANGED <<refs, privacy, grants>>,
           indexed' \in [Items -> SUBSET (Realms \cup Protocols)],
           changed' \in SUBSET Items,
           queue' \in SUBSET Items,
           batch' \in SUBSET Protocols,
           cut' \in SUBSET Items,
           unseen' \in SUBSET Items
    PROVE  TypeOK'
<1>1. AllOpen \in [Protocols -> Access]
  BY DEF AllOpen, Access
<1> QED BY <1>1 DEF TypeOK, End, Go, Points

LEMMA IndexType ==
    ASSUME TypeOK, NEW is \in SUBSET Items, Index(is)
    PROVE  /\ indexed' \in [Items -> SUBSET (Realms \cup Protocols)]
           /\ changed' \in SUBSET Items
BY DEF TypeOK, Index

LEMMA NextTypeOK == TypeOK /\ [Next]_vars => TypeOK'
<1> SUFFICES ASSUME TypeOK, [Next]_vars PROVE TypeOK'
  OBVIOUS
<1>1. ASSUME NEW s \in Sessions, NEW i \in Items, NEW e \in ItemForms,
             BeginItem(s, i, e[1], e[2])
      PROVE  TypeOK'
  <2>1. e[1] \in SUBSET Protocols /\ e[2] \in Privacy
    BY FormsAssumption
  <2>2. [item |-> i, refs |-> e[1], privacy |-> e[2]] \in ItemEdits
    BY <2>1 DEF ItemEdits
  <2> QED BY <1>1, <2>2 DEF BeginItem, CanStart, Go, TypeOK, Points, site
<1>2. ASSUME NEW s \in Sessions, CommitItem(s)
      PROVE  TypeOK'
  <2> DEFINE e == edit[s]
  <2>1. /\ e.item \in Items
        /\ e.refs \in SUBSET Protocols
        /\ e.privacy \in Privacy
    BY <1>2 DEF CommitItem, TypeOK, ItemEdits
  <2>2. Rows(e.refs, e.privacy, seen[s]) \in SUBSET (Realms \cup Protocols)
    BY <2>1, RowsType
  <2>3. /\ refs' \in [Items -> SUBSET Protocols]
        /\ privacy' \in [Items -> Privacy]
        /\ grants' \in [Items -> SUBSET (Realms \cup Protocols)]
        /\ changed' \in SUBSET Items
        /\ delayed' \in [Sessions -> SUBSET Items]
    BY <1>2, <2>1, <2>2 DEF CommitItem, TypeOK
  <2>4. /\ at' = [at EXCEPT ![s] = "shutdown"]
        /\ at' \in [Sessions -> Points]
        /\ current[s] = None
        /\ unseen' \in SUBSET Items
    BY <1>2 DEF CommitItem, Go, TypeOK, Points
  <2>5. UNCHANGED <<access, indexed, queue, batch, cut, edit, seen, conf, work,
                    current, records, wiped>>
    BY <1>2 DEF CommitItem
  <2> QED BY <2>3, <2>4, <2>5 DEF TypeOK
<1>3. ASSUME NEW s \in Sessions, NEW p \in Protocols, NEW a \in Access,
             NEW roles \in BOOLEAN, NEW form \in BOOLEAN, NEW bypass \in BOOLEAN,
             NEW ms \in SUBSET Protocols,
             BeginProtocol(s, p, a, roles, form, ms, bypass)
      PROVE  TypeOK'
  <2> DEFINE moved == a # access[p]
             members == {i \in Items : p \in refs[i]}
             found == {i \in members : bypass \/ Viewable(ms, i)}
             missed == IF moved /\ p \notin ms THEN members \ found ELSE {}
             e == [protocol |-> p, access |-> a, batch |-> moved /\ form,
                   missed |-> missed]
             w == IF moved \/ roles THEN found ELSE {}
  <2>1. missed \in SUBSET Items /\ w \in SUBSET Items /\ (moved /\ form) \in BOOLEAN
    OBVIOUS
  <2>2. e \in ProtocolEdits
    BY <2>1 DEF ProtocolEdits
  <2>3. /\ edit' = [edit EXCEPT ![s] = e]
        /\ work' = [work EXCEPT ![s] = w]
        /\ conf' = [conf EXCEPT ![s] = queue]
        /\ at' = [at EXCEPT ![s] = "protocol"]
        /\ at[s] = "idle"
        /\ UNCHANGED <<site, grants, indexed, changed, queue, batch, cut, unseen,
                       seen, current, records, wiped, delayed>>
    BY <1>3 DEF BeginProtocol, CanStart, Go
  <2> HIDE DEF e, w
  <2> QED BY <2>1, <2>2, <2>3 DEF TypeOK, Points, site
<1>4. ASSUME NEW s \in Sessions, CommitProtocol(s)
      PROVE  TypeOK'
  <2>1. /\ edit[s].protocol \in Protocols
        /\ edit[s].access \in Access
        /\ edit[s].missed \in SUBSET Items
    BY <1>4 DEF CommitProtocol, TypeOK, ProtocolEdits
  <2>2. access' \in [Protocols -> Access]
    BY <1>4, <2>1 DEF CommitProtocol, TypeOK
  <2>3. /\ queue' \in SUBSET Items
        /\ batch' \in SUBSET Protocols
        /\ unseen' \in SUBSET Items
    BY <1>4, <2>1 DEF CommitProtocol, TypeOK, Queued
  <2> QED BY <1>4, <2>2, <2>3, EndTypeOK DEF CommitProtocol, TypeOK
<1>5. ASSUME NEW s \in Sessions, BeginList(s)
      PROVE  TypeOK'
  BY <1>5 DEF BeginList, CanStart, Go, TypeOK, Points, site
<1>6. ASSUME NEW s \in Sessions, NEW p \in Protocols, BeginBatch(s, p)
      PROVE  TypeOK'
  BY <1>6 DEF BeginBatch, CanStart, Go, TypeOK, Points, site
<1>7. ASSUME NEW s \in Sessions, NEW i \in Items, ReadItem(s, i)
      PROVE  TypeOK'
  <2>1. RowsOf(i) \in SUBSET (Realms \cup Protocols)
    BY RowsType DEF RowsOf, TypeOK
  <2>2. grants' \in [Items -> SUBSET (Realms \cup Protocols)]
    BY <1>7 DEF ReadItem, TypeOK
  <2> QED BY <1>7, <2>1, <2>2 DEF ReadItem, TypeOK, site
<1>8. ASSUME NEW s \in Sessions, DeleteGrants(s) \/ WriteGrants(s)
      PROVE  TypeOK'
  <2>1. PICK i \in Items : i = current[s]
    BY <1>8 DEF DeleteGrants, WriteGrants, TypeOK
  <2>2. CASE DeleteGrants(s)
    <3>1. grants' = [grants EXCEPT ![i] = {}]
      BY <2>1, <2>2 DEF DeleteGrants
    <3>2. grants' \in [Items -> SUBSET (Realms \cup Protocols)]
      BY <3>1 DEF TypeOK
    <3>3. /\ wiped' \in [Sessions -> BOOLEAN]
          /\ \A t \in Sessions : wiped'[t] => current[t] # None
      BY <2>2 DEF DeleteGrants, TypeOK
    <3> QED BY <2>2, <3>2, <3>3 DEF DeleteGrants, TypeOK, site
  <2>3. CASE WriteGrants(s)
    <3>1. grants' = [grants EXCEPT ![i] = @ \cup records[s]]
      BY <2>1, <2>3 DEF WriteGrants
    <3>2. grants[i] \cup records[s] \in SUBSET (Realms \cup Protocols)
      BY DEF TypeOK
    <3>3. grants' \in [Items -> SUBSET (Realms \cup Protocols)]
      BY <3>1, <3>2 DEF TypeOK
    <3> QED BY <2>3, <3>3 DEF WriteGrants, TypeOK, site
  <2> QED BY <1>8, <2>2, <2>3
<1>9. ASSUME NEW s \in Sessions, IndexQueued(s)
      PROVE  TypeOK'
  <2>1. /\ indexed' \in [Items -> SUBSET (Realms \cup Protocols)]
        /\ changed' \in SUBSET Items
    BY <1>9, IndexType DEF IndexQueued, TypeOK
  <2> QED BY <1>9, <2>1 DEF IndexQueued, Go, TypeOK, Points, site, local
<1>10. ASSUME NEW s \in Sessions, ClearQueue(s) \/ Finish(s)
       PROVE  TypeOK'
  BY <1>10 DEF ClearQueue, Finish, Go, TypeOK, Points, site, local
<1>11. ASSUME NEW s \in Sessions, Shutdown(s)
       PROVE  TypeOK'
  <2>1. /\ indexed' \in [Items -> SUBSET (Realms \cup Protocols)]
        /\ changed' \in SUBSET Items
    BY <1>11, IndexType DEF Shutdown, TypeOK
  <2> QED BY <1>11, <2>1, EndTypeOK DEF Shutdown, TypeOK, site
<1>12. ASSUME NEW s \in Sessions, Abort(s)
       PROVE  TypeOK'
  BY <1>12, EndTypeOK DEF Abort, TypeOK, site
<1>13. CASE Cron
  <2>1. /\ indexed' \in [Items -> SUBSET (Realms \cup Protocols)]
        /\ changed' \in SUBSET Items
    BY <1>13, IndexType DEF Cron, TypeOK
  <2> QED BY <1>13, <2>1 DEF Cron, TypeOK, site, local
<1>14. CASE UNCHANGED vars
  BY <1>14 DEF vars, TypeOK
<1> QED BY <1>1, <1>2, <1>3, <1>4, <1>5, <1>6, <1>7, <1>8, <1>9, <1>10, <1>11,
           <1>12, <1>13, <1>14 DEF Next

(* The rows are always realms or protocols, and a request that is about to
   commit an item (a protocol) holds an item's (a protocol's) values. *)
THEOREM TypeCorrect == Spec => []TypeOK
<1> QED BY InitTypeOK, NextTypeOK, PTL DEF Spec

------------------------------------------------------------------------------
(* Whatever the index held before, an item whose entry holds the rows it
   should have is listed exactly to those who may open its page. *)
THEOREM ListingsDecideLikePages == Spec => []ListingsAgree
<1>1. TypeOK => ListingsAgree
  <2> SUFFICES ASSUME TypeOK, NEW i \in Items, indexed[i] = RowsOf(i),
                      NEW ms \in SUBSET Protocols
               PROVE  Listed(ms, i) <=> CanView(ms, i)
    BY DEF ListingsAgree
  <2>1. /\ refs[i] \subseteq Protocols
        /\ privacy[i] \in {"any", "all"}
        /\ \A p \in refs[i] : access[p] \in {"open", "strict"}
    BY DEF TypeOK, Privacy, Access
  <2>2. \A p \in Protocols : p \notin Realms
    BY RealmsAssumption
  <2>3. CASE SharedOpenly(refs[i], privacy[i], access)
    <3>1. privacy[i] = "any" /\ indexed[i] = {"public"}
      BY <2>3 DEF RowsOf, Rows, SharedOpenly
    <3> QED BY <2>3, <3>1 DEF SharedOpenly, Listed, CanView, Realms
  <2>4. CASE /\ ~SharedOpenly(refs[i], privacy[i], access)
             /\ \E p \in refs[i] : access[p] # "open"
    <3>1. indexed[i] = refs[i] /\ indexed[i] \cap Realms = {}
      BY <2>1, <2>2, <2>4 DEF RowsOf, Rows
    <3>2. CASE privacy[i] = "any"
      BY <2>4, <3>1, <3>2 DEF SharedOpenly, Listed, CanView
    <3>3. CASE privacy[i] = "all"
      BY <2>1, <2>4, <3>1, <3>3 DEF SharedOpenly, Listed, CanView
    <3> QED BY <2>1, <3>2, <3>3
  <2>5. CASE \A p \in refs[i] : access[p] = "open"
    <3>1. indexed[i] \cap Realms # {}
      BY <2>5 DEF RowsOf, Rows, Realms
    <3> QED BY <2>1, <2>5, <3>1 DEF Listed, CanView
  <2> QED BY <2>3, <2>4, <2>5
<1> QED BY <1>1, TypeCorrect, PTL

------------------------------------------------------------------------------
(***************************************************************************)
(* The queue, when requests do not overlap: what is stale is queued, an    *)
(* item leaves the queue rebuilt, and a listing is rendered from fresh     *)
(* entries.  The inductive invariant adds what the request in progress     *)
(* knows: its copies of the variable and of the protocols are current, the *)
(* items it has rebuilt are fresh, and what the index lacks is in its      *)
(* delayed set.                                                            *)
(***************************************************************************)
Fresh(i) == grants[i] = RowsOf(i)

OneRequest == \A s, t \in Sessions : at[s] # "idle" /\ at[t] # "idle" => s = t

(* However outdated the rows of an item are, they admit all readers, or the
   members of each of its protocols. *)
Reaches(i) == grants[i] \cap Realms # {} \/ refs[i] \subseteq grants[i]

RowsReachMembers ==
    \A i \in Items \ cut : Reaches(i) \/ \E s \in Sessions : current[s] = i

(* An entry that differs from the rows is about to be indexed. *)
IndexIsDue ==
    \A i \in Items \ cut :
        indexed[i] = grants[i] \/ \E s \in Sessions : i \in delayed[s]

IdleHolds(s) == conf[s] = {} /\ work[s] = {} /\ delayed[s] = {}

ItemHolds(s) == seen[s] = access /\ delayed[s] = {}

ProtocolHolds(s) ==
    /\ conf[s] = queue
    /\ delayed[s] = {}
    /\ edit[s].access # access[edit[s].protocol] =>
         \A i \in Items \ cut :
           edit[s].protocol \in refs[i] => i \in work[s] \cup edit[s].missed

ListHolds(s) ==
    /\ conf[s] = queue
    /\ work[s] \subseteq conf[s]
    /\ delayed[s] \subseteq conf[s]
    /\ \A i \in conf[s] \ work[s] : Fresh(i)

ClearHolds(s) == \A i \in queue : Fresh(i)

IndexedHolds(s) == \A i \in Items \ cut : indexed[i] = grants[i]

RebuildHolds(s) ==
    /\ current[s] # None =>
         /\ current[s] \in work[s] \cap delayed[s]
         /\ records[s] = RowsOf(current[s])
         /\ wiped[s] => grants[current[s]] = {}
    /\ \A i \in delayed[s] : Fresh(i) \/ i = current[s]

RequestHolds(s) ==
    /\ at[s] = "idle" => IdleHolds(s)
    /\ at[s] = "item" => ItemHolds(s)
    /\ at[s] = "protocol" => ProtocolHolds(s)
    /\ at[s] = "list" => ListHolds(s)
    /\ at[s] = "clear" => ClearHolds(s)
    /\ at[s] = "render" => queue = {}
    /\ at[s] \in {"clear", "render"} => IndexedHolds(s)
    /\ RebuildHolds(s)

QueueInvariant ==
    /\ TypeOK
    /\ OneRequest
    /\ StaleIsQueued
    /\ RowsReachMembers
    /\ IndexIsDue
    /\ \A s \in Sessions : RequestHolds(s)

------------------------------------------------------------------------------
(* Lemmas. *)

(* The rows of an item depend on the access of its own protocols only. *)
LEMMA RowsDependOnRefs ==
    ASSUME NEW ps, NEW v, NEW acc1, NEW acc2, \A p \in ps : acc1[p] = acc2[p]
    PROVE  Rows(ps, v, acc1) = Rows(ps, v, acc2)
BY DEF Rows, SharedOpenly

(* Rows that are as they should be reach the members. *)
LEMMA FreshReaches ==
    ASSUME NEW i \in Items, Fresh(i)
    PROVE  Reaches(i)
BY DEF Fresh, Reaches, RowsOf, Rows, Realms

LEMMA InitQueueInvariant == Init => QueueInvariant
<1> SUFFICES ASSUME Init PROVE QueueInvariant
  OBVIOUS
<1>1. TypeOK
  BY InitTypeOK
<1>2. \A i \in Items : Fresh(i) /\ indexed[i] = grants[i]
  BY DEF Init, Fresh
<1>3. \A s \in Sessions : RequestHolds(s)
  BY DEF Init, RequestHolds, IdleHolds, RebuildHolds
<1>4. \A i \in Items : Reaches(i)
  BY <1>2, FreshReaches
<1> QED BY <1>1, <1>2, <1>3, <1>4
       DEF Init, QueueInvariant, OneRequest, StaleIsQueued, RowsReachMembers, IndexIsDue,
           Fresh

(* Nothing is under way. *)
LEMMA QuietFacts ==
    ASSUME QueueInvariant, Quiet
    PROVE  /\ \A s \in Sessions : current[s] = None /\ IdleHolds(s)
           /\ \A i \in Items \ cut : indexed[i] = grants[i]
           /\ \A i \in Items \ Excused : Fresh(i) \/ i \in queue
           /\ \A i \in Items \ cut : Reaches(i)
<1>1. \A s \in Sessions : current[s] = None /\ IdleHolds(s)
  BY DEF Quiet, QueueInvariant, TypeOK, RequestHolds
<1>2. \A i \in Items : \A s \in Sessions : current[s] # i
  BY <1>1, RealmsAssumption
<1> QED BY <1>1, <1>2 DEF QueueInvariant, IdleHolds, IndexIsDue, StaleIsQueued,
                          RowsReachMembers, Fresh

(* While one session has a request, nobody else is rebuilding anything. *)
LEMMA BusyFacts ==
    ASSUME QueueInvariant, NEW s \in Sessions, at[s] # "idle"
    PROVE  /\ \A t \in Sessions \ {s} :
                at[t] = "idle" /\ current[t] = None /\ IdleHolds(t)
           /\ \A i \in Items \ cut : indexed[i] = grants[i] \/ i \in delayed[s]
           /\ \A i \in Items \ Excused : Fresh(i) \/ i \in queue \/ current[s] = i
           /\ \A i \in Items \ cut : Reaches(i) \/ current[s] = i
<1>1. \A t \in Sessions \ {s} : at[t] = "idle" /\ current[t] = None /\ IdleHolds(t)
  BY DEF QueueInvariant, OneRequest, TypeOK, RequestHolds
<1>2. \A i \in Items : \A t \in Sessions \ {s} : current[t] # i /\ i \notin delayed[t]
  BY <1>1, RealmsAssumption DEF IdleHolds
<1> QED BY <1>1, <1>2 DEF QueueInvariant, IndexIsDue, StaleIsQueued, RowsReachMembers,
                          Fresh

(* What the invariant says of the sessions that do nothing survives a step of
   session s. *)
LEMMA OthersHold ==
    ASSUME QueueInvariant, NEW s \in Sessions,
           \A t \in Sessions \ {s} :
             /\ at[t] = "idle"
             /\ at'[t] = at[t]
             /\ conf'[t] = conf[t]
             /\ work'[t] = work[t]
             /\ current'[t] = current[t]
             /\ delayed'[t] = delayed[t]
    PROVE  /\ OneRequest'
           /\ \A t \in Sessions \ {s} : RequestHolds(t)'
<1>1. OneRequest'
  BY DEF OneRequest
<1>2. ASSUME NEW t \in Sessions \ {s} PROVE RequestHolds(t)'
  <2>1. at'[t] = "idle" /\ current'[t] = None /\ IdleHolds(t)'
    BY DEF QueueInvariant, TypeOK, RequestHolds, IdleHolds
  <2> QED BY <2>1 DEF RequestHolds, RebuildHolds, IdleHolds
<1> QED BY <1>1, <1>2

(* A request has ended: it is enough to look at the shared state. *)
LEMMA EndHolds ==
    ASSUME QueueInvariant, TypeOK', NEW s \in Sessions, at[s] # "idle", End(s),
           \A i \in (Items \ Excused)' : Fresh(i)' \/ i \in queue',
           \A i \in (Items \ cut)' : Reaches(i)',
           \A i \in (Items \ cut)' : indexed'[i] = grants'[i]
    PROVE  QueueInvariant'
<1>1. \A t \in Sessions \ {s} :
        /\ at[t] = "idle"
        /\ at'[t] = at[t]
        /\ conf'[t] = conf[t]
        /\ work'[t] = work[t]
        /\ current'[t] = current[t]
        /\ delayed'[t] = delayed[t]
  BY BusyFacts DEF End, Go, QueueInvariant, TypeOK
<1>2. RequestHolds(s)'
  <2>1. at'[s] = "idle" /\ current'[s] = None /\ IdleHolds(s)'
    BY DEF End, Go, QueueInvariant, TypeOK, IdleHolds
  <2> QED BY <2>1 DEF RequestHolds, RebuildHolds, IdleHolds
<1>3. StaleIsQueued' /\ RowsReachMembers' /\ IndexIsDue'
  BY DEF StaleIsQueued, RowsReachMembers, IndexIsDue, Fresh
<1> QED BY <1>1, <1>2, <1>3, OthersHold DEF QueueInvariant

------------------------------------------------------------------------------
(* The steps. *)

(* A request begins: nothing shared has changed yet. *)
LEMMA BeginKeeps ==
    ASSUME Serialised, QueueInvariant, TypeOK', NEW s \in Sessions,
           \/ \E i \in Items, e \in ItemForms : BeginItem(s, i, e[1], e[2])
           \/ \E p \in Protocols, a \in Access, roles, form, bypass \in BOOLEAN,
                ms \in SUBSET Protocols :
                BeginProtocol(s, p, a, roles, form, ms, bypass)
           \/ BeginList(s)
           \/ \E p \in Protocols : BeginBatch(s, p)
    PROVE  QueueInvariant'
<1>1. Quiet
  BY DEF BeginItem, BeginProtocol, BeginList, BeginBatch, CanStart
<1>2. UNCHANGED <<site, grants, indexed, queue, cut, unseen, current, records, wiped,
                  delayed>>
  BY DEF BeginItem, BeginProtocol, BeginList, BeginBatch
<1>3. \A i \in Items : Fresh(i)' = Fresh(i)
  BY <1>2 DEF Fresh, RowsOf, site
<1>4. \A t \in Sessions \ {s} :
        /\ at[t] = "idle"
        /\ at'[t] = at[t]
        /\ conf'[t] = conf[t]
        /\ work'[t] = work[t]
        /\ current'[t] = current[t]
        /\ delayed'[t] = delayed[t]
  BY <1>1, <1>2 DEF Quiet, BeginItem, BeginProtocol, BeginList, BeginBatch, Go,
                    QueueInvariant, TypeOK
<1>5. /\ current'[s] = None
      /\ delayed'[s] = {}
      /\ conf[s] = {}
  BY <1>1, <1>2, QuietFacts DEF IdleHolds
<1>6. RebuildHolds(s)'
  BY <1>5 DEF RebuildHolds
<1>7. RequestHolds(s)'
  <2>1. CASE \E i \in Items, e \in ItemForms : BeginItem(s, i, e[1], e[2])
    <3>1. at'[s] = "item" /\ seen'[s] = access'
      BY <2>1 DEF BeginItem, Go, site, QueueInvariant, TypeOK
    <3> QED BY <1>5, <1>6, <3>1 DEF RequestHolds, ItemHolds
  <2>2. CASE \E p \in Protocols, a \in Access, roles, form, bypass \in BOOLEAN,
               ms \in SUBSET Protocols :
               BeginProtocol(s, p, a, roles, form, ms, bypass)
    <3>1. PICK p \in Protocols, a \in Access, roles \in BOOLEAN, form \in BOOLEAN,
               bypass \in BOOLEAN, ms \in SUBSET Protocols :
                 BeginProtocol(s, p, a, roles, form, ms, bypass)
      BY <2>2
    <3>2. /\ at'[s] = "protocol" /\ conf'[s] = queue'
          /\ edit'[s].protocol = p
          /\ edit'[s].access = a
          /\ UNCHANGED <<access, refs, cut>>
      BY <3>1 DEF BeginProtocol, Go, site, QueueInvariant, TypeOK
    <3>3. ASSUME NEW i \in Items \ cut, p \in refs[i], a # access[p]
          PROVE  i \in work'[s] \cup edit'[s].missed
      <4>1. CASE bypass \/ Viewable(ms, i)
        BY <3>1, <3>3, <4>1 DEF BeginProtocol, QueueInvariant, TypeOK
      <4>2. CASE ~(bypass \/ Viewable(ms, i))
        <5>1. p \notin ms
          BY <1>1, <3>3, <4>2, QuietFacts DEF Viewable, Reaches
        <5> QED BY <3>1, <3>3, <4>2, <5>1 DEF BeginProtocol, QueueInvariant, TypeOK
      <4> QED BY <4>1, <4>2
    <3>4. ProtocolHolds(s)'
      BY <1>5, <3>2, <3>3 DEF ProtocolHolds
    <3> QED BY <1>6, <3>2, <3>4 DEF RequestHolds
  <2>3. CASE BeginList(s)
    <3>1. conf'[s] = queue' /\ work'[s] = queue'
      BY <2>3 DEF BeginList, QueueInvariant, TypeOK
    <3>2. at'[s] = IF queue' = {} THEN "render" ELSE "list"
      BY <2>3 DEF BeginList, Go, QueueInvariant, TypeOK
    <3>3. IndexedHolds(s)'
      BY <1>1, <1>2, QuietFacts DEF IndexedHolds
    <3> QED BY <1>5, <1>6, <3>1, <3>2, <3>3 DEF RequestHolds, ListHolds
  <2>4. CASE \E p \in Protocols : BeginBatch(s, p)
    <3>1. at'[s] = "batch"
      BY <2>4 DEF BeginBatch, Go, QueueInvariant, TypeOK
    <3> QED BY <1>6, <3>1 DEF RequestHolds
  <2> QED BY <2>1, <2>2, <2>3, <2>4
<1>8. StaleIsQueued' /\ RowsReachMembers' /\ IndexIsDue'
  BY <1>2 DEF QueueInvariant, StaleIsQueued, Excused, RowsReachMembers, Reaches,
              IndexIsDue, RowsOf, site
<1> QED BY <1>4, <1>7, <1>8, OthersHold DEF QueueInvariant

(* The rows of a saved item are computed from protocols nobody has changed. *)
LEMMA CommitItemKeeps ==
    ASSUME QueueInvariant, TypeOK', NEW s \in Sessions, CommitItem(s)
    PROVE  QueueInvariant'
<1>1. /\ at[s] = "item"
      /\ edit[s].item \in Items
      /\ seen[s] = access
      /\ current[s] = None
      /\ delayed[s] = {}
  BY DEF CommitItem, QueueInvariant, RequestHolds, ItemHolds, TypeOK, ItemEdits
<1>2. UNCHANGED <<access, indexed, queue, cut, conf, work, current, records, wiped>>
  BY DEF CommitItem
<1>3. PICK i \in Items : i = edit[s].item
  BY <1>1
<1>4. /\ at' = [at EXCEPT ![s] = "shutdown"]
      /\ delayed' = [delayed EXCEPT ![s] = {i}]
      /\ grants' = [grants EXCEPT ![i] = Rows(edit[s].refs, edit[s].privacy, seen[s])]
      /\ refs' = [refs EXCEPT ![i] = edit[s].refs]
      /\ privacy' = [privacy EXCEPT ![i] = edit[s].privacy]
      /\ unseen' = unseen \ {i}
  BY <1>3 DEF CommitItem, Go
<1>5. Fresh(i)'
  BY <1>1, <1>2, <1>4 DEF QueueInvariant, TypeOK, Fresh, RowsOf
<1>6. \A j \in Items \ {i} :
        /\ grants'[j] = grants[j]
        /\ Fresh(j)' = Fresh(j)
        /\ Reaches(j)' = Reaches(j)
  BY <1>2, <1>4 DEF QueueInvariant, TypeOK, Fresh, Reaches, RowsOf
<1>7. at'[s] = "shutdown" /\ delayed'[s] = {i}
  BY <1>4 DEF QueueInvariant, TypeOK
<1>8. \A t \in Sessions \ {s} :
        /\ at[t] = "idle"
        /\ at'[t] = at[t]
        /\ conf'[t] = conf[t]
        /\ work'[t] = work[t]
        /\ current'[t] = current[t]
        /\ delayed'[t] = delayed[t]
  BY <1>1, <1>2, <1>4, BusyFacts DEF QueueInvariant, TypeOK
<1>9. RequestHolds(s)'
  BY <1>1, <1>2, <1>5, <1>7 DEF RequestHolds, RebuildHolds
<1>10. StaleIsQueued'
  <2> SUFFICES ASSUME NEW j \in (Items \ Excused)' PROVE Fresh(j)' \/ j \in queue'
    BY DEF StaleIsQueued, Fresh
  <2>1. CASE j = i
    BY <1>5, <2>1
  <2>2. CASE j # i
    BY <1>1, <1>2, <1>4, <1>6, <2>2, BusyFacts, RealmsAssumption DEF Excused
  <2> QED BY <2>1, <2>2
<1>11. IndexIsDue'
  BY <1>1, <1>2, <1>6, <1>7, BusyFacts DEF IndexIsDue
<1>12. RowsReachMembers'
  <2> SUFFICES ASSUME NEW j \in (Items \ cut)' PROVE Reaches(j)'
    BY DEF RowsReachMembers
  <2>1. CASE j = i
    BY <1>5, <2>1 DEF Fresh, Reaches, RowsOf, Rows, Realms
  <2>2. CASE j # i
    BY <1>1, <1>2, <1>6, <2>2, BusyFacts, RealmsAssumption
  <2> QED BY <2>1, <2>2
<1> QED BY <1>8, <1>9, <1>10, <1>11, <1>12, OthersHold DEF QueueInvariant

(* A protocol that changes its access queues every item that refers to it, but
   for those the saver has missed. *)
LEMMA CommitProtocolKeeps ==
    ASSUME QueueInvariant, TypeOK', NEW s \in Sessions, CommitProtocol(s)
    PROVE  QueueInvariant' /\ queue \subseteq queue'
<1>1. /\ at[s] = "protocol"
      /\ edit[s] \in ProtocolEdits
      /\ conf[s] = queue
      /\ current[s] = None
      /\ delayed[s] = {}
      /\ ProtocolHolds(s)
  BY DEF CommitProtocol, QueueInvariant, RequestHolds, ProtocolHolds, TypeOK
<1>2. UNCHANGED <<refs, privacy, grants, indexed, cut>>
  BY DEF CommitProtocol
<1>3. PICK p \in Protocols : p = edit[s].protocol
  BY <1>1 DEF ProtocolEdits
<1>4. /\ access' = [access EXCEPT ![p] = edit[s].access]
      /\ unseen' = unseen \cup edit[s].missed
  BY <1>3 DEF CommitProtocol
<1>5. queue \cup work[s] \subseteq queue'
  BY <1>1 DEF CommitProtocol, Queued
<1>6. ASSUME NEW i \in (Items \ Excused)', i \notin queue'
      PROVE  Fresh(i)' = Fresh(i)
  <2>1. p \notin refs[i] \/ edit[s].access = access[p]
    BY <1>1, <1>2, <1>3, <1>4, <1>5, <1>6 DEF ProtocolHolds, Excused
  <2>2. \A q \in refs[i] : access'[q] = access[q]
    BY <1>4, <2>1 DEF QueueInvariant, TypeOK
  <2>3. Rows(refs[i], privacy[i], access') = Rows(refs[i], privacy[i], access)
    BY <2>2, RowsDependOnRefs
  <2> QED BY <1>2, <2>3 DEF Fresh, RowsOf
<1>7. \A i \in (Items \ Excused)' : Fresh(i)' \/ i \in queue'
  BY <1>1, <1>2, <1>4, <1>5, <1>6, BusyFacts, RealmsAssumption DEF Excused
<1>8. \A i \in (Items \ cut)' : indexed'[i] = grants'[i]
  BY <1>1, <1>2, BusyFacts
<1>9. \A i \in (Items \ cut)' : Reaches(i)'
  BY <1>1, <1>2, BusyFacts, RealmsAssumption DEF Reaches
<1>10. End(s)
  BY DEF CommitProtocol
<1> QED BY <1>1, <1>5, <1>7, <1>8, <1>9, <1>10, EndHolds

(* An item is being rebuilt. *)
LEMMA ReadItemKeeps ==
    ASSUME QueueInvariant, TypeOK', NEW s \in Sessions, NEW i \in Items,
           ReadItem(s, i)
    PROVE  QueueInvariant'
<1>1. at[s] \in {"list", "batch"} /\ i \in work[s] /\ current[s] = None
  BY DEF ReadItem
<1>2. UNCHANGED <<site, indexed, queue, cut, unseen, at, conf, work>>
  BY DEF ReadItem
<1>3. /\ current'[s] = i
      /\ records'[s] = RowsOf(i)
      /\ delayed'[s] = delayed[s] \cup {i}
  BY DEF ReadItem, QueueInvariant, TypeOK
<1>4. \A j \in Items \ {i} :
        /\ grants'[j] = grants[j]
        /\ Fresh(j)' = Fresh(j)
        /\ Reaches(j)' = Reaches(j)
  BY <1>2 DEF ReadItem, QueueInvariant, TypeOK, Fresh, Reaches, RowsOf, site
<1>5. RowsOf(i)' = RowsOf(i)
  BY <1>2 DEF RowsOf, site
<1>6. \A t \in Sessions \ {s} :
        /\ at[t] = "idle"
        /\ at'[t] = at[t]
        /\ conf'[t] = conf[t]
        /\ work'[t] = work[t]
        /\ current'[t] = current[t]
        /\ delayed'[t] = delayed[t]
  BY <1>1, <1>2, BusyFacts DEF ReadItem, QueueInvariant, TypeOK
<1>7. RebuildHolds(s)'
  <2>1. \A j \in delayed[s] : Fresh(j)
    BY <1>1, RealmsAssumption
       DEF QueueInvariant, RequestHolds, RebuildHolds, TypeOK
  <2>2. \A j \in delayed'[s] : Fresh(j)' \/ j = current'[s]
    BY <1>3, <1>4, <2>1 DEF QueueInvariant, TypeOK
  <2>3. /\ current'[s] \in work'[s] \cap delayed'[s]
        /\ records'[s] = RowsOf(i)'
        /\ ~wiped'[s]
    BY <1>1, <1>2, <1>3, <1>5 DEF ReadItem, QueueInvariant, TypeOK
  <2> QED BY <1>3, <2>2, <2>3 DEF RebuildHolds, RowsOf
<1>8. RequestHolds(s)'
  <2>1. at[s] = "list" => ListHolds(s)
    BY DEF QueueInvariant, RequestHolds
  <2>2. at[s] = "list" => \A j \in conf[s] \ work[s] : Fresh(j)'
    BY <1>1, <1>4, <2>1 DEF ListHolds, QueueInvariant, TypeOK
  <2>3. at'[s] = "list" => ListHolds(s)'
    BY <1>1, <1>2, <1>3, <2>1, <2>2 DEF ListHolds
  <2> QED BY <1>1, <1>2, <1>7, <2>3 DEF RequestHolds
<1>9. StaleIsQueued'
  BY <1>1, <1>2, <1>3, <1>4, BusyFacts, RealmsAssumption
     DEF StaleIsQueued, Excused, Fresh
<1>10. IndexIsDue'
  BY <1>1, <1>2, <1>3, <1>4, BusyFacts DEF IndexIsDue
<1>11. RowsReachMembers'
  BY <1>1, <1>2, <1>3, <1>4, BusyFacts, RealmsAssumption DEF RowsReachMembers
<1> QED BY <1>6, <1>8, <1>9, <1>10, <1>11, OthersHold DEF QueueInvariant

(* The old rows are gone; the item is still in the request's hands. *)
LEMMA DeleteGrantsKeeps ==
    ASSUME QueueInvariant, TypeOK', NEW s \in Sessions, DeleteGrants(s)
    PROVE  QueueInvariant'
<1>1. PICK i \in Items : i = current[s]
  BY DEF DeleteGrants, QueueInvariant, TypeOK
<1>2. /\ at[s] \in {"list", "batch"}
      /\ i \in work[s] \cap delayed[s]
      /\ records[s] = RowsOf(i)
      /\ \A j \in delayed[s] : Fresh(j) \/ j = i
  BY <1>1, RealmsAssumption
     DEF DeleteGrants, QueueInvariant, TypeOK, RequestHolds, RebuildHolds
<1>3. /\ UNCHANGED <<site, indexed, queue, cut, unseen, at, conf, work, current,
                     records, delayed>>
      /\ grants' = [grants EXCEPT ![i] = {}]
  BY <1>1 DEF DeleteGrants
<1>4. \A j \in Items \ {i} :
        /\ grants'[j] = grants[j]
        /\ Fresh(j)' = Fresh(j)
        /\ Reaches(j)' = Reaches(j)
  BY <1>3 DEF QueueInvariant, TypeOK, Fresh, Reaches, RowsOf, site
<1>5. \A t \in Sessions \ {s} :
        /\ at[t] = "idle"
        /\ at'[t] = at[t]
        /\ conf'[t] = conf[t]
        /\ work'[t] = work[t]
        /\ current'[t] = current[t]
        /\ delayed'[t] = delayed[t]
  BY <1>2, <1>3, BusyFacts
<1>6. RequestHolds(s)'
  <2>1. at[s] = "list" => ListHolds(s)
    BY DEF QueueInvariant, RequestHolds
  <2>2. at[s] = "list" => \A j \in conf[s] \ work[s] : Fresh(j)'
    BY <1>2, <1>4, <2>1 DEF ListHolds, QueueInvariant, TypeOK
  <2>3. at'[s] = "list" => ListHolds(s)'
    BY <1>3, <2>1, <2>2 DEF ListHolds
  <2>4. \A j \in delayed'[s] : Fresh(j)' \/ j = current'[s]
    BY <1>1, <1>2, <1>3, <1>4 DEF QueueInvariant, TypeOK
  <2>5. grants'[current'[s]] = {} /\ records'[s] = RowsOf(current[s])'
    BY <1>1, <1>2, <1>3 DEF QueueInvariant, TypeOK, RowsOf, site
  <2>6. RebuildHolds(s)'
    BY <1>1, <1>2, <1>3, <2>4, <2>5, RealmsAssumption DEF RebuildHolds, RowsOf
  <2> QED BY <1>2, <1>3, <2>3, <2>6 DEF RequestHolds
<1>7. StaleIsQueued'
  BY <1>1, <1>2, <1>3, <1>4, BusyFacts DEF StaleIsQueued, Excused, Fresh
<1>8. IndexIsDue'
  BY <1>2, <1>3, <1>4, BusyFacts DEF IndexIsDue
<1>9. RowsReachMembers'
  BY <1>1, <1>2, <1>3, <1>4, BusyFacts DEF RowsReachMembers
<1> QED BY <1>5, <1>6, <1>7, <1>8, <1>9, OthersHold DEF QueueInvariant

(* The rows written are those the item should have. *)
LEMMA WriteGrantsKeeps ==
    ASSUME QueueInvariant, TypeOK', NEW s \in Sessions, WriteGrants(s)
    PROVE  QueueInvariant'
<1>1. PICK i \in Items : i = current[s]
  BY DEF WriteGrants, QueueInvariant, TypeOK
<1>2. /\ at[s] \in {"list", "batch"}
      /\ i \in work[s] \cap delayed[s]
      /\ records[s] = RowsOf(i)
      /\ \A j \in delayed[s] : Fresh(j) \/ j = i
  BY <1>1, RealmsAssumption
     DEF WriteGrants, QueueInvariant, TypeOK, RequestHolds, RebuildHolds
<1>3. UNCHANGED <<site, indexed, queue, cut, at, conf, delayed>>
  BY DEF WriteGrants
<1>4. /\ grants' = [grants EXCEPT ![i] = RowsOf(i)]
      /\ work' = [work EXCEPT ![s] = @ \ {i}]
      /\ current' = [current EXCEPT ![s] = None]
      /\ wiped' = [wiped EXCEPT ![s] = FALSE]
      /\ unseen' = unseen \ {i}
  <2>1. grants[i] = {}
    BY <1>1, RealmsAssumption
       DEF WriteGrants, QueueInvariant, RequestHolds, RebuildHolds
  <2> QED BY <1>1, <1>2, <2>1 DEF WriteGrants, QueueInvariant, TypeOK
<1>5. Fresh(i)'
  BY <1>3, <1>4 DEF QueueInvariant, TypeOK, Fresh, Reaches, RowsOf, site
<1>6. \A j \in Items \ {i} :
        /\ grants'[j] = grants[j]
        /\ Fresh(j)' = Fresh(j)
        /\ Reaches(j)' = Reaches(j)
  BY <1>3, <1>4 DEF QueueInvariant, TypeOK, Fresh, Reaches, RowsOf, site
<1>7. \A t \in Sessions \ {s} :
        /\ at[t] = "idle"
        /\ at'[t] = at[t]
        /\ conf'[t] = conf[t]
        /\ work'[t] = work[t]
        /\ current'[t] = current[t]
        /\ delayed'[t] = delayed[t]
  BY <1>2, <1>3, <1>4, BusyFacts DEF QueueInvariant, TypeOK
<1>8. RequestHolds(s)'
  <2>1. current'[s] = None /\ work'[s] = work[s] \ {i}
    BY <1>4 DEF QueueInvariant, TypeOK
  <2>2. \A j \in delayed'[s] : Fresh(j)'
    BY <1>2, <1>3, <1>5, <1>6 DEF QueueInvariant, TypeOK
  <2>3. at[s] = "list" => ListHolds(s)
    BY DEF QueueInvariant, RequestHolds
  <2>4. at[s] = "list" => \A j \in conf[s] \ work'[s] : Fresh(j)'
    BY <1>5, <1>6, <2>1, <2>3 DEF ListHolds, QueueInvariant, TypeOK
  <2>5. at'[s] = "list" => ListHolds(s)'
    BY <1>3, <2>1, <2>3, <2>4 DEF ListHolds
  <2> QED BY <1>2, <1>3, <2>1, <2>2, <2>5 DEF RequestHolds, RebuildHolds
<1>9. StaleIsQueued'
  BY <1>1, <1>2, <1>3, <1>4, <1>5, <1>6, BusyFacts DEF StaleIsQueued, Excused, Fresh
<1>10. IndexIsDue'
  BY <1>2, <1>3, <1>6, BusyFacts DEF IndexIsDue
<1>11. RowsReachMembers'
  <2>1. Reaches(i)'
    BY <1>5 DEF Fresh, Reaches, RowsOf, Rows, Realms
  <2> QED BY <1>1, <1>2, <1>3, <1>6, <2>1, BusyFacts DEF RowsReachMembers
<1> QED BY <1>7, <1>8, <1>9, <1>10, <1>11, OthersHold DEF QueueInvariant

(* Every queued item has been rebuilt; the index takes their rows over. *)
LEMMA IndexQueuedKeeps ==
    ASSUME QueueInvariant, TypeOK', NEW s \in Sessions, IndexQueued(s)
    PROVE  QueueInvariant'
<1>1. /\ at[s] = "list"
      /\ current[s] = None
      /\ conf[s] = queue
      /\ delayed[s] \subseteq conf[s]
      /\ \A i \in conf[s] : Fresh(i)
      /\ \A i \in delayed[s] : Fresh(i)
  BY DEF IndexQueued, QueueInvariant, RequestHolds, ListHolds
<1>2. /\ UNCHANGED <<site, grants, queue, unseen, local>>
      /\ cut' = cut \ conf[s]
      /\ at' = [at EXCEPT ![s] = "clear"]
      /\ \A i \in Items :
           indexed'[i] = IF i \in conf[s] THEN grants[i] ELSE indexed[i]
  BY DEF IndexQueued, Index, Go
<1>3. \A i \in Items : Fresh(i)' = Fresh(i)
  BY <1>2 DEF Fresh, RowsOf, site
<1>4. \A t \in Sessions \ {s} :
        /\ at[t] = "idle"
        /\ at'[t] = at[t]
        /\ conf'[t] = conf[t]
        /\ work'[t] = work[t]
        /\ current'[t] = current[t]
        /\ delayed'[t] = delayed[t]
  BY <1>1, <1>2, BusyFacts DEF QueueInvariant, TypeOK, local
<1>5. \A i \in (Items \ cut)' : indexed'[i] = grants'[i]
  BY <1>1, <1>2, BusyFacts
<1>6. \A i \in (Items \ Excused)' : Fresh(i)' \/ i \in queue'
  BY <1>1, <1>2, <1>3, BusyFacts, RealmsAssumption DEF Excused
<1>9. \A i \in (Items \ cut)' : Reaches(i)'
  <2> SUFFICES ASSUME NEW i \in (Items \ cut)' PROVE Reaches(i)'
    OBVIOUS
  <2>1. Reaches(i)
    BY <1>1, <1>2, BusyFacts, RealmsAssumption, FreshReaches
  <2> QED BY <1>2, <2>1 DEF Reaches, site
<1>7. RequestHolds(s)'
  <2>1. at'[s] = "clear" /\ queue \subseteq Items /\ delayed[s] \subseteq Items
    BY <1>2 DEF QueueInvariant, TypeOK
  <2>2. ClearHolds(s)'
    BY <1>1, <1>2, <1>3, <2>1 DEF ClearHolds
  <2>3. RebuildHolds(s)'
    BY <1>1, <1>2, <1>3, <2>1 DEF RebuildHolds, local
  <2> QED BY <1>5, <2>1, <2>2, <2>3 DEF RequestHolds, IndexedHolds
<1>8. StaleIsQueued' /\ RowsReachMembers' /\ IndexIsDue'
  BY <1>5, <1>6, <1>9 DEF StaleIsQueued, RowsReachMembers, IndexIsDue, Fresh
<1> QED BY <1>4, <1>7, <1>8, OthersHold DEF QueueInvariant

(* The queue is emptied of items that are fresh. *)
LEMMA ClearQueueKeeps ==
    ASSUME QueueInvariant, TypeOK', NEW s \in Sessions, ClearQueue(s)
    PROVE  /\ QueueInvariant'
           /\ \A i \in queue : Fresh(i)'
<1>1. /\ at[s] = "clear"
      /\ current[s] = None
      /\ \A i \in queue : Fresh(i)
      /\ \A i \in Items \ cut : indexed[i] = grants[i]
      /\ RebuildHolds(s)
  BY DEF ClearQueue, QueueInvariant, RequestHolds, ClearHolds, IndexedHolds, TypeOK
<1>2. /\ UNCHANGED <<site, grants, indexed, cut, unseen, work, current, records, delayed>>
      /\ queue' = {}
      /\ at' = [at EXCEPT ![s] = "render"]
      /\ conf' = [conf EXCEPT ![s] = {}]
  BY DEF ClearQueue, Go
<1>3. \A i \in Items : Fresh(i)' = Fresh(i)
  BY <1>2 DEF Fresh, RowsOf, site
<1>4. \A t \in Sessions \ {s} :
        /\ at[t] = "idle"
        /\ at'[t] = at[t]
        /\ conf'[t] = conf[t]
        /\ work'[t] = work[t]
        /\ current'[t] = current[t]
        /\ delayed'[t] = delayed[t]
  BY <1>1, <1>2, BusyFacts DEF QueueInvariant, TypeOK
<1>5. \A i \in queue : Fresh(i)'
  BY <1>1, <1>3 DEF QueueInvariant, TypeOK
<1>6. \A i \in (Items \ Excused)' : Fresh(i)'
  BY <1>1, <1>2, <1>3, BusyFacts, RealmsAssumption DEF Excused
<1>9. \A i \in (Items \ cut)' : Reaches(i)'
  BY <1>1, <1>2, BusyFacts, RealmsAssumption DEF Reaches, site
<1>7. RequestHolds(s)'
  <2>1. at'[s] = "render" /\ delayed[s] \subseteq Items
    BY <1>2 DEF QueueInvariant, TypeOK
  <2>2. RebuildHolds(s)'
    BY <1>1, <1>2, <1>3, <2>1 DEF RebuildHolds
  <2> QED BY <1>1, <1>2, <2>1, <2>2 DEF RequestHolds, IndexedHolds
<1>8. StaleIsQueued' /\ RowsReachMembers' /\ IndexIsDue'
  BY <1>1, <1>2, <1>6, <1>9 DEF StaleIsQueued, RowsReachMembers, IndexIsDue, Fresh
<1> QED BY <1>4, <1>5, <1>7, <1>8, OthersHold DEF QueueInvariant

LEMMA FinishKeeps ==
    ASSUME QueueInvariant, TypeOK', NEW s \in Sessions, Finish(s)
    PROVE  QueueInvariant'
<1>1. /\ at[s] \in {"render", "batch"}
      /\ current[s] = None
      /\ RebuildHolds(s)
  BY DEF Finish, QueueInvariant, RequestHolds, TypeOK
<1>2. /\ UNCHANGED <<site, grants, indexed, cut, unseen, queue, local>>
      /\ at' = [at EXCEPT ![s] = "shutdown"]
  BY DEF Finish, Go
<1>3. \A i \in Items : Fresh(i)' = Fresh(i)
  BY <1>2 DEF Fresh, RowsOf, site
<1>4. \A t \in Sessions \ {s} :
        /\ at[t] = "idle"
        /\ at'[t] = at[t]
        /\ conf'[t] = conf[t]
        /\ work'[t] = work[t]
        /\ current'[t] = current[t]
        /\ delayed'[t] = delayed[t]
  BY <1>1, <1>2, BusyFacts DEF QueueInvariant, TypeOK, local
<1>5. RequestHolds(s)'
  <2>1. at'[s] = "shutdown" /\ delayed[s] \subseteq Items
    BY <1>2 DEF QueueInvariant, TypeOK
  <2>2. RebuildHolds(s)'
    BY <1>1, <1>2, <1>3, <2>1 DEF RebuildHolds, local
  <2> QED BY <2>1, <2>2 DEF RequestHolds
<1>6. StaleIsQueued' /\ RowsReachMembers' /\ IndexIsDue'
  BY <1>2 DEF QueueInvariant, StaleIsQueued, Excused, RowsReachMembers, Reaches,
              IndexIsDue, RowsOf, site, local
<1> QED BY <1>4, <1>5, <1>6, OthersHold DEF QueueInvariant

(* What the request has rebuilt is indexed before it ends. *)
LEMMA ShutdownKeeps ==
    ASSUME QueueInvariant, TypeOK', NEW s \in Sessions, Shutdown(s)
    PROVE  QueueInvariant'
<1>1. /\ at[s] = "shutdown"
      /\ current[s] = None
      /\ \A i \in delayed[s] : Fresh(i)
  <2>1. at[s] = "shutdown" /\ current[s] = None
    BY DEF Shutdown, QueueInvariant, TypeOK
  <2>2. delayed[s] \subseteq Items
    BY DEF QueueInvariant, TypeOK
  <2> QED BY <2>1, <2>2, RealmsAssumption DEF QueueInvariant, RequestHolds, RebuildHolds
<1>2. /\ UNCHANGED <<site, grants, queue, unseen>>
      /\ cut' = cut \ delayed[s]
      /\ \A i \in Items :
           indexed'[i] = IF i \in delayed[s] THEN grants[i] ELSE indexed[i]
  BY DEF Shutdown, Index
<1>3. \A i \in Items : Fresh(i)' = Fresh(i)
  BY <1>2 DEF Fresh, RowsOf, site
<1>4. \A i \in (Items \ Excused)' : Fresh(i)' \/ i \in queue'
  BY <1>1, <1>2, <1>3, BusyFacts, RealmsAssumption DEF Excused
<1>5. \A i \in (Items \ cut)' : indexed'[i] = grants'[i]
  BY <1>1, <1>2, BusyFacts
<1>6. End(s)
  BY DEF Shutdown
<1>7. \A i \in (Items \ cut)' : Reaches(i)'
  <2> SUFFICES ASSUME NEW i \in (Items \ cut)' PROVE Reaches(i)'
    OBVIOUS
  <2>1. Reaches(i)
    BY <1>1, <1>2, BusyFacts, RealmsAssumption, FreshReaches
  <2> QED BY <1>2, <2>1 DEF Reaches, site
<1> QED BY <1>1, <1>4, <1>5, <1>6, <1>7, EndHolds

(* What a dead request leaves half done is in cut. *)
LEMMA AbortKeeps ==
    ASSUME QueueInvariant, TypeOK', NEW s \in Sessions, Abort(s)
    PROVE  QueueInvariant'
<1>1. /\ at[s] # "idle"
      /\ UNCHANGED <<site, grants, indexed, queue, unseen>>
      /\ cut' = cut \cup delayed[s]
      /\ End(s)
  BY DEF Abort
<1>2. \A i \in Items : Fresh(i)' = Fresh(i)
  BY <1>1 DEF Fresh, RowsOf, site
<1>3. \A i \in Items : current[s] = i => i \in delayed[s]
  BY RealmsAssumption DEF QueueInvariant, RequestHolds, RebuildHolds
<1>4. \A i \in (Items \ Excused)' : Fresh(i)' \/ i \in queue'
  BY <1>1, <1>2, <1>3, BusyFacts DEF Excused
<1>5. \A i \in (Items \ cut)' : indexed'[i] = grants'[i]
  BY <1>1, BusyFacts
<1>6. \A i \in (Items \ cut)' : Reaches(i)'
  BY <1>1, <1>3, BusyFacts DEF Reaches, site
<1> QED BY <1>1, <1>4, <1>5, <1>6, EndHolds

(* Cron comes when nothing is under way. *)
LEMMA CronKeeps ==
    ASSUME Serialised, QueueInvariant, TypeOK', Cron
    PROVE  QueueInvariant'
<1>1. Quiet
  BY DEF Cron
<1>2. /\ UNCHANGED <<site, grants, queue, cut, unseen, at, local>>
      /\ \A i \in Items :
           indexed'[i] = IF i \in changed THEN grants[i] ELSE indexed[i]
  BY DEF Cron, Index
<1>3. \A i \in Items : Fresh(i)' = Fresh(i)
  BY <1>2 DEF Fresh, RowsOf, site
<1>4. \A i \in Items \ cut : indexed'[i] = grants'[i]
  BY <1>1, <1>2, QuietFacts
<1>5. ASSUME NEW s \in Sessions PROVE RequestHolds(s)'
  <2>1. at'[s] = "idle" /\ current'[s] = None /\ IdleHolds(s)'
    BY <1>1, <1>2, QuietFacts DEF Quiet, local, IdleHolds
  <2> QED BY <2>1 DEF RequestHolds, RebuildHolds, IdleHolds
<1>6. OneRequest'
  BY <1>1, <1>2 DEF Quiet, OneRequest
<1>7. StaleIsQueued' /\ RowsReachMembers' /\ IndexIsDue'
  BY <1>2, <1>4 DEF QueueInvariant, StaleIsQueued, Excused, RowsReachMembers, Reaches,
                    IndexIsDue, RowsOf, site, local
<1> QED BY <1>5, <1>6, <1>7 DEF QueueInvariant

------------------------------------------------------------------------------
LEMMA NextQueueInvariant ==
    Serialised /\ QueueInvariant /\ [Next]_vars => QueueInvariant'
<1> SUFFICES ASSUME Serialised, QueueInvariant, [Next]_vars PROVE QueueInvariant'
  OBVIOUS
<1>1. TypeOK'
  BY NextTypeOK DEF QueueInvariant
<1>2. CASE UNCHANGED vars
  <2>1. \A s \in Sessions : RequestHolds(s)'
    BY <1>2 DEF QueueInvariant, RequestHolds, IdleHolds, ItemHolds, ProtocolHolds,
                ListHolds, ClearHolds, IndexedHolds, RebuildHolds, Fresh, RowsOf, vars
  <2> QED BY <1>1, <1>2, <2>1
         DEF QueueInvariant, OneRequest, StaleIsQueued, Excused, RowsReachMembers,
             Reaches, IndexIsDue, RowsOf, vars
<1>3. CASE Cron
  BY <1>1, <1>3, CronKeeps
<1>4. CASE \E s \in Sessions :
             \/ \E i \in Items, e \in ItemForms : BeginItem(s, i, e[1], e[2])
             \/ \E p \in Protocols, a \in Access, roles, form, bypass \in BOOLEAN,
                  ms \in SUBSET Protocols :
                  BeginProtocol(s, p, a, roles, form, ms, bypass)
             \/ BeginList(s)
             \/ \E p \in Protocols : BeginBatch(s, p)
  BY <1>1, <1>4, BeginKeeps
<1>5. CASE \E s \in Sessions : CommitItem(s) \/ CommitProtocol(s)
  BY <1>1, <1>5, CommitItemKeeps, CommitProtocolKeeps
<1>6. CASE \E s \in Sessions :
             \/ \E i \in Items : ReadItem(s, i)
             \/ DeleteGrants(s)
             \/ WriteGrants(s)
  BY <1>1, <1>6, ReadItemKeeps, DeleteGrantsKeeps, WriteGrantsKeeps
<1>7. CASE \E s \in Sessions : IndexQueued(s) \/ ClearQueue(s) \/ Finish(s)
  BY <1>1, <1>7, IndexQueuedKeeps, ClearQueueKeeps, FinishKeeps
<1>8. CASE \E s \in Sessions : Shutdown(s) \/ Abort(s)
  BY <1>1, <1>8, ShutdownKeeps, AbortKeeps
<1> QED BY <1>2, <1>3, <1>4, <1>5, <1>6, <1>7, <1>8 DEF Next

(* Requests that do not overlap leave no stale item behind: whatever the rows
   of an item should be after a protocol changed, the item has them, is being
   rebuilt, waits in the queue, or a request died with it in its hands, or the
   saver, who was not in the protocol, could not see it. *)
THEOREM StaleItemsAreQueued == ASSUME Serialised PROVE Spec => []StaleIsQueued
<1>1. QueueInvariant => StaleIsQueued
  BY DEF QueueInvariant
<1>2. QueueInvariant /\ [Next]_vars => QueueInvariant'
  BY NextQueueInvariant
<1> QED BY <1>1, <1>2, InitQueueInvariant, PTL DEF Spec

(* Requests that do not overlap render a listing from fresh entries, but for
   the items excused. *)
THEOREM ListingsAreFresh == ASSUME Serialised PROVE Spec => []ListIsFresh
<1>1. QueueInvariant => ListIsFresh
  <2> SUFFICES ASSUME QueueInvariant, NEW s \in Sessions, at[s] = "render",
                      NEW i \in Items \ Excused
               PROVE  indexed[i] = RowsOf(i)
    BY DEF ListIsFresh
  <2>1. /\ queue = {}
        /\ current[s] = None
        /\ indexed[i] = grants[i]
    BY DEF QueueInvariant, RequestHolds, IndexedHolds, Excused, TypeOK
  <2>2. Fresh(i)
    BY <2>1, BusyFacts, RealmsAssumption
  <2> QED BY <2>1, <2>2 DEF Fresh
<1>2. QueueInvariant /\ [Next]_vars => QueueInvariant'
  BY NextQueueInvariant
<1> QED BY <1>1, <1>2, InitQueueInvariant, PTL DEF Spec

(* Requests that do not overlap drop an item from the queue only when it has
   been rebuilt. *)
THEOREM QueueIsWorkedOff == ASSUME Serialised PROVE Spec => RebuiltBeforeDropped
<1> DEFINE Step == \A i \in queue \ queue' : (grants[i] = RowsOf(i))'
<1>1. ASSUME QueueInvariant, [Next]_vars PROVE [Step]_vars
  <2>1. TypeOK'
    BY <1>1, NextTypeOK DEF QueueInvariant
  <2>2. CASE \E s \in Sessions : ClearQueue(s)
    BY <1>1, <2>1, <2>2, ClearQueueKeeps DEF Fresh
  <2>3. CASE \E s \in Sessions : CommitProtocol(s)
    BY <1>1, <2>1, <2>3, CommitProtocolKeeps
  <2>4. CASE queue' = queue
    BY <2>4
  <2>5. \/ \E s \in Sessions : ClearQueue(s)
        \/ \E s \in Sessions : CommitProtocol(s)
        \/ queue' = queue
    BY <1>1 DEF Next, BeginItem, BeginProtocol, BeginList, BeginBatch, CommitItem,
                ReadItem, DeleteGrants, WriteGrants, IndexQueued, Finish, Shutdown, Abort, Cron,
                vars
  <2> QED BY <2>2, <2>3, <2>4, <2>5
<1>2. QueueInvariant /\ [Next]_vars => QueueInvariant'
  BY NextQueueInvariant
<1> QED BY <1>1, <1>2, InitQueueInvariant, PTL DEF Spec, RebuiltBeforeDropped
------------------------------------------------------------------------------
(***************************************************************************)
(* What search_api tracks as changed, when requests do not overlap.  The   *)
(* rows of an item are in flux from the moment they are read until the new *)
(* ones are written, and the item is tracked all that time: nothing        *)
(* indexes, and so untracks, an item that a request holds.                 *)
(***************************************************************************)
HeldIsTracked == \A s \in Sessions : current[s] # None => current[s] \in changed

TrackInvariant ==
    /\ QueueInvariant
    /\ HeldIsTracked
    /\ IndexFollowsGrants

(* Taking rows over leaves no entry behind, and it untracks nothing that is
   held when nothing is. *)
LEMMA IndexTracks ==
    ASSUME TrackInvariant, NEW is \in SUBSET Items, Index(is), grants' = grants,
           \A s \in Sessions : current[s] = None,
           \A s \in Sessions : current'[s] = None
    PROVE  HeldIsTracked' /\ IndexFollowsGrants'
BY DEF TrackInvariant, HeldIsTracked, IndexFollowsGrants, Index

(* The rows of one item change, and the item is tracked. *)
LEMMA RowsTracked ==
    ASSUME TrackInvariant, NEW i \in Items, i \in changed',
           changed \subseteq changed', indexed' = indexed,
           \A j \in Items \ {i} : grants'[j] = grants[j]
    PROVE  IndexFollowsGrants'
BY DEF TrackInvariant, IndexFollowsGrants

LEMMA NextTrackInvariant ==
    Serialised /\ TrackInvariant /\ [Next]_vars => TrackInvariant'
<1> SUFFICES ASSUME Serialised, TrackInvariant, [Next]_vars PROVE TrackInvariant'
  OBVIOUS
<1>1. QueueInvariant /\ QueueInvariant'
  BY NextQueueInvariant DEF TrackInvariant
<1>2. TypeOK /\ TypeOK'
  BY <1>1 DEF QueueInvariant
<1> SUFFICES HeldIsTracked' /\ IndexFollowsGrants'
  BY <1>1 DEF TrackInvariant
<1>3. ASSUME UNCHANGED <<grants, indexed, changed>>,
             \A s \in Sessions : current'[s] = current[s] \/ current'[s] = None
      PROVE  HeldIsTracked' /\ IndexFollowsGrants'
  BY <1>3 DEF TrackInvariant, HeldIsTracked, IndexFollowsGrants
<1>4. ASSUME NEW s \in Sessions, End(s)
      PROVE  \A t \in Sessions : current'[t] = current[t] \/ current'[t] = None
  BY <1>2, <1>4 DEF End, TypeOK
<1>5. CASE \E s \in Sessions :
             \/ \E i \in Items, e \in ItemForms : BeginItem(s, i, e[1], e[2])
             \/ \E p \in Protocols, a \in Access, roles, form, bypass \in BOOLEAN,
                  ms \in SUBSET Protocols :
                  BeginProtocol(s, p, a, roles, form, ms, bypass)
             \/ BeginList(s)
             \/ \E p \in Protocols : BeginBatch(s, p)
             \/ ClearQueue(s)
             \/ Finish(s)
  BY <1>3, <1>5 DEF BeginItem, BeginProtocol, BeginList, BeginBatch, ClearQueue,
                    Finish, local
<1>6. ASSUME NEW s \in Sessions, CommitProtocol(s) \/ Abort(s)
      PROVE  HeldIsTracked' /\ IndexFollowsGrants'
  BY <1>3, <1>4, <1>6 DEF CommitProtocol, Abort
<1>7. ASSUME NEW s \in Sessions, CommitItem(s)
      PROVE  HeldIsTracked' /\ IndexFollowsGrants'
  <2>1. edit[s].item \in Items
    BY <1>2, <1>7 DEF CommitItem, TypeOK, ItemEdits
  <2>2. /\ changed' = changed \cup {edit[s].item}
        /\ \A j \in Items \ {edit[s].item} : grants'[j] = grants[j]
        /\ UNCHANGED <<indexed, current>>
    BY <1>2, <1>7 DEF CommitItem, TypeOK
  <2>3. HeldIsTracked'
    BY <2>2 DEF TrackInvariant, HeldIsTracked
  <2> QED BY <2>1, <2>2, <2>3, RowsTracked
<1>8. ASSUME NEW s \in Sessions, NEW i \in Items, ReadItem(s, i)
      PROVE  HeldIsTracked' /\ IndexFollowsGrants'
  <2>1. /\ changed' = changed \cup {i}
        /\ \A j \in Items \ {i} : grants'[j] = grants[j]
        /\ current' = [current EXCEPT ![s] = i]
        /\ indexed' = indexed
    BY <1>2, <1>8 DEF ReadItem, TypeOK
  <2>2. HeldIsTracked'
    BY <1>2, <2>1 DEF TrackInvariant, HeldIsTracked, TypeOK
  <2> QED BY <2>1, <2>2, RowsTracked
<1>9. ASSUME NEW s \in Sessions, DeleteGrants(s) \/ WriteGrants(s)
      PROVE  HeldIsTracked' /\ IndexFollowsGrants'
  <2>1. PICK i \in Items : i = current[s] /\ i \in changed
    BY <1>2, <1>9
       DEF DeleteGrants, WriteGrants, TypeOK, TrackInvariant, HeldIsTracked
  <2>2. /\ UNCHANGED <<indexed, changed>>
        /\ \A j \in Items \ {i} : grants'[j] = grants[j]
        /\ \A t \in Sessions : current'[t] = current[t] \/ current'[t] = None
    BY <1>2, <1>9, <2>1 DEF DeleteGrants, WriteGrants, TypeOK
  <2>3. HeldIsTracked'
    BY <2>2 DEF TrackInvariant, HeldIsTracked
  <2> QED BY <2>1, <2>2, <2>3, RowsTracked
<1>10. ASSUME NEW s \in Sessions, IndexQueued(s) \/ Shutdown(s)
       PROVE  HeldIsTracked' /\ IndexFollowsGrants'
  <2>1. \A t \in Sessions : current[t] = None
    <3>1. at[s] # "idle" /\ current[s] = None
      BY <1>2, <1>10 DEF IndexQueued, Shutdown, TypeOK
    <3>2. \A t \in Sessions \ {s} : current[t] = None
      BY <1>1, <3>1, BusyFacts
    <3> QED BY <3>1, <3>2
  <2>2. \A t \in Sessions : current'[t] = None
    BY <1>4, <1>10, <2>1 DEF IndexQueued, Shutdown, local
  <2>3. PICK is \in SUBSET Items : Index(is) /\ grants' = grants
    BY <1>2, <1>10 DEF IndexQueued, Shutdown, TypeOK
  <2> QED BY <2>1, <2>2, <2>3, IndexTracks
<1>11. CASE Cron
  <2>1. \A t \in Sessions : current[t] = None /\ current'[t] = None
    BY <1>1, <1>11, QuietFacts DEF Cron, local
  <2>2. Index(changed) /\ grants' = grants /\ changed \in SUBSET Items
    BY <1>2, <1>11 DEF Cron, TypeOK
  <2> QED BY <2>1, <2>2, IndexTracks
<1>12. CASE UNCHANGED vars
  BY <1>3, <1>12 DEF vars
<1> QED BY <1>5, <1>6, <1>7, <1>8, <1>9, <1>10, <1>11, <1>12 DEF Next

(* When requests do not overlap, an index entry that differs from the rows is
   tracked, so that cron repairs it, wherever a request dies. *)
THEOREM IndexIsTracked == ASSUME Serialised PROVE Spec => []IndexFollowsGrants
<1>1. Init => TrackInvariant
  <2>1. Init => QueueInvariant
    BY InitQueueInvariant
  <2>2. Init => HeldIsTracked /\ IndexFollowsGrants
    BY DEF Init, HeldIsTracked, IndexFollowsGrants
  <2> QED BY <2>1, <2>2 DEF TrackInvariant
<1>2. TrackInvariant /\ [Next]_vars => TrackInvariant'
  BY NextTrackInvariant
<1>3. TrackInvariant => IndexFollowsGrants
  BY DEF TrackInvariant
<1> QED BY <1>1, <1>2, <1>3, PTL DEF Spec

------------------------------------------------------------------------------
(***************************************************************************)
(* What is left of that when requests overlap.  Cron may index an item     *)
(* while a listing replaces its rows, and the item is not tracked any      *)
(* more.  The listing still has it on the list of what it will index when  *)
(* it ends, and only a request that dies loses that list.                  *)
(***************************************************************************)
EntriesCatchUp ==
    \A i \in Items : \/ indexed[i] = grants[i]
                     \/ i \in changed \cup cut
                     \/ \E s \in Sessions : i \in delayed[s]

HeldIsDelayed ==
    \A s \in Sessions :
        /\ current[s] # None => current[s] \in delayed[s]
        /\ at[s] \in {"idle", "item", "protocol"} => delayed[s] = {}

CatchUpInvariant == TypeOK /\ EntriesCatchUp /\ HeldIsDelayed

(* The rows of one item change, and a request is going to index it. *)
LEMMA RowsCatchUp ==
    ASSUME CatchUpInvariant, NEW s \in Sessions, NEW i \in Items, i \in delayed'[s],
           \A t \in Sessions : delayed[t] \subseteq delayed'[t],
           indexed' = indexed, changed \subseteq changed', cut' = cut,
           \A j \in Items \ {i} : grants'[j] = grants[j]
    PROVE  EntriesCatchUp'
<1> SUFFICES ASSUME NEW j \in Items, j # i
             PROVE  \/ indexed'[j] = grants'[j]
                    \/ j \in changed' \cup cut'
                    \/ \E t \in Sessions : j \in delayed'[t]
  BY DEF EntriesCatchUp
<1> QED BY DEF CatchUpInvariant, EntriesCatchUp

(* Entries are taken over: nothing else comes to differ, and what is forgotten
   has been taken over. *)
LEMMA IndexCatchesUp ==
    ASSUME CatchUpInvariant, NEW is \in SUBSET Items, Index(is), grants' = grants,
           cut \ is \subseteq cut',
           \A t \in Sessions : delayed[t] \ is \subseteq delayed'[t]
    PROVE  EntriesCatchUp'
<1> SUFFICES ASSUME NEW i \in Items, i \notin is
             PROVE  \/ indexed'[i] = grants'[i]
                    \/ i \in changed' \cup cut'
                    \/ \E t \in Sessions : i \in delayed'[t]
  BY DEF EntriesCatchUp, Index
<1>1. indexed'[i] = indexed[i] /\ (i \in changed => i \in changed')
  BY DEF Index
<1> QED BY <1>1 DEF CatchUpInvariant, EntriesCatchUp

LEMMA NextCatchUpInvariant == CatchUpInvariant /\ [Next]_vars => CatchUpInvariant'
<1> SUFFICES ASSUME CatchUpInvariant, [Next]_vars PROVE CatchUpInvariant'
  OBVIOUS
<1>1. TypeOK /\ TypeOK'
  BY NextTypeOK DEF CatchUpInvariant
<1> SUFFICES EntriesCatchUp' /\ HeldIsDelayed'
  BY <1>1 DEF CatchUpInvariant
(* What a request that ends leaves behind. *)
<1>2. ASSUME NEW s \in Sessions, End(s)
      PROVE  /\ HeldIsDelayed'
             /\ \A t \in Sessions \ {s} : delayed'[t] = delayed[t]
  BY <1>1, <1>2 DEF End, Go, TypeOK, CatchUpInvariant, HeldIsDelayed
<1>3. ASSUME NEW s \in Sessions, NEW point \in Points \ {"idle", "item", "protocol"},
             Go(s, point), UNCHANGED <<current, delayed>>
      PROVE  HeldIsDelayed'
  BY <1>1, <1>3 DEF Go, TypeOK, CatchUpInvariant, HeldIsDelayed
<1>4. ASSUME UNCHANGED <<grants, indexed, changed, cut, delayed>>
      PROVE  EntriesCatchUp'
  BY <1>4 DEF CatchUpInvariant, EntriesCatchUp
<1>5. ASSUME NEW s \in Sessions,
             \/ \E i \in Items, e \in ItemForms : BeginItem(s, i, e[1], e[2])
             \/ \E p \in Protocols, a \in Access, roles, form, bypass \in BOOLEAN,
                  ms \in SUBSET Protocols :
                  BeginProtocol(s, p, a, roles, form, ms, bypass)
             \/ BeginList(s)
             \/ \E p \in Protocols : BeginBatch(s, p)
      PROVE  EntriesCatchUp' /\ HeldIsDelayed'
  <2>1. /\ UNCHANGED <<grants, indexed, changed, cut, delayed, current>>
        /\ delayed[s] = {}
        /\ \A t \in Sessions \ {s} : at'[t] = at[t]
    BY <1>1, <1>5 DEF BeginItem, BeginProtocol, BeginList, BeginBatch, CanStart, Go,
                      TypeOK, CatchUpInvariant, HeldIsDelayed
  <2>2. HeldIsDelayed'
    BY <2>1 DEF CatchUpInvariant, HeldIsDelayed
  <2> QED BY <1>4, <2>1, <2>2
<1>6. ASSUME NEW s \in Sessions, ClearQueue(s) \/ Finish(s)
      PROVE  EntriesCatchUp' /\ HeldIsDelayed'
  BY <1>3, <1>4, <1>6 DEF ClearQueue, Finish, local, Points
<1>7. ASSUME NEW s \in Sessions, CommitProtocol(s)
      PROVE  EntriesCatchUp' /\ HeldIsDelayed'
  <2>1. End(s) /\ UNCHANGED <<grants, indexed, changed, cut>>
    BY <1>7 DEF CommitProtocol
  <2>2. delayed[s] = {}
    BY <1>7 DEF CommitProtocol, CatchUpInvariant, HeldIsDelayed
  <2>3. \A t \in Sessions : delayed[t] \subseteq delayed'[t]
    BY <1>2, <2>1, <2>2
  <2>4. EntriesCatchUp'
    BY <2>1, <2>3 DEF CatchUpInvariant, EntriesCatchUp
  <2> QED BY <1>2, <2>1, <2>4
<1>8. ASSUME NEW s \in Sessions, Abort(s)
      PROVE  EntriesCatchUp' /\ HeldIsDelayed'
  <2>1. End(s) /\ cut' = cut \cup delayed[s] /\ UNCHANGED <<grants, indexed, changed>>
    BY <1>8 DEF Abort
  <2>2. \A t \in Sessions : t = s \/ delayed'[t] = delayed[t]
    BY <1>2, <2>1
  <2>3. EntriesCatchUp'
    BY <2>1, <2>2 DEF CatchUpInvariant, EntriesCatchUp
  <2> QED BY <1>2, <2>1, <2>3
<1>9. ASSUME NEW s \in Sessions, CommitItem(s)
      PROVE  EntriesCatchUp' /\ HeldIsDelayed'
  <2>1. PICK i \in Items : i = edit[s].item
    BY <1>1, <1>9 DEF CommitItem, TypeOK, ItemEdits
  <2>2. /\ \A j \in Items \ {i} : grants'[j] = grants[j]
        /\ changed \subseteq changed'
        /\ delayed' = [delayed EXCEPT ![s] = {i}]
        /\ UNCHANGED <<indexed, current, cut>>
    BY <1>1, <1>9, <2>1 DEF CommitItem, TypeOK
  <2>3. delayed[s] = {} /\ current[s] = None
    BY <1>1, <1>9 DEF CommitItem, CatchUpInvariant, HeldIsDelayed, TypeOK
  <2>4. i \in delayed'[s] /\ \A t \in Sessions : delayed[t] \subseteq delayed'[t]
    BY <1>1, <2>2, <2>3 DEF TypeOK
  <2>5. HeldIsDelayed'
    BY <1>1, <1>9, <2>2, <2>3, <2>4 DEF CommitItem, Go, TypeOK, CatchUpInvariant, HeldIsDelayed
  <2> QED BY <2>2, <2>4, <2>5, RowsCatchUp
<1>10. ASSUME NEW s \in Sessions, NEW i \in Items, ReadItem(s, i)
       PROVE  EntriesCatchUp' /\ HeldIsDelayed'
  <2>1. /\ \A j \in Items \ {i} : grants'[j] = grants[j]
        /\ changed \subseteq changed'
        /\ delayed' = [delayed EXCEPT ![s] = @ \cup {i}]
        /\ current' = [current EXCEPT ![s] = i]
        /\ at[s] \in {"list", "batch"}
        /\ UNCHANGED <<indexed, at, cut>>
    BY <1>1, <1>10 DEF ReadItem, TypeOK
  <2>2. i \in delayed'[s] /\ \A t \in Sessions : delayed[t] \subseteq delayed'[t]
    BY <1>1, <2>1 DEF TypeOK
  <2>3. HeldIsDelayed'
    BY <1>1, <2>1 DEF TypeOK, CatchUpInvariant, HeldIsDelayed
  <2> QED BY <2>1, <2>2, <2>3, RowsCatchUp
<1>11. ASSUME NEW s \in Sessions, DeleteGrants(s) \/ WriteGrants(s)
       PROVE  EntriesCatchUp' /\ HeldIsDelayed'
  <2>1. PICK i \in Items : i = current[s] /\ i \in delayed[s]
    BY <1>1, <1>11 DEF DeleteGrants, WriteGrants, TypeOK, CatchUpInvariant, HeldIsDelayed
  <2>2. /\ \A j \in Items \ {i} : grants'[j] = grants[j]
        /\ \A t \in Sessions : current'[t] = current[t] \/ current'[t] = None
        /\ UNCHANGED <<indexed, changed, cut, delayed, at>>
    BY <1>1, <1>11, <2>1 DEF DeleteGrants, WriteGrants, TypeOK
  <2>3. HeldIsDelayed'
    BY <2>2 DEF CatchUpInvariant, HeldIsDelayed
  <2> QED BY <2>1, <2>2, <2>3, RowsCatchUp
<1>12. ASSUME NEW s \in Sessions, IndexQueued(s)
       PROVE  EntriesCatchUp' /\ HeldIsDelayed'
  <2>1. HeldIsDelayed'
    BY <1>3, <1>12 DEF IndexQueued, local, Points
  <2>2. /\ conf[s] \in SUBSET Items /\ Index(conf[s]) /\ cut' = cut \ conf[s]
        /\ UNCHANGED <<grants, delayed>>
    BY <1>1, <1>12 DEF IndexQueued, local, TypeOK
  <2> QED BY <2>1, <2>2, IndexCatchesUp
<1>13. ASSUME NEW s \in Sessions, Shutdown(s)
       PROVE  EntriesCatchUp' /\ HeldIsDelayed'
  <2>1. /\ delayed[s] \in SUBSET Items /\ Index(delayed[s]) /\ cut' = cut \ delayed[s]
        /\ End(s) /\ grants' = grants
    BY <1>1, <1>13 DEF Shutdown, TypeOK
  <2>2. \A t \in Sessions : delayed[t] \ delayed[s] \subseteq delayed'[t]
    BY <1>2, <2>1
  <2> QED BY <1>2, <2>1, <2>2, IndexCatchesUp
<1>14. CASE Cron
  <2>1. /\ changed \in SUBSET Items /\ Index(changed)
        /\ UNCHANGED <<grants, cut, delayed, current, at>>
    BY <1>1, <1>14 DEF Cron, local, TypeOK
  <2>2. HeldIsDelayed'
    BY <2>1 DEF CatchUpInvariant, HeldIsDelayed
  <2> QED BY <2>1, <2>2, IndexCatchesUp
<1>15. CASE UNCHANGED vars
  BY <1>4, <1>15 DEF vars, CatchUpInvariant, HeldIsDelayed
<1> QED BY <1>5, <1>6, <1>7, <1>8, <1>9, <1>10, <1>11, <1>12, <1>13, <1>14, <1>15 DEF Next

(* In any interleaving of requests and cron, an index entry that differs from
   the rows is tracked as changed, or a request that still runs will index the
   item at its shutdown, or a request that was busy with the item has died. *)
THEOREM IndexCatchesUpAnyway == Spec => []EntriesCatchUp
<1>1. Init => CatchUpInvariant
  <2>1. Init => TypeOK
    BY InitTypeOK
  <2>2. Init => EntriesCatchUp /\ HeldIsDelayed
    BY DEF Init, EntriesCatchUp, HeldIsDelayed
  <2> QED BY <2>1, <2>2 DEF CatchUpInvariant
<1>2. CatchUpInvariant => EntriesCatchUp
  BY DEF CatchUpInvariant
<1> QED BY <1>1, <1>2, NextCatchUpInvariant, PTL DEF Spec

==============================================================================
