------------------------- MODULE GroupCreation_proofs -------------------------
(***************************************************************************)
(* Theorems about GroupCreation, for every set of users and sessions and   *)
(* any number of node ids.                                                 *)
(***************************************************************************)
EXTENDS GroupCreation, TLAPS

------------------------------------------------------------------------------
(* Type correctness. *)

LEMMA WaitingType == ASSUME TypeOK, NEW s PROVE Waiting(s) \subseteq Nids
BY DEF TypeOK, Waiting

LEMMA InsertType ==
    ASSUME TypeOK, NEW s \in Sessions, NEW kind \in Kinds, NEW c \in Nids \cup {NoNid},
           Insert(s, kind, c)
    PROVE  /\ counter \in Nids
           /\ counter' \in 1 .. (MaxNid + 1)
           /\ node' \in [Nids -> Nodes]
           /\ fresh' \in [Sessions -> SUBSET Nids]
           /\ overtaken' \in SUBSET Nids
<1>1. counter \in Nids /\ counter' = counter + 1 /\ counter' \in 1 .. (MaxNid + 1)
  BY CreationAssumption DEF TypeOK, Insert, TakeId, Nids
<1>2. [kind |-> kind, of |-> c] \in Nodes
  BY DEF Nodes
<1>3. node' \in [Nids -> Nodes]
  BY <1>1, <1>2 DEF TypeOK, Insert, TakeId
<1>4. fresh' \in [Sessions -> SUBSET Nids]
  BY <1>1 DEF TypeOK, Insert, TakeId
<1>5. overtaken' \in SUBSET Nids
  BY WaitingType DEF TypeOK, Insert, TakeId
<1> QED BY <1>1, <1>3, <1>4, <1>5

LEMMA CascadeType ==
    ASSUME TypeOK, NEW s \in Sessions, NEW u \in Users, NEW g \in Nids,
           NEW ms \in SUBSET (Users \X Nids), NEW ks \in SUBSET Nids
    PROVE  /\ InCommunity(s, u, g, ms, ks).ms \in SUBSET (Users \X Nids)
           /\ InCommunity(s, u, g, ms, ks).ks \in SUBSET Nids
<1>1. Recognised(s, g) \in SUBSET Nids
  BY CreationAssumption DEF Recognised, Nids
<1> QED BY <1>1 DEF InCommunity

LEMMA ProtocolCascadeType ==
    ASSUME TypeOK, NEW s \in Sessions, NEW u \in Users, NEW p \in Nids,
           node[p].of \in Nids,
           NEW ms \in SUBSET (Users \X Nids), NEW ks \in SUBSET Nids
    PROVE  /\ InProtocol(s, u, p, ms, ks).ms \in SUBSET (Users \X Nids)
           /\ InProtocol(s, u, p, ms, ks).ks \in SUBSET Nids
<1> DEFINE c == node[p].of
           nested == InCommunity(s, u, c, ms, ks \cup {p})
<1>1. /\ nested.ms \in SUBSET (Users \X Nids)
      /\ nested.ks \in SUBSET Nids
  BY CascadeType
<1>2. InProtocol(s, u, p, ms, ks) =
        IF p \in ks
        THEN [ms |-> ms \cup {<<u, p>>}, ks |-> ks \ {p}]
        ELSE IF <<u, c>> \in ms
        THEN [ms |-> ms \cup {<<u, p>>}, ks |-> ks]
        ELSE [ms |-> nested.ms \cup {<<u, p>>}, ks |-> nested.ks]
  BY DEF InProtocol
<1> HIDE DEF nested, c
<1> QED BY <1>1, <1>2

(* The protocols there are refer to a community. *)
ReferencesHold ==
    \A n \in Nids : node[n].kind \in ProtocolKinds => node[n].of \in Nids

Typed == TypeOK /\ ReferencesHold

LEMMA InitTyped == Init => Typed
<1> SUFFICES ASSUME Init PROVE Typed
  OBVIOUS
<1>1. counter \in 1 .. (MaxNid + 1)
  BY CreationAssumption DEF Init
<1>2. Absent \in Nodes /\ Absent.kind \notin ProtocolKinds
  BY DEF Absent, Nodes, Kinds, ProtocolKinds
<1>3. node \in [Nids -> Nodes]
  BY <1>2 DEF Init
<1>4. at \in [Sessions -> Points]
  BY DEF Init, Points
<1> QED BY <1>1, <1>2, <1>3, <1>4 DEF Init, Typed, TypeOK, ReferencesHold

(* A node that is inserted refers to a community if it is a protocol. *)
LEMMA InsertReferences ==
    ASSUME Typed, NEW s \in Sessions, NEW kind \in Kinds, NEW c \in Nids \cup {NoNid},
           Insert(s, kind, c), kind \in ProtocolKinds => c \in Nids
    PROVE  ReferencesHold'
<1>1. counter \in Nids
  BY InsertType DEF Typed
<1>2. \A n \in Nids : node'[n] = IF n = counter THEN [kind |-> kind, of |-> c] ELSE node[n]
  BY <1>1 DEF Typed, TypeOK, Insert, TakeId
<1> QED BY <1>2 DEF Typed, ReferencesHold

LEMMA NextTyped == Typed /\ [Next]_vars => Typed'
<1> SUFFICES ASSUME Typed, [Next]_vars PROVE Typed'
  OBVIOUS
<1> USE DEF Typed
<1>0. \A k \in {"community", "imported", "default", "protocol", "other"} : k \in Kinds
  BY DEF Kinds
<1>1. ASSUME NEW s \in Sessions, NEW u \in Users,
             BeginCommunity(s, u) \/ BeginImport(s, u)
      PROVE  Typed'
  <2>1. PICK k \in {"community", "imported"} : Insert(s, k, NoNid)
    BY <1>1 DEF BeginCommunity, BeginImport
  <2>2. k \in Kinds /\ k \notin ProtocolKinds
    BY <1>0 DEF ProtocolKinds
  <2>3. ReferencesHold'
    BY <2>1, <2>2, InsertReferences
  <2>4. at' \in [Sessions -> Points] /\ author' \in [Sessions -> Users]
    BY <1>1 DEF TypeOK, BeginCommunity, BeginImport, Go, Points
  <2> QED BY <1>1, <2>1, <2>2, <2>3, <2>4, InsertType DEF TypeOK, BeginCommunity, BeginImport
<1>2. ASSUME NEW s \in Sessions, NEW u \in Users, NEW c \in Nids, BeginProtocol(s, u, c)
      PROVE  Typed'
  <2>1. Insert(s, "protocol", c)
    BY <1>2 DEF BeginProtocol
  <2>3. ReferencesHold'
    BY <1>0, <2>1, InsertReferences
  <2>4. at' \in [Sessions -> Points] /\ author' \in [Sessions -> Users]
    BY <1>2 DEF TypeOK, BeginProtocol, Go, Points
  <2> QED BY <1>0, <1>2, <2>1, <2>3, <2>4, InsertType DEF TypeOK, BeginProtocol
<1>3. ASSUME NEW s \in Sessions, NEW u \in Users, NEW c \in Nids, JoinCommunity(s, u, c)
      PROVE  Typed'
  <2> DEFINE r == InCommunity(s, u, c, members, marks[s])
  <2>1. r.ms \in SUBSET (Users \X Nids) /\ r.ks \in SUBSET Nids
    BY CascadeType DEF TypeOK
  <2>2. members' = r.ms /\ marks' = [marks EXCEPT ![s] = r.ks]
    BY <1>3 DEF JoinCommunity
  <2> HIDE DEF r
  <2>3. marks' \in [Sessions -> SUBSET Nids]
    BY <2>1, <2>2 DEF TypeOK
  <2> QED BY <1>3, <2>1, <2>2, <2>3 DEF TypeOK, ReferencesHold, JoinCommunity
<1>4. ASSUME NEW s \in Sessions, NEW u \in Users, NEW p \in Nids, JoinProtocol(s, u, p)
      PROVE  Typed'
  <2> DEFINE r == InProtocol(s, u, p, members, marks[s])
  <2>0. node[p].of \in Nids
    BY <1>4 DEF JoinProtocol, ReferencesHold, ProtocolsIn
  <2>1. r.ms \in SUBSET (Users \X Nids) /\ r.ks \in SUBSET Nids
    BY <2>0, ProtocolCascadeType DEF TypeOK
  <2>2. members' = r.ms /\ marks' = [marks EXCEPT ![s] = r.ks]
    BY <1>4 DEF JoinProtocol
  <2> HIDE DEF r
  <2>3. marks' \in [Sessions -> SUBSET Nids]
    BY <2>1, <2>2 DEF TypeOK
  <2> QED BY <1>4, <2>1, <2>2, <2>3 DEF TypeOK, ReferencesHold, JoinProtocol
<1>5. ASSUME NEW s \in Sessions, OtherNode(s)
      PROVE  Typed'
  <2>1. counter \in Nids /\ counter' \in 1 .. (MaxNid + 1)
    BY <1>5, CreationAssumption DEF OtherNode, TakeId, TypeOK, Nids
  <2> DEFINE new == [kind |-> "other", of |-> NoNid]
  <2>2. new \in Nodes /\ new.kind \notin ProtocolKinds
    BY <1>0 DEF Nodes, ProtocolKinds
  <2>3. node' = [node EXCEPT ![counter] = new]
    BY <1>5 DEF OtherNode, TakeId
  <2> HIDE DEF new
  <2>4. node' \in [Nids -> Nodes] /\ ReferencesHold'
    BY <2>1, <2>2, <2>3 DEF TypeOK, ReferencesHold
  <2>5. overtaken' \in SUBSET Nids
    BY <1>5, WaitingType DEF OtherNode, TakeId, TypeOK
  <2> QED BY <1>5, <2>1, <2>4, <2>5 DEF OtherNode, TypeOK
<1>6. ASSUME NEW s \in Sessions, InsertDefault(s)
      PROVE  Typed'
  <2>1. PICK c \in Communities(fresh[s]) : Insert(s, "default", c)
    BY <1>6 DEF InsertDefault
  <2>2. c \in Nids
    BY DEF Communities, TypeOK
  <2>3. ReferencesHold'
    BY <1>0, <2>1, <2>2, InsertReferences
  <2>4. at' \in [Sessions -> Points]
    BY <1>6 DEF TypeOK, InsertDefault, Go, Points
  <2> QED BY <1>0, <1>6, <2>1, <2>2, <2>3, <2>4, InsertType DEF TypeOK, InsertDefault
<1>7. ASSUME NEW s \in Sessions, SubscribeToProtocol(s)
      PROVE  Typed'
  <2>1. PICK p \in ProtocolsIn(fresh[s]) :
          LET r == InProtocol(s, author[s], p, members \cup added[s], marks[s])
          IN  /\ added' = [added EXCEPT ![s] = r.ms \ members]
              /\ marks' = [marks EXCEPT ![s] = r.ks]
    BY <1>7 DEF SubscribeToProtocol
  <2> DEFINE r == InProtocol(s, author[s], p, members \cup added[s], marks[s])
  <2>2. p \in Nids /\ node[p].of \in Nids
    BY DEF ProtocolsIn, TypeOK, ReferencesHold
  <2>3. r.ms \in SUBSET (Users \X Nids) /\ r.ks \in SUBSET Nids
    BY <2>2, ProtocolCascadeType DEF TypeOK
  <2>4. /\ added' = [added EXCEPT ![s] = r.ms \ members]
        /\ marks' = [marks EXCEPT ![s] = r.ks]
    BY <2>1
  <2> HIDE DEF r
  <2>5. marks' \in [Sessions -> SUBSET Nids]
    BY <2>3, <2>4 DEF TypeOK
  <2>6. added' \in [Sessions -> SUBSET (Users \X Nids)]
    BY <2>3, <2>4 DEF TypeOK
  <2>7. at' \in [Sessions -> Points]
    BY <1>7 DEF TypeOK, SubscribeToProtocol, Go, Points
  <2> QED BY <1>7, <2>5, <2>6, <2>7 DEF TypeOK, ReferencesHold, SubscribeToProtocol
<1>8. ASSUME NEW s \in Sessions, SubscribeToCommunity(s)
      PROVE  Typed'
  <2>1. PICK c \in Communities(fresh[s]) :
          LET r == InCommunity(s, author[s], c, members \cup added[s], marks[s])
          IN  \/ UNCHANGED <<added, marks>>
              \/ /\ added' = [added EXCEPT ![s] = r.ms \ members]
                 /\ marks' = [marks EXCEPT ![s] = r.ks]
    BY <1>8 DEF SubscribeToCommunity
  <2> DEFINE r == InCommunity(s, author[s], c, members \cup added[s], marks[s])
  <2>2. c \in Nids
    BY DEF Communities, TypeOK
  <2>3. r.ms \in SUBSET (Users \X Nids) /\ r.ks \in SUBSET Nids
    BY <2>2, CascadeType DEF TypeOK
  <2>4. \/ UNCHANGED <<added, marks>>
        \/ /\ added' = [added EXCEPT ![s] = r.ms \ members]
           /\ marks' = [marks EXCEPT ![s] = r.ks]
    BY <2>1
  <2> HIDE DEF r
  <2>5. marks' \in [Sessions -> SUBSET Nids]
    BY <2>3, <2>4 DEF TypeOK
  <2>6. added' \in [Sessions -> SUBSET (Users \X Nids)]
    BY <2>3, <2>4 DEF TypeOK
  <2>7. at' \in [Sessions -> Points]
    BY <1>8 DEF TypeOK, SubscribeToCommunity, Go, Points
  <2> QED BY <1>8, <2>5, <2>6, <2>7 DEF TypeOK, ReferencesHold, SubscribeToCommunity
<1>9. ASSUME NEW s \in Sessions, Commit(s)
      PROVE  Typed'
  <2>1. members' \in SUBSET (Users \X Nids)
    BY <1>9 DEF Commit, TypeOK
  <2>2. /\ fresh' \in [Sessions -> SUBSET Nids]
        /\ added' \in [Sessions -> SUBSET (Users \X Nids)]
        /\ at' \in [Sessions -> Points]
    BY <1>9 DEF Commit, Go, TypeOK, Points
  <2> QED BY <1>9, <2>1, <2>2 DEF Commit, TypeOK, ReferencesHold
<1>10. ASSUME NEW s \in Sessions, Abort(s)
       PROVE  Typed'
  <2>1. Absent \in Nodes /\ Absent.kind \notin ProtocolKinds
    BY DEF Absent, Nodes, Kinds, ProtocolKinds
  <2>2. node' \in [Nids -> Nodes] /\ ReferencesHold'
    BY <1>10, <2>1 DEF Abort, TypeOK, ReferencesHold
  <2>3. /\ fresh' \in [Sessions -> SUBSET Nids]
        /\ added' \in [Sessions -> SUBSET (Users \X Nids)]
        /\ at' \in [Sessions -> Points]
    BY <1>10 DEF Abort, Go, TypeOK, Points
  <2> QED BY <1>10, <2>2, <2>3 DEF Abort, TypeOK
<1>11. CASE UNCHANGED vars
  BY <1>11 DEF vars, TypeOK, ReferencesHold
<1> HIDE DEF Typed
<1> QED
  BY <1>1, <1>2, <1>3, <1>4, <1>5, <1>6, <1>7, <1>8, <1>9, <1>10, <1>11 DEF Next

(* The nodes, memberships and requests are well typed in any interleaving. *)
THEOREM TypeCorrect == Spec => []TypeOK
<1>1. Typed => TypeOK
  BY DEF Typed
<1> QED BY <1>1, InitTyped, NextTyped, PTL DEF Spec

(***************************************************************************)
(* The default protocol exists, in any interleaving.                       *)
(*                                                                         *)
(* The inductive invariant says whose the nodes are that are not committed *)
(* yet: ids from the counter on are free, a fresh node belongs to one      *)
(* request, and a request that has left the point "default" holds the      *)
(* default protocol of its community together with the community.          *)
(***************************************************************************)
HasDefault(c, ns) == \E p \in ns : node[p] = [kind |-> "default", of |-> c]

NumbersHold ==
    \A n \in Nids : n >= counter =>
        node[n] = Absent /\ \A s \in Sessions : n \notin fresh[s]

OwnersHold ==
    \A n \in Nids, s \in Sessions : n \in fresh[s] =>
        /\ node[n].kind # "absent"
        /\ \A t \in Sessions : n \in fresh[t] => s = t

RequestHolds(s) ==
    /\ at[s] = "idle" => fresh[s] = {}
    /\ at[s] = "default" => \E c \in Nids : fresh[s] = {c}
    /\ at[s] # "default" =>
         \A c \in fresh[s] : node[c].kind = "community" => HasDefault(c, fresh[s])

CreationInvariant ==
    /\ Typed
    /\ NumbersHold
    /\ OwnersHold
    /\ \A s \in Sessions : RequestHolds(s)
    /\ DefaultExists

LEMMA InitCreationInvariant == Init => CreationInvariant
<1> SUFFICES ASSUME Init PROVE CreationInvariant
  OBVIOUS
<1>1. \A n \in Nids : node[n] = Absent /\ node[n].kind = "absent"
  BY DEF Init, Absent
<1>2. \A s \in Sessions : fresh[s] = {} /\ at[s] = "idle"
  BY DEF Init
<1> QED BY <1>1, <1>2, InitTyped
       DEF CreationInvariant, NumbersHold, OwnersHold, RequestHolds, DefaultExists,
           Committed

(* A request that inserts a node changes nothing that is committed, nor any
   other request. *)
LEMMA InsertFacts ==
    ASSUME CreationInvariant, NEW s \in Sessions, NEW kind \in Kinds \ {"absent"},
           NEW c \in Nids \cup {NoNid}, Insert(s, kind, c)
    PROVE  /\ counter \in Nids /\ counter' = counter + 1
           /\ node'[counter] = [kind |-> kind, of |-> c]
           /\ fresh'[s] = fresh[s] \cup {counter}
           /\ \A n \in Nids \ {counter} : node'[n] = node[n]
           /\ \A t \in Sessions \ {s} : fresh'[t] = fresh[t]
           /\ \A t \in Sessions : counter \notin fresh[t]
           /\ ~Committed(counter)
           /\ \A n \in Nids : Committed(n)' <=> Committed(n)
<1>1. counter \in Nids /\ counter' = counter + 1
  BY InsertType DEF CreationInvariant, Typed, Insert, TakeId
<1>2. node[counter] = Absent /\ \A t \in Sessions : counter \notin fresh[t]
  BY <1>1 DEF CreationInvariant, NumbersHold, Nids
<1>3. /\ node'[counter] = [kind |-> kind, of |-> c]
      /\ \A n \in Nids \ {counter} : node'[n] = node[n]
  BY <1>1 DEF Insert, TakeId, CreationInvariant, Typed, TypeOK
<1>4. /\ fresh'[s] = fresh[s] \cup {counter}
      /\ \A t \in Sessions \ {s} : fresh'[t] = fresh[t]
  BY DEF Insert, TakeId, CreationInvariant, Typed, TypeOK
<1>5. \A n \in Nids : n = counter => ~Committed(n) /\ ~Committed(n)'
  BY <1>1, <1>2, <1>4 DEF Committed, Absent
<1>6. \A n \in Nids : n # counter => (Committed(n)' <=> Committed(n))
  BY <1>3, <1>4 DEF Committed
<1>7. ~Committed(counter) /\ \A n \in Nids : Committed(n)' <=> Committed(n)
  BY <1>1, <1>5, <1>6
<1> QED BY <1>1, <1>2, <1>3, <1>4, <1>7

(* It keeps the invariant if it keeps its own part of it. *)
LEMMA InsertKeeps ==
    ASSUME CreationInvariant, Typed', NEW s \in Sessions,
           NEW kind \in Kinds \ {"absent"}, NEW c \in Nids \cup {NoNid},
           Insert(s, kind, c), \A t \in Sessions \ {s} : at'[t] = at[t],
           RequestHolds(s)'
    PROVE  CreationInvariant'
<1>0. /\ counter \in Nids /\ counter' = counter + 1
      /\ node'[counter] = [kind |-> kind, of |-> c]
      /\ fresh'[s] = fresh[s] \cup {counter}
      /\ \A n \in Nids \ {counter} : node'[n] = node[n]
      /\ \A t \in Sessions \ {s} : fresh'[t] = fresh[t]
      /\ \A t \in Sessions : counter \notin fresh[t]
      /\ ~Committed(counter)
      /\ \A n \in Nids : Committed(n)' <=> Committed(n)
  BY InsertFacts
<1>1. NumbersHold'
  BY <1>0 DEF CreationInvariant, NumbersHold, Nids, Typed, TypeOK
<1>2. OwnersHold'
  BY <1>0 DEF CreationInvariant, OwnersHold
<1>3. ASSUME NEW t \in Sessions \ {s} PROVE RequestHolds(t)'
  <2>1. fresh'[t] = fresh[t] /\ at'[t] = at[t] /\ fresh[t] \subseteq Nids \ {counter}
    BY <1>0 DEF CreationInvariant, Typed, TypeOK
  <2>2. \A n \in fresh[t] : node'[n] = node[n]
    BY <2>1, <1>0
  <2> QED BY <2>1, <2>2 DEF CreationInvariant, RequestHolds, HasDefault
<1>4. DefaultExists'
  <2>1. \A n \in Nids : Committed(n)' => Committed(n) /\ node'[n] = node[n]
    BY <1>0
  <2>2. \A n \in Nids : Committed(n) => Committed(n)' /\ node'[n] = node[n]
    BY <1>0
  <2> QED BY <2>1, <2>2 DEF CreationInvariant, DefaultExists
<1> QED BY <1>1, <1>2, <1>3, <1>4 DEF CreationInvariant

(* A step that inserts, removes and commits no node. *)
LEMMA InnerStep ==
    ASSUME CreationInvariant, Typed', NEW s \in Sessions,
           UNCHANGED <<counter, node, fresh>>,
           \A t \in Sessions \ {s} : at'[t] = at[t],
           at[s] = "idle" => at'[s] = "idle",
           at'[s] = "idle" => at[s] = "idle",
           at[s] # "default", at'[s] # "default"
    PROVE  CreationInvariant'
<1>1. \A n \in Nids : Committed(n)' <=> Committed(n)
  BY DEF Committed
<1>2. DefaultExists'
  BY <1>1 DEF CreationInvariant, DefaultExists
<1>3. \A t \in Sessions : RequestHolds(t)'
  BY DEF CreationInvariant, RequestHolds, HasDefault
<1> QED BY <1>2, <1>3 DEF CreationInvariant, NumbersHold, OwnersHold

LEMMA OtherNodeKeeps ==
    ASSUME CreationInvariant, Typed', NEW s \in Sessions, OtherNode(s)
    PROVE  CreationInvariant'
<1> DEFINE new == [kind |-> "other", of |-> NoNid]
<1>1. counter \in Nids /\ counter' = counter + 1 /\ UNCHANGED <<fresh, at>>
  BY DEF OtherNode, TakeId, CreationInvariant, Typed, TypeOK, Nids
<1>2. node[counter] = Absent /\ \A t \in Sessions : counter \notin fresh[t]
  BY <1>1 DEF CreationInvariant, NumbersHold, Nids
<1>3. node'[counter] = new /\ \A n \in Nids \ {counter} : node'[n] = node[n]
  BY <1>1 DEF OtherNode, TakeId, CreationInvariant, Typed, TypeOK
<1>4. NumbersHold'
  BY <1>1, <1>3 DEF CreationInvariant, NumbersHold, Nids, Typed, TypeOK
<1>5. OwnersHold'
  BY <1>1, <1>2, <1>3 DEF CreationInvariant, OwnersHold
<1>6. ASSUME NEW t \in Sessions PROVE RequestHolds(t)'
  <2>1. fresh[t] \subseteq Nids \ {counter}
    BY <1>2 DEF CreationInvariant, Typed, TypeOK
  <2>2. \A n \in fresh[t] : node'[n] = node[n]
    BY <2>1, <1>3
  <2> QED BY <1>1, <2>2 DEF CreationInvariant, RequestHolds, HasDefault
<1>7. DefaultExists'
  <2>1. ~Committed(counter) /\ node'[counter].kind # "community"
    BY <1>2, <1>3 DEF Committed, Absent
  <2>2. \A n \in Nids \ {counter} : Committed(n)' <=> Committed(n)
    BY <1>1, <1>3 DEF Committed
  <2> QED BY <1>3, <2>1, <2>2 DEF CreationInvariant, DefaultExists
<1> QED BY <1>4, <1>5, <1>6, <1>7 DEF CreationInvariant

(* What a request commits comes with its defaults. *)
LEMMA CommitKeeps ==
    ASSUME CreationInvariant, Typed', NEW s \in Sessions, Commit(s)
    PROVE  CreationInvariant'
<1>1. /\ UNCHANGED <<counter, node>>
      /\ at[s] = "commit" /\ fresh'[s] = {} /\ at'[s] = "idle"
      /\ \A t \in Sessions \ {s} : fresh'[t] = fresh[t] /\ at'[t] = at[t]
  BY DEF Commit, Go, CreationInvariant, Typed, TypeOK
<1>2. \A n \in Nids : Committed(n)' <=> Committed(n) \/ n \in fresh[s]
  BY <1>1 DEF Committed, CreationInvariant, OwnersHold
<1>3. DefaultExists'
  <2> SUFFICES ASSUME NEW c \in Nids, Committed(c)', node'[c].kind = "community"
               PROVE  \E p \in Nids : Committed(p)' /\ node'[p] = [kind |-> "default", of |-> c]
    BY DEF DefaultExists
  <2>1. CASE Committed(c)
    BY <1>1, <1>2, <2>1 DEF CreationInvariant, DefaultExists
  <2>2. CASE c \in fresh[s]
    <3>1. PICK p \in fresh[s] : node[p] = [kind |-> "default", of |-> c]
      BY <1>1, <2>2 DEF CreationInvariant, RequestHolds, HasDefault
    <3>2. p \in Nids
      BY DEF CreationInvariant, Typed, TypeOK
    <3> QED BY <1>1, <1>2, <3>1, <3>2
  <2> QED BY <1>2, <2>1, <2>2
<1>4. \A t \in Sessions : RequestHolds(t)'
  BY <1>1 DEF CreationInvariant, RequestHolds, HasDefault
<1>5. NumbersHold' /\ OwnersHold'
  BY <1>1 DEF CreationInvariant, NumbersHold, OwnersHold
<1> QED BY <1>3, <1>4, <1>5 DEF CreationInvariant

(* What a dead request leaves behind are free ids. *)
LEMMA AbortKeeps ==
    ASSUME CreationInvariant, Typed', NEW s \in Sessions, Abort(s)
    PROVE  CreationInvariant'
<1>1. /\ counter' = counter /\ fresh'[s] = {} /\ at'[s] = "idle"
      /\ \A t \in Sessions \ {s} : fresh'[t] = fresh[t] /\ at'[t] = at[t]
  BY DEF Abort, Go, CreationInvariant, Typed, TypeOK
<1>2. \A n \in Nids : node'[n] = IF n \in fresh[s] THEN Absent ELSE node[n]
  BY DEF Abort
<1>3. \A t \in Sessions \ {s}, n \in Nids : n \in fresh[t] => node'[n] = node[n]
  BY <1>2 DEF CreationInvariant, OwnersHold
<1>4. \A n \in Nids : /\ Committed(n)' <=> Committed(n)
                      /\ Committed(n) => node'[n] = node[n]
  BY <1>1, <1>2 DEF Committed, Absent
<1>5. DefaultExists'
  BY <1>4 DEF CreationInvariant, DefaultExists
<1>6. ASSUME NEW t \in Sessions PROVE RequestHolds(t)'
  <2>1. CASE t = s
    BY <1>1, <2>1 DEF RequestHolds
  <2>2. CASE t # s
    <3>1. fresh[t] \subseteq Nids
      BY DEF CreationInvariant, Typed, TypeOK
    <3>2. \A n \in fresh[t] : node'[n] = node[n]
      BY <1>3, <2>2, <3>1
    <3> QED BY <1>1, <2>2, <3>2 DEF CreationInvariant, RequestHolds, HasDefault
  <2> QED BY <2>1, <2>2
<1>7. NumbersHold'
  BY <1>1, <1>2 DEF CreationInvariant, NumbersHold
<1>8. OwnersHold'
  BY <1>1, <1>3 DEF CreationInvariant, OwnersHold
<1> QED BY <1>5, <1>6, <1>7, <1>8 DEF CreationInvariant

LEMMA BeginKeeps ==
    ASSUME CreationInvariant, Typed', NEW s \in Sessions, NEW u \in Users,
           \/ BeginCommunity(s, u)
           \/ BeginImport(s, u)
           \/ \E c \in Nids : BeginProtocol(s, u, c)
    PROVE  CreationInvariant'
<1>1. fresh[s] = {}
  BY DEF BeginCommunity, BeginImport, BeginProtocol, CanStart, CreationInvariant,
         RequestHolds
<1>2. PICK kind \in {"community", "imported", "protocol"}, c \in Nids \cup {NoNid} :
        /\ Insert(s, kind, c)
        /\ at'[s] = CASE kind = "community" -> "default"
                      [] kind = "imported" -> "community"
                      [] kind = "protocol" -> "protocol"
        /\ \A t \in Sessions \ {s} : at'[t] = at[t]
  BY DEF BeginCommunity, BeginImport, BeginProtocol, Go, CreationInvariant, Typed, TypeOK
<1>3. kind \in Kinds \ {"absent"}
  BY DEF Kinds
<1>4. /\ counter \in Nids
      /\ node'[counter] = [kind |-> kind, of |-> c]
      /\ fresh'[s] = {counter}
  BY <1>1, <1>2, <1>3, InsertFacts
<1>5. RequestHolds(s)'
  BY <1>2, <1>4 DEF RequestHolds
<1> QED BY <1>2, <1>3, <1>5, InsertKeeps

LEMMA InsertDefaultKeeps ==
    ASSUME CreationInvariant, Typed', NEW s \in Sessions, InsertDefault(s)
    PROVE  CreationInvariant'
<1>1. PICK c \in Communities(fresh[s]) : Insert(s, "default", c)
  BY DEF InsertDefault
<1>2. c \in Nids /\ fresh[s] = {c} /\ at'[s] = "protocol"
      /\ \A t \in Sessions \ {s} : at'[t] = at[t]
  BY DEF Communities, InsertDefault, Go, CreationInvariant, RequestHolds, Typed, TypeOK
<1>3. "default" \in Kinds \ {"absent"}
  BY DEF Kinds
<1>4. /\ counter \in Nids
      /\ node'[counter] = [kind |-> "default", of |-> c]
      /\ fresh'[s] = {c} \cup {counter}
  BY <1>1, <1>2, <1>3, InsertFacts
<1>5. RequestHolds(s)'
  BY <1>2, <1>4 DEF RequestHolds, HasDefault
<1> QED BY <1>1, <1>2, <1>3, <1>5, InsertKeeps

LEMMA NextCreationInvariant == CreationInvariant /\ [Next]_vars => CreationInvariant'
<1> SUFFICES ASSUME CreationInvariant, [Next]_vars PROVE CreationInvariant'
  OBVIOUS
<1>0. Typed'
  BY NextTyped DEF CreationInvariant
<1>1. ASSUME NEW s \in Sessions, NEW u \in Users,
             \/ BeginCommunity(s, u)
             \/ BeginImport(s, u)
             \/ \E c \in Nids : BeginProtocol(s, u, c)
      PROVE  CreationInvariant'
  BY <1>0, <1>1, BeginKeeps
<1>2. ASSUME NEW s \in Sessions, NEW u \in Users, NEW g \in Nids,
             JoinCommunity(s, u, g) \/ JoinProtocol(s, u, g)
      PROVE  CreationInvariant'
  BY <1>0, <1>2, InnerStep DEF JoinCommunity, JoinProtocol, CanStart
<1>3. ASSUME NEW s \in Sessions, SubscribeToProtocol(s) \/ SubscribeToCommunity(s)
      PROVE  CreationInvariant'
  <2>1. /\ UNCHANGED <<counter, node, fresh>>
        /\ at[s] \in {"protocol", "community"} /\ at'[s] \in {"community", "commit"}
        /\ \A t \in Sessions \ {s} : at'[t] = at[t]
    BY <1>3 DEF SubscribeToProtocol, SubscribeToCommunity, Go, CreationInvariant,
                Typed, TypeOK
  <2> QED BY <1>0, <2>1, InnerStep
<1>4. ASSUME NEW s \in Sessions, OtherNode(s) PROVE CreationInvariant'
  BY <1>0, <1>4, OtherNodeKeeps
<1>5. ASSUME NEW s \in Sessions, InsertDefault(s) PROVE CreationInvariant'
  BY <1>0, <1>5, InsertDefaultKeeps
<1>6. ASSUME NEW s \in Sessions, Commit(s) PROVE CreationInvariant'
  BY <1>0, <1>6, CommitKeeps
<1>7. ASSUME NEW s \in Sessions, Abort(s) PROVE CreationInvariant'
  BY <1>0, <1>7, AbortKeeps
<1>8. CASE UNCHANGED vars
  BY <1>0, <1>8
     DEF vars, CreationInvariant, NumbersHold, OwnersHold, RequestHolds, HasDefault,
         DefaultExists, Committed
<1> QED BY <1>1, <1>2, <1>3, <1>4, <1>5, <1>6, <1>7, <1>8 DEF Next

(* A community made with the form has a default protocol, in any interleaving
   of the requests and whichever of them die. *)
THEOREM DefaultsExist == Spec => []DefaultExists
<1>1. CreationInvariant => DefaultExists
  BY DEF CreationInvariant
<1> QED BY <1>1, InitCreationInvariant, NextCreationInvariant, PTL DEF Spec

(***************************************************************************)
(* The default protocol is recognised, in any interleaving, unless another *)
(* request overtakes its own.                                              *)
(*                                                                         *)
(* The invariant says what the ids tell: a community that waits for its    *)
(* default protocol has the id before the counter until it is overtaken,   *)
(* and from then on the id that follows is no protocol of it.  For that    *)
(* protocols must refer to communities, and be rolled back with them.      *)
(***************************************************************************)
CommunitiesHold ==
    \A p \in Nids : node[p].kind \in ProtocolKinds =>
        /\ node[node[p].of].kind \in CommunityKinds
        /\ \A s \in Sessions : node[p].of \in fresh[s] => p \in fresh[s]

TwinsHold ==
    \A p \in Nids : node[p].kind = "default" =>
        \A s \in Sessions : p \in fresh[s] => node[p].of \in fresh[s]

OvertakenHold ==
    \A c \in overtaken :
        /\ c + 1 < counter
        /\ \A p \in Nids :
             node[p].kind \in ProtocolKinds /\ node[p].of = c => p # c + 1

WaitingHold ==
    \A s \in Sessions : \A c \in fresh[s] :
        at[s] = "default" /\ c \notin overtaken => counter = c + 1

FollowHold ==
    \A p \in Nids :
        node[p].kind = "default" /\ node[p].of \notin overtaken => p = node[p].of + 1

RecognitionInvariant ==
    /\ CreationInvariant
    /\ CommunitiesHold
    /\ TwinsHold
    /\ OvertakenHold
    /\ WaitingHold
    /\ FollowHold

(* A session recognises the default protocols it sees. *)
LEMMA DefaultSeen ==
    ASSUME RecognitionInvariant, NEW s \in Sessions,
           NEW p \in Nids, node[p].kind = "default", Visible(s, p)
    PROVE  /\ node[p].of \in Nids
           /\ Recognised(s, node[p].of) = IF node[p].of \in overtaken THEN {} ELSE {p}
<1> DEFINE c == node[p].of
<1>1. c \in Nids
  BY DEF RecognitionInvariant, CreationInvariant, Typed, ReferencesHold, ProtocolKinds
<1>2. CASE c \in overtaken
  <2> SUFFICES ASSUME c < MaxNid, node[c + 1].kind \in ProtocolKinds, node[c + 1].of = c
               PROVE  FALSE
    BY <1>1, <1>2 DEF Recognised
  <2>1. c + 1 \in Nids
    BY <1>1, CreationAssumption DEF Nids
  <2> QED BY <1>2, <2>1 DEF RecognitionInvariant, OvertakenHold
<1>3. CASE c \notin overtaken
  <2>1. p = c + 1
    BY <1>3 DEF RecognitionInvariant, FollowHold
  <2>2. c < MaxNid
    BY <1>1, <2>1, CreationAssumption DEF Nids
  <2> QED BY <1>1, <1>3, <2>1, <2>2 DEF Recognised, ProtocolKinds
<1> QED BY <1>2, <1>3

LEMMA RecognisedThere == RecognitionInvariant => DefaultIsRecognised
BY DefaultSeen DEF DefaultIsRecognised, Visible

LEMMA InitRecognitionInvariant == Init => RecognitionInvariant
<1> SUFFICES ASSUME Init PROVE RecognitionInvariant
  OBVIOUS
<1>1. \A n \in Nids : node[n].kind = "absent"
  BY DEF Init, Absent
<1> QED BY <1>1, InitCreationInvariant
       DEF Init, RecognitionInvariant, CommunitiesHold, TwinsHold, OvertakenHold,
           WaitingHold, FollowHold, ProtocolKinds

(* A node that is inserted takes an id nobody has seen. *)
LEMMA TakeIdFacts ==
    ASSUME CreationInvariant, NEW s \in Sessions, NEW kind \in Kinds,
           NEW c \in Nids \cup {NoNid}, TakeId(s, kind, c)
    PROVE  /\ counter \in Nids /\ counter' = counter + 1
           /\ node'[counter] = [kind |-> kind, of |-> c]
           /\ \A n \in Nids \ {counter} : node'[n] = node[n]
           /\ node[counter].kind = "absent"
           /\ \A t \in Sessions : counter \notin fresh[t] /\ fresh[t] \subseteq Nids
           /\ overtaken' = overtaken \cup Waiting(s)
<1>1. counter \in Nids /\ counter' = counter + 1
  BY CreationAssumption DEF TakeId, CreationInvariant, Typed, TypeOK, Nids
<1>2. node[counter] = Absent /\ \A t \in Sessions : counter \notin fresh[t]
  BY <1>1 DEF CreationInvariant, NumbersHold, Nids
<1>3. /\ node'[counter] = [kind |-> kind, of |-> c]
      /\ \A n \in Nids \ {counter} : node'[n] = node[n]
  BY <1>1 DEF TakeId, CreationInvariant, Typed, TypeOK
<1>4. \A t \in Sessions : fresh[t] \subseteq Nids
  BY DEF CreationInvariant, Typed, TypeOK
<1> QED BY <1>1, <1>2, <1>3, <1>4 DEF TakeId, Absent

(* What the node of a request may be: a protocol refers to a community that is
   committed or its own, and a default protocol to the one that waits for it. *)
Inserts(s, kind, c) ==
    /\ kind \in Kinds \ {"absent"} /\ c \in Nids \cup {NoNid}
    /\ TakeId(s, kind, c)
    /\ \A t \in Sessions \ {s} : fresh'[t] = fresh[t] /\ at'[t] = at[t]
    /\ fresh'[s] \in {fresh[s], fresh[s] \cup {counter}}
    /\ at'[s] = "default" => fresh'[s] = {counter}
    /\ kind \in ProtocolKinds =>
         /\ c \in Nids /\ node[c].kind \in CommunityKinds
         /\ \A t \in Sessions : c \in fresh[t] => t = s
         /\ counter \in fresh'[s]
    /\ kind = "default" => at[s] = "default" /\ c \in fresh[s]

LEMMA InsertRecognises ==
    ASSUME RecognitionInvariant, CreationInvariant', NEW s \in Sessions,
           NEW kind, NEW c, Inserts(s, kind, c)
    PROVE  RecognitionInvariant'
<1>0. CreationInvariant /\ CommunitiesHold /\ TwinsHold /\ Typed
  BY DEF RecognitionInvariant, CreationInvariant
<1>1. /\ counter \in Nids /\ counter' = counter + 1
      /\ node'[counter] = [kind |-> kind, of |-> c]
      /\ \A n \in Nids \ {counter} : node'[n] = node[n]
      /\ node[counter].kind = "absent"
      /\ \A t \in Sessions : counter \notin fresh[t] /\ fresh[t] \subseteq Nids
      /\ overtaken' = overtaken \cup Waiting(s)
  BY <1>0, TakeIdFacts DEF Inserts
<1>2. /\ \A t \in Sessions : /\ fresh[t] \subseteq fresh'[t]
                             /\ fresh'[t] \subseteq fresh[t] \cup {counter}
      /\ \A t \in Sessions \ {s} : fresh'[t] = fresh[t] /\ at'[t] = at[t]
      /\ at'[s] = "default" => fresh'[s] = {counter}
  BY DEF Inserts
<1>3. /\ kind \in ProtocolKinds =>
           /\ c \in Nids \ {counter} /\ node[c].kind \in CommunityKinds
           /\ \A t \in Sessions : c \in fresh[t] => t = s
           /\ counter \in fresh'[s]
      /\ kind = "default" => at[s] = "default" /\ c \in fresh[s]
  BY <1>1 DEF Inserts, CommunityKinds
<1>4. \A p \in Nids : node[p].kind \in ProtocolKinds => node[p].of \in Nids \ {counter}
  BY <1>0, <1>1 DEF Typed, ReferencesHold, CommunitiesHold, CommunityKinds
<1>5. CommunitiesHold'
  <2> SUFFICES ASSUME NEW p \in Nids, node'[p].kind \in ProtocolKinds
               PROVE  /\ node'[node'[p].of].kind \in CommunityKinds
                      /\ \A t \in Sessions : node'[p].of \in fresh'[t] => p \in fresh'[t]
    BY DEF CommunitiesHold
  <2>1. CASE p = counter
    <3>1. kind \in ProtocolKinds /\ node'[p].of = c
      BY <1>1, <2>1
    <3>2. node'[c] = node[c] /\ \A t \in Sessions : c \in fresh'[t] => c \in fresh[t]
      BY <1>1, <1>2, <1>3, <3>1
    <3> QED BY <1>3, <2>1, <3>1, <3>2
  <2>2. CASE p # counter
    <3>1. node'[p] = node[p] /\ node[p].of \in Nids \ {counter}
      BY <1>1, <1>4, <2>2
    <3>2. /\ node[node[p].of].kind \in CommunityKinds
          /\ \A t \in Sessions : node[p].of \in fresh[t] => p \in fresh[t]
      BY <1>0, <2>2, <3>1 DEF CommunitiesHold
    <3> QED BY <1>1, <1>2, <3>1, <3>2
  <2> QED BY <2>1, <2>2
<1>6. TwinsHold'
  <2> SUFFICES ASSUME NEW p \in Nids, node'[p].kind = "default",
                      NEW t \in Sessions, p \in fresh'[t]
               PROVE  node'[p].of \in fresh'[t]
    BY DEF TwinsHold
  <2>1. CASE p = counter
    <3>1. t = s
      BY <1>1, <1>2, <2>1
    <3> QED BY <1>1, <1>2, <1>3, <2>1, <3>1
  <2>2. CASE p # counter
    BY <1>0, <1>1, <1>2, <2>2 DEF TwinsHold
  <2> QED BY <2>1, <2>2
<1>7. OvertakenHold'
  <2> SUFFICES ASSUME NEW d \in overtaken'
               PROVE  /\ d + 1 < counter'
                      /\ \A p \in Nids :
                           node'[p].kind \in ProtocolKinds /\ node'[p].of = d => p # d + 1
    BY DEF OvertakenHold
  <2>1. CASE d \in overtaken
    <3>1. /\ d \in Nids /\ d + 1 < counter
          /\ \A p \in Nids : node[p].kind \in ProtocolKinds /\ node[p].of = d => p # d + 1
      BY <1>0, <2>1 DEF RecognitionInvariant, OvertakenHold, Typed, TypeOK
    <3>2. d + 1 # counter /\ d + 1 < counter'
      BY <1>1, <3>1 DEF Nids
    <3> QED BY <1>1, <3>1, <3>2
  <2>2. CASE d \notin overtaken
    <3>1. PICK t \in Sessions \ {s} : at[t] = "default" /\ d \in fresh[t]
      BY <1>1, <2>2 DEF Waiting
    <3>2. fresh[t] = {d} /\ d \in Nids
      BY <1>0, <1>1, <3>1 DEF CreationInvariant, RequestHolds
    <3>3. d < counter
      BY <1>0, <1>1, <3>1, <3>2 DEF CreationInvariant, NumbersHold, Nids
    <3>4. ASSUME NEW p \in Nids, node'[p].kind \in ProtocolKinds, node'[p].of = d
          PROVE  FALSE
      <4>1. CASE p = counter
        BY <1>1, <1>3, <3>1, <3>4, <4>1
      <4>2. CASE p # counter
        <5>1. node[p].kind \in ProtocolKinds /\ node[p].of = d
          BY <1>1, <3>4, <4>2
        <5>2. p = d /\ node[d].kind \in CommunityKinds
          BY <1>0, <3>1, <3>2, <5>1 DEF CommunitiesHold
        <5> QED BY <5>1, <5>2 DEF CommunityKinds, ProtocolKinds
      <4> QED BY <4>1, <4>2
    <3>5. d + 1 < counter'
      BY <1>1, <3>2, <3>3 DEF Nids
    <3> QED BY <3>4, <3>5
  <2> QED BY <2>1, <2>2
<1>8. WaitingHold'
  <2> SUFFICES ASSUME NEW t \in Sessions, NEW d \in fresh'[t], at'[t] = "default",
                      d \notin overtaken'
               PROVE  counter' = d + 1
    BY DEF WaitingHold
  <2>1. CASE t = s
    BY <1>1, <1>2, <2>1
  <2>2. CASE t # s
    <3>1. at[t] = "default" /\ d \in fresh[t]
      BY <1>2, <2>2
    <3>2. d \in Waiting(s)
      BY <2>2, <3>1 DEF Waiting
    <3> QED BY <1>1, <3>2
  <2> QED BY <2>1, <2>2
<1>9. FollowHold'
  <2> SUFFICES ASSUME NEW p \in Nids, node'[p].kind = "default",
                      node'[p].of \notin overtaken'
               PROVE  p = node'[p].of + 1
    BY DEF FollowHold
  <2>1. CASE p = counter
    <3>1. kind = "default" /\ node'[p].of = c /\ c \notin overtaken
      BY <1>1, <2>1
    <3> QED BY <1>3, <2>1, <3>1 DEF RecognitionInvariant, WaitingHold
  <2>2. CASE p # counter
    BY <1>1, <2>2 DEF RecognitionInvariant, FollowHold
  <2> QED BY <2>1, <2>2
<1> QED BY <1>5, <1>6, <1>7, <1>8, <1>9 DEF RecognitionInvariant

(* The actions that insert a node, each by its kind. *)
LEMMA BeginInserts ==
    ASSUME RecognitionInvariant, NEW s \in Sessions, NEW u \in Users,
           \/ BeginCommunity(s, u)
           \/ BeginImport(s, u)
           \/ \E c \in Nids : BeginProtocol(s, u, c)
    PROVE  \E kind \in {"community", "imported", "protocol"}, c \in Nids \cup {NoNid} :
               Inserts(s, kind, c)
<1>1. fresh[s] = {}
  BY DEF BeginCommunity, BeginImport, BeginProtocol, CanStart, RecognitionInvariant,
         CreationInvariant, RequestHolds
<1>2. PICK kind \in {"community", "imported", "protocol"}, c \in Nids \cup {NoNid} :
        /\ Insert(s, kind, c)
        /\ \A t \in Sessions \ {s} : at'[t] = at[t]
        /\ kind = "protocol" =>
             /\ c \in Nids /\ node[c].kind \in CommunityKinds
             /\ \A t \in Sessions : c \notin fresh[t]
  BY DEF BeginCommunity, BeginImport, BeginProtocol, Go, Communities, Committed,
         RecognitionInvariant, CreationInvariant, Typed, TypeOK
<1>3. kind \in Kinds \ {"absent"} /\ (kind \in ProtocolKinds <=> kind = "protocol")
  BY DEF Kinds, ProtocolKinds
<1>4. fresh'[s] = {counter} /\ \A t \in Sessions \ {s} : fresh'[t] = fresh[t]
  BY <1>1, <1>2, <1>3, InsertFacts DEF RecognitionInvariant
<1> QED BY <1>1, <1>2, <1>3, <1>4 DEF Inserts, Insert

LEMMA OtherNodeInserts ==
    ASSUME RecognitionInvariant, NEW s \in Sessions, OtherNode(s)
    PROVE  Inserts(s, "other", NoNid)
BY DEF OtherNode, CanStart, Inserts, Kinds, ProtocolKinds

LEMMA InsertDefaultInserts ==
    ASSUME RecognitionInvariant, NEW s \in Sessions, InsertDefault(s)
    PROVE  \E c \in Nids : Inserts(s, "default", c)
<1>1. PICK c \in Communities(fresh[s]) : Insert(s, "default", c)
  BY DEF InsertDefault
<1>2. c \in Nids /\ c \in fresh[s] /\ node[c].kind \in CommunityKinds
  BY DEF Communities, RecognitionInvariant, CreationInvariant, Typed, TypeOK
<1>3. \A t \in Sessions : c \in fresh[t] => t = s
  BY <1>2 DEF RecognitionInvariant, CreationInvariant, OwnersHold
<1>4. /\ at[s] = "default" /\ at'[s] = "protocol"
      /\ \A t \in Sessions \ {s} : at'[t] = at[t]
  BY DEF InsertDefault, Go, RecognitionInvariant, CreationInvariant, Typed, TypeOK
<1>5. "default" \in Kinds \ {"absent"}
  BY DEF Kinds
<1>6. fresh'[s] = fresh[s] \cup {counter} /\ \A t \in Sessions \ {s} : fresh'[t] = fresh[t]
  BY <1>1, <1>2, <1>5, InsertFacts DEF RecognitionInvariant
<1> QED BY <1>1, <1>2, <1>3, <1>4, <1>5, <1>6 DEF Inserts, Insert

(* A node that is rolled back takes those with it that refer to it. *)
LEMMA AbortRecognises ==
    ASSUME RecognitionInvariant, CreationInvariant', NEW s \in Sessions, Abort(s)
    PROVE  RecognitionInvariant'
<1>1. /\ counter' = counter /\ overtaken' = overtaken
      /\ fresh'[s] = {} /\ at'[s] = "idle"
      /\ \A t \in Sessions \ {s} : fresh'[t] = fresh[t] /\ at'[t] = at[t]
  BY DEF Abort, Go, RecognitionInvariant, CreationInvariant, Typed, TypeOK
<1>2. \A n \in Nids : node'[n] = IF n \in fresh[s] THEN Absent ELSE node[n]
  BY DEF Abort
<1>3. Absent.kind = "absent"
  BY DEF Absent
<1>4. \A p \in Nids : node'[p].kind \in ProtocolKinds =>
        /\ node[p].kind \in ProtocolKinds /\ node'[p] = node[p]
        /\ node[p].of \in Nids /\ p \notin fresh[s]
  BY <1>2, <1>3 DEF ProtocolKinds, RecognitionInvariant, CreationInvariant, Typed,
                    ReferencesHold
<1>5. CommunitiesHold'
  BY <1>1, <1>2, <1>4 DEF RecognitionInvariant, CommunitiesHold
<1>6. TwinsHold'
  BY <1>1, <1>4 DEF RecognitionInvariant, TwinsHold, ProtocolKinds
<1>7. OvertakenHold'
  BY <1>1, <1>4 DEF RecognitionInvariant, OvertakenHold
<1>8. WaitingHold'
  BY <1>1 DEF RecognitionInvariant, WaitingHold
<1>9. FollowHold'
  BY <1>1, <1>4 DEF RecognitionInvariant, FollowHold, ProtocolKinds
<1> QED BY <1>5, <1>6, <1>7, <1>8, <1>9 DEF RecognitionInvariant

LEMMA NextRecognitionInvariant ==
    RecognitionInvariant /\ [Next]_vars => RecognitionInvariant'
<1> SUFFICES ASSUME RecognitionInvariant, [Next]_vars PROVE RecognitionInvariant'
  OBVIOUS
<1>0. CreationInvariant /\ CreationInvariant'
  BY NextCreationInvariant DEF RecognitionInvariant
<1>1. ASSUME NEW s \in Sessions, NEW u \in Users,
             \/ BeginCommunity(s, u)
             \/ BeginImport(s, u)
             \/ \E c \in Nids : BeginProtocol(s, u, c)
      PROVE  RecognitionInvariant'
  BY <1>0, <1>1, BeginInserts, InsertRecognises
<1>2. ASSUME NEW s \in Sessions, OtherNode(s) PROVE RecognitionInvariant'
  BY <1>0, <1>2, OtherNodeInserts, InsertRecognises
<1>3. ASSUME NEW s \in Sessions, InsertDefault(s) PROVE RecognitionInvariant'
  BY <1>0, <1>3, InsertDefaultInserts, InsertRecognises
(* Steps that insert nothing leave ids and references; a commit leaves nothing
   behind that is fresh. *)
<1>4. ASSUME UNCHANGED <<counter, node, overtaken>>, NEW s \in Sessions,
             fresh'[s] \in {{}, fresh[s]}, at'[s] = "default" => at[s] = "default",
             \A t \in Sessions \ {s} : fresh'[t] = fresh[t] /\ at'[t] = at[t]
      PROVE  RecognitionInvariant'
  <2>1. CommunitiesHold' /\ TwinsHold'
    <3>1. \A t \in Sessions : fresh'[t] = fresh[t] \/ fresh'[t] = {}
      BY <1>4
    <3> QED BY <1>4, <3>1 DEF RecognitionInvariant, CommunitiesHold, TwinsHold
  <2>2. OvertakenHold' /\ FollowHold'
    BY <1>4 DEF RecognitionInvariant, OvertakenHold, FollowHold
  <2>3. WaitingHold'
    <3>1. \A t \in Sessions : fresh'[t] \subseteq fresh[t]
                              /\ (at'[t] = "default" => at[t] = "default")
      BY <1>4
    <3> QED BY <1>4, <3>1 DEF RecognitionInvariant, WaitingHold
  <2> QED BY <1>0, <2>1, <2>2, <2>3 DEF RecognitionInvariant
<1>5. ASSUME NEW s \in Sessions, Commit(s) \/ SubscribeToProtocol(s) \/ SubscribeToCommunity(s)
      PROVE  RecognitionInvariant'
  <2>1. /\ UNCHANGED <<counter, node, overtaken>>
        /\ at'[s] # "default" /\ fresh'[s] \in {{}, fresh[s]}
        /\ \A t \in Sessions \ {s} : fresh'[t] = fresh[t] /\ at'[t] = at[t]
    BY <1>0, <1>5 DEF Commit, SubscribeToProtocol, SubscribeToCommunity, Go,
                      CreationInvariant, Typed, TypeOK
  <2> QED BY <1>4, <2>1
<1>6. ASSUME NEW s \in Sessions, Abort(s) PROVE RecognitionInvariant'
  BY <1>0, <1>6, AbortRecognises
<1>7. ASSUME NEW s \in Sessions, NEW u \in Users, NEW g \in Nids,
             JoinCommunity(s, u, g) \/ JoinProtocol(s, u, g)
      PROVE  RecognitionInvariant'
  BY <1>4, <1>7 DEF JoinCommunity, JoinProtocol
<1>8. CASE UNCHANGED vars
  BY <1>0, <1>8 DEF vars, RecognitionInvariant, CommunitiesHold, TwinsHold,
                    OvertakenHold, WaitingHold, FollowHold
<1> QED BY <1>1, <1>2, <1>3, <1>5, <1>6, <1>7, <1>8 DEF Next

(* However requests overlap and whichever of them die, the cascade finds the
   default protocol of a community by its id unless another request inserted a
   node between the two, and then it finds none: it never takes another protocol
   for the default one. *)
THEOREM DefaultsAreRecognised == Spec => []DefaultIsRecognised
BY InitRecognitionInvariant, NextRecognitionInvariant, RecognisedThere, PTL DEF Spec

(***************************************************************************)
(* Default protocols and their communities have the same members, in any   *)
(* interleaving, unless the creation was overtaken.                        *)
(*                                                                         *)
(* The invariant says that memberships are of nodes that are there, that   *)
(* no default protocol that is recognised is marked between two steps (its *)
(* save clears the mark), and that what a request has stored so far is     *)
(* paired as well, with the memberships the others have committed.         *)
(***************************************************************************)
Tracked(p) == node[p].kind = "default" /\ node[p].of \notin overtaken

Paired(ms) ==
    \A p \in Nids : Tracked(p) =>
        \A u \in Users : <<u, p>> \in ms <=> <<u, node[p].of>> \in ms

MarksHold == \A s \in Sessions : \A n \in marks[s] : n < counter /\ ~Tracked(n)

MembersHold == \A u \in Users, n \in Nids : <<u, n>> \in members => Committed(n)

AddedHolds(s) ==
    /\ at[s] \in {"idle", "default"} => added[s] = {}
    /\ \A u \in Users, n \in Nids : <<u, n>> \in added[s] => Visible(s, n)
    /\ Paired(members \cup added[s])

MembershipInvariant ==
    /\ RecognitionInvariant
    /\ MarksHold
    /\ MembersHold
    /\ Paired(members)
    /\ \A s \in Sessions : AddedHolds(s)

LEMMA PairedUnion ==
    ASSUME NEW a, NEW b, Paired(a), Paired(b) PROVE Paired(a \cup b)
BY DEF Paired

(* A session that sees a protocol sees its community, and one that sees a
   community sees its default protocol. *)
LEMMA VisibleTogether ==
    ASSUME RecognitionInvariant, NEW s \in Sessions, NEW p \in Nids,
           node[p].kind \in ProtocolKinds
    PROVE  /\ node[p].of \in Nids /\ node[node[p].of].kind \in CommunityKinds
           /\ Visible(s, p) => Visible(s, node[p].of)
           /\ node[p].kind = "default" /\ Visible(s, node[p].of) => Visible(s, p)
<1> DEFINE c == node[p].of
<1>1. /\ c \in Nids /\ node[c].kind \in CommunityKinds
      /\ \A t \in Sessions : c \in fresh[t] => p \in fresh[t]
  BY DEF RecognitionInvariant, CreationInvariant, Typed, ReferencesHold, CommunitiesHold
<1>2. node[c].kind # "absent" /\ node[p].kind # "absent"
  BY <1>1 DEF CommunityKinds, ProtocolKinds
<1>3. \A t \in Sessions : p \in fresh[t] /\ p \in fresh[s] => t = s
  BY DEF RecognitionInvariant, CreationInvariant, OwnersHold
<1>4. node[p].kind = "default" => \A t \in Sessions : p \in fresh[t] => c \in fresh[t]
  BY DEF RecognitionInvariant, TwinsHold
<1>5. \A t \in Sessions : c \in fresh[t] /\ c \in fresh[s] => t = s
  BY <1>1, <1>3
<1>6. ASSUME Visible(s, p) PROVE Visible(s, c)
  BY <1>1, <1>2, <1>3, <1>6 DEF Visible, Committed
<1>7. ASSUME node[p].kind = "default", Visible(s, c) PROVE Visible(s, p)
  BY <1>1, <1>2, <1>4, <1>7 DEF Visible, Committed
<1> QED BY <1>1, <1>6, <1>7

(* A membership of a protocol that is not a recognised default one pairs with
   nothing. *)
LEMMA PlainMembership ==
    ASSUME CommunitiesHold, NEW p \in Nids, NEW u, NEW ms,
           node[p].kind \in ProtocolKinds, ~Tracked(p), Paired(ms)
    PROVE  Paired(ms \cup {<<u, p>>})
<1> SUFFICES ASSUME NEW q \in Nids, Tracked(q), NEW v \in Users
             PROVE  <<v, q>> \in ms \cup {<<u, p>>} <=>
                    <<v, node[q].of>> \in ms \cup {<<u, p>>}
  BY DEF Paired
<1>1. node[q].of # p /\ q # p
  BY DEF CommunitiesHold, ProtocolKinds, CommunityKinds, Tracked
<1> QED BY <1>1 DEF Paired

LEMMA RecognisedFacts ==
    ASSUME NEW s \in Sessions, NEW c \in Nids, NEW p \in Recognised(s, c)
    PROVE  p \in Nids /\ node[p].kind \in ProtocolKinds /\ node[p].of = c /\ Visible(s, p)
BY CreationAssumption DEF Recognised, Nids

(* A user who is added to a community is added to its default protocol. *)
LEMMA CommunityPairs ==
    ASSUME RecognitionInvariant, NEW s \in Sessions,
           NEW u \in Users, NEW c \in Nids, node[c].kind \in CommunityKinds, Visible(s, c),
           NEW ms, NEW ks, Paired(ms),
           \A p \in Nids : Tracked(p) /\ node[p].of = c => p \notin ks
    PROVE  LET r == InCommunity(s, u, c, ms, ks)
           IN  /\ Paired(r.ms)
               /\ ms \subseteq r.ms /\ r.ks \subseteq ks
               /\ \A v \in Users, n \in Nids :
                    <<v, n>> \in r.ms => <<v, n>> \in ms \/ Visible(s, n)
<1> DEFINE R == Recognised(s, c)
           r == InCommunity(s, u, c, ms, ks)
<1>1. /\ r.ms = ms \cup {<<u, c>>} \cup ({u} \X (R \ ks))
      /\ r.ks = ks \ R
  BY DEF InCommunity
<1>2. \A p \in R : /\ p \in Nids /\ node[p].kind \in ProtocolKinds
                   /\ node[p].of = c /\ Visible(s, p)
  BY RecognisedFacts
<1> HIDE DEF R, r
<1>3. Paired(r.ms)
  <2> SUFFICES ASSUME NEW p \in Nids, Tracked(p), NEW v \in Users
               PROVE  <<v, p>> \in r.ms <=> <<v, node[p].of>> \in r.ms
    BY DEF Paired
  <2>0. node[p].kind = "default" /\ node[p].kind \in ProtocolKinds
    BY DEF Tracked, ProtocolKinds
  <2>1. /\ node[p].of \in Nids
        /\ node[node[p].of].kind \notin ProtocolKinds
        /\ node[p].kind \notin CommunityKinds
    BY <2>0, VisibleTogether DEF ProtocolKinds, CommunityKinds
  <2>2. p # c /\ node[p].of \notin R
    BY <1>2, <2>1
  <2>3. ASSUME node[p].of = c PROVE p \in R \ ks
    <3>1. Visible(s, p)
      BY <2>0, <2>3, VisibleTogether
    <3>2. R = {p}
      BY <2>0, <2>3, <3>1, DefaultSeen DEF R, Tracked
    <3> QED BY <2>3, <3>2
  <2>4. <<v, p>> \in r.ms <=> <<v, p>> \in ms \/ (v = u /\ p \in R \ ks)
    BY <1>1, <2>2
  <2>5. <<v, node[p].of>> \in r.ms <=> <<v, node[p].of>> \in ms \/ (v = u /\ node[p].of = c)
    BY <1>1, <2>2
  <2>6. p \in R \ ks <=> node[p].of = c
    BY <1>2, <2>3
  <2> QED BY <2>4, <2>5, <2>6 DEF Paired
<1>4. ASSUME NEW v \in Users, NEW n \in Nids, <<v, n>> \in r.ms
      PROVE  <<v, n>> \in ms \/ Visible(s, n)
  <2>1. <<v, n>> \in ms \/ n = c \/ n \in R
    BY <1>1, <1>4
  <2> QED BY <1>2, <2>1
<1> QED BY <1>1, <1>3, <1>4 DEF r

(* A user who is added to a protocol is added to its community, and to the
   default protocol of that. *)
LEMMA ProtocolPairs ==
    ASSUME RecognitionInvariant, NEW s \in Sessions,
           NEW u \in Users, NEW p \in Nids, node[p].kind \in ProtocolKinds, Visible(s, p),
           NEW ms, NEW ks, Paired(ms),
           \A q \in Nids : Tracked(q) => q \notin ks
    PROVE  LET r == InProtocol(s, u, p, ms, ks)
           IN  /\ Paired(r.ms)
               /\ ms \subseteq r.ms
               /\ \A q \in r.ks : q \in ks \/ (q = p /\ ~Tracked(q))
               /\ \A v \in Users, n \in Nids :
                    <<v, n>> \in r.ms => <<v, n>> \in ms \/ Visible(s, n)
<1> DEFINE c == node[p].of
           nested == InCommunity(s, u, c, ms, ks \cup {p})
           r == InProtocol(s, u, p, ms, ks)
<1>1. r = IF p \in ks
          THEN [ms |-> ms \cup {<<u, p>>}, ks |-> ks \ {p}]
          ELSE IF <<u, c>> \in ms
          THEN [ms |-> ms \cup {<<u, p>>}, ks |-> ks]
          ELSE [ms |-> nested.ms \cup {<<u, p>>}, ks |-> nested.ks]
  BY DEF InProtocol
<1>2. c \in Nids /\ node[c].kind \in CommunityKinds /\ Visible(s, c)
  BY VisibleTogether
<1>3. CommunitiesHold
  BY DEF RecognitionInvariant
<1>4. nested = [ms |-> ms \cup {<<u, c>>} \cup ({u} \X (Recognised(s, c) \ (ks \cup {p}))),
                ks |-> (ks \cup {p}) \ Recognised(s, c)]
  BY DEF InCommunity
<1>5. CASE Tracked(p)
  <2> DEFINE inner == InCommunity(s, u, c, ms, ks)
  <2>1. p \notin ks /\ Recognised(s, c) = {p}
    BY <1>5, DefaultSeen DEF Tracked
  <2>2. /\ Paired(inner.ms)
        /\ ms \subseteq inner.ms
        /\ \A v \in Users, n \in Nids :
             <<v, n>> \in inner.ms => <<v, n>> \in ms \/ Visible(s, n)
    BY <1>2, CommunityPairs
  <2>3. inner.ms = ms \cup {<<u, c>>, <<u, p>>}
    BY <2>1 DEF InCommunity
  <2>4. <<u, c>> \in ms => <<u, p>> \in ms
    BY <1>5 DEF Paired
  <2>5. nested.ms = ms \cup {<<u, c>>} /\ nested.ks = ks
    BY <1>4, <2>1
  <2> HIDE DEF nested, inner, r, c
  <2>6. r.ks = ks /\ (r.ms = ms \/ r.ms = inner.ms)
    <3>1. CASE <<u, c>> \in ms
      BY <1>1, <2>1, <2>4, <3>1
    <3>2. CASE <<u, c>> \notin ms
      <4>1. r = [ms |-> nested.ms \cup {<<u, p>>}, ks |-> nested.ks]
        BY <1>1, <2>1, <3>2
      <4>2. r.ms = (ms \cup {<<u, c>>}) \cup {<<u, p>>}
        BY <2>5, <4>1
      <4> QED BY <2>3, <2>5, <4>1, <4>2
    <3> QED BY <3>1, <3>2
  <2> QED BY <2>2, <2>6 DEF r
<1>6. CASE ~Tracked(p)
  <2>1. /\ Paired(nested.ms)
        /\ ms \subseteq nested.ms /\ nested.ks \subseteq ks \cup {p}
        /\ \A v \in Users, n \in Nids :
             <<v, n>> \in nested.ms => <<v, n>> \in ms \/ Visible(s, n)
    BY <1>2, <1>6, CommunityPairs
  <2> HIDE DEF nested, r, c
  <2>2. PICK m \in {ms, nested.ms} :
          r.ms = m \cup {<<u, p>>} /\ r.ks \subseteq ks \cup {p}
    <3>1. CASE p \in ks
      <4>1. r = [ms |-> ms \cup {<<u, p>>}, ks |-> ks \ {p}]
        BY <1>1, <3>1
      <4> QED BY <4>1
    <3>2. CASE p \notin ks /\ <<u, c>> \in ms
      <4>1. r = [ms |-> ms \cup {<<u, p>>}, ks |-> ks]
        BY <1>1, <3>2
      <4> QED BY <4>1
    <3>3. CASE p \notin ks /\ <<u, c>> \notin ms
      <4>1. r = [ms |-> nested.ms \cup {<<u, p>>}, ks |-> nested.ks]
        BY <1>1, <3>3
      <4> QED BY <2>1, <4>1
    <3> QED BY <3>1, <3>2, <3>3
  <2>3. Paired(r.ms)
    <3>1. Paired(m)
      BY <2>1, <2>2
    <3>2. Paired(m \cup {<<u, p>>})
      BY <1>3, <1>6, <3>1, PlainMembership
    <3> QED BY <2>2, <3>2
  <2>4. \A v \in Users, n \in Nids :
          <<v, n>> \in r.ms => <<v, n>> \in m \/ n = p
    BY <2>2
  <2>5. \A v \in Users, n \in Nids :
          <<v, n>> \in r.ms => <<v, n>> \in ms \/ Visible(s, n)
    BY <2>1, <2>2, <2>4
  <2> QED BY <1>6, <2>1, <2>2, <2>3, <2>5 DEF r
<1> QED BY <1>5, <1>6

(* What a cascade keeps: it adds memberships of nodes it sees, in pairs, and marks
   no default protocol that is recognised. *)
LEMMA CascadeMembers ==
    ASSUME MembershipInvariant, NEW s \in Sessions,
           NEW r, NEW u \in Users, NEW ms, NEW n \in Nids, Visible(s, n),
           \/ /\ node[n].kind \in CommunityKinds
              /\ r = InCommunity(s, u, n, ms, marks[s])
           \/ /\ node[n].kind \in ProtocolKinds
              /\ r = InProtocol(s, u, n, ms, marks[s]),
           Paired(ms),
           \A v \in Users, k \in Nids : <<v, k>> \in ms => Visible(s, k)
    PROVE  /\ Paired(r.ms)
           /\ ms \subseteq r.ms
           /\ \A v \in Users, k \in Nids : <<v, k>> \in r.ms => Visible(s, k)
           /\ \A k \in r.ks : k < counter /\ ~Tracked(k)
<1>1. RecognitionInvariant /\ CreationInvariant /\ TypeOK
  BY DEF MembershipInvariant, RecognitionInvariant, CreationInvariant, Typed
<1>2. \A k \in marks[s] : k < counter /\ ~Tracked(k)
  BY DEF MembershipInvariant, MarksHold
<1>3. \A q \in Nids : Tracked(q) => q \notin marks[s]
  BY <1>2
<1>4. CASE /\ node[n].kind \in CommunityKinds
           /\ r = InCommunity(s, u, n, ms, marks[s])
  <2>1. /\ Paired(r.ms)
        /\ ms \subseteq r.ms /\ r.ks \subseteq marks[s]
        /\ \A v \in Users, k \in Nids : <<v, k>> \in r.ms => <<v, k>> \in ms \/ Visible(s, k)
    BY <1>1, <1>3, <1>4, CommunityPairs
  <2> QED BY <1>2, <2>1
<1>5. CASE /\ node[n].kind \in ProtocolKinds
           /\ r = InProtocol(s, u, n, ms, marks[s])
  <2>1. /\ Paired(r.ms)
        /\ ms \subseteq r.ms
        /\ \A q \in r.ks : q \in marks[s] \/ (q = n /\ ~Tracked(q))
        /\ \A v \in Users, k \in Nids : <<v, k>> \in r.ms => <<v, k>> \in ms \/ Visible(s, k)
    BY <1>1, <1>3, <1>5, ProtocolPairs
  <2>2. n < counter
    <3>1. counter \in Nat /\ n \in Nat /\ ~(n >= counter)
      BY <1>1, <1>5, CreationAssumption
         DEF CreationInvariant, NumbersHold, Absent, ProtocolKinds, TypeOK, Nids
    <3> QED BY <3>1
  <2> QED BY <1>2, <2>1, <2>2
<1> QED BY <1>4, <1>5

(* Pairs are of nodes: what stays paired when nodes come and go, and when the
   committed memberships grow. *)
LEMMA PairedLater ==
    ASSUME NEW ms, Paired(ms),
           \A p \in Nids : Tracked(p)' =>
               \/ Tracked(p) /\ node'[p] = node[p]
               \/ \A u \in Users : <<u, p>> \notin ms /\ <<u, node'[p].of>> \notin ms
    PROVE  \A p \in Nids : Tracked(p)' =>
               \A u \in Users : <<u, p>> \in ms <=> <<u, node'[p].of>> \in ms
BY DEF Paired

LEMMA AddedLater ==
    ASSUME MembershipInvariant, NEW t \in Sessions, UNCHANGED <<node, overtaken>>,
           NEW ms, members' = ms, members \subseteq ms, Paired(ms), added'[t] = added[t]
    PROVE  Paired(members)' /\ Paired(members \cup added[t])'
<1>1. Paired(members \cup added[t])
  BY DEF MembershipInvariant, AddedHolds
<1>2. Paired(ms \cup (members \cup added[t]))
  BY <1>1, PairedUnion
<1>3. members' \cup added'[t] = ms \cup (members \cup added[t])
  OBVIOUS
<1>4. \A p \in Nids : Tracked(p)' <=> Tracked(p)
  BY DEF Tracked
<1> QED BY <1>2, <1>3, <1>4 DEF Paired

(* A node that is inserted belongs to nobody yet, and nobody is a member of it. *)
LEMMA InsertMembers ==
    ASSUME MembershipInvariant, RecognitionInvariant', NEW s \in Sessions,
           NEW kind, NEW c, Inserts(s, kind, c),
           UNCHANGED <<members, marks, added>>, added[s] = {}
    PROVE  MembershipInvariant'
<1>1. RecognitionInvariant /\ CreationInvariant /\ Typed /\ TypeOK
  BY DEF MembershipInvariant, RecognitionInvariant, CreationInvariant, Typed
<1>2. /\ counter \in Nids /\ counter' = counter + 1
      /\ node'[counter] = [kind |-> kind, of |-> c]
      /\ \A n \in Nids \ {counter} : node'[n] = node[n]
      /\ node[counter].kind = "absent"
      /\ \A t \in Sessions : counter \notin fresh[t]
      /\ overtaken' = overtaken \cup Waiting(s)
  BY <1>1, TakeIdFacts DEF Inserts
<1>3. /\ \A t \in Sessions : /\ fresh[t] \subseteq fresh'[t]
                             /\ fresh'[t] \subseteq fresh[t] \cup {counter}
      /\ \A t \in Sessions \ {s} : at'[t] = at[t]
      /\ kind = "default" => c \in fresh[s]
  BY DEF Inserts
<1>4. /\ \A n \in Nids : Committed(n) => n # counter /\ Committed(n)'
      /\ \A t \in Sessions, n \in Nids : Visible(t, n) => n # counter /\ Visible(t, n)'
  BY <1>2, <1>3 DEF Committed, Visible
<1>5. \A p \in Nids \ {counter} : Tracked(p)' => Tracked(p) /\ node'[p] = node[p]
  BY <1>2 DEF Tracked
<1>6. MarksHold'
  <2> SUFFICES ASSUME NEW t \in Sessions, NEW n \in marks[t]
               PROVE  n < counter' /\ ~Tracked(n)'
    BY DEF MarksHold
  <2>1. n \in Nids /\ n < counter /\ ~Tracked(n)
    BY <1>1 DEF MembershipInvariant, MarksHold, TypeOK
  <2>2. n \in Nids \ {counter} /\ n < counter'
    BY <1>2, <2>1 DEF Nids
  <2> QED BY <1>5, <2>1, <2>2
<1>7. MembersHold'
  BY <1>4 DEF MembershipInvariant, MembersHold
(* Nobody has a membership of the node or of the community that waits for it. *)
<1>8. ASSUME NEW t \in Sessions, NEW ms, Paired(ms),
             \A u \in Users, n \in Nids : <<u, n>> \in ms => Visible(t, n),
             t = s => \A u \in Users, n \in Nids : <<u, n>> \in ms => Committed(n)
      PROVE  \A p \in Nids : Tracked(p)' =>
               \A u \in Users : <<u, p>> \in ms <=> <<u, node'[p].of>> \in ms
  <2>1. ASSUME kind = "default", NEW u \in Users
        PROVE  <<u, counter>> \notin ms /\ <<u, c>> \notin ms
    <3>1. c \in fresh[s] /\ c \in Nids
      BY <1>1, <1>3, <2>1 DEF TypeOK
    <3>2. ~Committed(c) /\ (t # s => ~Visible(t, c))
      BY <1>1, <3>1 DEF Committed, Visible, CreationInvariant, OwnersHold
    <3> QED BY <1>2, <1>4, <1>8, <3>1, <3>2
  <2>2. ASSUME NEW p \in Nids, Tracked(p)', p = counter
        PROVE  kind = "default" /\ node'[p].of = c
    BY <1>2, <2>2 DEF Tracked
  <2> QED BY <1>5, <1>8, <2>1, <2>2, PairedLater
<1>9. \A u \in Users, n \in Nids : <<u, n>> \in members => Committed(n) /\ Visible(s, n)
  BY DEF MembershipInvariant, MembersHold, Visible
<1>10. Paired(members)'
  <2>1. PICK ms : ms = members
    OBVIOUS
  <2>2. Paired(ms)
    BY <2>1 DEF MembershipInvariant
  <2>3. \A p \in Nids : Tracked(p)' =>
          \A u \in Users : <<u, p>> \in ms <=> <<u, node'[p].of>> \in ms
    BY <1>8, <1>9, <2>1, <2>2
  <2> QED BY <2>1, <2>3 DEF Paired
<1>11. ASSUME NEW t \in Sessions PROVE AddedHolds(t)'
  <2>1. PICK ms : ms = members \cup added[t]
    OBVIOUS
  <2>2. /\ at[t] \in {"idle", "default"} => added[t] = {}
        /\ \A u \in Users, n \in Nids : <<u, n>> \in added[t] => Visible(t, n)
        /\ Paired(ms)
    BY <2>1 DEF MembershipInvariant, AddedHolds
  <2>3. /\ \A u \in Users, n \in Nids : <<u, n>> \in ms => Visible(t, n)
        /\ t = s => \A u \in Users, n \in Nids : <<u, n>> \in ms => Committed(n)
    BY <1>9, <2>1, <2>2 DEF Visible
  <2>4. \A p \in Nids : Tracked(p)' =>
          \A u \in Users : <<u, p>> \in ms <=> <<u, node'[p].of>> \in ms
    BY <1>8, <2>2, <2>3
  <2>5. Paired(members \cup added[t])'
    BY <2>1, <2>4 DEF Paired
  <2>6. at'[t] \in {"idle", "default"} => added'[t] = {}
    BY <1>3, <2>2
  <2>7. \A u \in Users, n \in Nids : <<u, n>> \in added'[t] => Visible(t, n)'
    BY <1>4, <2>2
  <2> QED BY <2>5, <2>6, <2>7 DEF AddedHolds
<1> QED BY <1>6, <1>7, <1>10, <1>11 DEF MembershipInvariant

LEMMA JoinMembers ==
    ASSUME MembershipInvariant, RecognitionInvariant', NEW s \in Sessions,
           NEW u \in Users, NEW g \in Nids,
           JoinCommunity(s, u, g) \/ JoinProtocol(s, u, g)
    PROVE  MembershipInvariant'
<1>1. /\ TypeOK /\ fresh[s] = {} /\ Committed(g)
      /\ UNCHANGED <<counter, node, at, fresh, author, added, overtaken>>
  BY DEF MembershipInvariant, RecognitionInvariant, CreationInvariant, Typed,
         RequestHolds, JoinCommunity, JoinProtocol, CanStart
<1>2. PICK r :
        /\ \/ /\ node[g].kind \in CommunityKinds
              /\ r = InCommunity(s, u, g, members, marks[s])
           \/ /\ node[g].kind \in ProtocolKinds
              /\ r = InProtocol(s, u, g, members, marks[s])
        /\ members' = r.ms
        /\ marks' = [marks EXCEPT ![s] = r.ks]
  BY DEF JoinCommunity, JoinProtocol, Communities, ProtocolsIn
<1>3. /\ Paired(members) /\ Visible(s, g)
      /\ \A v \in Users, k \in Nids : <<v, k>> \in members => Visible(s, k)
  BY <1>1 DEF MembershipInvariant, MembersHold, Visible
<1>4. /\ Paired(r.ms) /\ members \subseteq r.ms
      /\ \A v \in Users, k \in Nids : <<v, k>> \in r.ms => Visible(s, k)
      /\ \A k \in r.ks : k < counter /\ ~Tracked(k)
  BY <1>2, <1>3, CascadeMembers
<1>5. \A t \in Sessions : marks'[t] = marks[t] \/ marks'[t] = r.ks
  BY <1>1, <1>2 DEF TypeOK
<1>6. MarksHold'
  BY <1>1, <1>4, <1>5 DEF MarksHold, MembershipInvariant, Tracked
<1>7. MembersHold'
  BY <1>1, <1>2, <1>4 DEF MembersHold, Visible, Committed
<1>8. \A t \in Sessions : Paired(members)' /\ Paired(members \cup added[t])'
  BY <1>1, <1>2, <1>4, AddedLater
<1>9. ASSUME NEW t \in Sessions PROVE AddedHolds(t)'
  BY <1>1, <1>8 DEF AddedHolds, MembershipInvariant, Visible, Committed
<1> QED BY <1>6, <1>7, <1>8, <1>9 DEF MembershipInvariant

LEMMA SubscribeMembers ==
    ASSUME MembershipInvariant, RecognitionInvariant', NEW s \in Sessions,
           SubscribeToProtocol(s) \/ SubscribeToCommunity(s)
    PROVE  MembershipInvariant'
<1>1. /\ TypeOK
      /\ at[s] \in {"protocol", "community"}
      /\ at'[s] \in {"community", "commit"}
      /\ \A t \in Sessions \ {s} : at'[t] = at[t]
      /\ UNCHANGED <<counter, node, members, fresh, author, overtaken>>
  BY DEF MembershipInvariant, RecognitionInvariant, CreationInvariant, Typed, TypeOK,
         SubscribeToProtocol, SubscribeToCommunity, Go
<1>2. PICK g, r :
        /\ g \in fresh[s]
        /\ \/ /\ node[g].kind \in CommunityKinds
              /\ r = InCommunity(s, author[s], g, members \cup added[s], marks[s])
           \/ /\ node[g].kind \in ProtocolKinds
              /\ r = InProtocol(s, author[s], g, members \cup added[s], marks[s])
        /\ \/ UNCHANGED <<added, marks>>
           \/ /\ added' = [added EXCEPT ![s] = r.ms \ members]
              /\ marks' = [marks EXCEPT ![s] = r.ks]
  <2>1. CASE SubscribeToProtocol(s)
    BY <2>1 DEF SubscribeToProtocol, ProtocolsIn
  <2>2. CASE SubscribeToCommunity(s)
    BY <2>2 DEF SubscribeToCommunity, Communities
  <2> QED BY <2>1, <2>2
<1> PICK ms : ms = members \cup added[s]
  OBVIOUS
<1>3. /\ author[s] \in Users /\ g \in Nids /\ Visible(s, g)
      /\ Paired(ms)
      /\ \A v \in Users, k \in Nids : <<v, k>> \in ms => Visible(s, k)
  BY <1>1, <1>2 DEF TypeOK, MembershipInvariant, MembersHold, Visible, AddedHolds
<1>4. /\ Paired(r.ms)
      /\ ms \subseteq r.ms
      /\ \A v \in Users, k \in Nids : <<v, k>> \in r.ms => Visible(s, k)
      /\ \A k \in r.ks : k < counter /\ ~Tracked(k)
  BY <1>2, <1>3, CascadeMembers
<1>5. \A t \in Sessions : marks'[t] = marks[t] \/ (t = s /\ marks'[t] = r.ks)
  BY <1>1, <1>2 DEF TypeOK
<1>6. MarksHold'
  BY <1>1, <1>4, <1>5 DEF MarksHold, MembershipInvariant, Tracked
<1>7. MembersHold'
  BY <1>1 DEF MembershipInvariant, MembersHold, Committed
<1>8. \A t \in Sessions, k \in Nids : Visible(t, k)' <=> Visible(t, k)
  BY <1>1 DEF Visible, Committed
<1>9. Paired(members)'
  BY <1>1 DEF MembershipInvariant, Paired, Tracked
<1>10. ASSUME NEW t \in Sessions PROVE AddedHolds(t)'
  <2>1. CASE added'[t] = added[t]
    <3>1. AddedHolds(t)
      BY DEF MembershipInvariant
    <3>2. Paired(members \cup added[t])'
      BY <1>1, <2>1, <3>1 DEF AddedHolds, Paired, Tracked
    <3>3. at'[t] \in {"idle", "default"} => at[t] \in {"idle", "default"}
      BY <1>1
    <3> QED BY <1>1, <1>8, <2>1, <3>1, <3>2, <3>3 DEF AddedHolds
  <2>2. CASE added'[t] # added[t]
    <3>1. t = s /\ added'[t] = r.ms \ members
      BY <1>1, <1>2, <2>2 DEF TypeOK
    <3>2. members' \cup added'[t] = r.ms
      BY <1>1, <1>4, <3>1
    <3>3. Paired(members \cup added[t])'
      BY <1>1, <1>4, <3>2 DEF Paired, Tracked
    <3> QED BY <1>1, <1>4, <1>8, <3>1, <3>3 DEF AddedHolds
  <2> QED BY <2>1, <2>2
<1> QED BY <1>6, <1>7, <1>9, <1>10 DEF MembershipInvariant

LEMMA CommitMembers ==
    ASSUME MembershipInvariant, RecognitionInvariant', NEW s \in Sessions, Commit(s)
    PROVE  MembershipInvariant'
<1>1. /\ TypeOK /\ OwnersHold
      /\ UNCHANGED <<counter, node, marks, author, overtaken>>
      /\ at'[s] = "idle"
      /\ members' = members \cup added[s]
      /\ fresh'[s] = {} /\ added'[s] = {}
      /\ \A t \in Sessions \ {s} : /\ fresh'[t] = fresh[t] /\ added'[t] = added[t]
                                   /\ at'[t] = at[t]
  BY DEF MembershipInvariant, RecognitionInvariant, CreationInvariant, Typed, TypeOK,
         Commit, Go
<1>2. MarksHold'
  BY <1>1 DEF MembershipInvariant, MarksHold, Tracked
<1>3. /\ \A n \in Nids : Visible(s, n) => Committed(n)'
      /\ \A t \in Sessions \ {s}, n \in Nids : Visible(t, n) => Visible(t, n)'
  BY <1>1 DEF Visible, Committed, OwnersHold
<1>4. MembersHold'
  <2> SUFFICES ASSUME NEW u \in Users, NEW n \in Nids, <<u, n>> \in members'
               PROVE  Committed(n)'
    BY DEF MembersHold
  <2>1. Visible(s, n)
    BY <1>1 DEF MembershipInvariant, MembersHold, AddedHolds, Visible
  <2> QED BY <1>3, <2>1
<1>5. PICK ms : ms = members \cup added[s] /\ Paired(ms)
  BY DEF MembershipInvariant, AddedHolds
<1>6. Paired(members)'
  BY <1>1, <1>5 DEF Paired, Tracked
<1>7. ASSUME NEW t \in Sessions PROVE AddedHolds(t)'
  <2>1. CASE t = s
    <3>1. added'[t] = {} /\ members' \cup added'[t] = members'
      BY <1>1, <2>1
    <3> QED BY <1>6, <3>1 DEF AddedHolds, Paired
  <2>2. CASE t # s
    <3>1. added'[t] = added[t] /\ at'[t] = at[t]
      BY <1>1, <2>2
    <3>2. Paired(members \cup added[t])'
      BY <1>1, <1>5, <3>1, AddedLater
    <3> QED BY <1>3, <2>2, <3>1, <3>2 DEF AddedHolds, MembershipInvariant
  <2> QED BY <2>1, <2>2
<1> QED BY <1>2, <1>4, <1>6, <1>7 DEF MembershipInvariant

LEMMA AbortMembers ==
    ASSUME MembershipInvariant, RecognitionInvariant', NEW s \in Sessions, Abort(s)
    PROVE  MembershipInvariant'
<1>1. /\ Typed /\ TypeOK /\ OwnersHold
      /\ UNCHANGED <<counter, members, marks, author, overtaken>>
      /\ fresh'[s] = {} /\ added'[s] = {} /\ at'[s] = "idle"
      /\ \A t \in Sessions \ {s} : /\ fresh'[t] = fresh[t] /\ added'[t] = added[t]
                                   /\ at'[t] = at[t]
  BY DEF MembershipInvariant, RecognitionInvariant, CreationInvariant, Typed, TypeOK,
         Abort, Go
<1>2. \A n \in Nids : node'[n] = IF n \in fresh[s] THEN Absent ELSE node[n]
  BY DEF Abort
<1>3. \A p \in Nids : Tracked(p)' => Tracked(p) /\ node'[p] = node[p]
  BY <1>1, <1>2 DEF Tracked, Absent
<1>4. /\ \A n \in Nids : Committed(n) => Committed(n)'
      /\ \A t \in Sessions \ {s}, n \in Nids : Visible(t, n) => Visible(t, n)'
  BY <1>1, <1>2 DEF Visible, Committed
<1>5. MarksHold'
  BY <1>1, <1>3 DEF MembershipInvariant, MarksHold, TypeOK
<1>6. MembersHold'
  BY <1>1, <1>4 DEF MembershipInvariant, MembersHold
<1>7. ASSUME NEW ms, Paired(ms)
      PROVE  \A p \in Nids : Tracked(p)' =>
               \A u \in Users : <<u, p>> \in ms <=> <<u, node'[p].of>> \in ms
  BY <1>3, <1>7, PairedLater
<1>8. Paired(members)'
  <2>1. PICK ms : ms = members /\ Paired(ms)
    BY DEF MembershipInvariant
  <2> QED BY <1>1, <1>7, <2>1 DEF Paired
<1>9. ASSUME NEW t \in Sessions PROVE AddedHolds(t)'
  <2>1. CASE t = s
    <3>1. added'[t] = {} /\ members' \cup added'[t] = members'
      BY <1>1, <2>1
    <3> QED BY <1>8, <3>1 DEF AddedHolds, Paired
  <2>2. CASE t # s
    <3>1. added'[t] = added[t] /\ at'[t] = at[t]
      BY <1>1, <2>2
    <3>2. PICK ms : ms = members \cup added[t] /\ Paired(ms)
      BY DEF MembershipInvariant, AddedHolds
    <3>3. Paired(members \cup added[t])'
      BY <1>1, <1>7, <3>1, <3>2 DEF Paired
    <3> QED BY <1>4, <2>2, <3>1, <3>3 DEF AddedHolds, MembershipInvariant
  <2> QED BY <2>1, <2>2
<1> QED BY <1>5, <1>6, <1>8, <1>9 DEF MembershipInvariant

LEMMA InitMembershipInvariant == Init => MembershipInvariant
<1> SUFFICES ASSUME Init PROVE MembershipInvariant
  OBVIOUS
<1>1. /\ \A n \in Nids : node[n].kind = "absent"
      /\ members = {}
      /\ \A s \in Sessions : marks[s] = {} /\ added[s] = {}
  BY DEF Init, Absent
<1>2. \A ms : Paired(ms)
  BY <1>1 DEF Paired, Tracked
<1> QED BY <1>1, <1>2, InitRecognitionInvariant
       DEF MembershipInvariant, MarksHold, MembersHold, AddedHolds

LEMMA NextMembershipInvariant ==
    ASSUME MembershipInvariant, [Next]_vars PROVE MembershipInvariant'
<1>0. RecognitionInvariant /\ RecognitionInvariant' /\ TypeOK
  BY NextRecognitionInvariant
     DEF MembershipInvariant, RecognitionInvariant, CreationInvariant, Typed
<1>1. ASSUME NEW s \in Sessions, NEW u \in Users,
             \/ BeginCommunity(s, u)
             \/ BeginImport(s, u)
             \/ \E c \in Nids : BeginProtocol(s, u, c)
      PROVE  MembershipInvariant'
  <2>1. UNCHANGED <<members, marks, added>> /\ added[s] = {}
    BY <1>1 DEF MembershipInvariant, AddedHolds, BeginCommunity, BeginImport,
                BeginProtocol, CanStart
  <2> QED BY <1>0, <1>1, <2>1, BeginInserts, InsertMembers
<1>2. ASSUME NEW s \in Sessions, NEW u \in Users, NEW g \in Nids,
             JoinCommunity(s, u, g) \/ JoinProtocol(s, u, g)
      PROVE  MembershipInvariant'
  BY <1>0, <1>2, JoinMembers
<1>3. ASSUME NEW s \in Sessions, SubscribeToProtocol(s) \/ SubscribeToCommunity(s)
      PROVE  MembershipInvariant'
  BY <1>0, <1>3, SubscribeMembers
<1>4. ASSUME NEW s \in Sessions, OtherNode(s) PROVE MembershipInvariant'
  <2>1. UNCHANGED <<members, marks, added>> /\ added[s] = {}
    BY <1>4 DEF MembershipInvariant, AddedHolds, OtherNode, CanStart
  <2> QED BY <1>0, <1>4, <2>1, OtherNodeInserts, InsertMembers
<1>5. ASSUME NEW s \in Sessions, InsertDefault(s) PROVE MembershipInvariant'
  <2>1. UNCHANGED <<members, marks, added>> /\ added[s] = {}
    BY <1>5 DEF MembershipInvariant, AddedHolds, InsertDefault
  <2> QED BY <1>0, <1>5, <2>1, InsertDefaultInserts, InsertMembers
<1>6. ASSUME NEW s \in Sessions, Commit(s) PROVE MembershipInvariant'
  BY <1>0, <1>6, CommitMembers
<1>7. ASSUME NEW s \in Sessions, Abort(s) PROVE MembershipInvariant'
  BY <1>0, <1>7, AbortMembers
<1>8. CASE UNCHANGED vars
  BY <1>0, <1>8
     DEF vars, MembershipInvariant, MarksHold, MembersHold, AddedHolds, Paired, Tracked,
         Visible, Committed
<1> QED BY <1>1, <1>2, <1>3, <1>4, <1>5, <1>6, <1>7, <1>8 DEF Next

(* However requests overlap, whichever of them die and whatever else is created, a
   default protocol and its community have the same members, unless another request
   inserted a node between the two. *)
THEOREM MembershipsArePaired == Spec => []MembershipsPaired
<1>1. MembershipInvariant => MembershipsPaired
  BY DEF MembershipInvariant, Paired, MembershipsPaired, Tracked
<1>2. MembershipInvariant /\ [Next]_vars => MembershipInvariant'
  BY NextMembershipInvariant
<1> QED BY <1>1, <1>2, InitMembershipInvariant, PTL DEF Spec

==============================================================================
