---------------------------- MODULE GroupCreation ----------------------------
(***************************************************************************)
(* How communities and protocols come into being, and how the default      *)
(* protocol of a community is found again.                                 *)
(*                                                                         *)
(* Saving a new community saves its default ("Community Only") protocol    *)
(* from inside: hook_node_insert() of mukurtu_protocol_field.  An imported *)
(* community gets none.  Nothing is stored that says which protocol is the *)
(* default one: ma_culturalprotocol takes the protocol whose node id       *)
(* follows the community's.  Node ids come from one counter, which every   *)
(* request uses and no rollback resets.  OG subscribes the author of each  *)
(* new group, which sets off the cascade of MembershipCascade; here a      *)
(* cascade is one step, and there are no parent communities.               *)
(***************************************************************************)
EXTENDS Naturals

CONSTANTS
    Users,
    Sessions,
    MaxNid,        \* bound: the ids the counter can give
    Imports        \* TRUE: communities may be imported

ASSUME CreationAssumption ==
    /\ MaxNid \in Nat
    /\ Imports \in BOOLEAN

Nids == 1 .. MaxNid
NoNid == 0

(* of is the community of a protocol (its og_group_ref). *)
Kinds == {"absent", "community", "imported", "default", "protocol", "other"}
Nodes == [kind : Kinds, of : Nids \cup {NoNid}]
Absent == [kind |-> "absent", of |-> NoNid]
CommunityKinds == {"community", "imported"}
ProtocolKinds == {"default", "protocol"}
Points == {"idle", "default", "protocol", "community", "commit"}

VARIABLES
    counter,    \* the id the next node gets
    node,       \* the nodes, those not committed yet included
    members,    \* active memberships, as committed
    marks,      \* protocols marked in $_SESSION of a session
    at,         \* how far the request of a session is
    fresh,      \* ids of the nodes its request has inserted
    author,     \* the author of those nodes
    added,      \* memberships its request has stored
    overtaken   \* history: communities that another request inserted a node after
                \* before their default protocol was inserted

vars == <<counter, node, members, marks, at, fresh, author, added, overtaken>>

TypeOK ==
    /\ counter \in 1 .. (MaxNid + 1)
    /\ node \in [Nids -> Nodes]
    /\ members \in SUBSET (Users \X Nids)
    /\ marks \in [Sessions -> SUBSET Nids]
    /\ at \in [Sessions -> Points]
    /\ fresh \in [Sessions -> SUBSET Nids]
    /\ author \in [Sessions -> Users]
    /\ added \in [Sessions -> SUBSET (Users \X Nids)]
    /\ overtaken \in SUBSET Nids

Init ==
    /\ counter = 1
    /\ node = [n \in Nids |-> Absent]
    /\ members = {}
    /\ marks = [s \in Sessions |-> {}]
    /\ at = [s \in Sessions |-> "idle"]
    /\ fresh = [s \in Sessions |-> {}]
    /\ author \in [Sessions -> Users]
    /\ added = [s \in Sessions |-> {}]
    /\ overtaken = {}

------------------------------------------------------------------------------
(* What a request sees. *)

Committed(n) == node[n].kind # "absent" /\ \A s \in Sessions : n \notin fresh[s]

Visible(s, n) == Committed(n) \/ n \in fresh[s]

Communities(ns) == {n \in ns : node[n].kind \in CommunityKinds}
ProtocolsIn(ns) == {n \in ns : node[n].kind \in ProtocolKinds}

(* Mutant: the node before the community is taken. *)
Recognised_Preceding(s, c) ==
    IF /\ c < MaxNid
       /\ Visible(s, c + 1)
       /\ node[c + 1].kind \in ProtocolKinds
       /\ node[c + 1].of = c
    THEN {c - 1} ELSE {}

(* Mutant: the community it refers to is not compared. *)
Recognised_AnyProtocol(s, c) ==
    IF c < MaxNid /\ Visible(s, c + 1) /\ node[c + 1].kind \in ProtocolKinds
    THEN {c + 1} ELSE {}

(* node_load(gid + 1), if it is a protocol of community c. *)
Recognised(s, c) ==
    IF /\ c < MaxNid
       /\ Visible(s, c + 1)
       /\ node[c + 1].kind \in ProtocolKinds
       /\ node[c + 1].of = c
    THEN {c + 1} ELSE {}

(* Mutant: the default protocol is forgotten. *)
InCommunity_NoDefault(s, u, c, ms, ks) ==
    [ms |-> ms \cup {<<u, c>>}, ks |-> ks \ Recognised(s, c)]

(* What og_group(u, c) makes of the memberships ms and the marks ks: the
   community branch of the cascade.  Adding the default protocol sets its mark
   and the nested save clears it; a mark that is there already is cleared and
   nothing is added. *)
InCommunity(s, u, c, ms, ks) ==
    [ms |-> ms \cup {<<u, c>>} \cup ({u} \X (Recognised(s, c) \ ks)),
     ks |-> ks \ Recognised(s, c)]

(* The protocol branch: the community is added under the mark of p, which
   nobody clears unless p is the default protocol. *)
InProtocol(s, u, p, ms, ks) ==
    LET c == node[p].of
        nested == InCommunity(s, u, c, ms, ks \cup {p})
    IN  IF p \in ks
        THEN [ms |-> ms \cup {<<u, p>>}, ks |-> ks \ {p}]
        ELSE IF <<u, c>> \in ms
        THEN [ms |-> ms \cup {<<u, p>>}, ks |-> ks]
        ELSE [ms |-> nested.ms \cup {<<u, p>>}, ks |-> nested.ks]

CanStart(s) == at[s] = "idle"

Go(s, point) == at' = [at EXCEPT ![s] = point]

(* The communities whose default protocol the other requests are about to insert. *)
Waiting(s) == UNION {fresh[t] : t \in {t \in Sessions \ {s} : at[t] = "default"}}

(* INSERT INTO {node}: session s takes the next id. *)
TakeId(s, kind, c) ==
    /\ counter <= MaxNid
    /\ counter' = counter + 1
    /\ node' = [node EXCEPT ![counter] = [kind |-> kind, of |-> c]]
    /\ overtaken' = overtaken \cup Waiting(s)

Insert(s, kind, c) ==
    /\ TakeId(s, kind, c)
    /\ fresh' = [fresh EXCEPT ![s] = @ \cup {counter}]

------------------------------------------------------------------------------
(* Requests. *)

(* A community is saved by user u: with the form, or by an importer. *)
BeginCommunity(s, u) ==
    /\ CanStart(s)
    /\ Insert(s, "community", NoNid)
    /\ author' = [author EXCEPT ![s] = u]
    /\ Go(s, "default")
    /\ UNCHANGED <<members, marks, added>>

BeginImport(s, u) ==
    /\ Imports
    /\ CanStart(s)
    /\ Insert(s, "imported", NoNid)
    /\ author' = [author EXCEPT ![s] = u]
    /\ Go(s, "community")
    /\ UNCHANGED <<members, marks, added>>

(* A further protocol of community c is saved. *)
BeginProtocol(s, u, c) ==
    /\ CanStart(s)
    /\ c \in Communities(Nids) /\ Committed(c)
    /\ Insert(s, "protocol", c)
    /\ author' = [author EXCEPT ![s] = u]
    /\ Go(s, "protocol")
    /\ UNCHANGED <<members, marks, added>>

(* A node of another type is saved: all that matters is the id it takes. *)
OtherNode(s) ==
    /\ CanStart(s)
    /\ TakeId(s, "other", NoNid)
    /\ UNCHANGED <<members, marks, at, fresh, author, added>>

(* A user becomes an active member of a group; one request. *)
JoinCommunity(s, u, c) ==
    /\ CanStart(s)
    /\ c \in Communities(Nids) /\ Committed(c)
    /\ LET r == InCommunity(s, u, c, members, marks[s])
       IN  /\ members' = r.ms
           /\ marks' = [marks EXCEPT ![s] = r.ks]
    /\ UNCHANGED <<counter, node, at, fresh, author, added, overtaken>>

JoinProtocol(s, u, p) ==
    /\ CanStart(s)
    /\ p \in ProtocolsIn(Nids) /\ Committed(p)
    /\ LET r == InProtocol(s, u, p, members, marks[s])
       IN  /\ members' = r.ms
           /\ marks' = [marks EXCEPT ![s] = r.ks]
    /\ UNCHANGED <<counter, node, at, fresh, author, added, overtaken>>

------------------------------------------------------------------------------
(* The steps of a request. *)

(* The default protocol is inserted for the community just inserted. *)
InsertDefault(s) ==
    /\ at[s] = "default"
    /\ \E c \in Communities(fresh[s]) : Insert(s, "default", c)
    /\ Go(s, "protocol")
    /\ UNCHANGED <<members, marks, author, added>>

(* og_entity_insert() of the protocol: its author becomes a member. *)
SubscribeToProtocol(s) ==
    /\ at[s] = "protocol"
    /\ \E p \in ProtocolsIn(fresh[s]) :
         LET r == InProtocol(s, author[s], p, members \cup added[s], marks[s])
         IN  /\ added' = [added EXCEPT ![s] = r.ms \ members]
             /\ marks' = [marks EXCEPT ![s] = r.ks]
    /\ Go(s, IF Communities(fresh[s]) = {} THEN "commit" ELSE "community")
    /\ UNCHANGED <<counter, node, members, fresh, author, overtaken>>

(* og_entity_insert() of the community, after the hooks that insert nodes; a
   member is not saved again. *)
SubscribeToCommunity(s) ==
    /\ at[s] = "community"
    /\ \E c \in Communities(fresh[s]) :
         LET r == InCommunity(s, author[s], c, members \cup added[s], marks[s])
         IN  IF <<author[s], c>> \in added[s]
             THEN UNCHANGED <<added, marks>>
             ELSE /\ added' = [added EXCEPT ![s] = r.ms \ members]
                  /\ marks' = [marks EXCEPT ![s] = r.ks]
    /\ Go(s, "commit")
    /\ UNCHANGED <<counter, node, members, fresh, author, overtaken>>

(* The outermost node_save() commits. *)
Commit(s) ==
    /\ at[s] = "commit"
    /\ members' = members \cup added[s]
    /\ fresh' = [fresh EXCEPT ![s] = {}]
    /\ added' = [added EXCEPT ![s] = {}]
    /\ Go(s, "idle")
    /\ UNCHANGED <<counter, node, marks, author, overtaken>>

(* Mutant: the default protocol is saved in a transaction of its own, which
   leaves the community behind when it fails. *)
Abort_KeepsCommunity(s) ==
    /\ at[s] # "idle"
    /\ node' = [n \in Nids |-> IF n \in ProtocolsIn(fresh[s]) THEN Absent ELSE node[n]]
    /\ fresh' = [fresh EXCEPT ![s] = {}]
    /\ added' = [added EXCEPT ![s] = {}]
    /\ Go(s, "idle")
    /\ UNCHANGED <<counter, members, marks, author, overtaken>>

(* The request dies: the nodes are rolled back, the ids and the marks not. *)
Abort(s) ==
    /\ at[s] # "idle"
    /\ node' = [n \in Nids |-> IF n \in fresh[s] THEN Absent ELSE node[n]]
    /\ fresh' = [fresh EXCEPT ![s] = {}]
    /\ added' = [added EXCEPT ![s] = {}]
    /\ Go(s, "idle")
    /\ UNCHANGED <<counter, members, marks, author, overtaken>>

Next ==
    \E s \in Sessions :
        \/ \E u \in Users :
             \/ BeginCommunity(s, u)
             \/ BeginImport(s, u)
             \/ \E g \in Nids : \/ BeginProtocol(s, u, g)
                                \/ JoinCommunity(s, u, g)
                                \/ JoinProtocol(s, u, g)
        \/ OtherNode(s)
        \/ InsertDefault(s)
        \/ SubscribeToProtocol(s)
        \/ SubscribeToCommunity(s)
        \/ Commit(s)
        \/ Abort(s)

Spec == Init /\ [][Next]_vars

------------------------------------------------------------------------------
(* Properties. *)

(* "hook for creating community to create a matching default protocol": a
   community made with the form is never there without it, whatever dies. *)
DefaultExists ==
    \A c \in Nids :
        Committed(c) /\ node[c].kind = "community"
        => \E p \in Nids : Committed(p) /\ node[p] = [kind |-> "default", of |-> c]

(* The cascade finds that protocol by its id, in any interleaving of requests and
   whichever of them die, unless another request inserted a node between the
   community and its default protocol; and then it takes no other protocol for it. *)
DefaultIsRecognised ==
    \A p \in Nids : \A s \in Sessions :
        Committed(p) /\ node[p].kind = "default"
        => Recognised(s, node[p].of) = IF node[p].of \in overtaken THEN {} ELSE {p}

(* "If a user is added to a community, add them to the default protocol" and "If
   the user is added to a protocol, add them to the parent community": a default
   protocol that is recognised and its community have the same members, however
   requests overlap.  When it is not recognised, the mark of the creator's request
   stays set and the next join is incomplete too. *)
MembershipsPaired ==
    \A p \in Nids : node[p].kind = "default" /\ node[p].of \notin overtaken =>
        \A u \in Users :
          /\ <<u, p>> \in members => <<u, node[p].of>> \in members
          /\ Committed(p) /\ <<u, node[p].of>> \in members => <<u, p>> \in members

==============================================================================
