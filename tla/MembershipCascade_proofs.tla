----------------------- MODULE MembershipCascade_proofs -----------------------
(***************************************************************************)
(* Theorems about MembershipCascade, for every set of users, communities,  *)
(* protocols and sessions and every hierarchy of communities.              *)
(***************************************************************************)
EXTENDS MembershipCascade, FiniteSetTheorems, SequenceTheorems, TLAPS

------------------------------------------------------------------------------
(* The call stack. *)

LEMMA NewFrameType ==
    ASSUME NEW u \in Users, NEW g \in Groups
    PROVE  /\ NewFrame(u, g) \in Frame
           /\ NewFrame(u, g).user = u
           /\ NewFrame(u, g).group = g
           /\ NewFrame(u, g).at # "write"
BY DEF NewFrame, Frame, Groups

LEMMA TopType ==
    ASSUME TypeOK, NEW s \in Sessions, stack[s] # <<>>
    PROVE  /\ stack[s] \in Seq(Frame)
           /\ Len(stack[s]) \in Nat \ {0}
           /\ Len(stack[s]) \in 1 .. Len(stack[s])
           /\ Top(s) \in Frame
BY EmptySeq, ElementOfSeq DEF TypeOK, Top

(* What the point of the innermost frame says about it. *)
LEMMA DefaultFrame ==
    ASSUME TypeOK, NEW s \in Sessions, At(s, "default")
    PROVE  /\ stack[s] # <<>>
           /\ Top(s).user \in Users
           /\ Top(s).group \in Communities
           /\ [Top(s) EXCEPT !.at = "parent"] \in Frame
BY TopType DEF At, Frame

LEMMA ParentFrame ==
    ASSUME TypeOK, NEW s \in Sessions, At(s, "parent")
    PROVE  /\ stack[s] # <<>>
           /\ Top(s).user \in Users
           /\ Top(s).group \in Communities
           /\ [Top(s) EXCEPT !.at = "write"] \in Frame
BY TopType DEF At, Frame

LEMMA CommunityFrame ==
    ASSUME TypeOK, NEW s \in Sessions, At(s, "community")
    PROVE  /\ stack[s] # <<>>
           /\ Top(s).user \in Users
           /\ Top(s).group \in Protocols
           /\ [Top(s) EXCEPT !.at = "write"] \in Frame
BY TopType DEF At, Frame

(* Continue changes nothing but the point of the innermost frame. *)
LEMMA ContinueStack ==
    ASSUME TypeOK, NEW s \in Sessions, stack[s] # <<>>,
           NEW a, [Top(s) EXCEPT !.at = a] \in Frame, Continue(s, a)
    PROVE  /\ stack' \in [Sessions -> Seq(Frame)]
           /\ \A t \in Sessions \ {s} : stack'[t] = stack[t]
           /\ Len(stack'[s]) = Len(stack[s])
           /\ \A i \in 1 .. Len(stack[s]) :
                /\ stack'[s][i].user = stack[s][i].user
                /\ stack'[s][i].group = stack[s][i].group
                /\ stack'[s][i].at =
                     IF i = Len(stack[s]) THEN a ELSE stack[s][i].at
<1> DEFINE n == Len(stack[s])
           f == [Top(s) EXCEPT !.at = a]
<1>1. f \in Frame
  OBVIOUS
<1>2. stack' = [stack EXCEPT ![s] = [stack[s] EXCEPT ![n] = f]]
  BY DEF Continue, Top
<1>3. /\ [stack[s] EXCEPT ![n] = f] \in Seq(Frame)
      /\ Len([stack[s] EXCEPT ![n] = f]) = n
      /\ \A i \in 1 .. n : [stack[s] EXCEPT ![n] = f][i] =
                              IF i = n THEN f ELSE stack[s][i]
  BY <1>1, TopType, ExceptSeq
<1>4. /\ f.user = Top(s).user
      /\ f.group = Top(s).group
      /\ f.at = a
  BY TopType DEF Frame
<1>5. stack'[s] = [stack[s] EXCEPT ![n] = f]
  BY <1>2 DEF TypeOK
<1>6. stack' \in [Sessions -> Seq(Frame)]
  BY <1>2, <1>3 DEF TypeOK
<1>7. \A t \in Sessions \ {s} : stack'[t] = stack[t]
  BY <1>2 DEF TypeOK
<1>8. \A i \in 1 .. n :
         /\ stack'[s][i].user = stack[s][i].user
         /\ stack'[s][i].group = stack[s][i].group
         /\ stack'[s][i].at = IF i = n THEN a ELSE stack[s][i].at
  BY <1>3, <1>4, <1>5 DEF Top
<1> QED BY <1>3, <1>5, <1>6, <1>7, <1>8

(* Call does the same and puts a new frame on top. *)
LEMMA CallStack ==
    ASSUME TypeOK, NEW s \in Sessions, stack[s] # <<>>,
           NEW a, [Top(s) EXCEPT !.at = a] \in Frame,
           NEW u \in Users, NEW g \in Groups,
           Call(s, a, u, g)
    PROVE  /\ stack' \in [Sessions -> Seq(Frame)]
           /\ \A t \in Sessions \ {s} : stack'[t] = stack[t]
           /\ Len(stack'[s]) = Len(stack[s]) + 1
           /\ stack'[s][Len(stack[s]) + 1] = NewFrame(u, g)
           /\ \A i \in 1 .. Len(stack[s]) :
                /\ stack'[s][i].user = stack[s][i].user
                /\ stack'[s][i].group = stack[s][i].group
                /\ stack'[s][i].at =
                     IF i = Len(stack[s]) THEN a ELSE stack[s][i].at
<1> DEFINE n == Len(stack[s])
           f == [Top(s) EXCEPT !.at = a]
           q == [stack[s] EXCEPT ![n] = f]
<1>1. f \in Frame
  OBVIOUS
<1>2. stack' = [stack EXCEPT ![s] = Append(q, NewFrame(u, g))]
  BY DEF Call, Top
<1>3. /\ q \in Seq(Frame)
      /\ Len(q) = n
      /\ \A i \in 1 .. n : q[i] = IF i = n THEN f ELSE stack[s][i]
  BY <1>1, TopType, ExceptSeq
<1>4. /\ f.user = Top(s).user
      /\ f.group = Top(s).group
      /\ f.at = a
  BY TopType DEF Frame
<1> HIDE DEF q, f
<1>5. /\ Append(q, NewFrame(u, g)) \in Seq(Frame)
      /\ Len(Append(q, NewFrame(u, g))) = n + 1
      /\ Append(q, NewFrame(u, g))[n + 1] = NewFrame(u, g)
      /\ \A i \in 1 .. n : Append(q, NewFrame(u, g))[i] = q[i]
  BY <1>3, NewFrameType
<1>6. stack'[s] = Append(q, NewFrame(u, g))
  BY <1>2 DEF TypeOK
<1>7. stack' \in [Sessions -> Seq(Frame)]
  BY <1>2, <1>5 DEF TypeOK
<1>8. \A t \in Sessions \ {s} : stack'[t] = stack[t]
  BY <1>2 DEF TypeOK
<1>9. \A i \in 1 .. n :
         /\ stack'[s][i].user = stack[s][i].user
         /\ stack'[s][i].group = stack[s][i].group
         /\ stack'[s][i].at = IF i = n THEN a ELSE stack[s][i].at
  BY <1>3, <1>4, <1>5, <1>6 DEF Top
<1> QED BY <1>5, <1>6, <1>7, <1>8, <1>9

(* Write takes the innermost frame off. *)
LEMMA WriteStack ==
    ASSUME TypeOK, NEW s \in Sessions, Write(s)
    PROVE  /\ stack[s] # <<>>
           /\ stack' \in [Sessions -> Seq(Frame)]
           /\ \A t \in Sessions \ {s} : stack'[t] = stack[t]
           /\ Len(stack'[s]) = Len(stack[s]) - 1
           /\ \A i \in 1 .. Len(stack[s]) - 1 : stack'[s][i] = stack[s][i]
<1> DEFINE n == Len(stack[s])
           q == SubSeq(stack[s], 1, n - 1)
<1>1. stack[s] # <<>>
  BY DEF Write, At
<1>2. /\ n \in Nat \ {0}
      /\ stack[s] \in Seq(Frame)
      /\ \A i \in 1 .. n - 1 : stack[s][i] \in Frame
  BY <1>1, TopType, ElementOfSeq
<1>3. /\ q \in Seq(Frame)
      /\ Len(q) = n - 1
      /\ \A i \in 1 .. n - 1 : q[i] = stack[s][i]
  BY <1>2, SubSeqProperties
<1>4. stack' = [stack EXCEPT ![s] = q]
  BY DEF Write
<1> HIDE DEF q
<1> QED BY <1>1, <1>3, <1>4 DEF TypeOK

------------------------------------------------------------------------------
(* Type correctness. *)

LEMMA InitTypeOK == Init => TypeOK
<1> SUFFICES ASSUME Init PROVE TypeOK
  OBVIOUS
<1>1. /\ NoRows \in [Memberships -> States]
      /\ NoTree \in [Communities -> Communities \cup {None}]
      /\ <<>> \in Seq(Frame)
  BY DEF NoRows, NoTree, States
<1>2. parent \in [Communities -> Communities \cup {None}]
  BY SiteAssumption DEF Init
<1> QED BY <1>1, <1>2 DEF Init, TypeOK

LEMMA BeginTypeOK ==
    ASSUME TypeOK, NEW s \in Sessions, NEW ms \in SUBSET Memberships,
           NEW frames \in Seq(Frame),
           NEW e \in (Communities \X Communities) \cup {None},
           NEW n \in Users \cup {None},
           Begin(s, ms, frames, e, n)
    PROVE  TypeOK'
BY DEF TypeOK, Begin, committed

LEMMA EndTypeOK ==
    ASSUME TypeOK, NEW s \in Sessions, End(s),
           parent' \in [Communities -> Communities \cup {None}],
           state' \in [Memberships -> States],
           registered' \in SUBSET Users,
           flags' = flags, withheld' \in SUBSET Memberships,
           died' \in BOOLEAN
    PROVE  TypeOK'
<1>1. /\ NoRows \in [Memberships -> States]
      /\ NoTree \in [Communities -> Communities \cup {None}]
      /\ <<>> \in Seq(Frame)
  BY DEF NoRows, NoTree, States
<1> QED BY <1>1 DEF TypeOK, End

LEMMA AbortTypeOK ==
    ASSUME TypeOK, NEW s \in Sessions, Abort(s)
    PROVE  TypeOK'
BY EndTypeOK DEF Abort, TypeOK, committed

LEMMA NextTypeOK == TypeOK /\ [Next]_vars => TypeOK'
<1> SUFFICES ASSUME TypeOK, [Next]_vars PROVE TypeOK'
  OBVIOUS
<1>1. ASSUME NEW s \in Sessions, NEW u \in Users, NEW g \in Groups,
             Join(s, u, g)
      PROVE  TypeOK'
  <2>1. <<NewFrame(u, g)>> \in Seq(Frame)
    BY NewFrameType
  <2>2. {} \in SUBSET Memberships
    OBVIOUS
  <2> QED BY <1>1, <2>1, <2>2, BeginTypeOK DEF Join
<1>2. ASSUME NEW s \in Sessions, NEW u \in Users, Register(s, u)
      PROVE  TypeOK'
  <2>1. {u} \X AutoJoin \in SUBSET Memberships
    BY SiteAssumption DEF Memberships, Groups
  <2>2. <<>> \in Seq(Frame)
    OBVIOUS
  <2> QED BY <1>2, <2>1, <2>2, BeginTypeOK DEF Register
<1>3. ASSUME NEW s \in Sessions, NEW c \in Communities, NEW d \in Communities,
             SetParent(s, c, d)
      PROVE  TypeOK'
  <2> DEFINE ms == {<<u, d>> : u \in {v \in Users : state[<<v, c>>] # "none"}}
  <2>1. ms \in SUBSET Memberships
    <3>1. ASSUME NEW m \in ms PROVE m \in Memberships
      <4>1. PICK u \in Users : m = <<u, d>>
        BY <3>1
      <4> QED BY <4>1 DEF Memberships, Groups
    <3> QED BY <3>1
  <2>2. <<>> \in Seq(Frame)
    OBVIOUS
  <2>3. <<c, d>> \in (Communities \X Communities) \cup {None}
    OBVIOUS
  <2>4. Begin(s, ms, <<>>, <<c, d>>, None)
    BY <1>3 DEF SetParent
  <2> HIDE DEF ms
  <2> QED BY <2>1, <2>2, <2>3, <2>4, BeginTypeOK
<1>4. ASSUME NEW s \in Sessions, NEW c \in Communities, ClearParent(s, c)
      PROVE  TypeOK'
  BY <1>4 DEF ClearParent, TypeOK, local
<1>5. ASSUME NEW s \in Sessions, NEW u \in Users, NEW g \in Groups,
             SaveInactive(s, u, g) \/ Remove(s, u, g)
      PROVE  TypeOK'
  <2>1. <<u, g>> \in Memberships /\ "inactive" \in States /\ "none" \in States
    BY DEF Memberships, States
  <2>2. CASE SaveInactive(s, u, g)
    BY <2>1, <2>2 DEF SaveInactive, TypeOK, local
  <2>3. CASE Remove(s, u, g)
    BY <2>1, <2>3 DEF Remove, TypeOK, local
  <2> QED BY <1>5, <2>2, <2>3
<1>6. ASSUME NEW s \in Sessions, NextMembership(s)
      PROVE  TypeOK'
  <2>1. PICK m \in todo[s] :
           /\ todo' = [todo EXCEPT ![s] = @ \ {m}]
           /\ stack' = IF IsMember(s, m[1], m[2])
                       THEN stack
                       ELSE [stack EXCEPT ![s] = <<NewFrame(m[1], m[2])>>]
    BY <1>6 DEF NextMembership
  <2>2. m[1] \in Users /\ m[2] \in Groups
    BY DEF TypeOK, Memberships
  <2>3. <<NewFrame(m[1], m[2])>> \in Seq(Frame)
    BY <2>2, NewFrameType
  <2> QED BY <1>6, <2>1, <2>3 DEF NextMembership, TypeOK, committed
<1>7. ASSUME NEW s \in Sessions, AddDefaultProtocol(s)
      PROVE  TypeOK'
  <2> DEFINE p == DefaultOf[Top(s).group]
  <2>1. /\ stack[s] # <<>>
        /\ Top(s).user \in Users
        /\ Top(s).group \in Communities
        /\ [Top(s) EXCEPT !.at = "parent"] \in Frame
    BY <1>7, DefaultFrame DEF AddDefaultProtocol
  <2>2. CASE DefaultNeeded(s)
    <3>1. p \in Protocols
      BY <2>1, <2>2, GroupsAssumption DEF DefaultNeeded
    <3>2. Call(s, "parent", Top(s).user, p) /\ p \in Groups
      BY <1>7, <2>2, <3>1 DEF AddDefaultProtocol, Groups
    <3>3. stack' \in [Sessions -> Seq(Frame)]
      BY <2>1, <3>2, CallStack
    <3>4. flags' = [flags EXCEPT ![s] = @ \cup {p}]
      BY <1>7, <2>2 DEF AddDefaultProtocol
    <3>5. flags' \in [Sessions -> SUBSET Protocols]
      BY <3>1, <3>4 DEF TypeOK
    <3> QED BY <1>7, <3>3, <3>5 DEF AddDefaultProtocol, TypeOK, committed
  <2>3. CASE ~DefaultNeeded(s)
    <3>1. stack' \in [Sessions -> Seq(Frame)]
      BY <1>7, <2>1, <2>3, ContinueStack DEF AddDefaultProtocol
    <3>2. flags' = [flags EXCEPT ![s] = @ \ {p}]
      BY <1>7, <2>3 DEF AddDefaultProtocol
    <3>3. flags' \in [Sessions -> SUBSET Protocols]
      BY <3>2 DEF TypeOK
    <3> QED BY <1>7, <3>1, <3>3 DEF AddDefaultProtocol, TypeOK, committed
  <2> QED BY <2>2, <2>3
<1>8. ASSUME NEW s \in Sessions, AddParentCommunity(s)
      PROVE  TypeOK'
  <2>1. /\ stack[s] # <<>>
        /\ Top(s).user \in Users
        /\ Top(s).group \in Communities
        /\ [Top(s) EXCEPT !.at = "write"] \in Frame
    BY <1>8, ParentFrame DEF AddParentCommunity
  <2>2. CASE ParentNeeded(s)
    <3>1. /\ Call(s, "write", Top(s).user, tree[s][Top(s).group])
          /\ tree[s][Top(s).group] \in Groups
      BY <1>8, <2>1, <2>2 DEF AddParentCommunity, ParentNeeded, TypeOK, Groups
    <3>2. stack' \in [Sessions -> Seq(Frame)]
      BY <2>1, <3>1, CallStack
    <3> QED BY <1>8, <3>2 DEF AddParentCommunity, TypeOK, committed
  <2>3. CASE ~ParentNeeded(s)
    <3>1. stack' \in [Sessions -> Seq(Frame)]
      BY <1>8, <2>1, <2>3, ContinueStack DEF AddParentCommunity
    <3> QED BY <1>8, <3>1 DEF AddParentCommunity, TypeOK, committed
  <2> QED BY <2>2, <2>3
<1>9. ASSUME NEW s \in Sessions, AddCommunity(s)
      PROVE  TypeOK'
  <2> DEFINE p == Top(s).group
  <2>1. /\ stack[s] # <<>>
        /\ Top(s).user \in Users
        /\ p \in Protocols
        /\ [Top(s) EXCEPT !.at = "write"] \in Frame
    BY <1>9, CommunityFrame DEF AddCommunity
  <2>2. CASE CommunityNeeded(s)
    <3>1. /\ Call(s, "write", Top(s).user, CommunityOf[p])
          /\ CommunityOf[p] \in Groups
      BY <1>9, <2>1, <2>2, GroupsAssumption DEF AddCommunity, Groups
    <3>2. stack' \in [Sessions -> Seq(Frame)]
      BY <2>1, <3>1, CallStack
    <3>3. flags' = [flags EXCEPT ![s] = @ \cup {p}]
      BY <1>9, <2>2 DEF AddCommunity
    <3>4. flags' \in [Sessions -> SUBSET Protocols]
      BY <2>1, <3>3 DEF TypeOK
    <3> QED BY <1>9, <3>2, <3>4 DEF AddCommunity, TypeOK, committed
  <2>3. CASE ~CommunityNeeded(s)
    <3>1. stack' \in [Sessions -> Seq(Frame)]
      BY <1>9, <2>1, <2>3, ContinueStack DEF AddCommunity
    <3>2. flags' = [flags EXCEPT ![s] = @ \ {p}]
      BY <1>9, <2>3 DEF AddCommunity
    <3>3. flags' \in [Sessions -> SUBSET Protocols]
      BY <3>2 DEF TypeOK
    <3> QED BY <1>9, <3>1, <3>3 DEF AddCommunity, TypeOK, committed
  <2> QED BY <2>2, <2>3
<1>10. ASSUME NEW s \in Sessions, Write(s)
       PROVE  TypeOK'
  <2>1. stack[s] # <<>> /\ Top(s) \in Frame
    BY <1>10, TopType DEF Write, At
  <2>2. <<Top(s).user, Top(s).group>> \in Memberships
    BY <2>1 DEF Frame, Memberships, Groups
  <2>3. dirty' \in [Sessions -> SUBSET Memberships]
    BY <1>10, <2>2 DEF Write, TypeOK
  <2>4. stack' \in [Sessions -> Seq(Frame)]
    BY <1>10, WriteStack
  <2> QED BY <1>10, <2>3, <2>4 DEF Write, TypeOK, committed
<1>11. ASSUME NEW s \in Sessions, Commit(s)
       PROVE  TypeOK'
  <2>1. parent' \in [Communities -> Communities \cup {None}]
    BY <1>11 DEF Commit, TypeOK
  <2>2. state' \in [Memberships -> States]
    BY <1>11 DEF Commit, TypeOK, States
  <2> QED BY <1>11, <2>1, <2>2, EndTypeOK DEF Commit, TypeOK
<1>12. ASSUME NEW s \in Sessions, RunAway(s) \/ Abort(s)
       PROVE  TypeOK'
  BY <1>12, AbortTypeOK DEF RunAway
<1>13. CASE UNCHANGED vars
  BY <1>13 DEF vars, TypeOK
<1> QED
  BY <1>1, <1>2, <1>3, <1>4, <1>5, <1>6, <1>7, <1>8, <1>9, <1>10, <1>11,
     <1>12, <1>13 DEF Next, Step

(* Every reachable state of the cascade, whatever the interleaving of its
   requests, is well typed: the call stack holds frames whose point fits the
   type of their group, the marks are protocols. *)
THEOREM TypeCorrect == Spec => []TypeOK
<1> QED BY InitTypeOK, NextTypeOK, PTL DEF Spec

------------------------------------------------------------------------------
(* Members of a child community are members of its parent.                 *)
(*                                                                         *)
(* The invariant is not inductive: nothing in it says why the rows that a  *)
(* request is going to commit keep it.  The strengthening says, of every   *)
(* request, what it has stored and what its call stack still promises.     *)

(* What the request has read is still so, or somebody has withheld the
   membership since; no parent has been set behind its back. *)
RowsHold(s) ==
    \A m \in Memberships :
        /\ rows[s][m] = "active" => state[m] = "active" \/ m \in withheld
        /\ rows[s][m] # "none" => state[m] # "none" \/ m \in withheld

SnapshotHolds(s) ==
    /\ RowsHold(s)
    /\ \A c \in Communities : parent[c] # None => tree[s][c] = parent[c]
    /\ Serialised => rows[s] = state

(* A stored membership of a child has the parent's with it. *)
ParentsStored(s) ==
    \A u \in Users, c \in Communities :
        (<<u, c>> \in dirty[s] /\ tree[s][c] # None)
        => IsMember(s, u, tree[s][c])

(* A membership of a child that is about to be written has the parent's with
   it, or the frame above is saving it. *)
ParentsNested(s) ==
    \A i \in 1 .. Len(stack[s]) :
        (/\ stack[s][i].at = "write"
         /\ stack[s][i].group \in Communities
         /\ tree[s][stack[s][i].group] # None)
        => \/ IsMember(s, stack[s][i].user, tree[s][stack[s][i].group])
           \/ /\ i < Len(stack[s])
              /\ stack[s][i + 1].user = stack[s][i].user
              /\ stack[s][i + 1].group = tree[s][stack[s][i].group]

(* A request that sets d as the parent of c touches only users of c ... *)
OnlyUsersOfChild(s, c) ==
    /\ \A m \in todo[s] \cup dirty[s] : rows[s][<<m[1], c>>] # "none"
    /\ \A i \in 1 .. Len(stack[s]) : rows[s][<<stack[s][i].user, c>>] # "none"

(* ... and has added, is adding or will add each of them to d. *)
AllUsersOfChild(s, c, d) ==
    \A u \in Users :
        rows[s][<<u, c>>] # "none"
        => \/ IsMember(s, u, d)
           \/ <<u, d>> \in todo[s]
           \/ stack[s] # <<>> /\ stack[s][1].user = u /\ stack[s][1].group = d

EditHolds(s) ==
    edit[s] # None =>
        /\ edit[s] \in ParentChoices
        /\ OnlyUsersOfChild(s, edit[s][1])
        /\ AllUsersOfChild(s, edit[s][1], edit[s][2])

RequestHolds(s) == ParentsStored(s) /\ ParentsNested(s) /\ EditHolds(s)

ParentInvariant ==
    /\ TypeOK
    /\ ParentMembers
    /\ Serialised => \A s, t \in running : s = t
    /\ \A s \in Sessions \ running : dirty[s] = {}
    /\ \A s \in running : SnapshotHolds(s) /\ RequestHolds(s)

LEMMA InitParentInvariant == Init => ParentInvariant
<1> SUFFICES ASSUME Init PROVE ParentInvariant
  OBVIOUS
<1>1. TypeOK
  BY InitTypeOK
<1>2. ParentMembers
  BY DEF Init, ParentMembers, NoRows, Memberships, Groups
<1> QED BY <1>1, <1>2 DEF Init, ParentInvariant

(* The rows, trees and stacks of the other requests do not change ... *)
LEMMA OtherRequests ==
    ASSUME NEW t \in Sessions, RequestHolds(t),
           todo'[t] = todo[t], stack'[t] = stack[t], rows'[t] = rows[t],
           tree'[t] = tree[t], dirty'[t] = dirty[t], edit'[t] = edit[t]
    PROVE  RequestHolds(t)'
<1>1. ParentsStored(t)' /\ ParentsNested(t)'
  BY DEF RequestHolds, ParentsStored, ParentsNested, IsMember
<1>2. EditHolds(t)'
  BY DEF RequestHolds, EditHolds, IsMember, OnlyUsersOfChild, AllUsersOfChild
<1> QED BY <1>1, <1>2 DEF RequestHolds

(* ... so a step inside a request has to be looked at for its own request. *)
LEMMA InnerStep ==
    ASSUME ParentInvariant, TypeOK', NEW s \in running,
           UNCHANGED <<committed, running, rows, tree, edit, withheld>>,
           \A t \in Sessions \ {s} : /\ todo'[t] = todo[t]
                                     /\ stack'[t] = stack[t]
                                     /\ dirty'[t] = dirty[t],
           RequestHolds(s)'
    PROVE  ParentInvariant'
<1>1. s \in Sessions /\ running \subseteq Sessions
  BY DEF ParentInvariant, TypeOK
<1>2. ASSUME NEW t \in running PROVE RequestHolds(t)'
  BY <1>1, <1>2, OtherRequests DEF ParentInvariant
<1>3. ASSUME NEW t \in running PROVE SnapshotHolds(t)'
  BY <1>3 DEF ParentInvariant, SnapshotHolds, RowsHold, committed
<1>4. ParentMembers'
  BY DEF ParentInvariant, ParentMembers, committed
<1> QED BY <1>1, <1>2, <1>3, <1>4 DEF ParentInvariant, committed

(* A request that begins. *)
LEMMA BeginKeeps ==
    ASSUME ParentInvariant, TypeOK', NEW s \in Sessions,
           NEW ms, NEW frames, NEW e, NEW n, Begin(s, ms, frames, e, n),
           \A i \in 1 .. Len(frames) : frames[i].at # "write",
           e # None => /\ e \in ParentChoices
                       /\ frames = <<>>
                       /\ ms = {<<u, e[2]>> :
                                  u \in {v \in Users : state[<<v, e[1]>>] # "none"}}
    PROVE  ParentInvariant'
<1>1. /\ todo'[s] = ms
      /\ stack'[s] = frames
      /\ rows'[s] = state
      /\ tree'[s] = parent
      /\ dirty'[s] = {}
      /\ edit'[s] = e
  BY DEF Begin, CanStart, ParentInvariant, TypeOK
<1>2. SnapshotHolds(s)'
  BY <1>1 DEF Begin, SnapshotHolds, RowsHold, committed
<1>3. ParentsStored(s)' /\ ParentsNested(s)'
  BY <1>1 DEF ParentsStored, ParentsNested
<1>4. EditHolds(s)'
  <2>1. CASE e = None
    BY <1>1, <2>1 DEF EditHolds
  <2>2. CASE e # None
    <3>1. OnlyUsersOfChild(s, e[1])'
      <4>1. ASSUME NEW m \in ms PROVE state[<<m[1], e[1]>>] # "none"
        <5>1. PICK u \in {v \in Users : state[<<v, e[1]>>] # "none"} :
                     m = <<u, e[2]>>
          BY <2>2, <4>1
        <5> QED BY <5>1
      <4>2. todo'[s] \cup dirty'[s] = ms /\ Len(stack'[s]) = 0
        BY <1>1, <2>2
      <4> QED BY <1>1, <4>1, <4>2 DEF OnlyUsersOfChild
    <3>2. AllUsersOfChild(s, e[1], e[2])'
      BY <1>1, <2>2 DEF AllUsersOfChild
    <3> QED BY <1>1, <2>2, <3>1, <3>2 DEF EditHolds
  <2> QED BY <2>1, <2>2
<1>5. ASSUME NEW t \in running PROVE SnapshotHolds(t)' /\ RequestHolds(t)'
  <2>1. /\ t \in Sessions
        /\ t # s
        /\ SnapshotHolds(t)
        /\ RequestHolds(t)
    BY DEF ParentInvariant, TypeOK, Begin, CanStart
  <2>2. RequestHolds(t)'
    BY <2>1, OtherRequests DEF ParentInvariant, TypeOK, Begin
  <2>3. SnapshotHolds(t)'
    BY <2>1 DEF ParentInvariant, TypeOK, Begin, SnapshotHolds, RowsHold, committed
  <2> QED BY <2>2, <2>3
<1>6. ParentMembers'
  BY DEF ParentInvariant, ParentMembers, Begin, committed
<1>7. \A t \in running' : SnapshotHolds(t)' /\ RequestHolds(t)'
  BY <1>2, <1>3, <1>4, <1>5 DEF Begin, RequestHolds
<1>8. \A t \in Sessions \ running' : dirty'[t] = {}
  BY DEF ParentInvariant, Begin
<1>9. Serialised => \A t, r \in running' : t = r
  BY DEF Begin, CanStart
<1> QED BY <1>6, <1>7, <1>8, <1>9 DEF ParentInvariant

(* A hook that goes on, and perhaps saves another membership of its user. *)
LEMMA HookKeeps ==
    ASSUME TypeOK, NEW s \in Sessions, stack[s] # <<>>, RequestHolds(s),
           UNCHANGED <<todo, rows, tree, dirty, edit>>,
           Len(stack'[s]) \in {Len(stack[s]), Len(stack[s]) + 1},
           \A i \in 1 .. Len(stack[s]) :
                /\ stack'[s][i].user = stack[s][i].user
                /\ stack'[s][i].group = stack[s][i].group
                /\ i # Len(stack[s]) => stack'[s][i].at = stack[s][i].at,
           Len(stack'[s]) = Len(stack[s]) + 1 =>
                /\ stack'[s][Len(stack[s]) + 1].user = Top(s).user
                /\ stack'[s][Len(stack[s]) + 1].at # "write",
           (/\ stack'[s][Len(stack[s])].at = "write"
            /\ Top(s).group \in Communities
            /\ tree[s][Top(s).group] # None)
           => \/ IsMember(s, Top(s).user, tree[s][Top(s).group])
              \/ /\ Len(stack'[s]) = Len(stack[s]) + 1
                 /\ stack'[s][Len(stack[s]) + 1].group = tree[s][Top(s).group]
    PROVE  RequestHolds(s)'
<1> DEFINE n == Len(stack[s])
<1>1. n \in Nat \ {0} /\ Top(s) = stack[s][n]
  BY TopType DEF Top
<1>2. ParentsStored(s)'
  BY DEF RequestHolds, ParentsStored, IsMember
<1>3. ParentsNested(s)'
  <2> SUFFICES ASSUME NEW i \in 1 .. Len(stack'[s]),
                      stack'[s][i].at = "write",
                      stack'[s][i].group \in Communities,
                      tree[s][stack'[s][i].group] # None
               PROVE  \/ IsMember(s, stack'[s][i].user, tree[s][stack'[s][i].group])
                      \/ /\ i < Len(stack'[s])
                         /\ stack'[s][i + 1].user = stack'[s][i].user
                         /\ stack'[s][i + 1].group = tree[s][stack'[s][i].group]
    BY DEF ParentsNested, IsMember
  <2>1. CASE i < n
    <3>1. /\ i \in 1 .. n /\ i + 1 \in 1 .. n
          /\ stack'[s][i].user = stack[s][i].user
          /\ stack'[s][i].group = stack[s][i].group
          /\ stack[s][i].at = "write"
          /\ stack'[s][i + 1].user = stack[s][i + 1].user
          /\ stack'[s][i + 1].group = stack[s][i + 1].group
      BY <1>1, <2>1
    <3>2. \/ IsMember(s, stack[s][i].user, tree[s][stack[s][i].group])
          \/ /\ stack[s][i + 1].user = stack[s][i].user
             /\ stack[s][i + 1].group = tree[s][stack[s][i].group]
      BY <3>1 DEF RequestHolds, ParentsNested
    <3> QED BY <1>1, <2>1, <3>1, <3>2
  <2>2. CASE i = n
    BY <1>1, <2>2
  <2>3. CASE i > n
    BY <1>1, <2>3
  <2> QED BY <1>1, <2>1, <2>2, <2>3
<1>4. EditHolds(s)'
  <2> SUFFICES ASSUME edit[s] # None
               PROVE  /\ edit[s] \in ParentChoices
                      /\ OnlyUsersOfChild(s, edit[s][1])'
                      /\ AllUsersOfChild(s, edit[s][1], edit[s][2])'
    BY DEF EditHolds
  <2>1. /\ edit[s] \in ParentChoices
        /\ OnlyUsersOfChild(s, edit[s][1])
        /\ AllUsersOfChild(s, edit[s][1], edit[s][2])
    BY DEF RequestHolds, EditHolds
  <2>2. OnlyUsersOfChild(s, edit[s][1])'
    <3>1. ASSUME NEW i \in 1 .. Len(stack'[s])
          PROVE  \E j \in 1 .. n : stack'[s][i].user = stack[s][j].user
      <4>1. CASE i \in 1 .. n
        BY <4>1
      <4>2. CASE i = n + 1
        BY <1>1, <4>2
      <4> QED BY <1>1, <3>1, <4>1, <4>2
    <3>2. /\ \A i \in 1 .. n : rows[s][<<stack[s][i].user, edit[s][1]>>] # "none"
          /\ \A m \in todo[s] \cup dirty[s] : rows[s][<<m[1], edit[s][1]>>] # "none"
      BY <2>1 DEF OnlyUsersOfChild
    <3>3. \A i \in 1 .. Len(stack'[s]) :
             rows[s][<<stack'[s][i].user, edit[s][1]>>] # "none"
      BY <3>1, <3>2
    <3> QED BY <3>2, <3>3 DEF OnlyUsersOfChild
  <2>3. AllUsersOfChild(s, edit[s][1], edit[s][2])'
    <3>1. 1 \in 1 .. n /\ stack'[s] # <<>>
      BY <1>1
    <3> QED BY <1>1, <2>1, <3>1 DEF AllUsersOfChild, IsMember
  <2> QED BY <2>1, <2>2, <2>3
<1> QED BY <1>2, <1>3, <1>4 DEF RequestHolds

LEMMA NextMembershipKeeps ==
    ASSUME ParentInvariant, TypeOK', NEW s \in Sessions, NextMembership(s)
    PROVE  ParentInvariant'
<1>1. PICK m \in todo[s] :
         /\ todo' = [todo EXCEPT ![s] = @ \ {m}]
         /\ stack' = IF IsMember(s, m[1], m[2])
                     THEN stack
                     ELSE [stack EXCEPT ![s] = <<NewFrame(m[1], m[2])>>]
  BY DEF NextMembership
<1>2. /\ m \in Memberships /\ m[1] \in Users /\ m[2] \in Groups
      /\ m = <<m[1], m[2]>>
      /\ todo'[s] = todo[s] \ {m}
      /\ stack[s] = <<>>
      /\ RequestHolds(s)
  BY <1>1 DEF ParentInvariant, TypeOK, Memberships, NextMembership
<1>3. \/ IsMember(s, m[1], m[2]) /\ stack'[s] = <<>>
      \/ /\ stack'[s] # <<>>
         /\ Len(stack'[s]) = 1
         /\ stack'[s][1].user = m[1]
         /\ stack'[s][1].group = m[2]
         /\ stack'[s][1].at # "write"
  <2>1. CASE IsMember(s, m[1], m[2])
    BY <1>1, <1>2, <2>1
  <2>2. CASE ~IsMember(s, m[1], m[2])
    <3>1. stack'[s] = <<NewFrame(m[1], m[2])>>
      BY <1>1, <2>2 DEF ParentInvariant, TypeOK
    <3> QED BY <1>2, <3>1, NewFrameType
  <2> QED BY <2>1, <2>2
<1>4. ParentsStored(s)' /\ ParentsNested(s)'
  <2>1. ParentsStored(s)'
    BY <1>2 DEF RequestHolds, ParentsStored, IsMember, NextMembership
  <2>2. \A i \in 1 .. Len(stack'[s]) : stack'[s][i].at # "write"
    BY <1>3
  <2> QED BY <2>1, <2>2 DEF ParentsNested
<1>5. EditHolds(s)'
  <2> SUFFICES ASSUME edit[s] # None
               PROVE  /\ edit[s] \in ParentChoices
                      /\ OnlyUsersOfChild(s, edit[s][1])'
                      /\ AllUsersOfChild(s, edit[s][1], edit[s][2])'
    BY DEF EditHolds, NextMembership
  <2>1. /\ edit[s] \in ParentChoices
        /\ OnlyUsersOfChild(s, edit[s][1])
        /\ AllUsersOfChild(s, edit[s][1], edit[s][2])
    BY <1>2 DEF RequestHolds, EditHolds
  <2>2. OnlyUsersOfChild(s, edit[s][1])'
    <3>1. UNCHANGED <<rows, dirty, edit>> /\ todo'[s] \subseteq todo[s]
      BY <1>2 DEF NextMembership
    <3>2. rows[s][<<m[1], edit[s][1]>>] # "none"
      BY <1>1, <2>1 DEF OnlyUsersOfChild
    <3>3. \A i \in 1 .. Len(stack'[s]) : stack'[s][i].user = m[1]
      BY <1>3
    <3> QED BY <2>1, <3>1, <3>2, <3>3 DEF OnlyUsersOfChild
  <2>3. AllUsersOfChild(s, edit[s][1], edit[s][2])'
    <3> SUFFICES ASSUME NEW u \in Users, rows[s][<<u, edit[s][1]>>] # "none"
                 PROVE  \/ IsMember(s, u, edit[s][2])
                        \/ <<u, edit[s][2]>> \in todo'[s]
                        \/ /\ stack'[s] # <<>>
                           /\ stack'[s][1].user = u
                           /\ stack'[s][1].group = edit[s][2]
      BY DEF AllUsersOfChild, IsMember, NextMembership
    <3>1. IsMember(s, u, edit[s][2]) \/ <<u, edit[s][2]>> \in todo[s]
      BY <1>2, <2>1 DEF AllUsersOfChild
    <3>2. CASE m = <<u, edit[s][2]>>
      BY <1>3, <3>2
    <3>3. CASE m # <<u, edit[s][2]>>
      BY <1>2, <3>1, <3>3
    <3> QED BY <3>2, <3>3
  <2> QED BY <2>1, <2>2, <2>3
<1>6. \A t \in Sessions \ {s} : /\ todo'[t] = todo[t]
                                /\ stack'[t] = stack[t]
                                /\ dirty'[t] = dirty[t]
  BY <1>1 DEF ParentInvariant, TypeOK, NextMembership
<1>7. RequestHolds(s)'
  BY <1>4, <1>5 DEF RequestHolds
<1> QED BY <1>6, <1>7, InnerStep DEF NextMembership

LEMMA AddDefaultProtocolKeeps ==
    ASSUME ParentInvariant, TypeOK', NEW s \in Sessions, AddDefaultProtocol(s)
    PROVE  ParentInvariant'
<1> DEFINE n == Len(stack[s])
           p == DefaultOf[Top(s).group]
<1>1. /\ TypeOK
      /\ stack[s] # <<>>
      /\ Top(s).user \in Users
      /\ Top(s).group \in Communities
      /\ [Top(s) EXCEPT !.at = "parent"] \in Frame
      /\ n \in Nat \ {0}
      /\ RequestHolds(s)
  BY DefaultFrame, TopType DEF AddDefaultProtocol, At, ParentInvariant
<1>2. CASE DefaultNeeded(s)
  <2>1. /\ Call(s, "parent", Top(s).user, p)
        /\ p \in Groups
    BY <1>1, <1>2, GroupsAssumption DEF AddDefaultProtocol, DefaultNeeded, Groups
  <2>2. /\ \A t \in Sessions \ {s} : stack'[t] = stack[t]
        /\ Len(stack'[s]) = n + 1
        /\ stack'[s][n + 1] = NewFrame(Top(s).user, p)
        /\ \A i \in 1 .. n :
             /\ stack'[s][i].user = stack[s][i].user
             /\ stack'[s][i].group = stack[s][i].group
             /\ stack'[s][i].at = IF i = n THEN "parent" ELSE stack[s][i].at
    BY <1>1, <2>1, CallStack
  <2>3. /\ stack'[s][n + 1].user = Top(s).user
        /\ stack'[s][n + 1].group = p
        /\ stack'[s][n + 1].at # "write"
    BY <1>1, <2>1, <2>2, NewFrameType
  <2>4. UNCHANGED <<todo, rows, tree, dirty, edit>>
    BY DEF AddDefaultProtocol
  <2>5. RequestHolds(s)'
    <3>1. stack'[s][n].at # "write"
      BY <1>1, <2>2
    <3>2. \A i \in 1 .. n : /\ stack'[s][i].user = stack[s][i].user
                            /\ stack'[s][i].group = stack[s][i].group
                            /\ i # n => stack'[s][i].at = stack[s][i].at
      BY <2>2
    <3> QED BY <1>1, <2>2, <2>3, <2>4, <3>1, <3>2, HookKeeps
  <2> QED BY <2>2, <2>5, InnerStep DEF AddDefaultProtocol, At
<1>3. CASE ~DefaultNeeded(s)
  <2>1. Continue(s, "parent")
    BY <1>3 DEF AddDefaultProtocol
  <2>2. RequestHolds(s)'
    BY <1>1, <2>1, ContinueStack, HookKeeps DEF AddDefaultProtocol
  <2> QED BY <1>1, <2>1, <2>2, ContinueStack, InnerStep DEF AddDefaultProtocol, At
<1> QED BY <1>2, <1>3

LEMMA AddParentCommunityKeeps ==
    ASSUME ParentInvariant, TypeOK', NEW s \in Sessions, AddParentCommunity(s)
    PROVE  ParentInvariant'
<1> DEFINE n == Len(stack[s])
           d == tree[s][Top(s).group]
<1>1. /\ TypeOK
      /\ stack[s] # <<>>
      /\ Top(s).user \in Users
      /\ Top(s).group \in Communities
      /\ [Top(s) EXCEPT !.at = "write"] \in Frame
      /\ n \in Nat \ {0}
      /\ RequestHolds(s)
  BY ParentFrame, TopType DEF AddParentCommunity, At, ParentInvariant
<1>2. CASE ParentNeeded(s)
  <2>1. /\ Call(s, "write", Top(s).user, d)
        /\ d \in Groups
    BY <1>1, <1>2 DEF AddParentCommunity, ParentNeeded, TypeOK, Groups
  <2>2. /\ \A t \in Sessions \ {s} : stack'[t] = stack[t]
        /\ Len(stack'[s]) = n + 1
        /\ stack'[s][n + 1] = NewFrame(Top(s).user, d)
        /\ \A i \in 1 .. n :
             /\ stack'[s][i].user = stack[s][i].user
             /\ stack'[s][i].group = stack[s][i].group
             /\ stack'[s][i].at = IF i = n THEN "write" ELSE stack[s][i].at
    BY <1>1, <2>1, CallStack
  <2>3. /\ stack'[s][n + 1].user = Top(s).user
        /\ stack'[s][n + 1].group = d
        /\ stack'[s][n + 1].at # "write"
    BY <1>1, <2>1, <2>2, NewFrameType
  <2>4. UNCHANGED <<todo, rows, tree, dirty, edit>>
    BY DEF AddParentCommunity
  <2>5. RequestHolds(s)'
    BY <1>1, <2>2, <2>3, <2>4, HookKeeps
  <2> QED BY <2>2, <2>5, InnerStep DEF AddParentCommunity, At
<1>3. CASE ~ParentNeeded(s)
  <2>1. Continue(s, "write") /\ (d = None \/ IsMember(s, Top(s).user, d))
    BY <1>3 DEF AddParentCommunity, ParentNeeded
  <2>2. RequestHolds(s)'
    BY <1>1, <2>1, ContinueStack, HookKeeps DEF AddParentCommunity
  <2> QED BY <1>1, <2>1, <2>2, ContinueStack, InnerStep DEF AddParentCommunity, At
<1> QED BY <1>2, <1>3

LEMMA AddCommunityKeeps ==
    ASSUME ParentInvariant, TypeOK', NEW s \in Sessions, AddCommunity(s)
    PROVE  ParentInvariant'
<1> DEFINE n == Len(stack[s])
           c == CommunityOf[Top(s).group]
<1>1. /\ TypeOK
      /\ stack[s] # <<>>
      /\ Top(s).user \in Users
      /\ Top(s).group \in Protocols
      /\ Top(s).group \notin Communities
      /\ [Top(s) EXCEPT !.at = "write"] \in Frame
      /\ n \in Nat \ {0}
      /\ RequestHolds(s)
  BY CommunityFrame, TopType, GroupsAssumption
     DEF AddCommunity, At, ParentInvariant
<1>2. CASE CommunityNeeded(s)
  <2>1. /\ Call(s, "write", Top(s).user, c)
        /\ c \in Groups
    BY <1>1, <1>2, GroupsAssumption DEF AddCommunity, Groups
  <2>2. /\ \A t \in Sessions \ {s} : stack'[t] = stack[t]
        /\ Len(stack'[s]) = n + 1
        /\ stack'[s][n + 1] = NewFrame(Top(s).user, c)
        /\ \A i \in 1 .. n :
             /\ stack'[s][i].user = stack[s][i].user
             /\ stack'[s][i].group = stack[s][i].group
             /\ stack'[s][i].at = IF i = n THEN "write" ELSE stack[s][i].at
    BY <1>1, <2>1, CallStack
  <2>3. /\ stack'[s][n + 1].user = Top(s).user
        /\ stack'[s][n + 1].group = c
        /\ stack'[s][n + 1].at # "write"
    BY <1>1, <2>1, <2>2, NewFrameType
  <2>4. UNCHANGED <<todo, rows, tree, dirty, edit>>
    BY DEF AddCommunity
  <2>5. RequestHolds(s)'
    BY <1>1, <2>2, <2>3, <2>4, HookKeeps
  <2> QED BY <2>2, <2>5, InnerStep DEF AddCommunity, At
<1>3. CASE ~CommunityNeeded(s)
  <2>1. Continue(s, "write")
    BY <1>3 DEF AddCommunity
  <2>2. RequestHolds(s)'
    BY <1>1, <2>1, ContinueStack, HookKeeps DEF AddCommunity
  <2> QED BY <1>1, <2>1, <2>2, ContinueStack, InnerStep DEF AddCommunity, At
<1> QED BY <1>2, <1>3

LEMMA WriteKeeps ==
    ASSUME ParentInvariant, TypeOK', NEW s \in Sessions, Write(s)
    PROVE  ParentInvariant'
<1> DEFINE n == Len(stack[s])
           Later(v, h) == <<v, h>> \in dirty'[s] \/ rows[s][<<v, h>>] = "active"
<1> PICK u, g : u = Top(s).user /\ g = Top(s).group
  OBVIOUS
<1>1. /\ TypeOK
      /\ RequestHolds(s)
      /\ Top(s) = stack[s][n]
      /\ Top(s).at = "write"
  BY DEF ParentInvariant, Write, At, Top
<1>2. /\ stack[s] # <<>>
      /\ n \in Nat \ {0}
      /\ Len(stack'[s]) = n - 1
      /\ \A i \in 1 .. n - 1 : stack'[s][i] = stack[s][i]
      /\ \A t \in Sessions \ {s} : stack'[t] = stack[t]
  BY <1>1, WriteStack, TopType
<1>3. /\ dirty'[s] = dirty[s] \cup {<<u, g>>}
      /\ \A t \in Sessions \ {s} : dirty'[t] = dirty[t]
      /\ UNCHANGED <<todo, rows, tree, edit>>
  BY <1>1 DEF Write, TypeOK
<1>4. \A v, h : IsMember(s, v, h) => Later(v, h)
  BY <1>3 DEF IsMember
<1>5. Later(u, g)
  BY <1>3
<1> HIDE DEF n, Later
<1>6. ParentsStored(s)'
  <2> SUFFICES ASSUME NEW v \in Users, NEW c \in Communities,
                      <<v, c>> \in dirty'[s], tree[s][c] # None
               PROVE  Later(v, tree[s][c])
    BY <1>3 DEF ParentsStored, IsMember, Later
  <2>1. CASE <<v, c>> \in dirty[s]
    BY <1>1, <1>4, <2>1 DEF RequestHolds, ParentsStored
  <2>2. CASE v = u /\ c = g
    <3>1. IsMember(s, v, tree[s][c])
      BY <1>1, <1>2, <2>2 DEF RequestHolds, ParentsNested, n
    <3> QED BY <1>4, <3>1
  <2> QED BY <1>3, <2>1, <2>2
<1>7. ParentsNested(s)'
  <2> SUFFICES ASSUME NEW i \in 1 .. n - 1,
                      stack[s][i].at = "write",
                      stack[s][i].group \in Communities,
                      tree[s][stack[s][i].group] # None
               PROVE  \/ Later(stack[s][i].user, tree[s][stack[s][i].group])
                      \/ /\ i < n - 1
                         /\ stack[s][i + 1].user = stack[s][i].user
                         /\ stack[s][i + 1].group = tree[s][stack[s][i].group]
    <3>1. \A k \in 1 .. n - 1 :
            /\ stack'[s][k] = stack[s][k]
            /\ k < n - 1 => stack'[s][k + 1] = stack[s][k + 1]
      BY <1>2
    <3>2. Len(stack'[s]) = n - 1 /\ tree' = tree
      BY <1>2, <1>3
    <3>3. \A v, h : IsMember(s, v, h)' <=> Later(v, h)
      BY <1>3 DEF IsMember, Later
    <3> QED BY <3>1, <3>2, <3>3 DEF ParentsNested
  <2>1. \/ IsMember(s, stack[s][i].user, tree[s][stack[s][i].group])
        \/ /\ stack[s][i + 1].user = stack[s][i].user
           /\ stack[s][i + 1].group = tree[s][stack[s][i].group]
    BY <1>1, <1>2 DEF RequestHolds, ParentsNested, n
  <2>2. CASE i = n - 1
    <3>1. stack[s][i + 1] = Top(s)
      BY <1>1, <1>2, <2>2
    <3> QED BY <1>3, <1>4, <1>5, <2>1, <3>1
  <2>3. CASE i < n - 1
    BY <1>4, <2>1, <2>3
  <2> QED BY <1>2, <2>2, <2>3
<1>8. EditHolds(s)'
  <2> SUFFICES ASSUME edit[s] # None
               PROVE  /\ edit[s] \in ParentChoices
                      /\ OnlyUsersOfChild(s, edit[s][1])'
                      /\ AllUsersOfChild(s, edit[s][1], edit[s][2])'
    BY <1>3 DEF EditHolds
  <2>1. /\ edit[s] \in ParentChoices
        /\ OnlyUsersOfChild(s, edit[s][1])
        /\ AllUsersOfChild(s, edit[s][1], edit[s][2])
    BY <1>1 DEF RequestHolds, EditHolds
  <2>2. OnlyUsersOfChild(s, edit[s][1])'
    <3>1. rows[s][<<u, edit[s][1]>>] # "none"
      BY <1>1, <1>2, <2>1 DEF OnlyUsersOfChild, n
    <3>2. \A m \in todo[s] \cup dirty'[s] : rows[s][<<m[1], edit[s][1]>>] # "none"
      BY <1>3, <2>1, <3>1 DEF OnlyUsersOfChild
    <3>3. \A i \in 1 .. n - 1 :
             rows[s][<<stack'[s][i].user, edit[s][1]>>] # "none"
      BY <1>2, <2>1 DEF OnlyUsersOfChild, n
    <3> QED BY <1>2, <1>3, <3>2, <3>3 DEF OnlyUsersOfChild
  <2>3. AllUsersOfChild(s, edit[s][1], edit[s][2])'
    <3> SUFFICES ASSUME NEW v \in Users, rows[s][<<v, edit[s][1]>>] # "none"
                 PROVE  \/ Later(v, edit[s][2])
                        \/ <<v, edit[s][2]>> \in todo[s]
                        \/ /\ stack'[s] # <<>>
                           /\ stack'[s][1].user = v
                           /\ stack'[s][1].group = edit[s][2]
      BY <1>3 DEF AllUsersOfChild, IsMember, Later
    <3>1. \/ IsMember(s, v, edit[s][2])
          \/ <<v, edit[s][2]>> \in todo[s]
          \/ /\ stack[s][1].user = v
             /\ stack[s][1].group = edit[s][2]
      BY <2>1 DEF AllUsersOfChild
    <3>2. CASE n = 1
      BY <1>1, <1>3, <1>4, <1>5, <3>1, <3>2
    <3>3. CASE n > 1
      <4>1. stack'[s] # <<>> /\ stack'[s][1] = stack[s][1]
        BY <1>2, <3>3
      <4> QED BY <1>4, <3>1, <4>1
    <3> QED BY <1>2, <3>2, <3>3
  <2> QED BY <2>1, <2>2, <2>3
<1>9. RequestHolds(s)'
  BY <1>6, <1>7, <1>8 DEF RequestHolds
<1> QED BY <1>2, <1>3, <1>9, InnerStep DEF Write, At

(* The requests of one step: the parent is emptied, or one membership is
   withheld. *)
LEMMA SingleStepKeeps ==
    ASSUME ParentInvariant, TypeOK', NEW s \in Sessions,
           \/ \E c \in Communities : ClearParent(s, c)
           \/ \E u \in Users, g \in Groups : SaveInactive(s, u, g) \/ Remove(s, u, g)
    PROVE  ParentInvariant'
<1>1. UNCHANGED <<running, todo, stack, rows, tree, dirty, edit>>
  BY DEF ClearParent, SaveInactive, Remove, local
<1>2. Serialised => running = {}
  BY DEF ClearParent, SaveInactive, Remove, CanStart
<1>3. ASSUME NEW t \in running PROVE RequestHolds(t)'
  BY <1>1, <1>3, OtherRequests DEF ParentInvariant, TypeOK
<1>4. CASE \E c \in Communities : ClearParent(s, c)
  <2>1. PICK c \in Communities : ClearParent(s, c)
    BY <1>4
  <2>2. /\ parent' = [parent EXCEPT ![c] = None]
        /\ UNCHANGED <<state, withheld>>
    BY <2>1 DEF ClearParent
  <2>3. ParentMembers'
    BY <2>2 DEF ParentInvariant, TypeOK, ParentMembers
  <2>4. ASSUME NEW t \in running PROVE SnapshotHolds(t)'
    BY <1>1, <1>2, <2>2, <2>4 DEF ParentInvariant, TypeOK, SnapshotHolds, RowsHold
  <2> QED BY <1>1, <1>3, <2>3, <2>4 DEF ParentInvariant
<1>5. CASE \E u \in Users, g \in Groups : SaveInactive(s, u, g) \/ Remove(s, u, g)
  <2>1. PICK u \in Users, g \in Groups : SaveInactive(s, u, g) \/ Remove(s, u, g)
    BY <1>5
  <2>2. PICK x \in {"none", "inactive"} :
           /\ state' = [state EXCEPT ![<<u, g>>] = x]
           /\ withheld' = withheld \cup {<<u, g>>}
           /\ parent' = parent
    BY <2>1 DEF SaveInactive, Remove
  <2>3. /\ \A m \in Memberships : state'[m] = IF m = <<u, g>> THEN x ELSE state[m]
        /\ \A v \in Users, c \in Communities : <<v, c>> \in Memberships
        /\ \A c \in Communities : parent[c] # None => parent[c] \in Communities
    BY <2>2 DEF ParentInvariant, TypeOK, Memberships, Groups
  <2>4. ParentMembers'
    BY <2>2, <2>3 DEF ParentInvariant, ParentMembers
  <2>5. ASSUME NEW t \in running PROVE SnapshotHolds(t)'
    BY <1>1, <1>2, <2>2, <2>3, <2>5 DEF ParentInvariant, SnapshotHolds, RowsHold
  <2> QED BY <1>1, <1>3, <2>4, <2>5 DEF ParentInvariant
<1> QED BY <1>4, <1>5

(* A request that has stored all it promised commits. *)
LEMMA CommitKeeps ==
    ASSUME ParentInvariant, TypeOK', Serialised \/ ParentChoices = {},
           NEW s \in Sessions, Commit(s)
    PROVE  ParentInvariant'
<1>1. /\ s \in running
      /\ TypeOK
      /\ SnapshotHolds(s)
      /\ RequestHolds(s)
      /\ running' = running \ {s}
      /\ stack[s] = <<>>
      /\ todo[s] = {}
      /\ dirty' = [dirty EXCEPT ![s] = {}]
  BY DEF ParentInvariant, Commit, End
<1>2. \A m \in Memberships :
         /\ state'[m] = IF Stored(s, m) THEN "active" ELSE state[m]
         /\ m \in withheld' <=> m \in withheld /\ ~Stored(s, m)
  BY DEF Commit
(* What the request counts as a member is one now, or withheld. *)
<1>3. ASSUME NEW m \in Memberships, m \in dirty[s] \/ rows[s][m] = "active"
      PROVE  state'[m] = "active" \/ m \in withheld'
  <2>1. CASE Stored(s, m)
    BY <1>2, <2>1
  <2>2. CASE ~Stored(s, m) /\ m \in dirty[s]
    BY <1>1, <1>2, <2>2 DEF Stored, SnapshotHolds, RowsHold
  <2>3. CASE ~Stored(s, m) /\ rows[s][m] = "active"
    BY <1>1, <1>2, <2>3 DEF SnapshotHolds, RowsHold
  <2> QED BY <1>3, <2>1, <2>2, <2>3
<1>4. /\ \A v \in Users, c \in Communities : <<v, c>> \in Memberships
      /\ parent' \in [Communities -> Communities \cup {None}]
  BY DEF TypeOK, Memberships, Groups
<1>5. ParentMembers'
  <2> SUFFICES ASSUME NEW u \in Users, NEW c \in Communities,
                      NEW d \in Communities, parent'[c] = d,
                      state'[<<u, c>>] = "active", <<u, d>> \notin withheld'
               PROVE  state'[<<u, d>>] = "active"
    BY <1>4 DEF ParentMembers
  <2>1. CASE edit[s] # None /\ c = edit[s][1]
    <3>1. /\ edit[s] \in ParentChoices
          /\ d = edit[s][2]
          /\ Serialised
          /\ rows[s] = state
      BY <1>1, <2>1 DEF RequestHolds, EditHolds, SnapshotHolds, RowsHold, Commit, TypeOK
    <3>2. rows[s][<<u, c>>] # "none"
      <4>1. CASE Stored(s, <<u, c>>)
        BY <1>1, <2>1, <4>1 DEF Stored, RequestHolds, EditHolds, OnlyUsersOfChild
      <4>2. CASE ~Stored(s, <<u, c>>)
        BY <1>2, <1>4, <3>1, <4>2
      <4> QED BY <4>1, <4>2
    <3>3. IsMember(s, u, d)
      BY <1>1, <2>1, <3>1, <3>2 DEF RequestHolds, EditHolds, AllUsersOfChild
    <3> QED BY <1>3, <1>4, <3>3 DEF IsMember
  <2>2. CASE edit[s] = None \/ c # edit[s][1]
    <3>1. parent[c] = d
      BY <2>2 DEF Commit, TypeOK
    <3>2. CASE Stored(s, <<u, c>>)
      <4>1. tree[s][c] = d /\ d # None
        BY <1>1, <3>1, GroupsAssumption DEF SnapshotHolds, RowsHold, Groups
      <4>2. IsMember(s, u, d)
        BY <1>1, <3>2, <4>1 DEF Stored, RequestHolds, ParentsStored
      <4> QED BY <1>3, <1>4, <4>2 DEF IsMember
    <3>3. CASE ~Stored(s, <<u, c>>)
      <4>1. state[<<u, c>>] = "active" /\ d # None
        BY <1>2, <1>4, <3>3, GroupsAssumption DEF Groups
      <4>2. state[<<u, d>>] = "active" \/ <<u, d>> \in withheld
        BY <3>1, <4>1 DEF ParentInvariant, ParentMembers
      <4> QED BY <1>2, <1>4, <4>2
    <3> QED BY <3>2, <3>3
  <2> QED BY <2>1, <2>2
<1>6. ASSUME NEW t \in running \ {s} PROVE SnapshotHolds(t)' /\ RequestHolds(t)'
  <2>1. /\ t \in Sessions /\ t # s
        /\ ~Serialised
        /\ SnapshotHolds(t)
        /\ RequestHolds(t)
    BY <1>1 DEF ParentInvariant, TypeOK
  <2>2. edit[s] = None /\ parent' = parent
    BY <1>1, <2>1 DEF RequestHolds, EditHolds, Commit
  <2>3. /\ todo'[t] = todo[t] /\ stack'[t] = stack[t] /\ rows'[t] = rows[t]
        /\ tree'[t] = tree[t] /\ dirty'[t] = dirty[t] /\ edit'[t] = edit[t]
    BY <1>1, <2>1 DEF Commit, End, TypeOK
  <2>4. RequestHolds(t)'
    BY <2>1, <2>3, OtherRequests
  <2>5. SnapshotHolds(t)'
    BY <1>2, <2>1, <2>2, <2>3 DEF SnapshotHolds, RowsHold
  <2> QED BY <2>4, <2>5
<1> QED BY <1>1, <1>5, <1>6 DEF ParentInvariant, TypeOK

LEMMA AbortKeeps ==
    ASSUME ParentInvariant, TypeOK', NEW s \in Sessions, Abort(s)
    PROVE  ParentInvariant'
<1>1. /\ running' = running \ {s}
      /\ dirty' = [dirty EXCEPT ![s] = {}]
      /\ UNCHANGED <<parent, state, withheld>>
  BY DEF Abort, End, committed
<1>2. ASSUME NEW t \in running \ {s} PROVE SnapshotHolds(t)' /\ RequestHolds(t)'
  <2>1. /\ t \in Sessions /\ t # s
        /\ SnapshotHolds(t)
        /\ RequestHolds(t)
    BY DEF ParentInvariant, TypeOK
  <2>2. /\ todo'[t] = todo[t] /\ stack'[t] = stack[t] /\ rows'[t] = rows[t]
        /\ tree'[t] = tree[t] /\ dirty'[t] = dirty[t] /\ edit'[t] = edit[t]
    BY <2>1 DEF Abort, End, ParentInvariant, TypeOK
  <2>3. RequestHolds(t)'
    BY <2>1, <2>2, OtherRequests
  <2>4. SnapshotHolds(t)'
    BY <1>1, <2>1, <2>2 DEF SnapshotHolds, RowsHold
  <2> QED BY <2>3, <2>4
<1>3. ParentMembers'
  BY <1>1 DEF ParentInvariant, ParentMembers
<1> QED BY <1>1, <1>2, <1>3 DEF ParentInvariant, TypeOK

LEMMA NextParentInvariant ==
    ASSUME Serialised \/ ParentChoices = {}, ParentInvariant, [Next]_vars
    PROVE  ParentInvariant'
<1>1. TypeOK'
  BY NextTypeOK DEF ParentInvariant
<1>2. ASSUME NEW s \in Sessions, NEW u \in Users, NEW g \in Groups, Join(s, u, g)
      PROVE  ParentInvariant'
  <2>1. \A i \in 1 .. Len(<<NewFrame(u, g)>>) : <<NewFrame(u, g)>>[i].at # "write"
    BY NewFrameType
  <2> QED BY <1>1, <1>2, <2>1, BeginKeeps DEF Join
<1>3. ASSUME NEW s \in Sessions, NEW u \in Users, Register(s, u)
      PROVE  ParentInvariant'
  BY <1>1, <1>3, BeginKeeps DEF Register
<1>4. ASSUME NEW s \in Sessions, NEW c \in Communities, NEW d \in Communities,
             SetParent(s, c, d)
      PROVE  ParentInvariant'
  <2> DEFINE e == <<c, d>>
             ms == {<<u, e[2]>> : u \in {v \in Users : state[<<v, e[1]>>] # "none"}}
  <2>1. Begin(s, ms, <<>>, e, None) /\ e \in ParentChoices
    BY <1>4 DEF SetParent
  <2>2. \A i \in 1 .. Len(<<>>) : <<>>[i].at # "write"
    OBVIOUS
  <2> HIDE DEF e
  <2> QED BY <1>1, <2>1, <2>2, BeginKeeps
<1>5. ASSUME NEW s \in Sessions,
             \/ \E c \in Communities : ClearParent(s, c)
             \/ \E u \in Users, g \in Groups : SaveInactive(s, u, g) \/ Remove(s, u, g)
      PROVE  ParentInvariant'
  BY <1>1, <1>5, SingleStepKeeps
<1>6. ASSUME NEW s \in Sessions, Step(s) \/ Abort(s)
      PROVE  ParentInvariant'
  BY <1>1, <1>6, NextMembershipKeeps, AddDefaultProtocolKeeps,
     AddParentCommunityKeeps, AddCommunityKeeps, WriteKeeps, CommitKeeps,
     AbortKeeps DEF Step, RunAway
<1>7. CASE UNCHANGED vars
  <2>1. ASSUME NEW t \in running PROVE SnapshotHolds(t)' /\ RequestHolds(t)'
    <3>1. t \in Sessions /\ SnapshotHolds(t) /\ RequestHolds(t)
      BY DEF ParentInvariant, TypeOK
    <3>2. RequestHolds(t)'
      BY <1>7, <3>1, OtherRequests DEF vars
    <3>3. SnapshotHolds(t)'
      BY <1>7, <3>1 DEF vars, SnapshotHolds, RowsHold
    <3> QED BY <3>2, <3>3
  <2>2. ParentMembers'
    BY <1>7 DEF vars, ParentInvariant, ParentMembers
  <2> QED BY <1>1, <1>7, <2>1, <2>2 DEF vars, ParentInvariant
<1> QED BY <1>2, <1>3, <1>4, <1>5, <1>6, <1>7 DEF Next

(* Members of a child community are members of its parent (unless someone
   withheld that membership), however deep the hierarchy, whatever the marks
   of the sessions and whichever requests die: if requests do not overlap, or
   if nobody sets a parent while they do. *)
THEOREM ParentMembersHold ==
    ASSUME Serialised \/ ParentChoices = {}
    PROVE  Spec => []ParentMembers
<1>1. ParentInvariant => ParentMembers
  BY DEF ParentInvariant
<1>2. ParentInvariant /\ [Next]_vars => ParentInvariant'
  BY NextParentInvariant
<1> QED BY <1>1, <1>2, InitParentInvariant, PTL DEF Spec

------------------------------------------------------------------------------
(* Communities on a cycle of parents take nobody in.                       *)
(*                                                                         *)
(* A membership is written only when the parent's is there (ParentsNested). *)
(* So the first one of a cycle that a request writes needs another one of  *)
(* the same cycle that it found active.                                    *)

LEMMA WriteFindsCycle ==
    ASSUME ParentInvariant, CyclesTakeNobodyIn, NEW s \in Sessions, Write(s),
           NEW u \in Users, NEW S \in SUBSET Communities,
           \A c \in S : tree[s][c] \in S,
           NEW d \in S, <<u, d>> \in dirty'[s]
    PROVE  \E c \in S : rows[s][<<u, c>>] = "active"
<1> DEFINE n == Len(stack[s])
<1>1. /\ TypeOK
      /\ s \in running
      /\ stack[s] # <<>>
      /\ Top(s) = stack[s][n]
      /\ Top(s).at = "write"
      /\ dirty'[s] = dirty[s] \cup {<<Top(s).user, Top(s).group>>}
  BY DEF ParentInvariant, TypeOK, Write, At, Top
<1>2. CASE <<u, d>> \in dirty[s]
  BY <1>2 DEF CyclesTakeNobodyIn
<1>3. CASE <<u, d>> \notin dirty[s]
  <2>1. Top(s).user = u /\ Top(s).group = d
    BY <1>1, <1>3
  <2>2. d \in Communities /\ tree[s][d] \in S /\ tree[s][d] # None
    BY GroupsAssumption DEF Groups
  <2>3. n \in 1 .. Len(stack[s]) /\ ~(n < Len(stack[s]))
    BY <1>1 DEF TypeOK
  <2>4. ParentsNested(s)
    BY <1>1 DEF ParentInvariant, RequestHolds
  <2>5. IsMember(s, u, tree[s][d])
    BY <1>1, <2>1, <2>2, <2>3, <2>4 DEF ParentsNested
  <2>6. CASE <<u, tree[s][d]>> \in dirty[s]
    BY <2>2, <2>6 DEF CyclesTakeNobodyIn
  <2>7. CASE rows[s][<<u, tree[s][d]>>] = "active"
    BY <2>2, <2>7
  <2> QED BY <2>5, <2>6, <2>7 DEF IsMember
<1> QED BY <1>2, <1>3

LEMMA NextCyclesTakeNobodyIn ==
    ParentInvariant /\ CyclesTakeNobodyIn /\ [Next]_vars => CyclesTakeNobodyIn'
<1> SUFFICES ASSUME ParentInvariant, CyclesTakeNobodyIn, [Next]_vars,
                    NEW s \in Sessions, NEW u \in Users,
                    NEW S \in SUBSET Communities,
                    \A c \in S : tree'[s][c] \in S,
                    NEW d \in S, <<u, d>> \in dirty'[s]
             PROVE  \E c \in S : rows'[s][<<u, c>>] = "active"
  BY DEF CyclesTakeNobodyIn
<1>1. \/ dirty'[s] = {}
      \/ dirty'[s] = dirty[s] /\ tree'[s] = tree[s] /\ rows'[s] = rows[s]
      \/ Write(s)
  <2>1. TypeOK /\ \A t \in Sessions \ running : dirty[t] = {}
    BY DEF ParentInvariant
  <2>2. ASSUME NEW t \in Sessions, NEW ms, NEW frames, NEW e, NEW n,
               Begin(t, ms, frames, e, n)
        PROVE  \/ dirty'[s] = {}
               \/ dirty'[s] = dirty[s] /\ tree'[s] = tree[s] /\ rows'[s] = rows[s]
    BY <2>1, <2>2 DEF Begin, CanStart, TypeOK
  <2>3. ASSUME NEW t \in Sessions, End(t)
        PROVE  \/ dirty'[s] = {}
               \/ dirty'[s] = dirty[s] /\ tree'[s] = tree[s] /\ rows'[s] = rows[s]
    BY <2>1, <2>3 DEF End, TypeOK
  <2>4. ASSUME NEW t \in Sessions,
               \/ \E v \in Users, g \in Groups : Join(t, v, g)
               \/ \E v \in Users : Register(t, v)
               \/ \E c, e \in Communities : SetParent(t, c, e)
        PROVE  \/ dirty'[s] = {}
               \/ dirty'[s] = dirty[s] /\ tree'[s] = tree[s] /\ rows'[s] = rows[s]
    BY <2>2, <2>4 DEF Join, Register, SetParent
  <2>5. ASSUME NEW t \in Sessions,
               \/ \E c \in Communities : ClearParent(t, c)
               \/ \E v \in Users, g \in Groups :
                     SaveInactive(t, v, g) \/ Remove(t, v, g)
        PROVE  dirty' = dirty /\ tree' = tree /\ rows' = rows
    BY <2>5 DEF ClearParent, SaveInactive, Remove, local
  <2>6. ASSUME NEW t \in Sessions, Commit(t) \/ Abort(t) \/ RunAway(t)
        PROVE  End(t)
    BY <2>6 DEF Commit, Abort, RunAway
  <2>7. ASSUME NEW t \in Sessions,
               \/ NextMembership(t)
               \/ AddDefaultProtocol(t)
               \/ AddParentCommunity(t)
               \/ AddCommunity(t)
        PROVE  dirty' = dirty /\ tree' = tree /\ rows' = rows
    BY <2>7 DEF NextMembership, AddDefaultProtocol, AddParentCommunity,
                AddCommunity
  <2>8. ASSUME NEW t \in Sessions, Write(t), t # s
        PROVE  dirty'[s] = dirty[s] /\ tree' = tree /\ rows' = rows
    BY <2>1, <2>8 DEF Write, TypeOK
  <2>9. CASE UNCHANGED vars
    BY <2>9 DEF vars, local
  <2> QED BY <2>3, <2>4, <2>5, <2>6, <2>7, <2>8, <2>9 DEF Next, Step
<1>2. CASE dirty'[s] = dirty[s] /\ tree'[s] = tree[s] /\ rows'[s] = rows[s]
  BY <1>2 DEF CyclesTakeNobodyIn
<1>3. CASE Write(s)
  <2>1. tree' = tree /\ rows' = rows
    BY <1>3 DEF Write
  <2> QED BY <1>3, <2>1, WriteFindsCycle
<1> QED BY <1>1, <1>2, <1>3

(* Communities whose parents form a cycle take nobody in, for any number of
   communities, users and sessions and whatever the marks: a request stores a
   user in one of them only if it found him an active member of one of them.
   The hypothesis is the one of ParentMembersHold. *)
THEOREM CyclesStayShut ==
    ASSUME Serialised \/ ParentChoices = {}
    PROVE  Spec => []CyclesTakeNobodyIn
<1>1. Init => CyclesTakeNobodyIn
  BY DEF Init, CyclesTakeNobodyIn
<1>2. /\ ParentInvariant /\ CyclesTakeNobodyIn
      /\ [Next]_vars
      => (ParentInvariant /\ CyclesTakeNobodyIn)'
  BY NextParentInvariant, NextCyclesTakeNobodyIn
<1> QED BY <1>1, <1>2, InitParentInvariant, PTL DEF Spec

------------------------------------------------------------------------------
(* Communities and their default protocols bring each other.               *)
(*                                                                         *)
(* Neither property is inductive: a request stores one membership of such a *)
(* pair before the other, and skips a call because of a mark.  The          *)
(* strengthening says what a mark means while it is set, and what a request *)
(* that has skipped or made a call still owes.                              *)

(* A community and its default protocol, in either order. *)
Pair(g, h) ==
    \/ g \in Communities /\ h \in Protocols /\ DefaultOf[g] = h
    \/ h \in Communities /\ g \in Protocols /\ DefaultOf[h] = g

PairMembers ==
    \A u \in Users, g, h \in Groups :
        (Pair(g, h) /\ state[<<u, g>>] = "active" /\ <<u, h>> \notin withheld)
        => state[<<u, h>>] = "active"

(* The points at which a hook has not yet seen to the other of the pair. *)
Entry == {"default", "community"}

(* A membership there is, or that is being saved. *)
Promised(s, u, g) ==
    \/ IsMember(s, u, g)
    \/ \E i \in 1 .. Len(stack[s]) :
         stack[s][i].user = u /\ stack[s][i].group = g

(* A membership whose hook has seen to the other of the pair. *)
Asked(s, u, g) ==
    \/ <<u, g>> \in dirty[s]
    \/ \E i \in 1 .. Len(stack[s]) :
         /\ stack[s][i].user = u
         /\ stack[s][i].group = g
         /\ stack[s][i].at \notin Entry

PairsHold(s) ==
    \A u \in Users, g, h \in Groups :
        Pair(g, h) /\ Asked(s, u, g) => Promised(s, u, h)

(* A mark of a default protocol is set between two steps only: by the second
   innermost save, for the innermost one, which saves the other of the pair
   and has not looked at the mark yet. *)
MarksHold(s) ==
    \A p \in flags[s] \cap DefaultProtocols :
        LET n == Len(stack[s])
        IN  /\ n >= 2
            /\ stack[s][n].at \in Entry
            /\ stack[s][n].user = stack[s][n - 1].user
            /\ Pair(stack[s][n].group, stack[s][n - 1].group)
            /\ p \in {stack[s][n].group, stack[s][n - 1].group}

MarksInvariant ==
    /\ TypeOK
    /\ \A s \in Sessions \ running : stack[s] = <<>> /\ dirty[s] = {}
    /\ \A s \in running : RowsHold(s)
    /\ ~died => /\ PairMembers
                /\ \A s \in Sessions : MarksHold(s) /\ PairsHold(s)

(* A community has one default protocol, and that protocol one community. *)
LEMMA PairFacts ==
    ASSUME NEW g \in Groups, NEW h \in Groups
    PROVE  /\ Pair(g, h) <=> Pair(h, g)
           /\ g \in Communities => (Pair(g, h) <=> h = DefaultOf[g])
           /\ g \in Protocols => /\ Pair(g, h) => h = CommunityOf[g]
                                 /\ g \in DefaultProtocols => Pair(g, CommunityOf[g])
                                 /\ Pair(g, h) => g \in DefaultProtocols
<1>1. Pair(g, h) <=> Pair(h, g)
  BY DEF Pair
<1>2. g \in Communities => (Pair(g, h) <=> h = DefaultOf[g])
  BY GroupsAssumption DEF Pair, Groups
<1>3. ASSUME g \in Protocols
      PROVE  /\ Pair(g, h) => h = CommunityOf[g] /\ g \in DefaultProtocols
             /\ g \in DefaultProtocols => Pair(g, CommunityOf[g])
  <2>1. Pair(g, h) => h \in Communities /\ DefaultOf[h] = g
    BY <1>3, GroupsAssumption DEF Pair
  <2>2. g # None
    BY <1>3, GroupsAssumption DEF Groups
  <2>3. Pair(g, h) => h = CommunityOf[g] /\ g \in DefaultProtocols
    BY <2>1, <2>2, GroupsAssumption DEF DefaultProtocols
  <2>4. ASSUME g \in DefaultProtocols PROVE Pair(g, CommunityOf[g])
    <3>1. PICK c \in Communities : DefaultOf[c] = g
      BY <2>4 DEF DefaultProtocols
    <3>2. CommunityOf[g] = c
      BY <2>2, <3>1, GroupsAssumption
    <3> QED BY <1>3, <3>1, <3>2 DEF Pair
  <2> QED BY <2>3, <2>4
<1> QED BY <1>1, <1>2, <1>3

LEMMA InitMarksInvariant == Init => MarksInvariant
<1> SUFFICES ASSUME Init PROVE MarksInvariant
  OBVIOUS
<1>1. TypeOK
  BY InitTypeOK
<1>2. PairMembers
  BY DEF Init, PairMembers, NoRows, Memberships
<1>3. ASSUME NEW s \in Sessions
      PROVE  MarksHold(s) /\ PairsHold(s) /\ stack[s] = <<>> /\ dirty[s] = {}
  BY DEF Init, MarksHold, PairsHold, Asked
<1> QED BY <1>1, <1>2, <1>3 DEF Init, MarksInvariant

(* What is said of a request depends on nothing outside of it. *)
LEMMA OtherMarks ==
    ASSUME NEW t \in Sessions,
           flags'[t] = flags[t], stack'[t] = stack[t], rows'[t] = rows[t],
           dirty'[t] = dirty[t]
    PROVE  /\ MarksHold(t) => MarksHold(t)'
           /\ PairsHold(t) => PairsHold(t)'
<1>1. MarksHold(t) => MarksHold(t)'
  BY DEF MarksHold, DefaultProtocols, Pair
<1>2. PairsHold(t) => PairsHold(t)'
  BY DEF PairsHold, Asked, Promised, IsMember, Pair
<1> QED BY <1>1, <1>2

LEMMA InnerMarks ==
    ASSUME MarksInvariant, TypeOK', NEW s \in running,
           UNCHANGED <<state, running, rows, withheld, died>>,
           \A t \in Sessions \ {s} : /\ flags'[t] = flags[t]
                                     /\ stack'[t] = stack[t]
                                     /\ dirty'[t] = dirty[t],
           ~died => MarksHold(s)' /\ PairsHold(s)'
    PROVE  MarksInvariant'
<1>1. s \in Sessions /\ running \subseteq Sessions
  BY DEF MarksInvariant, TypeOK
<1>2. ~died => PairMembers'
  BY DEF MarksInvariant, PairMembers, Pair
<1>3. ASSUME NEW t \in running PROVE RowsHold(t)'
  BY <1>3 DEF MarksInvariant, RowsHold
<1>4. ASSUME NEW t \in Sessions, ~died PROVE MarksHold(t)' /\ PairsHold(t)'
  BY <1>4, OtherMarks DEF MarksInvariant
<1> QED BY <1>1, <1>2, <1>3, <1>4 DEF MarksInvariant

(* A hook that goes on, and perhaps saves another membership: only its own
   frame may have come to owe the other of its pair. *)
LEMMA HookKeepsPairs ==
    ASSUME TypeOK, NEW s \in Sessions, stack[s] # <<>>, PairsHold(s),
           UNCHANGED <<rows, dirty>>,
           Len(stack'[s]) \in {Len(stack[s]), Len(stack[s]) + 1},
           \A i \in 1 .. Len(stack[s]) :
                /\ stack'[s][i].user = stack[s][i].user
                /\ stack'[s][i].group = stack[s][i].group
                /\ i # Len(stack[s]) => stack'[s][i].at = stack[s][i].at,
           Len(stack'[s]) = Len(stack[s]) + 1 =>
                stack'[s][Len(stack[s]) + 1].at \in Entry,
           NEW v \in Users, v = Top(s).user,
           \A h \in Groups : Pair(Top(s).group, h) => Promised(s, v, h)'
    PROVE  PairsHold(s)'
<1> DEFINE n == Len(stack[s])
<1>1. n \in Nat \ {0} /\ Top(s) = stack[s][n]
  BY TopType DEF Top
<1>2. ASSUME NEW u, NEW g, Promised(s, u, g) PROVE Promised(s, u, g)'
  BY <1>1, <1>2 DEF Promised, IsMember
<1> SUFFICES ASSUME NEW u \in Users, NEW g \in Groups, NEW h \in Groups,
                    Pair(g, h), Asked(s, u, g)'
             PROVE  Promised(s, u, h)'
  BY DEF PairsHold, Pair
<1>3. Asked(s, u, g) \/ (u = v /\ g = Top(s).group)
  <2>1. CASE <<u, g>> \in dirty[s]
    BY <2>1 DEF Asked
  <2>2. CASE <<u, g>> \notin dirty[s]
    <3>1. PICK i \in 1 .. Len(stack'[s]) : /\ stack'[s][i].user = u
                                           /\ stack'[s][i].group = g
                                           /\ stack'[s][i].at \notin Entry
      BY <2>2 DEF Asked, Entry
    <3>2. i \in 1 .. n
      BY <1>1, <3>1
    <3>3. CASE i = n
      BY <1>1, <3>1, <3>2, <3>3
    <3>4. CASE i # n
      BY <3>1, <3>2, <3>4 DEF Asked, Entry
    <3> QED BY <3>3, <3>4
  <2> QED BY <2>1, <2>2
<1>4. CASE Asked(s, u, g)
  BY <1>2, <1>4 DEF PairsHold
<1>5. CASE u = v /\ g = Top(s).group
  BY <1>5
<1> QED BY <1>3, <1>4, <1>5

LEMMA AddDefaultProtocolMarks ==
    ASSUME MarksInvariant, TypeOK', NEW s \in Sessions, AddDefaultProtocol(s)
    PROVE  MarksInvariant'
<1> PICK u, c : u = Top(s).user /\ c = Top(s).group
  OBVIOUS
<1> DEFINE n == Len(stack[s])
           p == DefaultOf[c]
<1>1. /\ TypeOK
      /\ s \in running
      /\ stack[s] # <<>>
      /\ u \in Users
      /\ c \in Communities
      /\ c \in Groups
      /\ c \notin Protocols
      /\ [Top(s) EXCEPT !.at = "parent"] \in Frame
      /\ n \in Nat \ {0}
      /\ Top(s) = stack[s][n]
  BY DefaultFrame, TopType, GroupsAssumption
     DEF AddDefaultProtocol, At, MarksInvariant, Groups, Top
(* Only the mark of this default protocol can be set, by the save below. *)
<1>2. ASSUME ~died, NEW q \in flags[s] \cap DefaultProtocols
      PROVE  /\ q = p
             /\ n >= 2
             /\ stack[s][n - 1].user = u
             /\ stack[s][n - 1].group = p
  <2>1. /\ n >= 2
        /\ stack[s][n - 1].user = u
        /\ Pair(c, stack[s][n - 1].group)
        /\ q \in {c, stack[s][n - 1].group}
    BY <1>1, <1>2 DEF MarksInvariant, MarksHold
  <2>2. q \in Protocols
    BY <1>1, <1>2 DEF TypeOK
  <2>3. q = stack[s][n - 1].group
    BY <1>1, <2>1, <2>2
  <2>4. p = stack[s][n - 1].group
    BY <1>1, <2>1, GroupsAssumption DEF Pair
  <2> QED BY <2>1, <2>3, <2>4
<1>3. /\ UNCHANGED <<state, running, rows, dirty, withheld, died>>
      /\ \A t \in Sessions \ {s} : flags'[t] = flags[t]
  BY <1>1 DEF AddDefaultProtocol, committed, TypeOK
<1>4. CASE DefaultNeeded(s)
  <2>1. /\ Call(s, "parent", u, p)
        /\ p \in Protocols
        /\ p \in Groups
        /\ Pair(c, p)
        /\ Pair(p, c)
    BY <1>1, <1>4, GroupsAssumption
       DEF AddDefaultProtocol, DefaultNeeded, Groups, Pair
  <2>2. /\ \A t \in Sessions \ {s} : stack'[t] = stack[t]
        /\ Len(stack'[s]) = n + 1
        /\ stack'[s][n + 1] = NewFrame(u, p)
        /\ \A i \in 1 .. n :
             /\ stack'[s][i].user = stack[s][i].user
             /\ stack'[s][i].group = stack[s][i].group
             /\ stack'[s][i].at = IF i = n THEN "parent" ELSE stack[s][i].at
    <3>1. /\ TypeOK
          /\ stack[s] # <<>>
          /\ [Top(s) EXCEPT !.at = "parent"] \in Frame
          /\ u \in Users
          /\ p \in Groups
          /\ Call(s, "parent", u, p)
      BY <1>1, <2>1
    <3> HIDE DEF p
    <3> QED BY <3>1, CallStack
  <2>3. /\ stack'[s][n + 1].user = u
        /\ stack'[s][n + 1].group = p
        /\ stack'[s][n + 1].at \in Entry
    BY <2>2 DEF NewFrame, Entry
  <2>4. Promised(s, u, p)'
    <3>1. n + 1 \in 1 .. Len(stack'[s])
      BY <1>1, <2>2
    <3> HIDE DEF n, p
    <3> QED BY <2>3, <3>1 DEF Promised
  <2>5. \A h \in Groups : Pair(c, h) => h = p
    BY <1>1, PairFacts
  <2>6. PairsHold(s) => PairsHold(s)'
    BY <1>1, <1>3, <2>2, <2>3, <2>4, <2>5, HookKeepsPairs
  <2>7. flags'[s] = flags[s] \cup {p}
    BY <1>1, <1>4 DEF AddDefaultProtocol, TypeOK
  <2>8. ASSUME ~died PROVE MarksHold(s)'
    <3>1. ASSUME NEW q \in flags'[s] \cap DefaultProtocols PROVE q = p
      BY <1>2, <2>7, <2>8, <3>1
    <3>2. /\ n + 1 >= 2
          /\ stack'[s][n + 1 - 1].user = u
          /\ stack'[s][n + 1 - 1].group = c
      BY <1>1, <2>2
    <3> QED BY <2>1, <2>2, <2>3, <3>1, <3>2 DEF MarksHold, DefaultProtocols, Pair, Entry
  <2> QED BY <1>1, <1>3, <2>2, <2>6, <2>8, InnerMarks DEF MarksInvariant
<1>5. CASE ~DefaultNeeded(s)
  <2>1. Continue(s, "parent")
    BY <1>5 DEF AddDefaultProtocol
  <2>2. /\ \A t \in Sessions \ {s} : stack'[t] = stack[t]
        /\ Len(stack'[s]) = n
        /\ \A i \in 1 .. n :
             /\ stack'[s][i].user = stack[s][i].user
             /\ stack'[s][i].group = stack[s][i].group
             /\ stack'[s][i].at = IF i = n THEN "parent" ELSE stack[s][i].at
    BY <1>1, <2>1, ContinueStack
  <2>3. ASSUME ~died, NEW h \in Groups, Pair(c, h) PROVE Promised(s, u, h)'
    <3>1. h = p /\ h # None
      BY <1>1, <2>3, PairFacts, GroupsAssumption DEF Groups
    <3>2. CASE IsMember(s, u, p)
      BY <1>3, <3>1, <3>2 DEF Promised, IsMember
    <3>3. CASE p \in flags[s]
      <4>1. p \in DefaultProtocols
        BY <1>1, <3>1 DEF DefaultProtocols
      <4>2. n >= 2 /\ stack[s][n - 1].user = u /\ stack[s][n - 1].group = p
        BY <1>2, <2>3, <3>3, <4>1
      <4>3. n - 1 \in 1 .. n
        BY <1>1, <4>2
      <4> QED BY <1>1, <2>2, <3>1, <4>2, <4>3 DEF Promised
    <3> QED BY <1>5, <3>1, <3>2, <3>3 DEF DefaultNeeded
  <2>4. ~died => (PairsHold(s) => PairsHold(s)')
    BY <1>1, <1>3, <2>2, <2>3, HookKeepsPairs
  <2>5. flags'[s] = flags[s] \ {p}
    BY <1>1, <1>5 DEF AddDefaultProtocol, TypeOK
  <2>6. ASSUME ~died PROVE MarksHold(s)'
    <3>1. flags'[s] \cap DefaultProtocols = {}
      BY <1>2, <2>5, <2>6
    <3> QED BY <3>1 DEF MarksHold, DefaultProtocols
  <2> QED BY <1>1, <1>3, <2>2, <2>4, <2>6, InnerMarks DEF MarksInvariant
<1> QED BY <1>4, <1>5

(* Past its entry, a hook finds no mark of a default protocol set. *)
LEMMA NoMarkPastEntry ==
    ASSUME MarksInvariant, ~died, NEW s \in Sessions,
           stack[s] = <<>> \/ Top(s).at \notin Entry
    PROVE  flags[s] \cap DefaultProtocols = {}
<1> SUFFICES ASSUME NEW q \in flags[s] \cap DefaultProtocols PROVE FALSE
  OBVIOUS
<1>1. MarksHold(s)
  BY DEF MarksInvariant
<1>2. Len(stack[s]) >= 2 /\ stack[s][Len(stack[s])].at \in Entry
  BY <1>1 DEF MarksHold
<1>3. stack[s] # <<>>
  BY <1>2
<1> QED BY <1>2, <1>3 DEF Top

LEMMA AddParentCommunityMarks ==
    ASSUME MarksInvariant, TypeOK', NEW s \in Sessions, AddParentCommunity(s)
    PROVE  MarksInvariant'
<1> PICK u, c : u = Top(s).user /\ c = Top(s).group
  OBVIOUS
<1> DEFINE n == Len(stack[s])
<1>1. /\ TypeOK
      /\ s \in running
      /\ stack[s] # <<>>
      /\ u \in Users
      /\ c \in Groups
      /\ c \in Communities
      /\ [Top(s) EXCEPT !.at = "write"] \in Frame
      /\ n \in Nat \ {0}
      /\ Top(s) = stack[s][n]
      /\ Top(s).at \notin Entry
  BY ParentFrame, TopType
     DEF AddParentCommunity, At, MarksInvariant, Groups, Top, Entry
<1>2. UNCHANGED <<state, running, flags, rows, dirty, withheld, died>>
  BY DEF AddParentCommunity, committed
<1>3. /\ \A t \in Sessions \ {s} : stack'[t] = stack[t]
      /\ Len(stack'[s]) \in {n, n + 1}
      /\ \A i \in 1 .. n :
           /\ stack'[s][i].user = stack[s][i].user
           /\ stack'[s][i].group = stack[s][i].group
           /\ i # n => stack'[s][i].at = stack[s][i].at
      /\ Len(stack'[s]) = n + 1 => stack'[s][n + 1].at \in Entry
  <2>1. CASE ParentNeeded(s)
    <3>1. /\ Call(s, "write", u, tree[s][c])
          /\ tree[s][c] \in Groups
      BY <1>1, <2>1 DEF AddParentCommunity, ParentNeeded, TypeOK, Groups
    <3>2. NewFrame(u, tree[s][c]).at \in Entry
      BY DEF NewFrame, Entry
    <3>3. /\ \A t \in Sessions \ {s} : stack'[t] = stack[t]
          /\ Len(stack'[s]) = n + 1
          /\ stack'[s][n + 1] = NewFrame(u, tree[s][c])
          /\ \A i \in 1 .. n :
               /\ stack'[s][i].user = stack[s][i].user
               /\ stack'[s][i].group = stack[s][i].group
               /\ stack'[s][i].at = IF i = n THEN "write" ELSE stack[s][i].at
      BY <1>1, <3>1, CallStack
    <3> QED BY <3>2, <3>3
  <2>2. CASE ~ParentNeeded(s)
    BY <1>1, <2>2, ContinueStack DEF AddParentCommunity
  <2> QED BY <2>1, <2>2
<1>4. ASSUME ~died PROVE PairsHold(s)'
  <2>1. ASSUME NEW h \in Groups, Pair(c, h) PROVE Promised(s, u, h)'
    <3>1. Asked(s, u, c)
      BY <1>1 DEF Asked
    <3>2. Promised(s, u, h)
      BY <1>1, <1>4, <2>1, <3>1 DEF MarksInvariant, PairsHold
    <3>3. CASE IsMember(s, u, h)
      BY <1>2, <3>3 DEF Promised, IsMember
    <3>4. CASE \E i \in 1 .. n : stack[s][i].user = u /\ stack[s][i].group = h
      BY <1>1, <1>3, <3>4 DEF Promised
    <3> QED BY <3>2, <3>3, <3>4 DEF Promised
  <2> QED BY <1>1, <1>2, <1>3, <1>4, <2>1, HookKeepsPairs DEF MarksInvariant
<1>5. ASSUME ~died PROVE MarksHold(s)'
  BY <1>1, <1>2, <1>5, NoMarkPastEntry DEF MarksHold, DefaultProtocols
<1> QED BY <1>1, <1>2, <1>3, <1>4, <1>5, InnerMarks

LEMMA AddCommunityMarks ==
    ASSUME MarksInvariant, TypeOK', NEW s \in Sessions, AddCommunity(s)
    PROVE  MarksInvariant'
<1> PICK u, p : u = Top(s).user /\ p = Top(s).group
  OBVIOUS
<1> DEFINE n == Len(stack[s])
           c == CommunityOf[p]
<1>1. /\ TypeOK
      /\ s \in running
      /\ stack[s] # <<>>
      /\ u \in Users
      /\ p \in Protocols
      /\ p \in Groups
      /\ p \notin Communities
      /\ c \in Communities
      /\ c \in Groups
      /\ [Top(s) EXCEPT !.at = "write"] \in Frame
      /\ n \in Nat \ {0}
      /\ Top(s) = stack[s][n]
  BY CommunityFrame, TopType, GroupsAssumption
     DEF AddCommunity, At, MarksInvariant, Groups, Top
(* Only its own mark can be set, by the save below. *)
<1>2. ASSUME ~died, NEW q \in flags[s] \cap DefaultProtocols
      PROVE  /\ q = p
             /\ n >= 2
             /\ stack[s][n - 1].user = u
             /\ stack[s][n - 1].group = c
  <2>1. /\ n >= 2
        /\ stack[s][n - 1].user = u
        /\ Pair(p, stack[s][n - 1].group)
        /\ q \in {p, stack[s][n - 1].group}
    BY <1>1, <1>2 DEF MarksInvariant, MarksHold
  <2>2. q \in Protocols
    BY <1>1, <1>2 DEF TypeOK
  <2>3. stack[s][n - 1].group = c /\ stack[s][n - 1].group \in Communities
    BY <1>1, <2>1, GroupsAssumption DEF Pair
  <2> QED BY <2>1, <2>2, <2>3, GroupsAssumption
<1>3. /\ UNCHANGED <<state, running, rows, dirty, withheld, died>>
      /\ \A t \in Sessions \ {s} : flags'[t] = flags[t]
  BY <1>1 DEF AddCommunity, committed, TypeOK
<1>4. \A h \in Groups : Pair(p, h) => h = c /\ p \in DefaultProtocols
  BY <1>1, PairFacts
<1>5. CASE CommunityNeeded(s)
  <2>1. Call(s, "write", u, c) /\ p \notin flags[s]
    BY <1>1, <1>5 DEF AddCommunity, CommunityNeeded
  <2>2. /\ \A t \in Sessions \ {s} : stack'[t] = stack[t]
        /\ Len(stack'[s]) = n + 1
        /\ stack'[s][n + 1] = NewFrame(u, c)
        /\ \A i \in 1 .. n :
             /\ stack'[s][i].user = stack[s][i].user
             /\ stack'[s][i].group = stack[s][i].group
             /\ stack'[s][i].at = IF i = n THEN "write" ELSE stack[s][i].at
    <3>1. u \in Users /\ c \in Groups /\ Call(s, "write", u, c)
      BY <1>1, <2>1
    <3> HIDE DEF c
    <3> QED BY <1>1, <3>1, CallStack
  <2>3. /\ stack'[s][n + 1].user = u
        /\ stack'[s][n + 1].group = c
        /\ stack'[s][n + 1].at \in Entry
    BY <2>2 DEF NewFrame, Entry
  <2>4. Promised(s, u, c)'
    BY <1>1, <2>2, <2>3 DEF Promised
  <2>5. PairsHold(s) => PairsHold(s)'
    BY <1>1, <1>3, <1>4, <2>2, <2>3, <2>4, HookKeepsPairs
  <2>6. flags'[s] = flags[s] \cup {p}
    BY <1>1, <1>5 DEF AddCommunity, TypeOK
  <2>7. ASSUME ~died PROVE MarksHold(s)'
    <3>1. ASSUME NEW q \in flags'[s] \cap DefaultProtocols PROVE q = p /\ Pair(c, p)
      <4>1. q = p
        BY <1>2, <2>6, <2>7, <3>1
      <4> QED BY <1>1, <3>1, <4>1, PairFacts
    <3>2. /\ n + 1 >= 2
          /\ stack'[s][n + 1 - 1].user = u
          /\ stack'[s][n + 1 - 1].group = p
      BY <1>1, <2>2
    <3> QED BY <2>2, <2>3, <3>1, <3>2 DEF MarksHold, DefaultProtocols, Pair, Entry
  <2> QED BY <1>1, <1>3, <2>2, <2>5, <2>7, InnerMarks DEF MarksInvariant
<1>6. CASE ~CommunityNeeded(s)
  <2>1. Continue(s, "write")
    BY <1>6 DEF AddCommunity
  <2>2. /\ \A t \in Sessions \ {s} : stack'[t] = stack[t]
        /\ Len(stack'[s]) = n
        /\ \A i \in 1 .. n :
             /\ stack'[s][i].user = stack[s][i].user
             /\ stack'[s][i].group = stack[s][i].group
             /\ stack'[s][i].at = IF i = n THEN "write" ELSE stack[s][i].at
    BY <1>1, <2>1, ContinueStack
  <2>3. ASSUME ~died, NEW h \in Groups, Pair(p, h) PROVE Promised(s, u, h)'
    <3>1. h = c /\ p \in DefaultProtocols
      BY <1>4, <2>3
    <3>2. CASE IsMember(s, u, c)
      BY <1>3, <3>1, <3>2 DEF Promised, IsMember
    <3>3. CASE p \in flags[s]
      <4>1. n >= 2 /\ stack[s][n - 1].user = u /\ stack[s][n - 1].group = c
        BY <1>2, <2>3, <3>1, <3>3
      <4>2. n - 1 \in 1 .. n
        BY <1>1, <4>1
      <4> QED BY <1>1, <2>2, <3>1, <4>1, <4>2 DEF Promised
    <3> QED BY <1>6, <3>2, <3>3 DEF CommunityNeeded
  <2>4. ~died => (PairsHold(s) => PairsHold(s)')
    BY <1>1, <1>3, <2>2, <2>3, HookKeepsPairs
  <2>5. flags'[s] = flags[s] \ {p}
    BY <1>1, <1>6 DEF AddCommunity, TypeOK
  <2>6. ASSUME ~died PROVE MarksHold(s)'
    <3>1. flags'[s] \cap DefaultProtocols = {}
      BY <1>2, <2>5, <2>6
    <3> QED BY <3>1 DEF MarksHold, DefaultProtocols
  <2> QED BY <1>1, <1>3, <2>2, <2>4, <2>6, InnerMarks DEF MarksInvariant
<1> QED BY <1>5, <1>6

LEMMA WriteMarks ==
    ASSUME MarksInvariant, TypeOK', NEW s \in Sessions, Write(s)
    PROVE  MarksInvariant'
<1> PICK u, g : u = Top(s).user /\ g = Top(s).group
  OBVIOUS
<1> DEFINE n == Len(stack[s])
<1>1. /\ TypeOK
      /\ s \in running
      /\ stack[s] # <<>>
      /\ Top(s) = stack[s][n]
      /\ Top(s).at = "write"
      /\ Top(s).at \notin Entry
  BY DEF MarksInvariant, Write, At, Top, Entry
<1>2. /\ n \in Nat \ {0}
      /\ Len(stack'[s]) = n - 1
      /\ \A i \in 1 .. n - 1 : stack'[s][i] = stack[s][i]
      /\ \A t \in Sessions \ {s} : stack'[t] = stack[t]
  BY <1>1, WriteStack, TopType
<1>3. /\ dirty'[s] = dirty[s] \cup {<<u, g>>}
      /\ \A t \in Sessions \ {s} : dirty'[t] = dirty[t]
      /\ UNCHANGED <<state, running, flags, rows, withheld, died>>
  BY <1>1 DEF Write, TypeOK, committed
(* The frame that is taken off has become a row of the request. *)
<1>4. ASSUME NEW v, NEW h, Promised(s, v, h) PROVE Promised(s, v, h)'
  <2>1. CASE IsMember(s, v, h)
    BY <1>3, <2>1 DEF Promised, IsMember
  <2>2. CASE ~IsMember(s, v, h)
    <3>1. PICK i \in 1 .. n : stack[s][i].user = v /\ stack[s][i].group = h
      BY <1>4, <2>2 DEF Promised
    <3>2. CASE i = n
      BY <1>1, <1>3, <3>1, <3>2 DEF Promised, IsMember
    <3>3. CASE i # n
      <4>1. i \in 1 .. n - 1
        BY <1>2, <3>3
      <4> QED BY <1>2, <3>1, <4>1 DEF Promised
    <3> QED BY <3>2, <3>3
  <2> QED BY <2>1, <2>2
<1>5. ASSUME NEW v, NEW h, Asked(s, v, h)' PROVE Asked(s, v, h)
  <2>1. CASE <<v, h>> \in dirty'[s]
    BY <1>1, <1>2, <1>3, <2>1 DEF Asked
  <2>2. CASE <<v, h>> \notin dirty'[s]
    BY <1>2, <1>5, <2>2 DEF Asked, Entry
  <2> QED BY <2>1, <2>2
<1>6. ASSUME ~died PROVE PairsHold(s)'
  <2> SUFFICES ASSUME NEW v \in Users, NEW h \in Groups, NEW k \in Groups,
                      Pair(h, k), Asked(s, v, h)'
               PROVE  Promised(s, v, k)'
    BY DEF PairsHold, Pair
  <2>1. Promised(s, v, k)
    BY <1>1, <1>5, <1>6 DEF MarksInvariant, PairsHold
  <2> QED BY <1>4, <2>1
<1>7. ASSUME ~died PROVE MarksHold(s)'
  BY <1>1, <1>3, <1>7, NoMarkPastEntry DEF MarksHold, DefaultProtocols
<1> QED BY <1>1, <1>2, <1>3, <1>6, <1>7, InnerMarks

LEMMA NextMembershipMarks ==
    ASSUME MarksInvariant, TypeOK', NEW s \in Sessions, NextMembership(s)
    PROVE  MarksInvariant'
<1>1. PICK m \in todo[s] :
         stack' = IF IsMember(s, m[1], m[2])
                  THEN stack
                  ELSE [stack EXCEPT ![s] = <<NewFrame(m[1], m[2])>>]
  BY DEF NextMembership
<1>2. /\ TypeOK
      /\ s \in running
      /\ stack[s] = <<>>
      /\ UNCHANGED <<state, running, flags, rows, dirty, withheld, died>>
  BY DEF MarksInvariant, NextMembership, committed
<1>3. \A t \in Sessions \ {s} : stack'[t] = stack[t]
  BY <1>1, <1>2 DEF TypeOK
<1>4. \A i \in 1 .. Len(stack'[s]) : stack'[s][i].at \in Entry
  <2>1. stack'[s] = <<>> \/ stack'[s] = <<NewFrame(m[1], m[2])>>
    BY <1>1, <1>2 DEF TypeOK
  <2> QED BY <2>1 DEF NewFrame, Entry
<1>5. ASSUME ~died PROVE PairsHold(s)'
  <2> SUFFICES ASSUME NEW v \in Users, NEW h \in Groups, NEW k \in Groups,
                      Pair(h, k), Asked(s, v, h)'
               PROVE  Promised(s, v, k)'
    BY DEF PairsHold, Pair
  <2>1. Asked(s, v, h)
    BY <1>2, <1>4 DEF Asked, Entry
  <2>2. Promised(s, v, k)
    BY <1>2, <1>5, <2>1 DEF MarksInvariant, PairsHold
  <2>3. IsMember(s, v, k)
    BY <1>2, <2>2 DEF Promised
  <2> QED BY <1>2, <2>3 DEF Promised, IsMember
<1>6. ASSUME ~died PROVE MarksHold(s)'
  BY <1>2, <1>6, NoMarkPastEntry DEF MarksHold, DefaultProtocols
<1> QED BY <1>2, <1>3, <1>5, <1>6, InnerMarks

LEMMA BeginMarks ==
    ASSUME MarksInvariant, TypeOK', NEW s \in Sessions,
           NEW ms, NEW frames, NEW e, NEW n, Begin(s, ms, frames, e, n),
           \A i \in 1 .. Len(frames) : frames[i].at \in Entry
    PROVE  MarksInvariant'
<1>1. /\ TypeOK
      /\ s \notin running
      /\ stack[s] = <<>> /\ dirty[s] = {}
      /\ stack'[s] = frames
      /\ rows'[s] = state
      /\ running' = running \cup {s}
      /\ UNCHANGED <<state, flags, dirty, withheld, died>>
      /\ \A t \in Sessions \ {s} : stack'[t] = stack[t] /\ rows'[t] = rows[t]
  BY DEF Begin, CanStart, MarksInvariant, TypeOK, committed
<1>2. ASSUME NEW t \in running' PROVE RowsHold(t)'
  <2>1. CASE t = s
    BY <1>1, <2>1 DEF RowsHold
  <2>2. CASE t # s
    <3>1. t \in running /\ t \in Sessions
      BY <1>1, <1>2, <2>2 DEF TypeOK
    <3> QED BY <1>1, <2>2, <3>1 DEF MarksInvariant, RowsHold
  <2> QED BY <2>1, <2>2
<1>3. ASSUME ~died PROVE MarksHold(s)' /\ PairsHold(s)'
  <2>1. flags[s] \cap DefaultProtocols = {}
    BY <1>1, <1>3, NoMarkPastEntry
  <2>2. MarksHold(s)'
    BY <1>1, <2>1 DEF MarksHold, DefaultProtocols
  <2>3. PairsHold(s)'
    BY <1>1 DEF PairsHold, Asked, Entry
  <2> QED BY <2>2, <2>3
<1>4. ASSUME ~died, NEW t \in Sessions PROVE MarksHold(t)' /\ PairsHold(t)'
  BY <1>1, <1>3, <1>4, OtherMarks DEF MarksInvariant
<1>5. ~died => PairMembers'
  BY <1>1 DEF MarksInvariant, PairMembers, Pair
<1>6. \A t \in Sessions \ running' : stack'[t] = <<>> /\ dirty'[t] = {}
  BY <1>1 DEF MarksInvariant
<1> QED BY <1>1, <1>2, <1>4, <1>5, <1>6 DEF MarksInvariant

LEMMA SingleStepMarks ==
    ASSUME MarksInvariant, TypeOK', NEW s \in Sessions,
           \/ \E c \in Communities : ClearParent(s, c)
           \/ \E u \in Users, g \in Groups : SaveInactive(s, u, g) \/ Remove(s, u, g)
    PROVE  MarksInvariant'
<1>1. UNCHANGED <<flags, running, stack, rows, dirty, died>>
  BY DEF ClearParent, SaveInactive, Remove, local
<1>2. ASSUME ~died, NEW t \in Sessions PROVE MarksHold(t)' /\ PairsHold(t)'
  BY <1>1, <1>2, OtherMarks DEF MarksInvariant
<1>3. PICK ms \in SUBSET Memberships :
         /\ \A m \in Memberships \ ms : state'[m] = state[m]
         /\ \A m \in ms : state'[m] # "active"
         /\ withheld' = withheld \cup ms
  <2>1. CASE \E c \in Communities : ClearParent(s, c)
    <3>1. UNCHANGED <<state, withheld>>
      BY <2>1 DEF ClearParent
    <3>2. {} \in SUBSET Memberships
      OBVIOUS
    <3> QED BY <3>1, <3>2
  <2>2. CASE \E u \in Users, g \in Groups : SaveInactive(s, u, g) \/ Remove(s, u, g)
    <3>1. PICK u \in Users, g \in Groups : SaveInactive(s, u, g) \/ Remove(s, u, g)
      BY <2>2
    <3>2. <<u, g>> \in Memberships /\ state \in [Memberships -> States]
      BY DEF Memberships, MarksInvariant, TypeOK
    <3>3. /\ \A m \in Memberships \ {<<u, g>>} : state'[m] = state[m]
          /\ state'[<<u, g>>] # "active"
          /\ withheld' = withheld \cup {<<u, g>>}
      <4>1. CASE SaveInactive(s, u, g)
        BY <3>2, <4>1 DEF SaveInactive
      <4>2. CASE Remove(s, u, g)
        BY <3>2, <4>2 DEF Remove
      <4> QED BY <3>1, <4>1, <4>2
    <3> QED BY <3>2, <3>3
  <2> QED BY <2>1, <2>2
<1>4. ASSUME NEW t \in running PROVE RowsHold(t)'
  BY <1>1, <1>3, <1>4 DEF MarksInvariant, RowsHold
<1>5. ASSUME ~died PROVE PairMembers'
  <2> SUFFICES ASSUME NEW u \in Users, NEW g \in Groups, NEW h \in Groups,
                      Pair(g, h), state'[<<u, g>>] = "active",
                      <<u, h>> \notin withheld'
               PROVE  state'[<<u, h>>] = "active"
    BY DEF PairMembers, Pair
  <2>1. <<u, g>> \in Memberships \ ms /\ <<u, h>> \in Memberships \ ms
    BY <1>3 DEF Memberships
  <2>2. state[<<u, g>>] = "active" /\ <<u, h>> \notin withheld
    BY <1>3, <2>1
  <2>3. state[<<u, h>>] = "active"
    BY <1>5, <2>2 DEF MarksInvariant, PairMembers
  <2> QED BY <1>3, <2>1, <2>3
<1> QED BY <1>1, <1>2, <1>4, <1>5 DEF MarksInvariant

LEMMA CommitMarks ==
    ASSUME MarksInvariant, TypeOK', NEW s \in Sessions, Commit(s)
    PROVE  MarksInvariant'
<1>1. /\ TypeOK
      /\ s \in running
      /\ stack[s] = <<>>
      /\ running' = running \ {s}
      /\ stack'[s] = <<>> /\ dirty'[s] = {}
      /\ UNCHANGED <<flags, died>>
      /\ \A t \in Sessions \ {s} : /\ stack'[t] = stack[t]
                                   /\ rows'[t] = rows[t]
                                   /\ dirty'[t] = dirty[t]
  BY DEF Commit, End, MarksInvariant, TypeOK
<1>2. \A m \in Memberships :
         /\ state'[m] = IF Stored(s, m) THEN "active" ELSE state[m]
         /\ m \in withheld' <=> m \in withheld /\ ~Stored(s, m)
  BY DEF Commit
<1>3. ASSUME NEW t \in running' PROVE RowsHold(t)'
  <2>1. t \in running /\ t \in Sessions \ {s}
    BY <1>1, <1>3 DEF TypeOK
  <2> QED BY <1>1, <1>2, <2>1 DEF MarksInvariant, RowsHold
<1>4. ASSUME ~died PROVE PairMembers'
  <2> SUFFICES ASSUME NEW u \in Users, NEW g \in Groups, NEW h \in Groups,
                      Pair(g, h), state'[<<u, g>>] = "active",
                      <<u, h>> \notin withheld'
               PROVE  state'[<<u, h>>] = "active"
    BY DEF PairMembers, Pair
  <2>1. <<u, g>> \in Memberships /\ <<u, h>> \in Memberships
    BY DEF Memberships
  <2>2. CASE Stored(s, <<u, h>>)
    BY <1>2, <2>1, <2>2
  <2>3. CASE ~Stored(s, <<u, h>>)
    <3>1. <<u, h>> \notin withheld
      BY <1>2, <2>1, <2>3
    <3>2. RowsHold(s)
      BY <1>1 DEF MarksInvariant
    <3>3. state[<<u, h>>] = "active"
      <4>1. CASE Stored(s, <<u, g>>)
        <5>1. Asked(s, u, g)
          BY <4>1 DEF Stored, Asked
        <5>2. Promised(s, u, h)
          BY <1>1, <1>4, <5>1 DEF MarksInvariant, PairsHold
        <5>3. <<u, h>> \in dirty[s] \/ rows[s][<<u, h>>] = "active"
          BY <1>1, <5>2 DEF Promised, IsMember
        <5> QED BY <2>1, <2>3, <3>1, <3>2, <5>3 DEF Stored, RowsHold
      <4>2. CASE ~Stored(s, <<u, g>>)
        <5>1. state[<<u, g>>] = "active"
          BY <1>2, <2>1, <4>2
        <5> QED BY <1>4, <3>1, <5>1 DEF MarksInvariant, PairMembers
      <4> QED BY <4>1, <4>2
    <3> QED BY <1>2, <2>1, <2>3, <3>3
  <2> QED BY <2>2, <2>3
<1>5. ASSUME ~died PROVE MarksHold(s)' /\ PairsHold(s)'
  <2>1. MarksHold(s)'
    BY <1>1, <1>5, NoMarkPastEntry DEF MarksHold, DefaultProtocols
  <2>2. PairsHold(s)'
    BY <1>1 DEF PairsHold, Asked
  <2> QED BY <2>1, <2>2
<1>6. ASSUME ~died, NEW t \in Sessions \ {s} PROVE MarksHold(t)' /\ PairsHold(t)'
  <2>1. /\ MarksHold(t) /\ PairsHold(t)
        /\ rows'[t] = rows[t] /\ stack'[t] = stack[t] /\ dirty'[t] = dirty[t]
        /\ flags'[t] = flags[t]
    BY <1>1, <1>6 DEF MarksInvariant
  <2> QED BY <2>1, OtherMarks
<1>7. \A t \in Sessions \ running' : stack'[t] = <<>> /\ dirty'[t] = {}
  BY <1>1 DEF MarksInvariant
<1> QED BY <1>1, <1>3, <1>4, <1>5, <1>6, <1>7 DEF MarksInvariant

LEMMA AbortMarks ==
    ASSUME MarksInvariant, TypeOK', NEW s \in Sessions, Abort(s)
    PROVE  MarksInvariant'
<1>1. /\ died'
      /\ running' = running \ {s}
      /\ stack'[s] = <<>> /\ dirty'[s] = {}
      /\ UNCHANGED <<state, withheld>>
      /\ \A t \in Sessions \ {s} : /\ stack'[t] = stack[t]
                                   /\ rows'[t] = rows[t]
                                   /\ dirty'[t] = dirty[t]
  BY DEF Abort, End, MarksInvariant, TypeOK, committed
<1>2. ASSUME NEW t \in running' PROVE RowsHold(t)'
  <2>1. t \in running /\ t \in Sessions \ {s}
    BY <1>1, <1>2 DEF MarksInvariant, TypeOK
  <2> QED BY <1>1, <2>1 DEF MarksInvariant, RowsHold
<1> QED BY <1>1, <1>2 DEF MarksInvariant

LEMMA NextMarksInvariant == MarksInvariant /\ [Next]_vars => MarksInvariant'
<1> SUFFICES ASSUME MarksInvariant, [Next]_vars PROVE MarksInvariant'
  OBVIOUS
<1>1. TypeOK'
  BY NextTypeOK DEF MarksInvariant
<1>2. ASSUME NEW s \in Sessions, NEW u \in Users, NEW g \in Groups, Join(s, u, g)
      PROVE  MarksInvariant'
  <2>1. \A i \in 1 .. Len(<<NewFrame(u, g)>>) : <<NewFrame(u, g)>>[i].at \in Entry
    BY DEF NewFrame, Entry
  <2> QED BY <1>1, <1>2, <2>1, BeginMarks DEF Join
<1>3. ASSUME NEW s \in Sessions,
             \/ \E u \in Users : Register(s, u)
             \/ \E c, d \in Communities : SetParent(s, c, d)
      PROVE  MarksInvariant'
  <2>1. PICK ms, e, n : Begin(s, ms, <<>>, e, n)
    BY <1>3 DEF Register, SetParent
  <2> QED BY <1>1, <2>1, BeginMarks
<1>4. ASSUME NEW s \in Sessions,
             \/ \E c \in Communities : ClearParent(s, c)
             \/ \E u \in Users, g \in Groups : SaveInactive(s, u, g) \/ Remove(s, u, g)
      PROVE  MarksInvariant'
  BY <1>1, <1>4, SingleStepMarks
<1>5. ASSUME NEW s \in Sessions, Step(s) \/ Abort(s)
      PROVE  MarksInvariant'
  BY <1>1, <1>5, NextMembershipMarks, AddDefaultProtocolMarks,
     AddParentCommunityMarks, AddCommunityMarks, WriteMarks, CommitMarks,
     AbortMarks DEF Step, RunAway
<1>6. CASE UNCHANGED vars
  <2>1. ASSUME NEW t \in running PROVE RowsHold(t)'
    BY <1>6, <2>1 DEF vars, MarksInvariant, RowsHold
  <2>2. ASSUME ~died, NEW t \in Sessions PROVE MarksHold(t)' /\ PairsHold(t)'
    BY <1>6, <2>2, OtherMarks DEF vars, MarksInvariant
  <2>3. ~died => PairMembers'
    BY <1>6 DEF vars, MarksInvariant, PairMembers, Pair
  <2> QED BY <1>1, <1>6, <2>1, <2>2, <2>3 DEF vars, MarksInvariant
<1> QED BY <1>2, <1>3, <1>4, <1>5, <1>6 DEF Next

LEMMA MarksInvariantHolds == Spec => []MarksInvariant
BY InitMarksInvariant, NextMarksInvariant, PTL DEF Spec

(* "If a user is added to a community, add them to the default protocol": as
   long as no request has died, a member of a community is a member of its
   default protocol (unless someone withheld that membership), in any
   interleaving of the requests of any number of sessions. *)
THEOREM DefaultMembersHold == Spec => []DefaultMembers
<1>1. MarksInvariant => DefaultMembers
  <2> SUFFICES ASSUME MarksInvariant, ~died, NEW u \in Users, NEW c \in Communities,
                      DefaultOf[c] # None, state[<<u, c>>] = "active",
                      <<u, DefaultOf[c]>> \notin withheld
               PROVE  state[<<u, DefaultOf[c]>>] = "active"
    BY DEF DefaultMembers, DefaultMembersAlways
  <2>1. c \in Groups /\ DefaultOf[c] \in Groups /\ Pair(c, DefaultOf[c])
    BY GroupsAssumption DEF Pair, Groups
  <2> QED BY <2>1 DEF MarksInvariant, PairMembers
<1> QED BY <1>1, MarksInvariantHolds, PTL

(* "If the user is added to a protocol, add them to the parent community": the
   same for the members of default protocols. *)
THEOREM CommunityMembersHold == Spec => []CommunityMembers
<1>1. MarksInvariant => CommunityMembers
  <2> SUFFICES ASSUME MarksInvariant, ~died, NEW u \in Users,
                      NEW p \in DefaultProtocols, state[<<u, p>>] = "active",
                      <<u, CommunityOf[p]>> \notin withheld
               PROVE  state[<<u, CommunityOf[p]>>] = "active"
    BY DEF CommunityMembers, CommunityMembersOf
  <2>1. p \in Protocols
    BY GroupsAssumption DEF DefaultProtocols
  <2>2. p \in Groups /\ CommunityOf[p] \in Groups
    BY <2>1, GroupsAssumption DEF Groups
  <2>3. Pair(p, CommunityOf[p])
    BY <2>1, <2>2, PairFacts
  <2> QED BY <2>2, <2>3 DEF MarksInvariant, PairMembers
<1> QED BY <1>1, MarksInvariantHolds, PTL

(* The mark set for a default protocol is cleared by the save it is meant for:
   as long as no request has died, a session that has no request under way
   marks no default protocol. *)
THEOREM MarksAreAlwaysConsumed == Spec => []MarksAreConsumed
<1>1. MarksInvariant => MarksAreConsumed
  BY NoMarkPastEntry DEF MarksInvariant, MarksAreConsumed
<1> QED BY <1>1, MarksInvariantHolds, PTL

------------------------------------------------------------------------------
(* Only a cycle of parents lets the saves nest without end.                *)
(*                                                                         *)
(* The call stack holds a chain of communities, each below the next one,   *)
(* with a protocol at most at either end of it: a protocol brings its      *)
(* community when it is saved first, and finds its own mark when it is     *)
(* saved for its community.  A stack deeper than there are communities has *)
(* one of them twice.                                                      *)

ChainHolds(s) ==
    \A i \in 2 .. Len(stack[s]) :
        \/ /\ stack[s][i].group \in Communities
           /\ i > 2 => /\ stack[s][i - 1].group \in Communities
                       /\ tree[s][stack[s][i - 1].group] = stack[s][i].group
        \/ /\ stack[s][i].group \in Protocols
           /\ i = Len(stack[s])
           /\ stack[s][i].at = "write" \/ stack[s][i].group \in flags[s]

ChainInvariant ==
    /\ TypeOK
    /\ \A s \in Sessions \ running : stack[s] = <<>>
    /\ \A s \in Sessions : ChainHolds(s)

LEMMA OtherChains ==
    ASSUME NEW t \in Sessions, ChainHolds(t),
           flags'[t] = flags[t], stack'[t] = stack[t], tree'[t] = tree[t]
    PROVE  ChainHolds(t)'
BY DEF ChainHolds

(* A community whose hook goes on, and perhaps saves a protocol that it has
   marked, or its parent. *)
LEMMA CommunityChain ==
    ASSUME TypeOK, NEW s \in Sessions, stack[s] # <<>>, ChainHolds(s),
           Top(s).group \in Communities,
           tree'[s] = tree[s],
           Len(stack'[s]) \in {Len(stack[s]), Len(stack[s]) + 1},
           \A i \in 1 .. Len(stack[s]) : stack'[s][i].group = stack[s][i].group,
           Len(stack'[s]) = Len(stack[s]) + 1 =>
               LET g == stack'[s][Len(stack[s]) + 1].group
               IN  \/ g \in Communities /\ tree[s][Top(s).group] = g
                   \/ g \in Protocols /\ g \in flags'[s]
    PROVE  ChainHolds(s)'
<1> DEFINE n == Len(stack[s])
<1>1. n \in Nat \ {0} /\ Top(s) = stack[s][n]
  BY TopType DEF Top
<1> SUFFICES ASSUME NEW i \in 2 .. Len(stack'[s])
             PROVE  \/ /\ stack'[s][i].group \in Communities
                       /\ i > 2 => /\ stack'[s][i - 1].group \in Communities
                                   /\ tree[s][stack'[s][i - 1].group] = stack'[s][i].group
                    \/ /\ stack'[s][i].group \in Protocols
                       /\ i = Len(stack'[s])
                       /\ stack'[s][i].at = "write" \/ stack'[s][i].group \in flags'[s]
  BY DEF ChainHolds
<1>2. CASE i <= n
  <2>1. i \in 2 .. n /\ i \in 1 .. n /\ i - 1 \in 1 .. n
    BY <1>1, <1>2
  <2>2. stack[s][i].group \notin Protocols \/ i # n
    BY <1>1, GroupsAssumption
  <2>3. /\ stack[s][i].group \in Communities
        /\ i > 2 => /\ stack[s][i - 1].group \in Communities
                    /\ tree[s][stack[s][i - 1].group] = stack[s][i].group
    BY <2>1, <2>2 DEF ChainHolds
  <2> QED BY <2>1, <2>3
<1>3. CASE i = n + 1
  <2>1. Len(stack'[s]) = n + 1 /\ i - 1 = n /\ n \in 1 .. n
    BY <1>1, <1>3
  <2> QED BY <1>1, <1>3, <2>1
<1> QED BY <1>1, <1>2, <1>3

LEMMA NextChainInvariant == ChainInvariant /\ [Next]_vars => ChainInvariant'
<1> SUFFICES ASSUME ChainInvariant, [Next]_vars PROVE ChainInvariant'
  OBVIOUS
<1>1. TypeOK /\ TypeOK'
  BY NextTypeOK DEF ChainInvariant
(* A step inside a request leaves the other requests alone. *)
<1> DEFINE Inner(s) == /\ UNCHANGED <<running, tree>>
                       /\ \A t \in Sessions \ {s} : /\ flags'[t] = flags[t]
                                                    /\ stack'[t] = stack[t]
<1>2. ASSUME NEW s \in running, Inner(s), ChainHolds(s)' PROVE ChainInvariant'
  <2>1. s \in Sessions
    BY <1>1 DEF TypeOK
  <2>2. ASSUME NEW t \in Sessions PROVE ChainHolds(t)'
    BY <1>2, OtherChains DEF ChainInvariant
  <2> QED BY <1>1, <1>2, <2>1, <2>2 DEF ChainInvariant
<1>3. ASSUME NEW s \in Sessions, NEW ms, NEW frames, NEW e, NEW n,
             Begin(s, ms, frames, e, n), Len(frames) < 2
      PROVE  ChainInvariant'
  <2>1. /\ stack'[s] = frames
        /\ running' = running \cup {s}
        /\ flags' = flags
        /\ \A t \in Sessions \ {s} : stack'[t] = stack[t] /\ tree'[t] = tree[t]
    BY <1>1, <1>3 DEF Begin, TypeOK
  <2>2. 2 .. Len(stack'[s]) = {}
    BY <1>1, <1>3, <2>1, LenProperties DEF TypeOK
  <2>3. ChainHolds(s)'
    BY <2>2 DEF ChainHolds
  <2>4. ASSUME NEW t \in Sessions PROVE ChainHolds(t)'
    BY <2>1, <2>3, OtherChains DEF ChainInvariant
  <2> QED BY <1>1, <2>1, <2>4 DEF ChainInvariant
<1>4. ASSUME NEW s \in Sessions, End(s), flags' = flags
      PROVE  ChainInvariant'
  <2>1. /\ stack'[s] = <<>>
        /\ running' = running \ {s}
        /\ \A t \in Sessions \ {s} : stack'[t] = stack[t] /\ tree'[t] = tree[t]
    BY <1>1, <1>4 DEF End, TypeOK
  <2>2. ChainHolds(s)'
    BY <2>1 DEF ChainHolds
  <2>3. ASSUME NEW t \in Sessions PROVE ChainHolds(t)'
    BY <1>4, <2>1, <2>2, OtherChains DEF ChainInvariant
  <2> QED BY <1>1, <2>1, <2>3 DEF ChainInvariant
<1>5. ASSUME NEW s \in Sessions, NEW u \in Users, NEW g \in Groups, Join(s, u, g)
      PROVE  ChainInvariant'
  <2>1. Len(<<NewFrame(u, g)>>) < 2
    OBVIOUS
  <2> QED BY <1>3, <1>5, <2>1 DEF Join
<1>6. ASSUME NEW s \in Sessions,
             \/ \E u \in Users : Register(s, u)
             \/ \E c, d \in Communities : SetParent(s, c, d)
      PROVE  ChainInvariant'
  <2>1. PICK ms, e, n : Begin(s, ms, <<>>, e, n)
    BY <1>6 DEF Register, SetParent
  <2>2. Len(<<>>) < 2
    OBVIOUS
  <2> QED BY <1>3, <2>1, <2>2
<1>7. ASSUME UNCHANGED <<flags, running, stack, tree>>
      PROVE  ChainInvariant'
  BY <1>1, <1>7, OtherChains DEF ChainInvariant
<1>8. ASSUME NEW s \in Sessions,
             \/ \E c \in Communities : ClearParent(s, c)
             \/ \E u \in Users, g \in Groups : SaveInactive(s, u, g) \/ Remove(s, u, g)
      PROVE  ChainInvariant'
  BY <1>7, <1>8 DEF ClearParent, SaveInactive, Remove, local
<1>9. ASSUME NEW s \in Sessions, NextMembership(s)
      PROVE  ChainInvariant'
  <2>1. PICK m \in todo[s] :
           stack' = IF IsMember(s, m[1], m[2])
                    THEN stack
                    ELSE [stack EXCEPT ![s] = <<NewFrame(m[1], m[2])>>]
    BY <1>9 DEF NextMembership
  <2>2. s \in running /\ Inner(s) /\ stack[s] = <<>>
    BY <1>1, <1>9, <2>1 DEF NextMembership, TypeOK
  <2>3. stack'[s] = <<>> \/ stack'[s] = <<NewFrame(m[1], m[2])>>
    BY <1>1, <2>1, <2>2 DEF TypeOK
  <2>4. Len(stack'[s]) < 2
    <3>1. PICK f : f = NewFrame(m[1], m[2])
      OBVIOUS
    <3>2. stack'[s] = <<>> \/ stack'[s] = <<f>>
      BY <2>3, <3>1
    <3>3. Len(<<>>) < 2 /\ Len(<<f>>) < 2
      OBVIOUS
    <3> QED BY <3>2, <3>3
  <2>5. ChainHolds(s)'
    <3>1. Len(stack'[s]) \in Nat
      BY <1>1, LenProperties DEF TypeOK
    <3>2. 2 .. Len(stack'[s]) = {}
      BY <2>4, <3>1
    <3> QED BY <3>2 DEF ChainHolds
  <2> QED BY <1>2, <2>2, <2>5
<1>10. ASSUME NEW s \in Sessions, AddDefaultProtocol(s)
       PROVE  ChainInvariant'
  <2> PICK u, c : u = Top(s).user /\ c = Top(s).group
    OBVIOUS
  <2> DEFINE p == DefaultOf[c]
  <2>1. /\ s \in running
        /\ stack[s] # <<>>
        /\ u \in Users
        /\ c \in Communities
        /\ [Top(s) EXCEPT !.at = "parent"] \in Frame
    BY <1>1, <1>10, DefaultFrame DEF AddDefaultProtocol, At
  <2>2. /\ UNCHANGED <<running, tree>>
        /\ \A t \in Sessions \ {s} : flags'[t] = flags[t]
    BY <1>1, <1>10 DEF AddDefaultProtocol, TypeOK
  <2>3. CASE DefaultNeeded(s)
    <3>1. /\ Call(s, "parent", u, p)
          /\ p \in Protocols /\ p \in Groups
          /\ p \in flags'[s]
      BY <1>1, <1>10, <2>1, <2>3, GroupsAssumption
         DEF AddDefaultProtocol, DefaultNeeded, Groups, TypeOK
    <3> HIDE DEF p
    <3>2. NewFrame(u, p).group = p
      BY DEF NewFrame
    <3>3. ChainHolds(s)' /\ Inner(s)
      BY <1>1, <2>1, <2>2, <3>1, <3>2, CallStack, CommunityChain DEF ChainInvariant
    <3> QED BY <1>2, <2>1, <3>3
  <2>4. CASE ~DefaultNeeded(s)
    <3>1. Continue(s, "parent")
      BY <1>10, <2>4 DEF AddDefaultProtocol
    <3>2. ChainHolds(s)' /\ Inner(s)
      BY <1>1, <2>1, <2>2, <3>1, ContinueStack, CommunityChain DEF ChainInvariant
    <3> QED BY <1>2, <2>1, <3>2
  <2> QED BY <2>3, <2>4
<1>11. ASSUME NEW s \in Sessions, AddParentCommunity(s)
       PROVE  ChainInvariant'
  <2> PICK u, c : u = Top(s).user /\ c = Top(s).group
    OBVIOUS
  <2>1. /\ s \in running
        /\ stack[s] # <<>>
        /\ u \in Users
        /\ c \in Communities
        /\ [Top(s) EXCEPT !.at = "write"] \in Frame
        /\ UNCHANGED <<flags, running, tree>>
    BY <1>1, <1>11, ParentFrame DEF AddParentCommunity, At
  <2>2. CASE ParentNeeded(s)
    <3> DEFINE d == tree[s][c]
    <3>1. /\ Call(s, "write", u, d)
          /\ d \in Communities /\ d \in Groups
          /\ d = tree[s][Top(s).group]
      BY <1>1, <1>11, <2>1, <2>2 DEF AddParentCommunity, ParentNeeded, TypeOK, Groups
    <3> HIDE DEF d
    <3>2. NewFrame(u, d).group = d
      BY DEF NewFrame
    <3>3. /\ \A t \in Sessions \ {s} : stack'[t] = stack[t]
          /\ Len(stack'[s]) = Len(stack[s]) + 1
          /\ stack'[s][Len(stack[s]) + 1] = NewFrame(u, d)
          /\ \A i \in 1 .. Len(stack[s]) : stack'[s][i].group = stack[s][i].group
      BY <1>1, <2>1, <3>1, CallStack
    <3>4. ChainHolds(s)'
      BY <1>1, <2>1, <3>1, <3>2, <3>3, CommunityChain DEF ChainInvariant
    <3> QED BY <1>2, <2>1, <3>3, <3>4
  <2>3. CASE ~ParentNeeded(s)
    <3>1. Continue(s, "write")
      BY <1>11, <2>3 DEF AddParentCommunity
    <3>2. ChainHolds(s)' /\ Inner(s)
      BY <1>1, <2>1, <3>1, ContinueStack, CommunityChain DEF ChainInvariant
    <3> QED BY <1>2, <2>1, <3>2
  <2> QED BY <2>2, <2>3
<1>12. ASSUME NEW s \in Sessions, AddCommunity(s)
       PROVE  ChainInvariant'
  <2> PICK u, p : u = Top(s).user /\ p = Top(s).group
    OBVIOUS
  <2> DEFINE c == CommunityOf[p]
             n == Len(stack[s])
  <2>1. /\ s \in running
        /\ stack[s] # <<>>
        /\ u \in Users
        /\ p \in Protocols /\ p \notin Communities
        /\ c \in Communities /\ c \in Groups
        /\ [Top(s) EXCEPT !.at = "write"] \in Frame
        /\ n \in Nat \ {0}
        /\ Top(s) = stack[s][n]
        /\ Top(s).at = "community"
    BY <1>1, <1>12, CommunityFrame, TopType, GroupsAssumption
       DEF AddCommunity, At, Groups, Top
  <2>2. /\ UNCHANGED <<running, tree>>
        /\ \A t \in Sessions \ {s} : flags'[t] = flags[t]
    BY <1>1, <1>12 DEF AddCommunity, TypeOK
  <2>3. n >= 2 => p \in flags[s]
    BY <2>1 DEF ChainInvariant, ChainHolds
  <2>4. CASE CommunityNeeded(s)
    <3>1. Call(s, "write", u, c)
      BY <1>12, <2>4 DEF AddCommunity
    <3>2. n = 1
      <4>1. p \notin flags[s]
        BY <2>4 DEF CommunityNeeded
      <4>2. n \in Nat \ {0} /\ ~(n >= 2)
        BY <2>1, <2>3, <4>1
      <4> HIDE DEF n
      <4> QED BY <4>2
    <3>3. /\ \A t \in Sessions \ {s} : stack'[t] = stack[t]
          /\ Len(stack'[s]) = n + 1
          /\ stack'[s][n + 1] = NewFrame(u, c)
      <4>1. /\ stack[s] # <<>>
            /\ [Top(s) EXCEPT !.at = "write"] \in Frame
            /\ u \in Users /\ c \in Groups
            /\ Call(s, "write", u, c)
        BY <2>1, <3>1
      <4> HIDE DEF c, n
      <4>2. /\ \A t \in Sessions \ {s} : stack'[t] = stack[t]
            /\ Len(stack'[s]) = Len(stack[s]) + 1
            /\ stack'[s][Len(stack[s]) + 1] = NewFrame(u, c)
        BY <1>1, <4>1, CallStack
      <4> QED BY <4>2 DEF n
    <3> HIDE DEF c
    <3>4. stack'[s][2].group = c
      BY <3>2, <3>3 DEF NewFrame
    <3>5. ChainHolds(s)'
      BY <2>1, <3>2, <3>3, <3>4 DEF ChainHolds
    <3> QED BY <1>2, <2>1, <2>2, <3>3, <3>5
  <2>5. CASE ~CommunityNeeded(s)
    <3>1. Continue(s, "write")
      BY <1>12, <2>5 DEF AddCommunity
    <3>2. /\ \A t \in Sessions \ {s} : stack'[t] = stack[t]
          /\ Len(stack'[s]) = n
          /\ \A i \in 1 .. n :
               /\ stack'[s][i].group = stack[s][i].group
               /\ stack'[s][i].at = IF i = n THEN "write" ELSE stack[s][i].at
      BY <1>1, <2>1, <3>1, ContinueStack
    <3>3. \A i \in 2 .. n : /\ i \in 1 .. n /\ i - 1 \in 1 .. n
                            /\ i # n => stack[s][i].group \in Communities
      BY <2>1, GroupsAssumption DEF ChainInvariant, ChainHolds
    <3>4. ChainHolds(s)'
      <4> SUFFICES ASSUME NEW i \in 2 .. n
                   PROVE  \/ /\ stack'[s][i].group \in Communities
                             /\ i > 2 => /\ stack'[s][i - 1].group \in Communities
                                         /\ tree'[s][stack'[s][i - 1].group] =
                                              stack'[s][i].group
                          \/ /\ stack'[s][i].group \in Protocols
                             /\ i = n
                             /\ stack'[s][i].at = "write"
        BY <3>2 DEF ChainHolds
      <4>1. CASE i = n
        BY <2>1, <3>2, <4>1
      <4>2. CASE i # n
        <5>1. /\ stack[s][i].group \in Communities
              /\ i > 2 => /\ stack[s][i - 1].group \in Communities
                          /\ tree[s][stack[s][i - 1].group] = stack[s][i].group
          BY <4>2 DEF ChainInvariant, ChainHolds
        <5> QED BY <2>2, <3>2, <3>3, <4>2, <5>1
      <4> QED BY <4>1, <4>2
    <3> QED BY <1>2, <2>1, <2>2, <3>2, <3>4
  <2> QED BY <2>4, <2>5
<1>13. ASSUME NEW s \in Sessions, Write(s)
       PROVE  ChainInvariant'
  <2> DEFINE n == Len(stack[s])
  <2>1. s \in running /\ UNCHANGED <<flags, running, tree>>
    BY <1>13 DEF Write, At
  <2>2. /\ n \in Nat \ {0}
        /\ \A t \in Sessions \ {s} : stack'[t] = stack[t]
        /\ Len(stack'[s]) = n - 1
        /\ \A i \in 1 .. n - 1 : stack'[s][i] = stack[s][i]
    BY <1>1, <1>13, WriteStack, TopType
  <2>3. ASSUME NEW i \in 2 .. n - 1
        PROVE  /\ i \in 1 .. n - 1 /\ i - 1 \in 1 .. n - 1
               /\ stack[s][i].group \in Communities
               /\ i > 2 => /\ stack[s][i - 1].group \in Communities
                           /\ tree[s][stack[s][i - 1].group] = stack[s][i].group
    BY <2>2 DEF ChainInvariant, ChainHolds
  <2>4. ChainHolds(s)'
    BY <2>1, <2>2, <2>3 DEF ChainHolds
  <2> QED BY <1>2, <2>1, <2>2, <2>4
<1>14. ASSUME NEW s \in Sessions, Commit(s) \/ Abort(s) \/ RunAway(s)
       PROVE  ChainInvariant'
  BY <1>4, <1>14 DEF Commit, Abort, RunAway
<1>15. CASE UNCHANGED vars
  BY <1>7, <1>15 DEF vars
<1> QED
  BY <1>5, <1>6, <1>8, <1>9, <1>10, <1>11, <1>12, <1>13, <1>14, <1>15
     DEF Next, Step

(* A stack with more frames than there are communities, but for the protocols
   at its ends, has a community twice, and so the parents have a cycle. *)
LEMMA DeepStackHasCycle ==
    ASSUME ChainInvariant, NEW s \in Sessions, IsFiniteSet(Communities),
           Len(stack[s]) >= Cardinality(Communities) + 2,
           Top(s).group \in Communities
    PROVE  HasCycle(tree[s])
<1> DEFINE n == Len(stack[s])
           f == [i \in 2 .. n |-> stack[s][i].group]
<1>1. /\ Cardinality(Communities) \in Nat
      /\ n \in Nat
      /\ n >= 2
  BY FS_CardinalityType, LenProperties DEF ChainInvariant, TypeOK
<1>2. Top(s) = stack[s][n]
  BY DEF Top
<1>3. ASSUME NEW i \in 2 .. n
      PROVE  /\ stack[s][i].group \in Communities
             /\ i > 2 => tree[s][stack[s][i - 1].group] = stack[s][i].group
  <2>1. stack[s][i].group \notin Protocols \/ i # n
    BY <1>2, GroupsAssumption
  <2> QED BY <2>1 DEF ChainInvariant, ChainHolds
<1>4. f \in [2 .. n -> Communities]
  BY <1>3
<1>5. IsFiniteSet(2 .. n) /\ Cardinality(2 .. n) = n - 1
  <2>1. 2 \in Int /\ n \in Int
    BY <1>1
  <2>2. IsFiniteSet(2 .. n) /\ Cardinality(2 .. n) = IF 2 > n THEN 0 ELSE n - 2 + 1
    <3> HIDE DEF n
    <3> QED BY <2>1, FS_Interval
  <2> QED BY <1>1, <2>2
<1>6. Cardinality(Communities) < Cardinality(2 .. n)
  BY <1>1, <1>5
<1>7. \E x, y \in 2 .. n : x # y /\ f[x] = f[y]
  <2> HIDE DEF f
  <2> QED BY <1>4, <1>5, <1>6, FS_PigeonHole
<1>8. PICK i \in 2 .. n, j \in 2 .. n : i < j /\ stack[s][i].group = stack[s][j].group
  BY <1>1, <1>7
<1> DEFINE S == {stack[s][k].group : k \in i .. j - 1}
<1>9. stack[s][i].group \in S /\ S \subseteq Communities
  BY <1>1, <1>3, <1>8
<1>10. ASSUME NEW c \in S PROVE tree[s][c] \in S
  <2>1. PICK k \in i .. j - 1 : c = stack[s][k].group
    BY <1>10
  <2>2. k + 1 \in 2 .. n /\ k + 1 > 2 /\ k + 1 - 1 = k
    BY <1>1, <1>8
  <2>3. tree[s][c] = stack[s][k + 1].group
    BY <1>3, <2>1, <2>2
  <2>4. CASE k + 1 = j
    BY <1>8, <1>9, <2>3, <2>4
  <2>5. CASE k + 1 # j
    <3>1. k + 1 \in i .. j - 1
      BY <1>1, <1>8, <2>5
    <3> QED BY <2>3, <3>1
  <2> QED BY <2>4, <2>5
<1> HIDE DEF S
<1> QED BY <1>9, <1>10 DEF HasCycle

LEMMA RunAwayHasCycle ==
    ASSUME ChainInvariant, NEW s \in Sessions, IsFiniteSet(Communities),
           MaxDepth >= Cardinality(Communities) + 2, RunAway(s)
    PROVE  HasCycle(tree[s])
<1>1. /\ TypeOK
      /\ Len(stack[s]) = MaxDepth
      /\ Cardinality(Communities) \in Nat
      /\ MaxDepth \in Nat /\ MaxDepth >= 2
  BY FS_CardinalityType, SiteAssumption DEF ChainInvariant, RunAway
<1>2. CASE Top(s).group \in Communities
  BY <1>1, <1>2, DeepStackHasCycle
<1>3. CASE Top(s).group \notin Communities
  <2>1. At(s, "community") /\ CommunityNeeded(s)
    BY <1>1, <1>3, DefaultFrame, ParentFrame DEF RunAway
  <2>2. Top(s).group \notin flags[s] /\ Top(s).at = "community"
    BY <2>1 DEF CommunityNeeded, At
  <2>3. Len(stack[s]) \in 2 .. Len(stack[s]) /\ Top(s) = stack[s][Len(stack[s])]
    BY <1>1 DEF Top
  <2> QED BY <1>3, <2>2, <2>3 DEF ChainInvariant, ChainHolds
<1> QED BY <1>2, <1>3

(* The saves nest as deep as there are communities, and two more for the
   protocols at the ends; a request whose saves nest deeper has met a cycle of
   parents, whatever marks a dead request has left and whoever else works. *)
THEOREM RunAwaysMeetCycles ==
    ASSUME IsFiniteSet(Communities), MaxDepth >= Cardinality(Communities) + 2
    PROVE  Spec => RunAwayOnlyOnCycle
<1>1. Init => ChainInvariant
  <2> SUFFICES ASSUME Init PROVE ChainInvariant
    OBVIOUS
  <2>1. \A s \in Sessions : stack[s] = <<>>
    BY DEF Init
  <2> QED BY <2>1, InitTypeOK DEF ChainInvariant, ChainHolds
<1>2. ChainInvariant /\ [Next]_vars
      => [\A s \in Sessions : RunAway(s) => HasCycle(tree[s])]_vars
  BY RunAwayHasCycle
<1>3. Spec => [][\A s \in Sessions : RunAway(s) => HasCycle(tree[s])]_vars
  BY <1>1, <1>2, NextChainInvariant, PTL DEF Spec
<1> QED BY <1>3 DEF RunAwayOnlyOnCycle

==============================================================================
