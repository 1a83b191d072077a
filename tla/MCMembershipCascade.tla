------------------------ MODULE MCMembershipCascade ------------------------
(* Instances of MembershipCascade: a child community c1 that may be put below
   c2, each with its default protocol, and a further protocol q1 of c1. *)
EXTENDS MembershipCascade, TLC

CONSTANTS c1, c2, p1, p2, q1

OneLevel == (p1 :> c1) @@ (p2 :> c2)
Defaults == (c1 :> p1) @@ (c2 :> p2)

(* Only c1 has a protocol. *)
JustC1 == p1 :> c1
OneDefault == (c1 :> p1) @@ (c2 :> None)

(* A single community with two protocols. *)
C1Protocols == (p1 :> c1) @@ (q1 :> c1)
C1Default == c1 :> p1

NoParents == [c \in Communities |-> None]
C1BelowC2 == [NoParents EXCEPT ![c1] = c2]

Nothing == {}
BothWays == {<<c1, c2>>, <<c2, c1>>}
JustP1 == {p1}

SessionSymmetry == Permutations(Sessions)
=============================================================================
