---------------------------- MODULE MCRecordFamilies ----------------------------
(* Instances of RecordFamilies: u1 has two tabs and is a steward of p only; u2
   contributes to both p and q. *)
EXTENDS RecordFamilies, TLC

CONSTANTS u1, u2, t1, t2, p, q

TwoTabs == (t1 :> u1) @@ (t2 :> u1)
StewardOfP == (u1 :> {p}) @@ (u2 :> {})
ContributorToBoth == (u1 :> {}) @@ (u2 :> {p, q})
MembersOfTheirs == (u1 :> {p}) @@ (u2 :> {p, q})

(* Items are alike, and so are the tabs of one user. *)
Symmetry == Permutations(Items) \cup Permutations(Tabs)
================================================================================
