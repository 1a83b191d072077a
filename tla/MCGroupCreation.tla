--------------------------- MODULE MCGroupCreation ---------------------------
(* Instances of GroupCreation. *)
EXTENDS GroupCreation, TLC

UserAndSessionSymmetry == Permutations(Users) \cup Permutations(Sessions)
==============================================================================
