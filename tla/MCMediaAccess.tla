----------------------------- MODULE MCMediaAccess -----------------------------
(* Instances of MediaAccess.  Atoms and requests are interchangeable. *)
EXTENDS MediaAccess, TLC

OneCommunity == [p \in Protocols |-> CHOOSE c \in Communities : TRUE]

(* The users are members of the first protocol; which protocols are open, whether
   the community is strict and whether they are in it is left open. *)
MembersOfOne == {CHOOSE p \in Protocols : \A q \in Protocols : p <= q}
MCInit == Init /\ member = [u \in Users |-> MembersOfOne]
MCSpec == MCInit /\ [][Next]_vars

Symmetry == Permutations(Atoms) \cup Permutations(Requests)
===============================================================================
