--------------------------- MODULE MCContentGrants ---------------------------
(* Instances of ContentGrants. *)
EXTENDS ContentGrants, TLC

CONSTANTS p1, p2

(* Items start in no protocol and are saved with both: any or all of them. *)
NoProtocol == <<{}, "all">>

BothProtocols == {<<{p1, p2}, "any">>, <<{p1, p2}, "all">>}

(* Nothing tells one item, or one protocol, from the other. *)
Alike == Permutations(Items) \cup Permutations(Protocols)
==============================================================================
