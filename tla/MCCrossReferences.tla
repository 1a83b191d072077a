-------------------------- MODULE MCCrossReferences --------------------------
(* Instances of CrossReferences: items i1, i2 and a collection c1. *)
EXTENDS CrossReferences, TLC

CONSTANTS i1, i2, c1, admin, member

(* A contributor who may not view i2. *)
NotI2 == (admin :> Nodes) @@ (member :> Nodes \ {i2})
===============================================================================
