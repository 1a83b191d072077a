--------------------------- MODULE MCNotifications ---------------------------
(* Instances of Notifications: a digital heritage item d1 and a page f1. *)
EXTENDS Notifications, TLC

CONSTANTS d1, f1, u1, u2

OneOfEach == (d1 :> "dhan") @@ (f1 :> "following")

(* u1 has chosen daily digests, u2 nothing. *)
U1Daily ==
    [k \in Kinds |-> [u \in Users |-> IF u = u1 THEN "day"
                                     ELSE IF k = "dhan" THEN None ELSE "immediately"]]

(* A page may be put on a weekly digest. *)
WeekOnly == {"week"}
===============================================================================
