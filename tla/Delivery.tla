------------------------------- MODULE Delivery -------------------------------
(***************************************************************************)
(* What the notifications of Mukurtu promise, without lists of             *)
(* frequencies, flags, failures and digests.  Every item has a latest      *)
(* email and an audience; a user is settled once the site will not mail    *)
(* that email to the user any more.  Only users that have been told are    *)
(* settled, and only users of the audience that are not settled are told.  *)
(***************************************************************************)
CONSTANTS Users, Items

VARIABLES
    audience,   \* users the email of an item is for
    told,       \* users that it has been mailed to, or that caused it
    settled     \* users that it will not be mailed to any more

Init ==
    /\ audience = [i \in Items |-> {}]
    /\ told = [i \in Items |-> {}]
    /\ settled = [i \in Items |-> {}]

Owed(i) == audience[i] \ settled[i]

(* A new email of item i replaces the one before: some are told at once. *)
Publish(i) ==
    \E us \in SUBSET Users : \E at_once \in SUBSET us :
        /\ audience' = [audience EXCEPT ![i] = us]
        /\ told' = [told EXCEPT ![i] = at_once]
        /\ settled' = [settled EXCEPT ![i] = at_once]

(* One mail to u about the items is. *)
Tell(u, is) ==
    /\ \A i \in is : u \in Owed(i)
    /\ told' = [i \in Items |-> IF i \in is THEN told[i] \cup {u} ELSE told[i]]
    /\ UNCHANGED <<audience, settled>>

(* Users that have been told are recorded as such. *)
Settle(i) ==
    \E us \in SUBSET told[i] :
        /\ settled' = [settled EXCEPT ![i] = @ \cup us]
        /\ UNCHANGED <<audience, told>>

(* Users join or leave the audience of item i. *)
Retarget(i) ==
    \E us \in SUBSET Users :
        /\ audience' = [audience EXCEPT ![i] = us]
        /\ UNCHANGED <<told, settled>>

(* Item i is deleted, and its email with it. *)
Withdraw(i) ==
    /\ audience' = [audience EXCEPT ![i] = {}]
    /\ told' = [told EXCEPT ![i] = {}]
    /\ settled' = [settled EXCEPT ![i] = {}]

Next ==
    \/ \E i \in Items : Publish(i) \/ Settle(i) \/ Retarget(i) \/ Withdraw(i)
    \/ \E u \in Users, is \in SUBSET Items : Tell(u, is)

Spec == Init /\ [][Next]_<<audience, told, settled>>
===============================================================================
