------------------------------ MODULE MediaAccess ------------------------------
(***************************************************************************)
(* Who may view a media item (an "atom" of Scald) and who finds it in the  *)
(* media library, in ma_scald.                                             *)
(*                                                                         *)
(* The view rule asks for each protocol of the atom whether the user may   *)
(* view it: any of them, or all of them, as the atom's sharing setting     *)
(* says.  It follows the node access rows of the protocol, which og_access *)
(* writes: one of the protocol when it is strict, and one of its community *)
(* when that was strict as the rows were written.  The library cannot ask  *)
(* that of every atom.  A table numbers sets of protocols as they come up, *)
(* another lists for each atom the numbers of the sets that open it, and   *)
(* the query is for the numbers of the sets the user holds.                *)
(*                                                                         *)
(* An atom is saved outside of any transaction: its fields are written,    *)
(* its rows cleared, the sets looked up and added if they are missing, and *)
(* the new rows inserted one by one.  Requests interleave and may die.     *)
(***************************************************************************)
EXTENDS Integers, Sequences

CONSTANTS
    Users, Atoms, Requests,
    Protocols,    \* node numbers of the protocols
    Communities,
    CommunityOf,  \* the community of each protocol
    None,
    MaxSaves,     \* atoms saved or deleted
    MaxEvents     \* views of the library, deaths, and changes of the site

ASSUME MediaAccessAssumption ==
    /\ Protocols \subseteq Nat
    /\ CommunityOf \in [Protocols -> Communities]
    /\ None \notin Atoms
    /\ MaxSaves \in Nat /\ MaxEvents \in Nat

VARIABLES
    opened,   \* protocols that are open
    member,   \* the protocols each user is a member of
    joined,   \* the communities each user is a member of
    strict,   \* communities that are strict
    shut,     \* protocols with a node access row of their community
    exists,   \* whether an atom is "unborn", "live" or "deleted"
    atom,     \* protocols and sharing setting of each atom
    sets,     \* mukurtu_protocol_map: the set of protocols of each number
    rows,     \* scald_protocol_access: the numbers listed for each atom
    req,      \* requests that save an atom or view the library
    settled,  \* history: atoms whose last save was alone and came to its end
    saves, events    \* how many there have been

site == <<opened, member, joined, strict, shut>>
vars == <<site, exists, atom, sets, rows, req, settled, saves, events>>

Sharing == {"any", "all"}
Atom == [protocols : SUBSET Protocols, sharing : Sharing]
NewAtom == [protocols |-> {}, sharing |-> "any"]

(* need: the sets still to be looked up; missing: the one to be added; ids: the
   numbers found; alone: no other request has saved the atom meanwhile. *)
Request == [at : {"idle", "clearing", "numbering", "listing"},
            atom : Atoms \cup {None}, need : SUBSET SUBSET Protocols,
            missing : SUBSET SUBSET Protocols, ids : SUBSET Nat, alone : BOOLEAN]
Idle == [at |-> "idle", atom |-> None, need |-> {}, missing |-> {}, ids |-> {},
         alone |-> TRUE]

TypeOK ==
    /\ opened \in SUBSET Protocols
    /\ member \in [Users -> SUBSET Protocols]
    /\ joined \in [Users -> SUBSET Communities]
    /\ strict \in SUBSET Communities
    /\ shut \in SUBSET Protocols
    /\ exists \in [Atoms -> {"unborn", "live", "deleted"}]
    /\ atom \in [Atoms -> Atom]
    /\ sets \in Seq(SUBSET Protocols)
    /\ rows \in [Atoms -> SUBSET (1..Len(sets))]
    /\ req \in [Requests -> Request]
    /\ \A r \in Requests : req[r].ids \subseteq 1..Len(sets)
    /\ settled \in SUBSET Atoms
    /\ saves \in Nat /\ events \in Nat

(* og_access_node_access_records(): protocols that get a row of their community. *)
OfStrict == {p \in Protocols : CommunityOf[p] \in strict}

(* A site without media, where all rows are up to date. *)
Init ==
    /\ opened \in SUBSET Protocols
    /\ member \in [Users -> SUBSET Protocols]
    /\ joined \in [Users -> SUBSET Communities]
    /\ strict \in SUBSET Communities
    /\ shut = OfStrict
    /\ exists = [a \in Atoms |-> "unborn"]
    /\ atom = [a \in Atoms |-> NewAtom]
    /\ sets = <<>>
    /\ rows = [a \in Atoms |-> {}]
    /\ req = [r \in Requests |-> Idle]
    /\ settled = {}
    /\ saves = 0 /\ events = 0

------------------------------------------------------------------------------
(* The view rule. *)

ByCommunity(u, p) == p \in shut /\ CommunityOf[p] \in joined[u]

(* node_access('view') of a protocol: all may view one without a row, and members
   of the groups that have a row one with rows.  A strict protocol has its own. *)
MayView(u, p) ==
    \/ p \in opened \ shut
    \/ p \in member[u] \ opened
    \/ ByCommunity(u, p)

Allowed(u, a) ==
    \/ atom[a].protocols = {}
    \/ atom[a].sharing = "any" /\ \E p \in atom[a].protocols : MayView(u, p)
    \/ atom[a].sharing = "all" /\ \A p \in atom[a].protocols : MayView(u, p)

------------------------------------------------------------------------------
(* Numbers of sets. *)

Numbers(s) == {i \in DOMAIN sets : sets[i] = s}

(* ma_scald_get_protocol_set_id(): the query is not ordered, and returns the
   first row of the table. *)
First(s) == {i \in Numbers(s) : \A j \in Numbers(s) : i <= j}

(* ma_scald_insert_protocol_access(): the sets that open an atom. *)
SetsOf(x) ==
    IF x.protocols = {} THEN {{}}
    ELSE IF x.sharing = "all" THEN {x.protocols}
    ELSE {{p} : p \in x.protocols}

(* Open protocols, and the protocols the user is a member of.  The query for the
   first has a condition on a field, and so finds those the user may view only;
   that for the others has not. *)
Counted(u) == {p \in opened : MayView(u, p)} \cup member[u]

(* Mutant: only protocols the user is a member of count in a compound set. *)
Compounds_MemberOnly(u) ==
    {i \in DOMAIN sets : /\ \E p, q \in sets[i] : p # q
                         /\ sets[i] \subseteq member[u]}

(* ma_scald_get_compound_protocols(): the numbers of sets of several protocols,
   of those the user holds. *)
Compounds(u) ==
    {i \in DOMAIN sets : /\ \E p, q \in sets[i] : p # q
                         /\ sets[i] \subseteq Counted(u)}

(* ma_scald_get_current_user_protocol_sets(): an array with the number of no
   protocols at that number, of single protocols at the node number of the
   protocol, of compound sets at their own; a later entry replaces one before.
   A set that gets its number only now is in no row. *)
Held(u) ==
    (First({}) \ (Counted(u) \cup Compounds(u)))
    \cup (UNION {First({p}) : p \in Counted(u) \ Compounds(u)})
    \cup Compounds(u)

(* ma_scald_views_query_alter() *)
Listed(u, a) == rows[a] \cap Held(u) # {}

------------------------------------------------------------------------------
(* Saving an atom. *)

SavingAtom(a) == {r \in Requests : req[r].atom = a}

(* The fields are written. *)
BeginSave(r, a, x) ==
    /\ req[r] = Idle /\ saves < MaxSaves
    /\ saves' = saves + 1
    /\ exists[a] # "deleted"
    /\ exists' = [exists EXCEPT ![a] = "live"]
    /\ atom' = [atom EXCEPT ![a] = x]
    /\ req' = [q \in Requests |->
                 IF q = r
                 THEN [Idle EXCEPT !.at = "clearing", !.atom = a, !.need = SetsOf(x),
                                   !.alone = (SavingAtom(a) = {})]
                 ELSE IF req[q].atom = a THEN [req[q] EXCEPT !.alone = FALSE]
                 ELSE req[q]]
    /\ settled' = settled \ {a}
    /\ UNCHANGED <<site, sets, rows, events>>

(* Mutant: the rows of before stay. *)
ClearRows_Keeps(r) ==
    /\ req[r].at = "clearing"
    /\ req' = [req EXCEPT ![r].at = "numbering"]
    /\ UNCHANGED <<site, exists, atom, sets, rows, settled, saves, events>>

(* ma_scald_clear_protocol_access() *)
ClearRows(r) ==
    /\ req[r].at = "clearing"
    /\ rows' = [rows EXCEPT ![req[r].atom] = {}]
    /\ req' = [req EXCEPT ![r].at = "numbering"]
    /\ UNCHANGED <<site, exists, atom, sets, settled, saves, events>>

(* A set is looked up: it has a number, or it is to be added. *)
LookUp(r, s) ==
    /\ req[r].at = "numbering" /\ req[r].missing = {}
    /\ s \in req[r].need
    /\ req' = [req EXCEPT
         ![r].need = IF Numbers(s) = {} THEN @ ELSE @ \ {s},
         ![r].missing = IF Numbers(s) = {} THEN {s} ELSE {},
         ![r].ids = IF Numbers(s) = {} THEN @ ELSE @ \cup First(s)]
    /\ UNCHANGED <<site, exists, atom, sets, rows, settled, saves, events>>

(* Mutant: the number taken is that of the last set there was. *)
AddSet_OffByOne(r, s) ==
    /\ req[r].at = "numbering" /\ s \in req[r].missing
    /\ sets' = Append(sets, s)
    /\ req' = [req EXCEPT ![r].need = @ \ {s}, ![r].missing = {},
                          ![r].ids = @ \cup {Len(sets)}]
    /\ UNCHANGED <<site, exists, atom, rows, settled, saves, events>>

(* It is added, whether another request has added it meanwhile or not. *)
AddSet(r, s) ==
    /\ req[r].at = "numbering" /\ s \in req[r].missing
    /\ sets' = Append(sets, s)
    /\ req' = [req EXCEPT ![r].need = @ \ {s}, ![r].missing = {},
                          ![r].ids = @ \cup {Len(sets) + 1}]
    /\ UNCHANGED <<site, exists, atom, rows, settled, saves, events>>

(* All sets have a number.  A view of the library is over; its query, and what
   it lists, are the operators above. *)
AllNumbered(r) ==
    /\ req[r].at = "numbering" /\ req[r].need = {}
    /\ req' = [req EXCEPT ![r] = IF req[r].atom = None THEN Idle
                                 ELSE [req[r] EXCEPT !.at = "listing"]]
    /\ UNCHANGED <<site, exists, atom, sets, rows, settled, saves, events>>

InsertRow(r, i) ==
    /\ req[r].at = "listing" /\ i \in req[r].ids
    /\ rows' = [rows EXCEPT ![req[r].atom] = @ \cup {i}]
    /\ req' = [req EXCEPT ![r].ids = @ \ {i}]
    /\ UNCHANGED <<site, exists, atom, sets, settled, saves, events>>

EndSave(r) ==
    /\ req[r].at = "listing" /\ req[r].ids = {}
    /\ req' = [req EXCEPT ![r] = Idle]
    /\ settled' = IF req[r].alone /\ exists[req[r].atom] = "live"
                  THEN settled \cup {req[r].atom} ELSE settled
    /\ UNCHANGED <<site, exists, atom, sets, rows, saves, events>>

(* The request dies; what it has written stays. *)
Die(r) ==
    /\ req[r] # Idle /\ events < MaxEvents
    /\ events' = events + 1
    /\ req' = [req EXCEPT ![r] = Idle]
    /\ UNCHANGED <<site, exists, atom, sets, rows, settled, saves>>

(* Deleting an atom is one transaction. *)
DeleteAtom(a) ==
    /\ exists[a] = "live" /\ saves < MaxSaves
    /\ saves' = saves + 1
    /\ exists' = [exists EXCEPT ![a] = "deleted"]
    /\ settled' = settled \ {a}
    /\ rows' = [rows EXCEPT ![a] = {}]
    /\ UNCHANGED <<site, atom, sets, req, events>>

------------------------------------------------------------------------------
(* Viewing the library numbers the sets the user holds, of none and of single
   protocols, that have no number yet. *)
View(r, u) ==
    /\ req[r] = Idle /\ events < MaxEvents
    /\ events' = events + 1
    /\ req' = [req EXCEPT ![r] = [Idle EXCEPT !.at = "numbering",
                                              !.need = {{}} \cup {{p} : p \in Counted(u)}]]
    /\ UNCHANGED <<site, exists, atom, sets, rows, settled, saves>>

(* Memberships, protocols and communities change; no atom is listed anew. *)
Toggle(S, e) == IF e \in S THEN S \ {e} ELSE S \cup {e}

ChangeMembership(u, p) ==
    /\ events < MaxEvents
    /\ events' = events + 1
    /\ member' = [member EXCEPT ![u] = Toggle(@, p)]
    /\ UNCHANGED <<opened, joined, strict, shut, exists, atom, sets, rows, req, settled,
                   saves>>

JoinOrLeave(u, c) ==
    /\ events < MaxEvents
    /\ events' = events + 1
    /\ joined' = [joined EXCEPT ![u] = Toggle(@, c)]
    /\ UNCHANGED <<opened, member, strict, shut, exists, atom, sets, rows, req, settled,
                   saves>>

(* The rows of a protocol are written with its fields, and ask its community. *)
SaveProtocol(p, open) ==
    /\ events < MaxEvents
    /\ events' = events + 1
    /\ opened' = IF open THEN opened \cup {p} ELSE opened \ {p}
    /\ shut' = IF p \in OfStrict THEN shut \cup {p} ELSE shut \ {p}
    /\ UNCHANGED <<member, joined, strict, exists, atom, sets, rows, req, settled, saves>>

(* A community changes its access; the rows of its protocols stay. *)
ChangeCommunity(c) ==
    /\ events < MaxEvents
    /\ events' = events + 1
    /\ strict' = Toggle(strict, c)
    /\ UNCHANGED <<opened, member, joined, shut, exists, atom, sets, rows, req,
                   settled, saves>>

(* The batch that follows in a form comes to one of them, or never does. *)
AcquireGrants(p) ==
    /\ (p \in shut) # (p \in OfStrict)
    /\ shut' = Toggle(shut, p)
    /\ UNCHANGED <<opened, member, joined, strict, exists, atom, sets, rows, req,
                   settled, saves, events>>

Next ==
    \/ \E r \in Requests, a \in Atoms, x \in Atom : BeginSave(r, a, x)
    \/ \E r \in Requests : ClearRows(r)
    \/ \E r \in Requests : \E s \in req[r].need : LookUp(r, s)
    \/ \E r \in Requests : \E s \in req[r].missing : AddSet(r, s)
    \/ \E r \in Requests : AllNumbered(r)
    \/ \E r \in Requests : \E i \in req[r].ids : InsertRow(r, i)
    \/ \E r \in Requests : EndSave(r)
    \/ \E r \in Requests : Die(r)
    \/ \E a \in Atoms : DeleteAtom(a)
    \/ \E r \in Requests, u \in Users : View(r, u)
    \/ \E u \in Users, p \in Protocols : ChangeMembership(u, p)
    \/ \E u \in Users, c \in Communities : JoinOrLeave(u, c)
    \/ \E p \in Protocols, open \in BOOLEAN : SaveProtocol(p, open)
    \/ \E c \in Communities : ChangeCommunity(c)
    \/ \E p \in Protocols : AcquireGrants(p)

Spec == Init /\ [][Next]_vars

------------------------------------------------------------------------------
(* Properties. *)

(* The library never lists an atom to a user who may not view it, whatever has
   happened to memberships, protocols and communities since the atom was saved,
   whether the rows of protocols follow their communities, and however often
   requests died or raced for the numbers of sets: as long as the last save of this
   atom came to its end and did not overlap another one of it, and the user is in
   the communities of the protocols of the atom that he is a member of. *)
ListedIsAllowed ==
    \A a \in settled : \A u \in Users :
        Listed(u, a) /\ (\A p \in atom[a].protocols \cap member[u] : CommunityOf[p] \in joined[u])
            => Allowed(u, a)

(* A row that stands for a set which has an earlier number: two requests have
   both missed the set, and both added it. *)
Shadowed(i) == i \notin First(sets[i])

(* A strict protocol that a user may view by the row of its community only. *)
Overlooked(u, p) == ByCommunity(u, p) /\ p \notin opened \cup member[u]

(* The library lists every atom to all who may view it, but for atoms listed
   under a number that two requests raced for, and users who may view one of its
   protocols as members of the community only. *)
AllowedIsListed ==
    \A a \in settled : \A u \in Users :
        /\ Allowed(u, a)
        /\ \A i \in rows[a] : ~Shadowed(i)
        /\ \A p \in atom[a].protocols : ~Overlooked(u, p)
        => Listed(u, a)

(* "User has access to each single protocol they are a member of": its number
   is among those the query of the library is for. *)
EachSingleProtocol ==
    \A u \in Users : \A p \in member[u] : First({p}) \subseteq Held(u)
===============================================================================
