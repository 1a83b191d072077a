-------------------------- MODULE MediaAccess_proofs --------------------------
(***************************************************************************)
(* Theorems about MediaAccess, for every set of users, atoms, protocols    *)
(* and requests, in any interleaving and with any number of deaths.        *)
(***************************************************************************)
EXTENDS MediaAccess, WellFoundedInduction, TLAPS

------------------------------------------------------------------------------
(* Type correctness. *)

LEMMA IdleIsRequest == Idle \in Request
BY DEF Idle, Request

(* A request that clears or lists rows does so for an atom. *)
Saving(q) == q.at \in {"clearing", "listing"}

(* The parts of the type invariant, so that a step cites what it needs. *)
SiteOK ==
    /\ opened \in SUBSET Protocols
    /\ member \in [Users -> SUBSET Protocols]
    /\ joined \in [Users -> SUBSET Communities]
    /\ strict \in SUBSET Communities
    /\ shut \in SUBSET Protocols
    /\ exists \in [Atoms -> {"unborn", "live", "deleted"}]
    /\ atom \in [Atoms -> Atom]
    /\ settled \in SUBSET Atoms
CountsOK == saves \in Nat /\ events \in Nat
SetsOK == sets \in Seq(SUBSET Protocols)
RowsOK == rows \in [Atoms -> SUBSET (1..Len(sets))]
ReqOK ==
    /\ req \in [Requests -> Request]
    /\ \A r \in Requests : Saving(req[r]) => req[r].atom # None
IdsOK == \A r \in Requests : req[r].ids \subseteq 1..Len(sets)

Typed == SiteOK /\ CountsOK /\ SetsOK /\ RowsOK /\ ReqOK /\ IdsOK

LEMMA TypedMeansTypeOK == Typed => TypeOK
BY DEF Typed, TypeOK, SiteOK, CountsOK, SetsOK, RowsOK, ReqOK, IdsOK

LEMMA FirstInSets == ASSUME SetsOK, NEW s PROVE First(s) \subseteq 1..Len(sets)
BY DEF SetsOK, First, Numbers

LEMMA SetsOfAtom == ASSUME NEW x \in Atom PROVE SetsOf(x) \in SUBSET SUBSET Protocols
BY DEF Atom, SetsOf

(* One request changes to a record of the right type. *)
LEMMA RequestChanges ==
    ASSUME ReqOK, IdsOK, NEW r \in Requests, NEW new \in Request,
           new.ids \subseteq 1..Len(sets), Saving(new) => new.atom # None,
           req' = [req EXCEPT ![r] = new], sets' = sets
    PROVE  ReqOK' /\ IdsOK'
BY DEF ReqOK, IdsOK

LEMMA InitTyped == Init => Typed
<1> SUFFICES ASSUME Init PROVE Typed
  OBVIOUS
<1>1. NewAtom \in Atom
  BY DEF NewAtom, Atom, Sharing
<1>2. SiteOK
  BY <1>1 DEF Init, SiteOK, OfStrict
<1>3. CountsOK /\ SetsOK /\ RowsOK
  BY DEF Init, CountsOK, SetsOK, RowsOK
<1>4. ReqOK /\ IdsOK
  BY IdleIsRequest DEF Init, ReqOK, IdsOK, Idle, Saving
<1> QED BY <1>2, <1>3, <1>4 DEF Typed

LEMMA NextTyped == Typed /\ [Next]_vars => Typed'
<1> SUFFICES ASSUME Typed, [Next]_vars PROVE Typed'
  OBVIOUS
<1>0. SiteOK /\ CountsOK /\ SetsOK /\ RowsOK /\ ReqOK /\ IdsOK
  BY DEF Typed
<1>1. ASSUME NEW r \in Requests, NEW a \in Atoms, NEW x \in Atom, BeginSave(r, a, x)
      PROVE  Typed'
  <2> DEFINE begun == [Idle EXCEPT !.at = "clearing", !.atom = a, !.need = SetsOf(x),
                                   !.alone = (SavingAtom(a) = {})]
             crossed(q) == [req[q] EXCEPT !.alone = FALSE]
  <2>1. begun \in Request /\ begun.ids = {}
    BY SetsOfAtom DEF Idle, Request
  <2>a. Saving(begun) => begun.atom # None
    BY MediaAccessAssumption DEF Idle
  <2>2. \A q \in Requests : /\ crossed(q) \in Request /\ crossed(q).ids = req[q].ids
                            /\ Saving(crossed(q)) => crossed(q).atom # None
    <3> SUFFICES ASSUME NEW q \in Requests
                 PROVE  /\ crossed(q) \in Request /\ crossed(q).ids = req[q].ids
                        /\ Saving(crossed(q)) => crossed(q).atom # None
      OBVIOUS
    <3>1. req[q] \in Request /\ (Saving(req[q]) => req[q].atom # None)
      BY <1>0 DEF ReqOK
    <3> QED BY <3>1 DEF Request, Saving
  <2>3. req' = [q \in Requests |->
                  IF q = r THEN begun ELSE IF req[q].atom = a THEN crossed(q) ELSE req[q]]
    BY <1>1 DEF BeginSave
  <2> HIDE DEF begun, crossed
  <2>4. ReqOK'
    BY <1>0, <2>1, <2>a, <2>2, <2>3 DEF ReqOK
  <2>5. sets' = sets /\ rows' = rows
    BY <1>1 DEF BeginSave
  <2>6. IdsOK'
    BY <1>0, <2>1, <2>2, <2>3, <2>5 DEF IdsOK
  <2>7. SiteOK'
    BY <1>0, <1>1 DEF BeginSave, SiteOK, site
  <2>8. CountsOK'
    <3>1. saves' = saves + 1 /\ events' = events
      BY <1>1 DEF BeginSave
    <3> QED BY <1>0, <3>1 DEF CountsOK
  <2> QED BY <1>0, <2>4, <2>5, <2>6, <2>7, <2>8 DEF Typed, SetsOK, RowsOK
<1>2. ASSUME NEW r \in Requests, ClearRows(r)
      PROVE  Typed'
  <2> DEFINE new == [req[r] EXCEPT !.at = "numbering"]
  <2>1. new \in Request /\ new.ids = req[r].ids /\ ~Saving(new)
    BY <1>0 DEF ReqOK, Request, Saving
  <2>2. req' = [req EXCEPT ![r] = new] /\ sets' = sets
    BY <1>2 DEF ClearRows
  <2> HIDE DEF new
  <2>3. ReqOK' /\ IdsOK'
    BY <1>0, <2>1, <2>2, RequestChanges DEF IdsOK
  <2>4. RowsOK'
    BY <1>0, <1>2 DEF ClearRows, RowsOK
  <2>5. SiteOK' /\ CountsOK' /\ SetsOK'
    BY <1>0, <1>2 DEF ClearRows, SiteOK, CountsOK, SetsOK, site
  <2> QED BY <2>3, <2>4, <2>5 DEF Typed
<1>3. ASSUME NEW r \in Requests, NEW s \in req[r].need, LookUp(r, s)
      PROVE  Typed'
  <2> DEFINE new == [req[r] EXCEPT
                       !.need = IF Numbers(s) = {} THEN @ ELSE @ \ {s},
                       !.missing = IF Numbers(s) = {} THEN {s} ELSE {},
                       !.ids = IF Numbers(s) = {} THEN @ ELSE @ \cup First(s)]
  <2>1. First(s) \subseteq 1..Len(sets) /\ First(s) \subseteq Nat
    BY <1>0, FirstInSets DEF SetsOK
  <2>a. req[r] \in Request /\ req[r].at = "numbering" /\ {s} \in SUBSET SUBSET Protocols
    <3>1. req[r] \in Request /\ req[r].at = "numbering" /\ s \in req[r].need
      BY <1>0, <1>3 DEF LookUp, ReqOK
    <3>2. req[r].need \in SUBSET SUBSET Protocols
      BY <3>1 DEF Request
    <3> QED BY <3>1, <3>2
  <2>2. new \in Request /\ ~Saving(new)
    <3>1. CASE Numbers(s) = {}
      BY <2>a, <3>1 DEF Request, Saving
    <3>2. CASE Numbers(s) # {}
      BY <2>a, <2>1, <3>2 DEF Request, Saving
    <3> QED BY <3>1, <3>2
  <2>3. new.ids \subseteq 1..Len(sets)
    BY <1>0, <2>1 DEF ReqOK, IdsOK, Request
  <2>4. req' = [req EXCEPT ![r] = new]
    BY <1>0, <1>3 DEF LookUp, ReqOK, Request
  <2> HIDE DEF new
  <2>5. UNCHANGED <<site, exists, atom, sets, rows, settled, saves, events>>
    BY <1>3 DEF LookUp
  <2>6. ReqOK' /\ IdsOK'
    BY <1>0, <2>2, <2>3, <2>4, <2>5, RequestChanges
  <2>7. SiteOK' /\ CountsOK' /\ SetsOK' /\ RowsOK'
    BY <1>0, <2>5 DEF SiteOK, CountsOK, SetsOK, RowsOK, site
  <2> QED BY <2>6, <2>7 DEF Typed
<1>4. ASSUME NEW r \in Requests, NEW s \in req[r].missing, AddSet(r, s)
      PROVE  Typed'
  <2> DEFINE new == [req[r] EXCEPT !.need = @ \ {s}, !.missing = {},
                                   !.ids = @ \cup {Len(sets) + 1}]
  <2>0. s \in SUBSET Protocols
    BY <1>0 DEF ReqOK, Request
  <2>1. SetsOK' /\ Len(sets') = Len(sets) + 1 /\ Len(sets) \in Nat
    BY <1>0, <1>4, <2>0 DEF AddSet, SetsOK
  <2>2. 1..Len(sets) \subseteq 1..Len(sets') /\ Len(sets) + 1 \in 1..Len(sets')
    BY <2>1
  <2>3. new \in Request /\ ~Saving(new)
    BY <1>0, <1>4, <2>0, <2>1 DEF AddSet, ReqOK, Request, Saving
  <2>4. new.ids \subseteq 1..Len(sets')
    BY <1>0, <2>2 DEF ReqOK, IdsOK, Request
  <2>5. req' = [req EXCEPT ![r] = new]
    BY <1>0, <1>4 DEF AddSet, ReqOK, Request
  <2> HIDE DEF new
  <2>6. ReqOK'
    BY <1>0, <2>3, <2>5 DEF ReqOK
  <2>7. IdsOK'
    BY <1>0, <2>2, <2>4, <2>5 DEF ReqOK, IdsOK
  <2>8. RowsOK'
    <3>1. rows' = rows
      BY <1>4 DEF AddSet
    <3> QED BY <1>0, <2>2, <3>1 DEF RowsOK
  <2>9. SiteOK' /\ CountsOK'
    BY <1>0, <1>4 DEF AddSet, SiteOK, CountsOK, site
  <2> QED BY <2>1, <2>6, <2>7, <2>8, <2>9 DEF Typed
<1>5. ASSUME NEW r \in Requests, AllNumbered(r) \/ EndSave(r) \/ Die(r)
      PROVE  Typed'
  <2> DEFINE listing == [req[r] EXCEPT !.at = "listing"]
  <2>1. listing \in Request /\ listing.ids = req[r].ids /\ listing.at = "listing"
                           /\ listing.atom = req[r].atom
    BY <1>0 DEF ReqOK, Request
  <2> HIDE DEF listing
  <2>a. Idle.ids = {} /\ ~Saving(Idle) /\ Idle.at = "idle"
    BY DEF Idle, Saving
  <2>2. PICK new \in {listing, Idle} :
            req' = [req EXCEPT ![r] = new] /\ (new = listing => req[r].atom # None)
    <3>1. CASE AllNumbered(r)
      <4>1. CASE req[r].atom = None
        <5>1. req' = [req EXCEPT ![r] = Idle] /\ Idle # listing
          BY <2>1, <2>a, <3>1, <4>1 DEF AllNumbered
        <5> QED BY <5>1
      <4>2. CASE req[r].atom # None
        <5>1. req' = [req EXCEPT ![r] = listing]
          BY <3>1, <4>2 DEF AllNumbered, listing
        <5> QED BY <4>2, <5>1
      <4> QED BY <4>1, <4>2
    <3>2. CASE EndSave(r) \/ Die(r)
      <4>1. req' = [req EXCEPT ![r] = Idle]
        BY <3>2 DEF EndSave, Die
      <4>2. Idle # listing
        BY <2>1, <2>a
      <4> QED BY <4>1, <4>2
    <3> QED BY <1>5, <3>1, <3>2
  <2>3. UNCHANGED <<site, exists, atom, sets, rows, saves>>
    BY <1>5 DEF AllNumbered, EndSave, Die
  <2>b. new \in Request /\ new.ids \subseteq 1..Len(sets) /\ (Saving(new) => new.atom # None)
    BY <1>0, <2>1, <2>a, <2>2, IdleIsRequest DEF IdsOK
  <2>4. ReqOK' /\ IdsOK'
    BY <1>0, <2>b, <2>2, <2>3, RequestChanges
  <2>5. settled' \in SUBSET Atoms
    <3>1. EndSave(r) => req[r].atom \in Atoms
      BY <1>0 DEF EndSave, ReqOK, Request, Saving
    <3> QED BY <1>0, <1>5, <3>1 DEF AllNumbered, EndSave, Die, SiteOK
  <2>6. CountsOK'
    BY <1>0, <1>5 DEF AllNumbered, EndSave, Die, CountsOK
  <2> QED BY <1>0, <2>3, <2>4, <2>5, <2>6 DEF Typed, SiteOK, SetsOK, RowsOK, site
<1>6. ASSUME NEW r \in Requests, NEW i \in req[r].ids, InsertRow(r, i)
      PROVE  Typed'
  <2> DEFINE new == [req[r] EXCEPT !.ids = @ \ {i}]
  <2>1. new \in Request /\ new.ids \subseteq req[r].ids
    BY <1>0 DEF ReqOK, Request
  <2>2. Saving(new) => new.atom # None
    BY <1>0 DEF ReqOK, Request, Saving
  <2>3. req' = [req EXCEPT ![r] = new] /\ sets' = sets
    BY <1>0, <1>6 DEF InsertRow, ReqOK, Request
  <2> HIDE DEF new
  <2>4. ReqOK' /\ IdsOK'
    BY <1>0, <2>1, <2>2, <2>3, RequestChanges DEF IdsOK
  <2>5. i \in 1..Len(sets)
    BY <1>0 DEF IdsOK
  <2>6. RowsOK'
    BY <1>0, <1>6, <2>5 DEF InsertRow, RowsOK
  <2>7. SiteOK' /\ CountsOK' /\ SetsOK'
    BY <1>0, <1>6 DEF InsertRow, SiteOK, CountsOK, SetsOK, site
  <2> QED BY <2>4, <2>6, <2>7 DEF Typed
<1>7. ASSUME NEW a \in Atoms, DeleteAtom(a)
      PROVE  Typed'
  <2>1. SiteOK' /\ CountsOK'
    BY <1>0, <1>7 DEF DeleteAtom, SiteOK, CountsOK, site
  <2>2. RowsOK' /\ SetsOK'
    BY <1>0, <1>7 DEF DeleteAtom, RowsOK, SetsOK
  <2>3. ReqOK' /\ IdsOK'
    BY <1>0, <1>7 DEF DeleteAtom, ReqOK, IdsOK
  <2> QED BY <2>1, <2>2, <2>3 DEF Typed
<1>8. ASSUME NEW r \in Requests, NEW u \in Users, View(r, u)
      PROVE  Typed'
  <2> DEFINE new == [Idle EXCEPT !.at = "numbering",
                                 !.need = {{}} \cup {{p} : p \in Counted(u)}]
  <2>0. {{}} \cup {{p} : p \in Counted(u)} \in SUBSET SUBSET Protocols
    BY <1>0 DEF SiteOK, Counted
  <2>1. new \in Request /\ new.ids = {} /\ ~Saving(new)
    BY <2>0 DEF Idle, Request, Saving
  <2>2. req' = [req EXCEPT ![r] = new]
    BY <1>8 DEF View
  <2> HIDE DEF new
  <2>3. UNCHANGED <<site, exists, atom, sets, rows, settled, saves>>
    BY <1>8 DEF View
  <2>4. ReqOK' /\ IdsOK'
    BY <1>0, <2>1, <2>2, <2>3, RequestChanges
  <2>5. CountsOK'
    BY <1>0, <1>8 DEF View, CountsOK
  <2> QED BY <1>0, <2>3, <2>4, <2>5 DEF Typed, SiteOK, SetsOK, RowsOK, site
<1>9. ASSUME UNCHANGED <<exists, atom, sets, rows, req, settled, saves>>,
             events' \in Nat,
             /\ opened' \in SUBSET Protocols /\ member' \in [Users -> SUBSET Protocols]
             /\ joined' \in [Users -> SUBSET Communities]
             /\ strict' \in SUBSET Communities /\ shut' \in SUBSET Protocols
      PROVE  Typed'
  BY <1>0, <1>9 DEF Typed, SiteOK, CountsOK, SetsOK, RowsOK, ReqOK, IdsOK
<1>a. OfStrict \subseteq Protocols
  BY DEF OfStrict
<1>10. ASSUME NEW u \in Users, NEW p \in Protocols, ChangeMembership(u, p)
       PROVE  Typed'
  <2>1. Toggle(member[u], p) \in SUBSET Protocols
    BY <1>0 DEF SiteOK, Toggle
  <2> QED BY <1>0, <1>9, <1>10, <2>1 DEF ChangeMembership, SiteOK, CountsOK
<1>11. ASSUME NEW u \in Users, NEW c \in Communities, JoinOrLeave(u, c)
       PROVE  Typed'
  <2>1. Toggle(joined[u], c) \in SUBSET Communities
    BY <1>0 DEF SiteOK, Toggle
  <2> QED BY <1>0, <1>9, <1>11, <2>1 DEF JoinOrLeave, SiteOK, CountsOK
<1>12. ASSUME NEW p \in Protocols, NEW open \in BOOLEAN, SaveProtocol(p, open)
       PROVE  Typed'
  <2>1. opened' \in SUBSET Protocols /\ shut' \in SUBSET Protocols
    BY <1>0, <1>12 DEF SaveProtocol, SiteOK
  <2> QED BY <1>0, <1>9, <1>12, <2>1 DEF SaveProtocol, SiteOK, CountsOK
<1>13. ASSUME NEW c \in Communities, ChangeCommunity(c)
       PROVE  Typed'
  <2>1. Toggle(strict, c) \in SUBSET Communities
    BY <1>0 DEF SiteOK, Toggle
  <2> QED BY <1>0, <1>9, <1>13, <2>1 DEF ChangeCommunity, SiteOK, CountsOK
<1>14. ASSUME NEW p \in Protocols, AcquireGrants(p)
       PROVE  Typed'
  <2>1. Toggle(shut, p) \in SUBSET Protocols
    BY <1>0 DEF SiteOK, Toggle
  <2> QED BY <1>0, <1>9, <1>14, <2>1 DEF AcquireGrants, SiteOK, CountsOK
<1>15. CASE UNCHANGED vars
  BY <1>0, <1>15 DEF vars, site, Typed, SiteOK, CountsOK, SetsOK, RowsOK, ReqOK, IdsOK
<1> QED
  BY <1>1, <1>2, <1>3, <1>4, <1>5, <1>6, <1>7, <1>8, <1>10, <1>11, <1>12, <1>13, <1>14,
     <1>15
     DEF Next

(* Atoms, sets, rows and requests are well typed: rows and requests name
   numbers that have been given out only. *)
THEOREM TypeCorrect == Spec => []TypeOK
BY InitTyped, NextTyped, TypedMeansTypeOK, PTL DEF Spec

------------------------------------------------------------------------------
(* The library lists only what the view rule allows. *)

Opens(a, i) == sets[i] \in SetsOf(atom[a])

(* Nobody else saves the atom of a request. *)
Sole(r) == \A p \in Requests : req[p].atom = req[r].atom => p = r

(* What a save has still to do, and what it has done, is about the sets that
   open its atom. *)
Work(r) ==
    LET a == req[r].atom
        q == req[r]
    IN  /\ q.at = "clearing" => q.need = SetsOf(atom[a]) /\ q.missing = {} /\ q.ids = {}
        /\ q.at = "numbering" => /\ q.need \subseteq SetsOf(atom[a])
                                 /\ q.missing \subseteq SetsOf(atom[a])
                                 /\ rows[a] = {}
        /\ \A i \in q.ids : Opens(a, i)
        /\ q.at = "listing" => \A i \in rows[a] : Opens(a, i)

SettledRows ==
    \A a \in settled : /\ \A r \in Requests : req[r].atom # a
                       /\ \A i \in rows[a] : Opens(a, i)

AloneSaves == \A r \in Requests : req[r].alone /\ req[r].atom # None => Sole(r) /\ Work(r)

RowsInvariant == Typed /\ AloneSaves /\ SettledRows

(* What a number stands for does not change. *)
LEMMA SetsGrow ==
    ASSUME Typed, NEW s, sets' = Append(sets, s)
    PROVE  \A i \in 1..Len(sets) : sets'[i] = sets[i]
BY DEF Typed, SetsOK

LEMMA OpensKept ==
    ASSUME NEW a, NEW i \in 1..Len(sets), Opens(a, i), atom'[a] = atom[a],
           \A j \in 1..Len(sets) : sets'[j] = sets[j]
    PROVE  Opens(a, i)'
BY DEF Opens, SetsOf

(* A step of one request, on the rows of its own atom only, leaves the others
   and the settled atoms as they are. *)
LEMMA OthersKeep ==
    ASSUME Typed, AloneSaves, SettledRows,
           NEW r \in Requests, NEW new,
           req' = [req EXCEPT ![r] = new],
           new.atom = None \/ new.atom = req[r].atom,
           new.alone /\ new.atom # None => req[r].alone /\ Work(r)',
           atom' = atom, settled' = settled,
           \A j \in 1..Len(sets) : sets'[j] = sets[j],
           \A a \in Atoms : a # req[r].atom => rows'[a] = rows[a]
    PROVE  AloneSaves' /\ SettledRows'
<1>0. /\ req \in [Requests -> Request] /\ settled \subseteq Atoms
      /\ \A a \in Atoms : rows[a] \subseteq 1..Len(sets)
      /\ \A q \in Requests : req[q].ids \subseteq 1..Len(sets)
  BY DEF Typed, ReqOK, SiteOK, RowsOK, IdsOK
<1>a. /\ req'[r] = new
      /\ \A q \in Requests : q # r => req'[q] = req[q]
  BY <1>0
<1>1. ASSUME NEW q \in Requests, req'[q].alone, req'[q].atom # None
      PROVE  Sole(q)' /\ Work(q)'
  <2>1. req[q].alone /\ req[q].atom = req'[q].atom
    BY <1>a, <1>1
  <2>2. Sole(q) /\ Work(q)
    BY <1>1, <2>1 DEF AloneSaves
  <2>3. Sole(q)'
    <3> SUFFICES ASSUME NEW p \in Requests, req'[p].atom = req'[q].atom PROVE p = q
      BY DEF Sole
    <3>1. req[p].atom = req[q].atom
      BY <1>a, <1>1, <2>1
    <3> QED BY <2>2, <3>1 DEF Sole
  <2>4. CASE q = r
    BY <1>a, <1>1, <2>3, <2>4
  <2>5. CASE q # r
    <3>1. req'[q] = req[q] /\ req[q].atom # req[r].atom
      BY <1>a, <2>2, <2>5 DEF Sole
    <3>2. PICK b \in Atoms : b = req[q].atom
      BY <1>0, <1>1, <2>1 DEF Request
    <3>3. rows'[b] = rows[b]
      BY <3>1, <3>2
    <3>4. \A i \in 1..Len(sets) : Opens(b, i) => Opens(b, i)'
      BY OpensKept
    <3>5. \A i \in req[q].ids : Opens(b, i)'
      BY <1>0, <2>2, <3>2, <3>4 DEF Work
    <3>6. req[q].at = "listing" => \A i \in rows[b] : Opens(b, i)'
      BY <1>0, <2>2, <3>2, <3>4 DEF Work
    <3>7. SetsOf(atom'[b]) = SetsOf(atom[b])
      OBVIOUS
    <3>8. Work(q)'
      BY <2>2, <3>1, <3>2, <3>3, <3>5, <3>6, <3>7 DEF Work
    <3> QED BY <2>3, <3>8
  <2> QED BY <2>4, <2>5
<1>2. ASSUME NEW a \in settled
      PROVE  /\ \A q \in Requests : req'[q].atom # a
             /\ \A i \in rows'[a] : Opens(a, i)'
  <2>1. /\ \A q \in Requests : req[q].atom # a
        /\ \A i \in rows[a] : Opens(a, i)
    BY DEF SettledRows
  <2>2. a \in Atoms /\ a # None
    BY <1>0, MediaAccessAssumption
  <2>3. \A q \in Requests : req'[q].atom # a
    BY <1>a, <2>1, <2>2
  <2>4. rows'[a] = rows[a]
    BY <2>1, <2>2
  <2> QED BY <1>0, <2>1, <2>2, <2>3, <2>4, OpensKept
<1> QED BY <1>1, <1>2 DEF AloneSaves, SettledRows

LEMMA InitRows == Init => RowsInvariant
<1> SUFFICES ASSUME Init PROVE RowsInvariant
  OBVIOUS
<1>1. AloneSaves /\ SettledRows
  BY DEF Init, AloneSaves, SettledRows, Idle
<1> QED BY <1>1, InitTyped DEF RowsInvariant

LEMMA NextRows == RowsInvariant /\ [Next]_vars => RowsInvariant'
<1> SUFFICES ASSUME RowsInvariant, [Next]_vars PROVE RowsInvariant'
  OBVIOUS
<1>0. /\ Typed /\ AloneSaves /\ SettledRows /\ Typed'
      /\ req \in [Requests -> Request] /\ rows \in [Atoms -> SUBSET (1..Len(sets))]
      /\ settled \subseteq Atoms /\ None \notin Atoms
      /\ \A q \in Requests : Saving(req[q]) => req[q].atom # None
      /\ \A q \in Requests : req[q].ids \subseteq 1..Len(sets)
  BY NextTyped, MediaAccessAssumption
     DEF RowsInvariant, Typed, ReqOK, RowsOK, SiteOK, IdsOK
<1>s. SUFFICES AloneSaves' /\ SettledRows'
  BY <1>0 DEF RowsInvariant
<1>1. ASSUME NEW r \in Requests, NEW a \in Atoms, NEW x \in Atom, BeginSave(r, a, x)
      PROVE  AloneSaves' /\ SettledRows'
  <2> DEFINE begun == [Idle EXCEPT !.at = "clearing", !.atom = a, !.need = SetsOf(x),
                                   !.alone = (SavingAtom(a) = {})]
  <2>1. /\ req[r] = Idle
        /\ req' = [q \in Requests |->
                     IF q = r THEN begun
                     ELSE IF req[q].atom = a THEN [req[q] EXCEPT !.alone = FALSE]
                     ELSE req[q]]
        /\ atom' = [atom EXCEPT ![a] = x] /\ settled' = settled \ {a}
        /\ sets' = sets /\ rows' = rows
    BY <1>1 DEF BeginSave
  <2>2. /\ begun.at = "clearing" /\ begun.atom = a /\ begun.need = SetsOf(x)
        /\ begun.missing = {} /\ begun.ids = {}
        /\ begun.alone => \A q \in Requests : req[q].atom # a
    BY DEF Idle, SavingAtom
  <2> HIDE DEF begun
  <2>3. \A q \in Requests : q # r => req'[q].atom = req[q].atom
    BY <1>0, <2>1 DEF Request
  <2>4. ASSUME NEW q \in Requests, req'[q].alone, req'[q].atom # None
        PROVE  Sole(q)' /\ Work(q)'
    <3>1. CASE q = r
      <4>1. req'[q] = begun
        BY <2>1, <3>1
      <4>2. Sole(q)'
        BY <2>2, <2>3, <2>4, <3>1, <4>1 DEF Sole
      <4>3. atom'[a] = x
        BY <1>0, <2>1 DEF Typed, SiteOK
      <4>4. Work(q)'
        BY <2>2, <4>1, <4>3 DEF Work
      <4> QED BY <4>2, <4>4
    <3>2. CASE q # r
      <4>1. req[q].atom # a /\ req'[q] = req[q]
        BY <1>0, <2>1, <2>4, <3>2 DEF Request
      <4>2. Sole(q) /\ Work(q)
        BY <1>0, <2>4, <4>1 DEF AloneSaves
      <4>3. req'[r].atom = a
        BY <2>1, <2>2
      <4>4. Sole(q)'
        BY <2>3, <4>1, <4>2, <4>3 DEF Sole
      <4>5. PICK b \in Atoms : b = req[q].atom
        BY <1>0, <2>4, <4>1 DEF Request
      <4>6. atom'[b] = atom[b]
        BY <1>0, <2>1, <4>1, <4>5 DEF Typed, SiteOK
      <4>7. Work(q)'
        BY <2>1, <4>1, <4>2, <4>5, <4>6 DEF Work, Opens
      <4> QED BY <4>4, <4>7
    <3> QED BY <3>1, <3>2
  <2>5. ASSUME NEW b \in settled'
        PROVE  /\ \A q \in Requests : req'[q].atom # b
               /\ \A i \in rows'[b] : Opens(b, i)'
    <3>1. b \in settled /\ b # a
      BY <2>1
    <3>2. \A q \in Requests : req'[q].atom # b
      BY <1>0, <2>1, <2>2, <2>3, <3>1 DEF SettledRows
    <3>3. atom'[b] = atom[b]
      BY <1>0, <2>1, <3>1 DEF Typed, SiteOK
    <3> QED BY <1>0, <2>1, <3>1, <3>2, <3>3 DEF SettledRows, Opens
  <2> QED BY <2>4, <2>5 DEF AloneSaves, SettledRows
<1>2. ASSUME NEW r \in Requests, ClearRows(r)
      PROVE  AloneSaves' /\ SettledRows'
  <2> DEFINE new == [req[r] EXCEPT !.at = "numbering"]
  <2>1. /\ new.at = "numbering" /\ new.atom = req[r].atom /\ new.alone = req[r].alone
        /\ new.need = req[r].need /\ new.missing = req[r].missing /\ new.ids = req[r].ids
    BY <1>0 DEF Request
  <2>2. req' = [req EXCEPT ![r] = new] /\ req'[r] = new
    BY <1>0, <1>2 DEF ClearRows
  <2> HIDE DEF new
  <2>3. /\ req[r].at = "clearing" /\ rows' = [rows EXCEPT ![req[r].atom] = {}]
        /\ UNCHANGED <<atom, sets, settled>>
    BY <1>2 DEF ClearRows
  <2>4. ASSUME new.alone, new.atom # None
        PROVE  req[r].alone /\ Work(r)'
    <3>1. Work(r)
      BY <1>0, <2>1, <2>4 DEF AloneSaves
    <3>2. req[r].atom \in Atoms
      BY <1>0, <2>1, <2>4 DEF Request
    <3>3. rows'[req[r].atom] = {}
      BY <1>0, <2>3, <3>2
    <3> QED BY <2>1, <2>2, <2>3, <2>4, <3>1, <3>3 DEF Work
  <2>5. \A a \in Atoms : a # req[r].atom => rows'[a] = rows[a]
    BY <1>0, <2>3
  <2> QED BY <1>0, <2>1, <2>2, <2>3, <2>4, <2>5, OthersKeep
<1>3. ASSUME NEW r \in Requests, NEW s \in req[r].need, LookUp(r, s)
      PROVE  AloneSaves' /\ SettledRows'
  <2> DEFINE new == [req[r] EXCEPT
                       !.need = IF Numbers(s) = {} THEN @ ELSE @ \ {s},
                       !.missing = IF Numbers(s) = {} THEN {s} ELSE {},
                       !.ids = IF Numbers(s) = {} THEN @ ELSE @ \cup First(s)]
  <2>1. /\ new.at = req[r].at /\ new.atom = req[r].atom /\ new.alone = req[r].alone
        /\ new.need \subseteq req[r].need /\ new.missing \subseteq {s}
        /\ new.ids \subseteq req[r].ids \cup First(s)
    BY <1>0 DEF Request
  <2>2. req' = [req EXCEPT ![r] = new] /\ req'[r] = new
    BY <1>0, <1>3 DEF LookUp, Request
  <2> HIDE DEF new
  <2>3. req[r].at = "numbering" /\ UNCHANGED <<atom, sets, rows, settled>>
    BY <1>3 DEF LookUp
  <2>4. ASSUME new.alone, new.atom # None
        PROVE  req[r].alone /\ Work(r)'
    <3>1. Work(r)
      BY <1>0, <2>1, <2>4 DEF AloneSaves
    <3>2. \A i \in First(s) : sets[i] = s
      BY DEF First, Numbers
    <3>3. s \in SetsOf(atom[req[r].atom])
      BY <2>3, <3>1 DEF Work
    <3>4. \A i \in new.ids : Opens(req[r].atom, i)
      BY <2>1, <3>1, <3>2, <3>3 DEF Work, Opens
    <3>5. /\ new.need \subseteq SetsOf(atom[req[r].atom])
          /\ new.missing \subseteq SetsOf(atom[req[r].atom])
      BY <2>1, <2>3, <3>1, <3>3 DEF Work
    <3> QED BY <2>1, <2>2, <2>3, <2>4, <3>1, <3>4, <3>5 DEF Work, Opens
  <2> QED BY <1>0, <2>1, <2>2, <2>3, <2>4, OthersKeep
<1>4. ASSUME NEW r \in Requests, NEW s \in req[r].missing, AddSet(r, s)
      PROVE  AloneSaves' /\ SettledRows'
  <2> DEFINE n == Len(sets) + 1
             new == [req[r] EXCEPT !.need = @ \ {s}, !.missing = {}, !.ids = @ \cup {n}]
  <2>1. /\ new.at = req[r].at /\ new.atom = req[r].atom /\ new.alone = req[r].alone
        /\ new.need \subseteq req[r].need /\ new.missing = {}
        /\ new.ids = req[r].ids \cup {n}
    BY <1>0 DEF Request
  <2>2. req' = [req EXCEPT ![r] = new] /\ req'[r] = new
    BY <1>0, <1>4 DEF AddSet, Request
  <2> HIDE DEF new
  <2>3. /\ req[r].at = "numbering" /\ sets' = Append(sets, s)
        /\ UNCHANGED <<atom, rows, settled>>
    BY <1>4 DEF AddSet
  <2>a. \A i \in 1..Len(sets) : sets'[i] = sets[i]
    BY <1>0, <2>3, SetsGrow
  <2>b. s \in SUBSET Protocols
    BY <1>0 DEF Request
  <2>c. PICK k \in Nat : k = n /\ sets'[k] = s
    BY <1>0, <2>3, <2>b DEF Typed, SetsOK
  <2>4. ASSUME new.alone, new.atom # None
        PROVE  req[r].alone /\ Work(r)'
    <3>1. Work(r)
      BY <1>0, <2>1, <2>4 DEF AloneSaves
    <3>2. PICK b : b = req[r].atom
      OBVIOUS
    <3>3. s \in SetsOf(atom[b])
      BY <2>3, <3>1, <3>2 DEF Work
    <3>4. \A i \in req[r].ids : Opens(b, i)'
      BY <1>0, <2>3, <2>a, <3>1, <3>2, OpensKept DEF Work
    <3>5. Opens(b, k)'
      BY <2>3, <2>c, <3>3 DEF Opens
    <3>6. \A i \in new.ids : Opens(b, i)'
      BY <2>1, <2>c, <3>4, <3>5
    <3> QED BY <2>1, <2>2, <2>3, <2>4, <3>1, <3>2, <3>6 DEF Work
  <2> QED BY <1>0, <2>1, <2>2, <2>3, <2>a, <2>4, OthersKeep
<1>5. ASSUME NEW r \in Requests, AllNumbered(r)
      PROVE  AloneSaves' /\ SettledRows'
  <2> DEFINE listing == [req[r] EXCEPT !.at = "listing"]
             new == IF req[r].atom = None THEN Idle ELSE listing
  <2>1. /\ listing.at = "listing" /\ listing.atom = req[r].atom
        /\ listing.alone = req[r].alone /\ listing.ids = req[r].ids
    BY <1>0 DEF Request
  <2>2. req' = [req EXCEPT ![r] = new] /\ req'[r] = new
    BY <1>0, <1>5 DEF AllNumbered
  <2> HIDE DEF listing
  <2>a. Idle.atom = None
    BY DEF Idle
  <2>3. req[r].at = "numbering" /\ UNCHANGED <<atom, sets, rows, settled>>
    BY <1>5 DEF AllNumbered
  <2>4. ASSUME new.alone, new.atom # None
        PROVE  req[r].alone /\ Work(r)'
    <3>1. new = listing
      BY <2>4, <2>a
    <3>2. Work(r)
      BY <1>0, <2>1, <2>4, <3>1 DEF AloneSaves
    <3> QED BY <2>1, <2>2, <2>3, <2>4, <3>1, <3>2 DEF Work, Opens
  <2>5. new.atom = None \/ new.atom = req[r].atom
    BY <2>1, <2>a
  <2> HIDE DEF new
  <2> QED BY <1>0, <2>2, <2>3, <2>4, <2>5, OthersKeep
<1>6. ASSUME NEW r \in Requests, NEW i \in req[r].ids, InsertRow(r, i)
      PROVE  AloneSaves' /\ SettledRows'
  <2> DEFINE new == [req[r] EXCEPT !.ids = @ \ {i}]
  <2>1. /\ new.at = req[r].at /\ new.atom = req[r].atom /\ new.alone = req[r].alone
        /\ new.ids \subseteq req[r].ids
    BY <1>0 DEF Request
  <2>2. req' = [req EXCEPT ![r] = new] /\ req'[r] = new
    BY <1>0, <1>6 DEF InsertRow, Request
  <2> HIDE DEF new
  <2>3. /\ req[r].at = "listing" /\ rows' = [rows EXCEPT ![req[r].atom] = @ \cup {i}]
        /\ UNCHANGED <<atom, sets, settled>>
    BY <1>6 DEF InsertRow
  <2>4. ASSUME new.alone, new.atom # None
        PROVE  req[r].alone /\ Work(r)'
    <3>1. Work(r)
      BY <1>0, <2>1, <2>4 DEF AloneSaves
    <3>2. PICK b \in Atoms : b = req[r].atom
      BY <1>0, <2>1, <2>4 DEF Request
    <3>3. rows'[b] = rows[b] \cup {i}
      BY <1>0, <2>3, <3>2
    <3>4. \A j \in rows'[b] : Opens(b, j)
      BY <2>3, <3>1, <3>2, <3>3 DEF Work
    <3> QED BY <2>1, <2>2, <2>3, <2>4, <3>1, <3>2, <3>4 DEF Work, Opens
  <2>5. \A a \in Atoms : a # req[r].atom => rows'[a] = rows[a]
    BY <1>0, <2>3
  <2> QED BY <1>0, <2>1, <2>2, <2>3, <2>4, <2>5, OthersKeep
<1>7. ASSUME NEW r \in Requests, EndSave(r)
      PROVE  AloneSaves' /\ SettledRows'
  <2>1. /\ req[r].at = "listing" /\ req' = [req EXCEPT ![r] = Idle]
        /\ UNCHANGED <<atom, sets, rows>>
    BY <1>7 DEF EndSave
  <2>a. settled' = settled \/ (req[r].alone /\ settled' = settled \cup {req[r].atom})
    <3>1. CASE req[r].alone /\ exists[req[r].atom] = "live"
      BY <1>7, <3>1 DEF EndSave
    <3>2. CASE ~(req[r].alone /\ exists[req[r].atom] = "live")
      <4>1. settled' = settled
        BY <1>7, <3>2 DEF EndSave
      <4> QED BY <4>1
    <3> QED BY <3>1, <3>2
  <2>2. /\ req'[r].atom = None
        /\ \A q \in Requests : q # r => req'[q] = req[q]
    BY <1>0, <2>1 DEF Idle
  <2>3. PICK b \in Atoms : b = req[r].atom
    BY <1>0, <2>1 DEF Saving, Request
  <2>4. ASSUME NEW q \in Requests, req'[q].alone, req'[q].atom # None
        PROVE  Sole(q)' /\ Work(q)'
    <3>1. req'[q] = req[q]
      BY <2>2, <2>4
    <3>2. Sole(q) /\ Work(q)
      BY <1>0, <2>4, <3>1 DEF AloneSaves
    <3>3. Sole(q)'
      BY <2>2, <2>4, <3>1, <3>2 DEF Sole
    <3> QED BY <2>1, <3>1, <3>2, <3>3 DEF Work, Opens
  <2>5. ASSUME NEW a \in settled'
        PROVE  /\ \A q \in Requests : req'[q].atom # a
               /\ \A i \in rows'[a] : Opens(a, i)'
    <3>1. CASE a \in settled
      <4>1. \A q \in Requests : req'[q].atom # a
        BY <1>0, <2>2, <3>1 DEF SettledRows
      <4> QED BY <1>0, <2>1, <3>1, <4>1 DEF SettledRows, Opens
    <3>2. CASE a \notin settled
      <4>1. a = b /\ req[r].alone
        BY <2>a, <2>3, <2>5, <3>2
      <4>2. Sole(r) /\ Work(r)
        BY <1>0, <2>3, <4>1 DEF AloneSaves
      <4>3. \A q \in Requests : req'[q].atom # a
        BY <1>0, <2>2, <2>3, <4>1, <4>2 DEF Sole
      <4>4. \A i \in rows[a] : Opens(a, i)
        BY <2>1, <2>3, <4>1, <4>2 DEF Work
      <4> QED BY <2>1, <4>3, <4>4 DEF Opens
    <3> QED BY <3>1, <3>2
  <2> QED BY <2>4, <2>5 DEF AloneSaves, SettledRows
<1>8. ASSUME NEW r \in Requests, NEW new, new.atom = None,
             req' = [req EXCEPT ![r] = new], UNCHANGED <<atom, sets, rows, settled>>
      PROVE  AloneSaves' /\ SettledRows'
  BY <1>0, <1>8, OthersKeep
<1>9. ASSUME NEW r \in Requests, Die(r)
      PROVE  AloneSaves' /\ SettledRows'
  <2>1. Idle.atom = None
    BY DEF Idle
  <2> QED BY <1>8, <1>9, <2>1 DEF Die
<1>10. ASSUME NEW r \in Requests, NEW u \in Users, View(r, u)
       PROVE  AloneSaves' /\ SettledRows'
  <2> DEFINE new == [Idle EXCEPT !.at = "numbering",
                                 !.need = {{}} \cup {{p} : p \in Counted(u)}]
  <2>1. new.atom = None
    BY DEF Idle
  <2>2. req' = [req EXCEPT ![r] = new]
    BY <1>10 DEF View
  <2> HIDE DEF new
  <2> QED BY <1>8, <1>10, <2>1, <2>2 DEF View
<1>11. ASSUME NEW a \in Atoms, DeleteAtom(a)
       PROVE  AloneSaves' /\ SettledRows'
  <2>1. /\ rows' = [rows EXCEPT ![a] = {}] /\ settled' = settled \ {a}
        /\ UNCHANGED <<atom, sets, req>>
    BY <1>11 DEF DeleteAtom
  <2>2. \A b \in Atoms : rows'[b] \subseteq rows[b]
    BY <1>0, <2>1
  <2>3. ASSUME NEW q \in Requests, req[q].alone, req[q].atom # None
        PROVE  Sole(q)' /\ Work(q)'
    <3>1. Sole(q) /\ Work(q)
      BY <1>0, <2>3 DEF AloneSaves
    <3>2. PICK b \in Atoms : b = req[q].atom
      BY <1>0, <2>3 DEF Request
    <3>3. rows[b] = {} => rows'[b] = {}
      BY <2>2
    <3>4. Work(q)'
      BY <2>1, <2>2, <3>1, <3>2, <3>3 DEF Work, Opens
    <3> QED BY <2>1, <3>1, <3>4 DEF Sole
  <2>4. SettledRows'
    BY <1>0, <2>1, <2>2 DEF SettledRows, Opens
  <2> QED BY <2>1, <2>3, <2>4 DEF AloneSaves
<1>12. ASSUME UNCHANGED <<atom, sets, rows, req, settled>>
       PROVE  AloneSaves' /\ SettledRows'
  <2>1. \A q \in Requests : (Sole(q)' <=> Sole(q)) /\ (Work(q)' <=> Work(q))
    BY <1>12 DEF Sole, Work, Opens, SetsOf
  <2>2. SettledRows'
    BY <1>0, <1>12 DEF SettledRows, Opens, SetsOf
  <2> QED BY <1>0, <1>12, <2>1, <2>2 DEF AloneSaves
<1>13. ASSUME NEW u \in Users, NEW p \in Protocols, ChangeMembership(u, p)
       PROVE  AloneSaves' /\ SettledRows'
  BY <1>12, <1>13 DEF ChangeMembership
<1>14. ASSUME NEW u \in Users, NEW c \in Communities, JoinOrLeave(u, c)
       PROVE  AloneSaves' /\ SettledRows'
  BY <1>12, <1>14 DEF JoinOrLeave
<1>15. ASSUME NEW p \in Protocols, NEW open \in BOOLEAN, SaveProtocol(p, open)
       PROVE  AloneSaves' /\ SettledRows'
  BY <1>12, <1>15 DEF SaveProtocol
<1>16. ASSUME NEW c \in Communities, ChangeCommunity(c)
       PROVE  AloneSaves' /\ SettledRows'
  BY <1>12, <1>16 DEF ChangeCommunity
<1>17. ASSUME NEW p \in Protocols, AcquireGrants(p)
       PROVE  AloneSaves' /\ SettledRows'
  BY <1>12, <1>17 DEF AcquireGrants
<1>18. CASE UNCHANGED vars
  BY <1>12, <1>18 DEF vars
<1> QED
  BY <1>1, <1>2, <1>3, <1>4, <1>5, <1>6, <1>7, <1>9, <1>10, <1>11, <1>13, <1>14, <1>15,
     <1>16, <1>17, <1>18
     DEF Next

(* The protocols that count for the library are those the user may view, but for
   open ones whose community he is not in. *)
LEMMA CountedViewable ==
    ASSUME NEW u, NEW p, p \in Counted(u), p \in member[u] => CommunityOf[p] \in joined[u]
    PROVE  MayView(u, p)
BY DEF Counted, MayView, ByCommunity

(* And all of those, but for the ones he may view as a member of the community. *)
LEMMA ViewableCounted ==
    ASSUME NEW u, NEW p, MayView(u, p), ~Overlooked(u, p)
    PROVE  p \in Counted(u)
BY DEF Counted, MayView, Overlooked

(* Who may be listed an atom holds the number of a set that opens it. *)
LEMMA ListedAllowed == RowsInvariant => ListedIsAllowed
<1> SUFFICES ASSUME RowsInvariant, NEW a \in settled, NEW u \in Users, Listed(u, a),
                    \A p \in atom[a].protocols \cap member[u] : CommunityOf[p] \in joined[u]
             PROVE  Allowed(u, a)
  BY DEF ListedIsAllowed
<1> DEFINE viewed == Counted(u)
           x == atom[a]
<1>1. a \in Atoms /\ x \in Atom
  BY DEF RowsInvariant, Typed, SiteOK
<1>2. PICK i \in rows[a] : i \in Held(u)
  BY DEF Listed
<1>3. sets[i] \in SetsOf(x)
  BY DEF RowsInvariant, SettledRows, Opens
<1>4. \A p \in x.protocols : p \in viewed => MayView(u, p)
  BY CountedViewable
<1>5. \A s : i \in First(s) => sets[i] = s
  BY DEF First, Numbers
<1>6. \/ i \in First({})
      \/ \E p \in viewed : i \in First({p})
      \/ i \in Compounds(u)
  BY <1>2 DEF Held
<1>7. i \in Compounds(u) => sets[i] \subseteq viewed /\ \E p, q \in sets[i] : p # q
  BY DEF Compounds
<1> HIDE DEF viewed, x
<1>8. /\ sets[i] \subseteq viewed
      /\ sets[i] = {} \/ (\E p \in viewed : sets[i] = {p}) \/ \E p, q \in sets[i] : p # q
  <2>1. CASE i \in First({})
    BY <1>5, <2>1
  <2>2. CASE \E p \in viewed : i \in First({p})
    <3>1. PICK p \in viewed : i \in First({p})
      BY <2>2
    <3>2. sets[i] = {p}
      BY <1>5, <3>1
    <3> QED BY <3>2
  <2>3. CASE i \in Compounds(u)
    BY <1>7, <2>3
  <2> QED BY <1>6, <2>1, <2>2, <2>3
<1>9. x.sharing \in {"any", "all"}
  BY <1>1 DEF Atom, Sharing
<1>10. CASE x.protocols = {}
  BY <1>10 DEF Allowed, x
<1>11. CASE x.protocols # {} /\ x.sharing = "all"
  <2>1. sets[i] = x.protocols
    BY <1>3, <1>11 DEF SetsOf
  <2> QED BY <1>4, <1>8, <1>11, <2>1 DEF Allowed, x
<1>12. CASE x.protocols # {} /\ x.sharing = "any"
  <2>1. PICK p \in x.protocols : sets[i] = {p}
    BY <1>3, <1>12 DEF SetsOf
  <2> QED BY <1>4, <1>8, <1>12, <2>1 DEF Allowed, x
<1> QED BY <1>9, <1>10, <1>11, <1>12

(* The library never lists an atom to a user who may not view it: whatever
   requests raced for the numbers of sets or died, whatever happened to
   memberships, protocols and communities since the atom was saved, and whether or
   not the rows of protocols follow their communities; for users who are in the
   communities of the atom's protocols that they are members of. *)
THEOREM ListingsAreAllowed == Spec => []ListedIsAllowed
BY InitRows, NextRows, ListedAllowed, PTL DEF Spec

------------------------------------------------------------------------------
(* The library lists what the view rule allows: as long as no protocol has *)
(* the node number that a set of protocols has, the rows of an atom whose  *)
(* last save was alone stand for all the sets that open it.                *)

Covered(a, is) == \A s \in SetsOf(atom[a]) : \E i \in is : sets[i] = s

(* A save looks up every set, and forgets none of the numbers it found before
   it has listed them. *)
Coverage(r) ==
    LET a == req[r].atom
        q == req[r]
    IN  /\ q.at = "numbering" =>
             \A s \in SetsOf(atom[a]) : s \in q.need \/ \E i \in q.ids : sets[i] = s
        /\ q.at = "listing" /\ exists[a] = "live" => Covered(a, q.ids \cup rows[a])

SavesCover == \A r \in Requests : req[r].alone /\ req[r].atom # None => Coverage(r)

SettledCovered == \A a \in settled : Covered(a, rows[a])

CoverInvariant == RowsInvariant /\ SavesCover /\ SettledCovered

NumbersApart == Protocols \cap DOMAIN sets = {}

(* There is a least number. *)
LEMMA LeastNumber ==
    ASSUME NEW T, T \subseteq Nat, T # {}
    PROVE  \E x \in T : \A y \in T : x <= y
<1> DEFINE R == OpToRel(<, Nat)
<1>1. IsWellFoundedOn(R, Nat)
  BY NatLessThanWellFounded
<1>2. R = {ss \in Nat \X Nat : ss[1] < ss[2]}
  BY DEF OpToRel
<1> HIDE DEF R
<1>3. PICK x \in T : \A y \in T : <<y, x>> \notin R
  BY <1>1, WFMin
<1>4. \A y \in T : ~(y < x)
  <2> SUFFICES ASSUME NEW y \in T, y < x PROVE FALSE
    OBVIOUS
  <2>1. <<y, x>> \in R
    BY <1>2
  <2> QED BY <1>3, <2>1
<1> QED BY <1>3, <1>4

(* A set that has a number has a first one. *)
LEMMA FirstExists ==
    ASSUME SetsOK, NEW s, Numbers(s) # {}
    PROVE  \E i \in First(s) : sets[i] = s
<1>1. Numbers(s) \subseteq Nat
  BY DEF SetsOK, Numbers
<1> QED BY <1>1, LeastNumber DEF First, Numbers

LEMMA CoveredKept ==
    ASSUME NEW a, NEW is, is \subseteq 1..Len(sets), Covered(a, is),
           atom'[a] = atom[a], \A j \in 1..Len(sets) : sets'[j] = sets[j]
    PROVE  \A s \in SetsOf(atom'[a]) : \E i \in is : sets'[i] = s
BY DEF Covered

(* What another request does leaves the numbers a save has found, and the rows
   of the settled atoms. *)
LEMMA OthersCover ==
    ASSUME CoverInvariant, NEW r \in Requests, NEW new,
           req' = [req EXCEPT ![r] = new],
           new.atom = None \/ new.atom = req[r].atom,
           new.alone /\ new.atom # None => req[r].alone /\ Coverage(r)',
           atom' = atom, exists' = exists,
           \A a \in settled' \ settled : Covered(a, rows[a])',
           \A j \in 1..Len(sets) : sets'[j] = sets[j],
           \A a \in Atoms : a # req[r].atom => rows'[a] = rows[a]
    PROVE  SavesCover' /\ SettledCovered'
<1>0. /\ req \in [Requests -> Request] /\ settled \subseteq Atoms
      /\ \A a \in Atoms : rows[a] \subseteq 1..Len(sets)
      /\ \A q \in Requests : req[q].ids \subseteq 1..Len(sets)
      /\ AloneSaves /\ SettledRows /\ SavesCover /\ SettledCovered
  BY DEF CoverInvariant, RowsInvariant, Typed, ReqOK, SiteOK, RowsOK, IdsOK
<1>a. /\ req'[r] = new
      /\ \A q \in Requests : q # r => req'[q] = req[q]
  BY <1>0
<1>1. ASSUME NEW q \in Requests, req'[q].alone, req'[q].atom # None
      PROVE  Coverage(q)'
  <2>1. CASE q = r
    BY <1>a, <1>1, <2>1
  <2>2. CASE q # r
    <3>1. req'[q] = req[q] /\ req[q].alone /\ req[q].atom # None
      BY <1>a, <1>1, <2>2
    <3>2. Sole(q) /\ Coverage(q)
      BY <1>0, <3>1 DEF AloneSaves, SavesCover
    <3>3. PICK b \in Atoms : b = req[q].atom
      BY <1>0, <3>1 DEF Request
    <3>4. rows'[b] = rows[b]
      BY <2>2, <3>2, <3>3 DEF Sole
    <3>5. \A s : (\E i \in req[q].ids : sets[i] = s) => \E i \in req[q].ids : sets'[i] = s
      BY <1>0
    <3>6. Covered(b, req[q].ids \cup rows[b])
            => \A s \in SetsOf(atom'[b]) : \E i \in req[q].ids \cup rows[b] : sets'[i] = s
      BY <1>0, CoveredKept
    <3> QED BY <3>1, <3>2, <3>3, <3>4, <3>5, <3>6 DEF Coverage, Covered
  <2> QED BY <2>1, <2>2
<1>2. ASSUME NEW a \in settled' PROVE Covered(a, rows[a])'
  <2>1. CASE a \in settled
    <3>1. /\ Covered(a, rows[a])
          /\ rows[a] \subseteq 1..Len(sets)
          /\ rows'[a] = rows[a]
      BY <1>0, <2>1 DEF SettledCovered, SettledRows
    <3>2. \A s \in SetsOf(atom'[a]) : \E i \in rows[a] : sets'[i] = s
      BY <3>1, CoveredKept
    <3> QED BY <3>1, <3>2 DEF Covered
  <2> QED BY <1>2, <2>1
<1> QED BY <1>1, <1>2 DEF SavesCover, SettledCovered

LEMMA InitCover == Init => CoverInvariant
<1> SUFFICES ASSUME Init PROVE CoverInvariant
  OBVIOUS
<1>1. SavesCover /\ SettledCovered
  BY DEF Init, SavesCover, SettledCovered, Idle
<1> QED BY <1>1, InitRows DEF CoverInvariant

LEMMA NextCover == CoverInvariant /\ [Next]_vars => CoverInvariant'
<1> SUFFICES ASSUME CoverInvariant, [Next]_vars PROVE CoverInvariant'
  OBVIOUS
<1>0. /\ Typed /\ AloneSaves /\ SettledRows /\ SavesCover /\ SettledCovered
      /\ req \in [Requests -> Request] /\ rows \in [Atoms -> SUBSET (1..Len(sets))]
      /\ exists \in [Atoms -> {"unborn", "live", "deleted"}]
      /\ SetsOK
      /\ settled \subseteq Atoms /\ None \notin Atoms
      /\ \A q \in Requests : Saving(req[q]) => req[q].atom # None
      /\ \A q \in Requests : req[q].ids \subseteq 1..Len(sets)
  BY MediaAccessAssumption
     DEF CoverInvariant, RowsInvariant, Typed, ReqOK, RowsOK, SiteOK, IdsOK
<1>s. SUFFICES SavesCover' /\ SettledCovered'
  BY NextRows DEF CoverInvariant
<1>1. ASSUME NEW r \in Requests, NEW a \in Atoms, NEW x \in Atom, BeginSave(r, a, x)
      PROVE  SavesCover' /\ SettledCovered'
  <2> DEFINE begun == [Idle EXCEPT !.at = "clearing", !.atom = a, !.need = SetsOf(x),
                                   !.alone = (SavingAtom(a) = {})]
  <2>1. /\ req' = [q \in Requests |->
                     IF q = r THEN begun
                     ELSE IF req[q].atom = a THEN [req[q] EXCEPT !.alone = FALSE]
                     ELSE req[q]]
        /\ atom' = [atom EXCEPT ![a] = x] /\ settled' = settled \ {a}
        /\ exists' = [exists EXCEPT ![a] = "live"]
        /\ sets' = sets /\ rows' = rows
    BY <1>1 DEF BeginSave
  <2>2. begun.at = "clearing"
    BY DEF Idle
  <2> HIDE DEF begun
  <2>3. ASSUME NEW q \in Requests, req'[q].alone, req'[q].atom # None
        PROVE  Coverage(q)'
    <3>1. CASE q = r
      BY <2>1, <2>2, <3>1 DEF Coverage
    <3>2. CASE q # r
      <4>1. req[q].atom # a /\ req'[q] = req[q]
        BY <1>0, <2>1, <2>3, <3>2 DEF Request
      <4>2. Coverage(q)
        BY <1>0, <2>3, <4>1 DEF SavesCover
      <4>3. PICK b \in Atoms : b = req[q].atom
        BY <1>0, <2>3, <4>1 DEF Request
      <4>4. atom'[b] = atom[b] /\ exists'[b] = exists[b]
        BY <1>0, <2>1, <4>1, <4>3 DEF Typed, SiteOK
      <4> QED BY <2>1, <4>1, <4>2, <4>3, <4>4 DEF Coverage, Covered
    <3> QED BY <3>1, <3>2
  <2>4. ASSUME NEW b \in settled' PROVE Covered(b, rows[b])'
    <3>1. b \in settled /\ b # a
      BY <2>1
    <3>2. atom'[b] = atom[b]
      BY <1>0, <2>1, <3>1 DEF Typed, SiteOK
    <3>3. Covered(b, rows[b])
      BY <1>0, <3>1 DEF SettledCovered
    <3> QED BY <2>1, <3>2, <3>3 DEF Covered
  <2> QED BY <2>3, <2>4 DEF SavesCover, SettledCovered
<1>2. ASSUME NEW r \in Requests, ClearRows(r)
      PROVE  SavesCover' /\ SettledCovered'
  <2> DEFINE new == [req[r] EXCEPT !.at = "numbering"]
  <2>1. /\ new.at = "numbering" /\ new.atom = req[r].atom /\ new.alone = req[r].alone
        /\ new.need = req[r].need
    BY <1>0 DEF Request
  <2>2. req' = [req EXCEPT ![r] = new] /\ req'[r] = new
    BY <1>0, <1>2 DEF ClearRows
  <2> HIDE DEF new
  <2>3. /\ req[r].at = "clearing" /\ rows' = [rows EXCEPT ![req[r].atom] = {}]
        /\ UNCHANGED <<atom, exists, sets, settled>>
    BY <1>2 DEF ClearRows
  <2>4. ASSUME new.alone, new.atom # None
        PROVE  req[r].alone /\ Coverage(r)'
    <3>1. new.need = SetsOf(atom[req[r].atom])
      BY <1>0, <2>1, <2>3, <2>4 DEF AloneSaves, Work
    <3> QED BY <2>1, <2>2, <2>3, <2>4, <3>1 DEF Coverage
  <2>5. \A a \in Atoms : a # req[r].atom => rows'[a] = rows[a]
    BY <1>0, <2>3
  <2> QED BY <2>1, <2>2, <2>3, <2>4, <2>5, OthersCover
<1>3. ASSUME NEW r \in Requests, NEW s \in req[r].need, LookUp(r, s)
      PROVE  SavesCover' /\ SettledCovered'
  <2> DEFINE new == [req[r] EXCEPT
                       !.need = IF Numbers(s) = {} THEN @ ELSE @ \ {s},
                       !.missing = IF Numbers(s) = {} THEN {s} ELSE {},
                       !.ids = IF Numbers(s) = {} THEN @ ELSE @ \cup First(s)]
  <2>1. /\ new.at = req[r].at /\ new.atom = req[r].atom /\ new.alone = req[r].alone
        /\ new.need = IF Numbers(s) = {} THEN req[r].need ELSE req[r].need \ {s}
        /\ new.ids = IF Numbers(s) = {} THEN req[r].ids ELSE req[r].ids \cup First(s)
    BY <1>0 DEF Request
  <2>2. req' = [req EXCEPT ![r] = new] /\ req'[r] = new
    BY <1>0, <1>3 DEF LookUp, Request
  <2> HIDE DEF new
  <2>3. req[r].at = "numbering" /\ UNCHANGED <<atom, exists, sets, rows, settled>>
    BY <1>3 DEF LookUp
  <2>4. ASSUME new.alone, new.atom # None
        PROVE  req[r].alone /\ Coverage(r)'
    <3>1. Coverage(r)
      BY <1>0, <2>1, <2>4 DEF SavesCover
    <3>2. Numbers(s) # {} => \E i \in First(s) : sets[i] = s
      BY <1>0, FirstExists
    <3>3. \A t \in SetsOf(atom[req[r].atom]) : t \in new.need \/ \E i \in new.ids : sets[i] = t
      <4> SUFFICES ASSUME NEW t \in SetsOf(atom[req[r].atom]), t \notin new.need
                   PROVE  \E i \in new.ids : sets[i] = t
        OBVIOUS
      <4>1. CASE Numbers(s) = {}
        BY <2>1, <2>3, <3>1, <4>1 DEF Coverage
      <4>2. CASE Numbers(s) # {}
        <5>1. t \in req[r].need => t = s
          BY <2>1, <4>2
        <5>2. \E i \in req[r].ids \cup First(s) : sets[i] = t
          BY <2>3, <3>1, <3>2, <4>2, <5>1 DEF Coverage
        <5> QED BY <2>1, <4>2, <5>2
      <4> QED BY <4>1, <4>2
    <3> QED BY <2>1, <2>2, <2>3, <2>4, <3>3 DEF Coverage
  <2> QED BY <2>1, <2>2, <2>3, <2>4, OthersCover
<1>4. ASSUME NEW r \in Requests, NEW s \in req[r].missing, AddSet(r, s)
      PROVE  SavesCover' /\ SettledCovered'
  <2> DEFINE n == Len(sets) + 1
             new == [req[r] EXCEPT !.need = @ \ {s}, !.missing = {}, !.ids = @ \cup {n}]
  <2>1. /\ new.at = req[r].at /\ new.atom = req[r].atom /\ new.alone = req[r].alone
        /\ new.need = req[r].need \ {s}
        /\ new.ids = req[r].ids \cup {n}
    BY <1>0 DEF Request
  <2>2. req' = [req EXCEPT ![r] = new] /\ req'[r] = new
    BY <1>0, <1>4 DEF AddSet, Request
  <2> HIDE DEF new
  <2>3. /\ req[r].at = "numbering" /\ sets' = Append(sets, s)
        /\ UNCHANGED <<atom, exists, rows, settled>>
    BY <1>4 DEF AddSet
  <2>a. \A i \in 1..Len(sets) : sets'[i] = sets[i]
    BY <1>0, <2>3, SetsGrow
  <2>b. s \in SUBSET Protocols
    BY <1>0 DEF Request
  <2>c. PICK k \in Nat : k = n /\ sets'[k] = s
    BY <1>0, <2>3, <2>b DEF SetsOK
  <2> HIDE DEF n
  <2>4. ASSUME new.alone, new.atom # None
        PROVE  req[r].alone /\ Coverage(r)'
    <3>1. Coverage(r)
      BY <1>0, <2>1, <2>4 DEF SavesCover
    <3>2. ASSUME NEW t \in SetsOf(atom[req[r].atom]), t \notin new.need
          PROVE  \E i \in new.ids : sets'[i] = t
      <4>1. CASE t = s
        BY <2>1, <2>c, <4>1
      <4>2. CASE t # s
        <5>1. PICK i \in req[r].ids : sets[i] = t
          BY <2>1, <2>3, <3>1, <3>2, <4>2 DEF Coverage
        <5> QED BY <1>0, <2>1, <2>a, <5>1
      <4> QED BY <4>1, <4>2
    <3>3. /\ req'[r].at = "numbering" /\ req'[r].atom = req[r].atom
          /\ req'[r].need = new.need /\ req'[r].ids = new.ids /\ atom' = atom
      BY <2>1, <2>2, <2>3
    <3>4. Coverage(r)'
      BY <3>2, <3>3 DEF Coverage
    <3> QED BY <2>1, <2>4, <3>4
  <2> QED BY <2>1, <2>2, <2>3, <2>a, <2>4, OthersCover
<1>5. ASSUME NEW r \in Requests, AllNumbered(r)
      PROVE  SavesCover' /\ SettledCovered'
  <2> DEFINE listing == [req[r] EXCEPT !.at = "listing"]
             new == IF req[r].atom = None THEN Idle ELSE listing
  <2>1. /\ listing.at = "listing" /\ listing.atom = req[r].atom
        /\ listing.alone = req[r].alone /\ listing.ids = req[r].ids
    BY <1>0 DEF Request
  <2>2. req' = [req EXCEPT ![r] = new] /\ req'[r] = new
    BY <1>0, <1>5 DEF AllNumbered
  <2> HIDE DEF listing
  <2>a. Idle.atom = None
    BY DEF Idle
  <2>3. /\ req[r].at = "numbering" /\ req[r].need = {}
        /\ UNCHANGED <<atom, exists, sets, rows, settled>>
    BY <1>5 DEF AllNumbered
  <2>4. ASSUME new.alone, new.atom # None
        PROVE  req[r].alone /\ Coverage(r)'
    <3>1. new = listing
      BY <2>4, <2>a
    <3>2. Coverage(r)
      BY <1>0, <2>1, <2>4, <3>1 DEF SavesCover
    <3>3. \A s \in SetsOf(atom[req[r].atom]) : \E i \in req[r].ids : sets[i] = s
      BY <2>3, <3>2 DEF Coverage
    <3> QED BY <2>1, <2>2, <2>3, <2>4, <3>1, <3>3 DEF Coverage, Covered
  <2>5. new.atom = None \/ new.atom = req[r].atom
    BY <2>1, <2>a
  <2> HIDE DEF new
  <2> QED BY <2>2, <2>3, <2>4, <2>5, OthersCover
<1>6. ASSUME NEW r \in Requests, NEW i \in req[r].ids, InsertRow(r, i)
      PROVE  SavesCover' /\ SettledCovered'
  <2> DEFINE new == [req[r] EXCEPT !.ids = @ \ {i}]
  <2>1. /\ new.at = req[r].at /\ new.atom = req[r].atom /\ new.alone = req[r].alone
        /\ new.ids = req[r].ids \ {i}
    BY <1>0 DEF Request
  <2>2. req' = [req EXCEPT ![r] = new] /\ req'[r] = new
    BY <1>0, <1>6 DEF InsertRow, Request
  <2> HIDE DEF new
  <2>3. /\ req[r].at = "listing" /\ rows' = [rows EXCEPT ![req[r].atom] = @ \cup {i}]
        /\ UNCHANGED <<atom, exists, sets, settled>>
    BY <1>6 DEF InsertRow
  <2>4. ASSUME new.alone, new.atom # None
        PROVE  req[r].alone /\ Coverage(r)'
    <3>1. Coverage(r)
      BY <1>0, <2>1, <2>4 DEF SavesCover
    <3>2. PICK b \in Atoms : b = req[r].atom
      BY <1>0, <2>1, <2>4 DEF Request
    <3>3. new.ids \cup rows'[b] = req[r].ids \cup rows[b]
      BY <1>0, <2>1, <2>3, <3>2
    <3>4. exists[b] = "live" => Covered(b, new.ids \cup rows'[b])
      BY <2>3, <3>1, <3>2, <3>3 DEF Coverage
    <3> QED BY <2>1, <2>2, <2>3, <2>4, <3>2, <3>4 DEF Coverage, Covered
  <2>5. \A a \in Atoms : a # req[r].atom => rows'[a] = rows[a]
    BY <1>0, <2>3
  <2> QED BY <2>1, <2>2, <2>3, <2>4, <2>5, OthersCover
<1>7. ASSUME NEW r \in Requests, NEW new, new.atom = None,
             req' = [req EXCEPT ![r] = new],
             UNCHANGED <<atom, exists, sets, rows>>,
             \A a \in settled' \ settled : Covered(a, rows[a])
      PROVE  SavesCover' /\ SettledCovered'
  <2>1. \A a \in settled' \ settled : Covered(a, rows[a])'
    BY <1>7 DEF Covered
  <2> QED BY <1>7, <2>1, OthersCover
<1>a. Idle.atom = None
  BY DEF Idle
<1>8. ASSUME NEW r \in Requests, EndSave(r)
      PROVE  SavesCover' /\ SettledCovered'
  <2>1. /\ req[r].at = "listing" /\ req[r].ids = {}
        /\ req' = [req EXCEPT ![r] = Idle]
        /\ UNCHANGED <<atom, exists, sets, rows>>
    BY <1>8 DEF EndSave
  <2>2. ASSUME NEW a \in settled' \ settled PROVE Covered(a, rows[a])
    <3>1. req[r].alone /\ exists[req[r].atom] = "live" /\ a = req[r].atom
      BY <1>8, <2>2 DEF EndSave
    <3>2. Coverage(r)
      BY <1>0, <2>1, <3>1 DEF SavesCover, Saving
    <3> QED BY <2>1, <3>1, <3>2 DEF Coverage
  <2> QED BY <1>7, <1>a, <2>1, <2>2
<1>9. ASSUME NEW r \in Requests, Die(r)
      PROVE  SavesCover' /\ SettledCovered'
  BY <1>7, <1>9, <1>a DEF Die
<1>10. ASSUME NEW r \in Requests, NEW u \in Users, View(r, u)
       PROVE  SavesCover' /\ SettledCovered'
  <2> DEFINE new == [Idle EXCEPT !.at = "numbering",
                                 !.need = {{}} \cup {{p} : p \in Counted(u)}]
  <2>1. new.atom = None
    BY DEF Idle
  <2>2. req' = [req EXCEPT ![r] = new]
    BY <1>10 DEF View
  <2> HIDE DEF new
  <2> QED BY <1>7, <1>10, <2>1, <2>2 DEF View
<1>11. ASSUME NEW a \in Atoms, DeleteAtom(a)
       PROVE  SavesCover' /\ SettledCovered'
  <2>1. /\ rows' = [rows EXCEPT ![a] = {}] /\ settled' = settled \ {a}
        /\ exists' = [exists EXCEPT ![a] = "deleted"]
        /\ UNCHANGED <<atom, sets, req>>
    BY <1>11 DEF DeleteAtom
  <2>2. /\ exists'[a] = "deleted"
        /\ \A b \in Atoms \ {a} : rows'[b] = rows[b] /\ exists'[b] = exists[b]
    BY <1>0, <2>1
  <2>3. ASSUME NEW q \in Requests, req[q].alone, req[q].atom # None
        PROVE  Coverage(q)'
    <3>1. Coverage(q)
      BY <1>0, <2>3 DEF SavesCover
    <3>2. PICK b \in Atoms : b = req[q].atom
      BY <1>0, <2>3 DEF Request
    <3> QED BY <2>1, <2>2, <3>1, <3>2 DEF Coverage, Covered
  <2>4. SettledCovered'
    BY <1>0, <2>1, <2>2 DEF SettledCovered, Covered
  <2> QED BY <2>1, <2>3, <2>4 DEF SavesCover
<1>12. ASSUME UNCHANGED <<atom, exists, sets, rows, req, settled>>
       PROVE  SavesCover' /\ SettledCovered'
  BY <1>0, <1>12 DEF SavesCover, SettledCovered, Coverage, Covered
<1>13. ASSUME NEW u \in Users, NEW p \in Protocols, ChangeMembership(u, p)
       PROVE  SavesCover' /\ SettledCovered'
  BY <1>12, <1>13 DEF ChangeMembership
<1>14. ASSUME NEW u \in Users, NEW c \in Communities, JoinOrLeave(u, c)
       PROVE  SavesCover' /\ SettledCovered'
  BY <1>12, <1>14 DEF JoinOrLeave
<1>15. ASSUME NEW p \in Protocols, NEW open \in BOOLEAN, SaveProtocol(p, open)
       PROVE  SavesCover' /\ SettledCovered'
  BY <1>12, <1>15 DEF SaveProtocol
<1>16. ASSUME NEW c \in Communities, ChangeCommunity(c)
       PROVE  SavesCover' /\ SettledCovered'
  BY <1>12, <1>16 DEF ChangeCommunity
<1>17. ASSUME NEW p \in Protocols, AcquireGrants(p)
       PROVE  SavesCover' /\ SettledCovered'
  BY <1>12, <1>17 DEF AcquireGrants
<1>18. CASE UNCHANGED vars
  BY <1>12, <1>18 DEF vars
<1> QED
  BY <1>1, <1>2, <1>3, <1>4, <1>5, <1>6, <1>8, <1>9, <1>10, <1>11, <1>13, <1>14, <1>15,
     <1>16, <1>17, <1>18
     DEF Next

(* Who may view an atom holds the number of a set that opens it: the first one,
   which is the one held. *)
LEMMA AllowedListed == CoverInvariant /\ NumbersApart => AllowedIsListed
<1> SUFFICES ASSUME CoverInvariant, NumbersApart, NEW a \in settled, NEW u \in Users,
                    Allowed(u, a), \A i \in rows[a] : ~Shadowed(i),
                    \A p \in atom[a].protocols : ~Overlooked(u, p)
             PROVE  Listed(u, a)
  BY DEF AllowedIsListed
<1> DEFINE viewed == Counted(u)
           x == atom[a]
<1>1. /\ a \in Atoms /\ x \in Atom
      /\ viewed \subseteq Protocols
      /\ rows[a] \subseteq DOMAIN sets
  BY DEF CoverInvariant, RowsInvariant, Typed, SiteOK, RowsOK, SetsOK, Counted
<1>2. \A s \in SetsOf(x) : \E i \in rows[a] : sets[i] = s
  BY DEF CoverInvariant, SettledCovered, Covered
<1>3. ASSUME NEW s \in SetsOf(x)
      PROVE  \E i \in rows[a] : /\ i \in First(s) /\ sets[i] = s
                                /\ i \in DOMAIN sets /\ i \notin Protocols
  <2>1. PICK i \in rows[a] : sets[i] = s
    BY <1>2
  <2>2. i \in First(s)
    BY <2>1 DEF Shadowed
  <2> QED BY <1>1, <2>1, <2>2 DEF NumbersApart
<1>4. \A p \in x.protocols : MayView(u, p) => p \in viewed
  BY ViewableCounted
<1>5. Held(u) = (First({}) \ (viewed \cup Compounds(u)))
                \cup (UNION {First({p}) : p \in viewed \ Compounds(u)})
                \cup Compounds(u)
  BY DEF Held
<1>6. Compounds(u) = {i \in DOMAIN sets : /\ \E p, q \in sets[i] : p # q
                                          /\ sets[i] \subseteq viewed}
  BY DEF Compounds
<1>7. viewed \cap Compounds(u) = {}
  BY <1>1, <1>6 DEF NumbersApart
<1> HIDE DEF viewed
(* The set of no protocols, the sets of one, and the sets of several. *)
<1>8. ASSUME {} \in SetsOf(x) PROVE Listed(u, a)
  <2>1. PICK i \in rows[a] : /\ i \in First({}) /\ sets[i] = {}
                             /\ i \in DOMAIN sets /\ i \notin Protocols
    BY <1>3, <1>8
  <2>2. i \notin viewed \cup Compounds(u)
    BY <1>1, <1>6, <2>1
  <2> QED BY <1>5, <2>1, <2>2 DEF Listed
<1>9. ASSUME NEW p \in viewed, {p} \in SetsOf(x) PROVE Listed(u, a)
  <2>1. PICK i \in rows[a] : i \in First({p})
    BY <1>3, <1>9
  <2>2. p \in viewed \ Compounds(u)
    BY <1>7
  <2> QED BY <1>5, <2>1, <2>2 DEF Listed
<1>10. ASSUME NEW ps \in SetsOf(x), ps \subseteq viewed, \E p, q \in ps : p # q
       PROVE  Listed(u, a)
  <2>1. PICK i \in rows[a] : sets[i] = ps /\ i \in DOMAIN sets
    BY <1>3
  <2>2. i \in Compounds(u)
    BY <1>6, <1>10, <2>1
  <2> QED BY <1>5, <2>1, <2>2 DEF Listed
<1>11. \/ x.protocols = {}
       \/ x.sharing = "any" /\ \E p \in x.protocols : p \in viewed
       \/ x.sharing = "all" /\ x.protocols \subseteq viewed
  BY <1>4 DEF Allowed
<1> HIDE DEF x
<1>12. CASE x.protocols = {}
  BY <1>8, <1>12 DEF SetsOf
<1>13. CASE x.protocols # {} /\ x.sharing = "any"
  <2>1. PICK p \in x.protocols : p \in viewed
    BY <1>11, <1>13
  <2>2. {p} \in SetsOf(x)
    BY <1>13, <2>1 DEF SetsOf
  <2> QED BY <1>9, <2>1, <2>2
<1>14. CASE x.protocols # {} /\ x.sharing = "all"
  <2>1. SetsOf(x) = {x.protocols} /\ x.protocols \subseteq viewed
    BY <1>11, <1>14 DEF SetsOf
  <2>2. PICK p : p \in x.protocols
    BY <1>14
  <2>3. CASE x.protocols = {p}
    BY <1>9, <2>1, <2>2, <2>3
  <2>4. CASE x.protocols # {p}
    <3>1. \E q \in x.protocols : q # p
      BY <2>2, <2>4
    <3> QED BY <1>10, <2>1, <2>2, <3>1
  <2> QED BY <2>3, <2>4
<1> QED BY <1>11, <1>12, <1>13, <1>14

(* The library lists every atom to all who may view it, but for atoms listed
   under a number that two requests raced for and users who may view one of its
   protocols as members of the community only, as long as no protocol has the
   node number that a set of protocols has: the array of the numbers a user
   holds is indexed by both. *)
THEOREM AllowedAreListed == Spec => [](NumbersApart => AllowedIsListed)
<1>1. CoverInvariant => (NumbersApart => AllowedIsListed)
  BY AllowedListed
<1> QED BY <1>1, InitCover, NextCover, PTL DEF Spec

==============================================================================
