-------------------------- MODULE RecordFamilies_proofs --------------------------
(***************************************************************************)
(* Proofs about RecordFamilies, for any items, users, tabs, protocols and  *)
(* any number of edits.                                                    *)
(*                                                                         *)
(* The invariants need one another.  A list mirrors the links only if no   *)
(* item names one that does not exist yet (LinksKnown); a deletion takes   *)
(* all descendants only if families have two levels (Levels), which is so  *)
(* because forms are opened on items at the top (FormsKnown).              *)
(***************************************************************************)
EXTENDS RecordFamilies, TLAPS

Known == live \cup gone

(* Items name items that exist or have existed. *)
LinksKnown == \A c \in live : /\ node[c].parent \in Known \cup {None}
                              /\ node[c].book \in Known \cup {None}

(* Records have no records, and are no books; pages have no pages. *)
Levels ==
    \A c \in live :
      /\ node[c].parent \in live => node[node[c].parent].parent = None
      /\ node[c].book \in live => /\ node[node[c].book].parent = None
                                  /\ node[node[c].book].book = None

(* Forms were opened on items that are no records, and pages on books. *)
FormKnown(t) ==
    /\ form[t].of \in Known
    /\ form[t].of \in live => /\ node[form[t].of].parent = None
                              /\ form[t].kind = "page" => node[form[t].of].book = None

FormsKnown == \A t \in Tabs : form[t] = NoForm \/ FormKnown(t)

Families == ListsMirrorLinks /\ NoOrphans /\ LinksKnown /\ Levels

FamilyInvariant == TypeOK /\ Families /\ FormsKnown /\ PagesFollowBook /\ RecordsOfTheirForm

(* Forms are records, and the absence of one is told from them by its kind. *)
LEMMA FormFacts ==
    ASSUME NEW t \in Tabs, TypeOK
    PROVE  /\ form[t].kind \in {"record", "page"} => form[t] \in Form /\ form[t] # NoForm
           /\ form[t] # NoForm => form[t] \in Form
BY DEF TypeOK, Form, NoForm

-----------------------------------------------------------------------------
(* Insertions. *)

(* A new item at the top, or one that names an item at the top. *)
Sound(i, n) ==
    /\ i \in Fresh
    /\ n \in Node
    /\ n.parent = None \/ n.book = None
    /\ n.parent # None => /\ n.parent \in Known
                          /\ n.parent \in live => node[n.parent].parent = None
    /\ n.book # None => /\ n.book \in live
                        /\ node[n.book].parent = None /\ node[n.book].book = None

(* A list of children grows by i at most, and only that of a live x. *)
Grown(old, new, i, x) ==
    /\ new \in [Items -> SUBSET Items]
    /\ \A j \in Items : /\ old[j] \subseteq new[j]
                        /\ new[j] \subseteq old[j] \cup {i}
                        /\ i \in new[j] \ old[j] => j = x /\ j \in live

LEMMA ListsAdded ==
    ASSUME NEW lists \in [Items -> SUBSET Items], NEW u, NEW i \in Items, NEW x, NEW nodes,
           live \subseteq Items
    PROVE  Grown(lists, AddedTo(lists, u, i, x, nodes), i, x)
<1>1. CASE x \in live /\ Valid(u, lists[x] \cup {i}, nodes)
  <2>1. AddedTo(lists, u, i, x, nodes) = [lists EXCEPT ![x] = @ \cup {i}]
    BY <1>1 DEF AddedTo
  <2> QED BY <1>1, <2>1 DEF Grown
<1>2. CASE ~(x \in live /\ Valid(u, lists[x] \cup {i}, nodes))
  BY <1>2 DEF AddedTo, Grown
<1> QED BY <1>1, <1>2

(* What an insertion does. *)
Inserted(i, n) ==
    /\ i \in Items /\ i \notin live /\ i \notin gone /\ n \in Node
    /\ live' = live \cup {i} /\ gone' = gone
    /\ node' \in [Items -> Node]
    /\ node'[i] = n /\ \A c \in Items \ {i} : node'[c] = node[c]
    /\ Grown(children, children', i, n.parent) /\ Grown(pages, pages', i, n.book)
    /\ missed \subseteq missed' /\ missed' \subseteq missed \cup {i}
    /\ i \notin missed' => /\ n.parent # None => n.parent \in live /\ i \in children'[n.parent]
                           /\ n.book # None => n.book \in live /\ i \in pages'[n.book]

LEMMA InsertFacts ==
    ASSUME TypeOK, NEW u, NEW i, NEW n, Sound(i, n), Insert(u, i, n)
    PROVE  Inserted(i, n)
<1>1. i \in Items /\ i \notin live /\ i \notin gone /\ n \in Node BY DEF Sound, Fresh
<1>2. live' = live \cup {i} /\ gone' = gone /\ node' = [node EXCEPT ![i] = n] BY DEF Insert
<1>3. Grown(children, children', i, n.parent)
  <2>1. children' = AddedTo(children, u, i, n.parent, [node EXCEPT ![i] = n]) BY DEF Insert
  <2>2. children \in [Items -> SUBSET Items] /\ live \subseteq Items BY DEF TypeOK
  <2>3. Grown(children, AddedTo(children, u, i, n.parent, [node EXCEPT ![i] = n]), i, n.parent)
    BY <1>1, <2>2, ListsAdded
  <2> QED BY <2>1, <2>3
<1>4. Grown(pages, pages', i, n.book)
  <2>1. pages' = AddedTo(pages, u, i, n.book, [node EXCEPT ![i] = n]) BY DEF Insert
  <2>2. pages \in [Items -> SUBSET Items] /\ live \subseteq Items BY DEF TypeOK
  <2>3. Grown(pages, AddedTo(pages, u, i, n.book, [node EXCEPT ![i] = n]), i, n.book)
    BY <1>1, <2>2, ListsAdded
  <2> QED BY <2>1, <2>3
<1>5. /\ missed \subseteq missed' /\ missed' \subseteq missed \cup {i}
      /\ i \notin missed' => /\ n.parent # None => n.parent \in live /\ i \in children'[n.parent]
                             /\ n.book # None => n.book \in live /\ i \in pages'[n.book]
  BY DEF Insert
<1> QED BY <1>1, <1>2, <1>3, <1>4, <1>5 DEF TypeOK, Inserted

ItemsTyped ==
    /\ live \subseteq Items /\ gone \subseteq Items /\ live \cap gone = {}
    /\ node \in [Items -> Node]
    /\ children \in [Items -> SUBSET Items]
    /\ pages \in [Items -> SUBSET Items]
    /\ \A j \in Items \ live : children[j] = {} /\ pages[j] = {} /\ node[j] = NoNode
    /\ missed \subseteq Items

LEMMA InsertTypes ==
    ASSUME TypeOK, NEW u, NEW i, NEW n, Sound(i, n), Insert(u, i, n)
    PROVE  ItemsTyped'
<1> Inserted(i, n) BY InsertFacts
<1> USE DEF Inserted
<1>1. \A j \in Items \ live' : children'[j] = {} /\ pages'[j] = {} /\ node'[j] = NoNode
  <2> SUFFICES ASSUME NEW j \in Items \ live'
               PROVE  children'[j] = {} /\ pages'[j] = {} /\ node'[j] = NoNode
    OBVIOUS
  <2>1. j \in Items /\ j \notin live /\ j # i OBVIOUS
  <2>2. children[j] = {} /\ pages[j] = {} /\ node[j] = NoNode BY <2>1 DEF TypeOK
  <2>3. node'[j] = node[j] BY <2>1
  <2>4. children'[j] \subseteq {} /\ pages'[j] \subseteq {}
    BY <2>1, <2>2 DEF Grown
  <2> QED BY <2>2, <2>3, <2>4
<1> QED BY <1>1 DEF TypeOK, Grown, ItemsTyped

(* Both ends, levels and known links survive an insertion. *)
LEMMA InsertFamilies ==
    ASSUME TypeOK, Families, NEW u, NEW i, NEW n, Sound(i, n), Insert(u, i, n)
    PROVE  Families'
<1> Inserted(i, n) BY InsertFacts
<1> USE DEF Inserted
<1>1. None \notin Items /\ live \subseteq Items BY RecordFamiliesAssumption DEF TypeOK
<1>2. \A c \in live : node[c].parent # i /\ node[c].book # i
  BY <1>1 DEF Families, LinksKnown, Known
<1>3. n.parent # i /\ n.book # i BY <1>1 DEF Sound, Known
<1>4. \A j \in Items : /\ children[j] \subseteq children'[j] /\ children'[j] \subseteq children[j] \cup {i}
                       /\ pages[j] \subseteq pages'[j] /\ pages'[j] \subseteq pages[j] \cup {i}
  BY DEF Grown
<1>5. \A j \in Items : i \notin children[j] /\ i \notin pages[j]
  BY DEF Families, ListsMirrorLinks, TypeOK
<1>6. \A j \in Items : /\ i \in children'[j] => j = n.parent /\ j \in live
                       /\ i \in pages'[j] => j = n.book /\ j \in live
  BY <1>5 DEF Grown
<1>7. children[i] = {} /\ pages[i] = {} BY DEF TypeOK
<1>8. ListsMirrorLinks'
  <2> SUFFICES ASSUME NEW j \in live', NEW c \in Items
               PROVE  /\ c \in children'[j] => c \in live' /\ node'[c].parent = j
                      /\ c \in pages'[j] => c \in live' /\ node'[c].book = j
                      /\ c \in live' \ missed' => /\ node'[c].parent = j => c \in children'[j]
                                                  /\ node'[c].book = j => c \in pages'[j]
    BY DEF ListsMirrorLinks
  <2>1. j \in Items BY <1>1
  <2>2. CASE c = i
    <3>1. j # None BY <1>1, <2>1
    <3> QED BY <2>1, <2>2, <3>1, <1>6
  <2>3. CASE c # i /\ j = i
    <3>1. c \notin children'[j] /\ c \notin pages'[j] BY <2>3, <1>4, <1>7
    <3>2. c \in live' => c \in live /\ node'[c].parent # j /\ node'[c].book # j BY <2>3, <1>2
    <3> QED BY <3>1, <3>2
  <2>4. CASE c # i /\ j # i
    <3>1. j \in live /\ node'[c] = node[c] /\ (c \in live' <=> c \in live) BY <2>4
    <3>2. (c \in children'[j] <=> c \in children[j]) /\ (c \in pages'[j] <=> c \in pages[j])
      BY <2>1, <2>4, <1>4
    <3>3. c \notin missed' => c \notin missed OBVIOUS
    <3> QED BY <3>1, <3>2, <3>3 DEF Families, ListsMirrorLinks
  <2> QED BY <2>2, <2>3, <2>4
<1>9. NoOrphans'
  <2> SUFFICES ASSUME NEW c \in live' \ missed'
               PROVE  node'[c].parent \notin gone' /\ node'[c].book \notin gone'
    BY DEF NoOrphans
  <2>1. CASE c = i BY <2>1, <1>1 DEF TypeOK
  <2>2. CASE c # i
    <3>1. c \in live \ missed /\ node'[c] = node[c] BY <2>2, <1>1
    <3> QED BY <3>1 DEF Families, NoOrphans
  <2> QED BY <2>1, <2>2
<1>10. LinksKnown'
  <2> SUFFICES ASSUME NEW c \in live'
               PROVE  node'[c].parent \in Known' \cup {None} /\ node'[c].book \in Known' \cup {None}
    BY DEF LinksKnown
  <2>1. Known \subseteq Known' BY DEF Known
  <2>2. CASE c = i BY <2>1, <2>2 DEF Sound, Known
  <2>3. CASE c # i
    <3>1. c \in live /\ node'[c] = node[c] BY <2>3, <1>1
    <3> QED BY <2>1, <3>1 DEF Families, LinksKnown
  <2> QED BY <2>2, <2>3
<1>11. Levels'
  <2> SUFFICES ASSUME NEW c \in live'
               PROVE  /\ node'[c].parent \in live' => node'[node'[c].parent].parent = None
                      /\ node'[c].book \in live' => /\ node'[node'[c].book].parent = None
                                                    /\ node'[node'[c].book].book = None
    BY DEF Levels
  <2>1. \A x \in live : x \in live' /\ x # i /\ node'[x] = node[x] BY <1>1
  <2>2. CASE c = i
    <3>1. node'[c] = n BY <2>2
    <3>2. n.parent \in live' => n.parent \in live /\ node[n.parent].parent = None
      BY <1>1, <1>3 DEF Sound
    <3>3. n.book \in live' => /\ n.book \in live
                             /\ node[n.book].parent = None /\ node[n.book].book = None
      BY <1>1, <1>3 DEF Sound
    <3>4. node'[n.parent].parent = node[n.parent].parent \/ n.parent \notin live BY <2>1
    <3>5. n.book \in live => node'[n.book] = node[n.book] BY <2>1
    <3> HIDE DEF Inserted
    <3> QED BY <3>1, <3>2, <3>3, <3>4, <3>5
  <2>3. CASE c # i
    <3>1. c \in live /\ node'[c] = node[c] BY <2>3, <1>1
    <3>2. /\ node[c].parent \in live' => node[c].parent \in live
          /\ node[c].book \in live' => node[c].book \in live
      BY <3>1, <1>2
    <3> QED BY <2>1, <3>1, <3>2 DEF Families, Levels
  <2> QED BY <2>2, <2>3
<1> QED BY <1>8, <1>9, <1>10, <1>11 DEF Families

(* The rest of the invariant survives when forms are at most closed, and the
   new item's origin and protocols are accounted for. *)
LEMMA InsertInvariant ==
    ASSUME FamilyInvariant, NEW u, NEW i, NEW n, Sound(i, n), Insert(u, i, n),
           slot' \in [Users -> Items \cup {None}], changes' = changes,
           form' \in [Tabs -> Form \cup {NoForm}],
           \A t \in Tabs : form'[t] = form[t] \/ form'[t] = NoForm,
           from' \in [Items -> Items \cup {None}],
           \A j \in Items \ {i} : from'[j] = from[j],
           n.parent \in {None, from'[i]},
           apart \subseteq apart', apart' \subseteq apart \cup {i},
           i \in apart' \/ n.book = None \/ (/\ n.protocols = node[n.book].protocols
                                           /\ n.sharing = node[n.book].sharing)
    PROVE  FamilyInvariant'
<1> Inserted(i, n) BY InsertFacts DEF FamilyInvariant
<1>1. TypeOK /\ Families /\ None \notin Items BY RecordFamiliesAssumption DEF FamilyInvariant
<1>2. i \in Items /\ i \notin live /\ i \notin gone BY DEF Inserted
<1>3. live' = live \cup {i} /\ gone' = gone /\ node'[i] = n BY DEF Inserted
<1>4. \A c \in live : c \in Items /\ c # i /\ node'[c] = node[c] BY <1>1 DEF Inserted, TypeOK
<1>5. TypeOK'
  <2>1. changes' \in 0..MaxChanges BY <1>1 DEF TypeOK
  <2>2. apart' \subseteq Items BY <1>1, <1>2 DEF TypeOK
  <2>3. ItemsTyped' BY <1>1, InsertTypes
  <2> QED BY <2>1, <2>2, <2>3 DEF TypeOK, ItemsTyped
<1>6. Families' BY <1>1, InsertFamilies
<1>7. FormsKnown'
  <2> SUFFICES ASSUME NEW t \in Tabs, form'[t] # NoForm
               PROVE  FormKnown(t)'
    BY DEF FormsKnown
  <2>1. form'[t] = form[t] /\ FormKnown(t) BY DEF FamilyInvariant, FormsKnown
  <2>2. form[t].of \in Known BY <2>1 DEF FormKnown
  <2>3. form[t].of \in live' => form[t].of \in live BY <2>2, <1>2, <1>3 DEF Known
  <2>4. form[t].of \in live => node'[form[t].of] = node[form[t].of] BY <1>4
  <2>5. form[t].of \in Known' BY <2>2, <1>3 DEF Known
  <2> QED BY <2>1, <2>3, <2>4, <2>5 DEF FormKnown
<1>8. PagesFollowBook'
  <2> SUFFICES ASSUME NEW j \in live', NEW c \in pages'[j] \ (apart' \cup missed')
               PROVE  /\ node'[c].protocols = node'[j].protocols
                      /\ node'[c].sharing = node'[j].sharing
    BY DEF PagesFollowBook
  <2>1. j \in Items BY <1>2, <1>3, <1>4
  <2>2. pages'[j] \subseteq pages[j] \cup {i} /\ (i \in pages'[j] \ pages[j] => j = n.book /\ j \in live)
    BY <2>1 DEF Inserted, Grown
  <2>3. missed \subseteq missed' BY DEF Inserted
  <2>4. pages[i] = {} /\ pages[j] \subseteq Items BY <1>1, <1>2, <2>1 DEF TypeOK
  <2>5. j \in live => \A x \in pages[j] : x \in live
    <3> SUFFICES ASSUME j \in live, NEW x \in pages[j] PROVE x \in live
      OBVIOUS
    <3> QED BY <1>1, <2>4 DEF Families, ListsMirrorLinks
  <2>6. CASE c = i
    <3>1. i \notin pages[j]
      <4>1. CASE j = i BY <4>1, <2>4
      <4>2. CASE j # i BY <4>2, <2>5, <1>2, <1>3
      <4> QED BY <4>1, <4>2
    <3>2. j = n.book /\ j \in live BY <2>6, <2>2, <3>1
    <3>3. node'[j] = node[j] /\ n.book # None BY <3>2, <1>4, <1>1, <2>1
    <3> QED BY <2>6, <3>2, <3>3, <1>3
  <2>7. CASE c # i
    <3>1. c \in pages[j] BY <2>2, <2>7
    <3>2. j \in live BY <3>1, <2>4, <1>3
    <3>3. c \in live /\ c \notin apart /\ c \notin missed BY <3>1, <3>2, <2>5, <2>3
    <3>4. node'[c] = node[c] /\ node'[j] = node[j] BY <3>2, <3>3, <1>4
    <3> QED BY <3>1, <3>2, <3>3, <3>4 DEF FamilyInvariant, PagesFollowBook
  <2> QED BY <2>6, <2>7
<1>9. RecordsOfTheirForm'
  <2> SUFFICES ASSUME NEW c \in live' PROVE node'[c].parent \in {None, from'[c]}
    BY DEF RecordsOfTheirForm
  <2>1. CASE c = i BY <2>1, <1>3
  <2>2. CASE c # i
    <3>1. c \in live /\ node'[c] = node[c] /\ from'[c] = from[c] BY <2>2, <1>3, <1>4
    <3> QED BY <3>1 DEF FamilyInvariant, RecordsOfTheirForm
  <2> QED BY <2>1, <2>2
<1> QED BY <1>5, <1>6, <1>7, <1>8, <1>9 DEF FamilyInvariant

LEMMA CreateStep ==
    ASSUME FamilyInvariant, NEW u \in Users, NEW i \in Fresh, NEW v \in Sharing,
           NEW ps \in SUBSET Postable(u), Create(u, i, ps, v)
    PROVE  FamilyInvariant'
<1> DEFINE n == [author |-> u, parent |-> None, book |-> None, protocols |-> ps, sharing |-> v]
<1>1. Insert(u, i, n) /\ UNCHANGED <<slot, form, changes, from, apart>> BY DEF Create
<1>2. ps \subseteq Protocols BY RecordFamiliesAssumption DEF Postable
<1>3. n \in Node BY <1>2 DEF Node
<1>4. n.parent = None /\ n.book = None OBVIOUS
<1>5. TypeOK BY DEF FamilyInvariant
<1> HIDE DEF n
<1>6. Sound(i, n) BY <1>3, <1>4 DEF Sound
<1>7. /\ slot' \in [Users -> Items \cup {None}] /\ changes' = changes
      /\ form' = form /\ form' \in [Tabs -> Form \cup {NoForm}]
      /\ from' = from /\ from' \in [Items -> Items \cup {None}]
      /\ apart' = apart
  BY <1>1, <1>5 DEF TypeOK
<1> QED BY <1>1, <1>4, <1>6, <1>7, InsertInvariant

LEMMA SubmitRecordStep ==
    ASSUME FamilyInvariant, NEW t \in Tabs, NEW i \in Fresh, NEW v \in Sharing,
           NEW ps \in SUBSET Postable(UserOf[t]), SubmitRecord(t, i, ps, v)
    PROVE  FamilyInvariant'
<1> DEFINE n == [author |-> UserOf[t], parent |-> ParentFor(t), book |-> None,
                 protocols |-> ps, sharing |-> v]
<1>1. /\ Insert(UserOf[t], i, n) /\ slot' = SlotTaken(t) /\ form' = [form EXCEPT ![t] = NoForm]
      /\ from' = [from EXCEPT ![i] = form[t].of] /\ form[t].kind = "record"
      /\ changes' = changes /\ apart' = apart
  BY DEF SubmitRecord
<1>2. TypeOK /\ UserOf[t] \in Users /\ None \notin Items /\ i \in Items
  BY RecordFamiliesAssumption DEF FamilyInvariant, Fresh
<1>3. form[t] \in Form /\ form[t] # NoForm BY <1>1, <1>2, FormFacts
<1>4. form[t].of \in Items BY <1>3 DEF Form
<1>5. FormKnown(t) BY <1>3 DEF FamilyInvariant, FormsKnown
<1>6. ParentFor(t) \in {None, form[t].of} BY DEF ParentFor
<1>7. n \in Node
  <2>1. ps \subseteq Protocols BY <1>2, RecordFamiliesAssumption DEF Postable
  <2>2. ParentFor(t) \in Items \cup {None} BY <1>4, <1>6
  <2> QED BY <2>1, <2>2, <1>2 DEF Node
<1>8. n.parent = ParentFor(t) /\ n.book = None OBVIOUS
<1> HIDE DEF n
<1>9. Sound(i, n) BY <1>5, <1>6, <1>7, <1>8 DEF Sound, FormKnown
<1>10. slot' \in [Users -> Items \cup {None}] BY <1>1, <1>2 DEF TypeOK, SlotTaken
<1>11. /\ form' \in [Tabs -> Form \cup {NoForm}]
       /\ \A x \in Tabs : form'[x] = form[x] \/ form'[x] = NoForm
  BY <1>1, <1>2 DEF TypeOK
<1>12. /\ from' \in [Items -> Items \cup {None}]
       /\ \A j \in Items \ {i} : from'[j] = from[j]
       /\ from'[i] = form[t].of
  BY <1>1, <1>2, <1>4 DEF TypeOK
<1> QED BY <1>1, <1>6, <1>8, <1>9, <1>10, <1>11, <1>12, InsertInvariant

LEMMA SubmitPageStep ==
    ASSUME FamilyInvariant, NEW t \in Tabs, NEW i \in Fresh, SubmitPage(t, i)
    PROVE  FamilyInvariant'
<1> DEFINE b == IF form[t].of \in live THEN form[t].of ELSE None
           n == [author |-> UserOf[t], parent |-> None, book |-> b,
                 protocols |-> form[t].protocols, sharing |-> SettingFor(t)]
<1>1. /\ Insert(UserOf[t], i, n) /\ form' = [form EXCEPT ![t] = NoForm] /\ form[t].kind = "page"
      /\ apart' = IF b # None /\ form[t].protocols # node[b].protocols THEN apart \cup {i} ELSE apart
      /\ slot' = slot /\ changes' = changes /\ from' = from
  BY DEF SubmitPage
<1>2. TypeOK /\ UserOf[t] \in Users /\ None \notin Items /\ i \in Items
  BY RecordFamiliesAssumption DEF FamilyInvariant, Fresh
<1>3. form[t] \in Form /\ form[t] # NoForm BY <1>1, <1>2, FormFacts
<1>4. FormKnown(t) BY <1>3 DEF FamilyInvariant, FormsKnown
<1>5. b = None \/ (b \in live /\ node[b].parent = None /\ node[b].book = None)
  BY <1>1, <1>4 DEF FormKnown
<1>6. b \in Items \cup {None} BY <1>2, <1>5 DEF TypeOK
<1>7. SettingFor(t) \in Sharing BY <1>2, <1>3 DEF SettingFor, TypeOK, Node, Form
<1>8. b # None => SettingFor(t) = node[b].sharing BY DEF SettingFor
<1>9. form[t].protocols \subseteq Protocols BY <1>3 DEF Form
<1>10. n \in Node BY <1>2, <1>6, <1>7, <1>9 DEF Node
<1>11. /\ n.parent = None /\ n.book = b
       /\ n.protocols = form[t].protocols /\ n.sharing = SettingFor(t)
  OBVIOUS
<1> HIDE DEF n, b
<1>12. Sound(i, n) BY <1>5, <1>10, <1>11 DEF Sound
<1>13. /\ form' \in [Tabs -> Form \cup {NoForm}]
       /\ \A x \in Tabs : form'[x] = form[x] \/ form'[x] = NoForm
  BY <1>1, <1>2 DEF TypeOK
<1>14. /\ apart \subseteq apart' /\ apart' \subseteq apart \cup {i}
       /\ i \in apart' \/ n.book = None \/ (/\ n.protocols = node[n.book].protocols
                                           /\ n.sharing = node[n.book].sharing)
  BY <1>1, <1>8, <1>11
<1>15. slot' \in [Users -> Items \cup {None}] /\ from' \in [Items -> Items \cup {None}]
  BY <1>1, <1>2 DEF TypeOK
<1> QED BY <1>1, <1>11, <1>12, <1>13, <1>14, <1>15, InsertInvariant

-----------------------------------------------------------------------------
(* Forms. *)

LEMMA FormInvariant ==
    ASSUME FamilyInvariant, UNCHANGED <<items, changes, history>>,
           slot' \in [Users -> Items \cup {None}],
           form' \in [Tabs -> Form \cup {NoForm}],
           \A t \in Tabs : form'[t] = form[t] \/ form'[t] = NoForm \/ FormKnown(t)'
    PROVE  FamilyInvariant'
<1>1. /\ live' = live /\ gone' = gone /\ node' = node /\ children' = children /\ pages' = pages
      /\ changes' = changes /\ from' = from /\ missed' = missed /\ apart' = apart
  BY DEF items, history
<1>2. TypeOK' BY <1>1 DEF FamilyInvariant, TypeOK
<1>3. Families'
  BY <1>1 DEF FamilyInvariant, Families, ListsMirrorLinks, NoOrphans, LinksKnown, Levels, Known
<1>4. FormsKnown'
  <2> SUFFICES ASSUME NEW t \in Tabs, form'[t] # NoForm, form'[t] = form[t]
               PROVE  FormKnown(t)'
    BY DEF FormsKnown
  <2>1. FormKnown(t) BY DEF FamilyInvariant, FormsKnown
  <2> QED BY <2>1, <1>1 DEF FormKnown, Known
<1>5. PagesFollowBook' /\ RecordsOfTheirForm'
  BY <1>1 DEF FamilyInvariant, PagesFollowBook, RecordsOfTheirForm
<1> QED BY <1>2, <1>3, <1>4, <1>5 DEF FamilyInvariant

LEMMA OpenRecordFormStep ==
    ASSUME FamilyInvariant, NEW t \in Tabs, NEW i \in live, OpenRecordForm(t, i)
    PROVE  FamilyInvariant'
<1>1. TypeOK /\ i \in Items /\ UserOf[t] \in Users
  BY RecordFamiliesAssumption DEF FamilyInvariant, TypeOK
<1> DEFINE f == [kind |-> "record", of |-> i, protocols |-> {}, sharing |-> "all"]
<1>2. /\ slot' = [slot EXCEPT ![UserOf[t]] = i] /\ form' = [form EXCEPT ![t] = f]
      /\ UNCHANGED <<items, changes, history>> /\ node[i].parent = None
  BY DEF OpenRecordForm, MayAddRecord
<1>3. f \in Form BY <1>1 DEF Form, Sharing
<1>4. f.of = i /\ f.kind = "record" OBVIOUS
<1> HIDE DEF f
<1>5. slot' \in [Users -> Items \cup {None}] /\ form' \in [Tabs -> Form \cup {NoForm}]
  BY <1>1, <1>2, <1>3 DEF TypeOK
<1>6. form'[t] = f /\ \A x \in Tabs \ {t} : form'[x] = form[x] BY <1>1, <1>2 DEF TypeOK
<1>7. FormKnown(t)' BY <1>2, <1>4, <1>6 DEF FormKnown, Known, items
<1> QED BY <1>2, <1>5, <1>6, <1>7, FormInvariant

LEMMA OpenPageFormStep ==
    ASSUME FamilyInvariant, NEW t \in Tabs, NEW i \in live, OpenPageForm(t, i)
    PROVE  FamilyInvariant'
<1>1. TypeOK /\ Levels BY DEF FamilyInvariant, Families
<1> DEFINE b == IF node[i].book = None THEN i ELSE node[i].book
           f == [kind |-> "page", of |-> b, protocols |-> node[b].protocols,
                 sharing |-> node[b].sharing]
<1>2. /\ form' = [form EXCEPT ![t] = f] /\ slot' = slot /\ b \in live
      /\ UNCHANGED <<items, changes, history>> /\ node[i].parent = None
  BY DEF OpenPageForm, MayAddPage
<1>3. b \in Items /\ node[b] \in Node BY <1>1, <1>2 DEF TypeOK
<1>4. node[b].parent = None /\ node[b].book = None BY <1>1, <1>2 DEF Levels
<1>5. f \in Form BY <1>3 DEF Form, Node
<1>6. f.of = b /\ f.kind = "page" OBVIOUS
<1> HIDE DEF f, b
<1>7. slot' \in [Users -> Items \cup {None}] /\ form' \in [Tabs -> Form \cup {NoForm}]
  BY <1>1, <1>2, <1>5 DEF TypeOK
<1>8. form'[t] = f /\ \A x \in Tabs \ {t} : form'[x] = form[x] BY <1>1, <1>2 DEF TypeOK
<1>9. FormKnown(t)' BY <1>2, <1>4, <1>6, <1>8 DEF FormKnown, Known, items
<1> QED BY <1>2, <1>7, <1>8, <1>9, FormInvariant

LEMMA CloseFormStep ==
    ASSUME FamilyInvariant, NEW t \in Tabs, CloseForm(t)
    PROVE  FamilyInvariant'
<1>1. TypeOK BY DEF FamilyInvariant
<1>2. /\ form' = [form EXCEPT ![t] = NoForm] /\ slot' = slot
      /\ UNCHANGED <<items, changes, history>>
  BY DEF CloseForm
<1>3. /\ slot' \in [Users -> Items \cup {None}] /\ form' \in [Tabs -> Form \cup {NoForm}]
      /\ \A x \in Tabs : form'[x] = form[x] \/ form'[x] = NoForm
  BY <1>1, <1>2 DEF TypeOK
<1> QED BY <1>2, <1>3, FormInvariant

LEMMA SubmissionDiesStep ==
    ASSUME FamilyInvariant, NEW t \in Tabs, SubmissionDies(t)
    PROVE  FamilyInvariant'
<1>1. TypeOK BY DEF FamilyInvariant
<1>2. slot' = SlotTaken(t) /\ form' = form /\ UNCHANGED <<items, changes, history>>
  BY DEF SubmissionDies
<1>3. slot' \in [Users -> Items \cup {None}] /\ form' \in [Tabs -> Form \cup {NoForm}]
  BY <1>1, <1>2, RecordFamiliesAssumption DEF TypeOK, SlotTaken
<1> QED BY <1>2, <1>3, FormInvariant

-----------------------------------------------------------------------------
(* Deletions. *)

(* Nothing that is not deleted names something that is: the lists of an item,
   and of those it lists, are all there is below it. *)
LEMMA NothingBelow ==
    ASSUME FamilyInvariant, NEW i \in live, NEW c \in live \ missed, c \notin Deleted(i)
    PROVE  node[c].parent \notin Deleted(i) /\ node[c].book \notin Deleted(i)
<1>1. /\ TypeOK /\ ListsMirrorLinks /\ Levels /\ i \in Items /\ c \in Items /\ None \notin live
  BY RecordFamiliesAssumption DEF FamilyInvariant, Families, TypeOK
<1> DEFINE Names(x, y) == node[x].parent = y \/ node[x].book = y
<1>2. \A y \in live : \A x \in Listed(y) : x \in live /\ Names(x, y)
  BY <1>1 DEF ListsMirrorLinks, Listed, TypeOK
<1>3. \A y \in live : Names(c, y) => c \in Listed(y)
  BY <1>1 DEF ListsMirrorLinks, Listed
<1> SUFFICES ASSUME NEW y \in Deleted(i), Names(c, y) PROVE FALSE
  OBVIOUS
<1>4. CASE y = i BY <1>3, <1>4 DEF Deleted
<1>5. CASE y \in Listed(i)
  <2>1. c \in Listed(y) BY <1>2, <1>3, <1>5
  <2> QED BY <2>1, <1>5 DEF Deleted
<1>6. CASE \E d \in Listed(i) : y \in Listed(d)
  <2>1. PICK d \in Listed(i) : y \in Listed(d) BY <1>6
  <2>2. d \in live /\ Names(d, i) BY <1>2, <2>1
  <2>3. y \in live /\ Names(y, d) BY <1>2, <2>1, <2>2
  <2>4. node[y].parent = None BY <1>1, <2>3 DEF Levels
  <2>5. node[y].book = d BY <2>2, <2>3, <2>4, <1>1
  <2> QED BY <1>1, <2>2, <2>3, <2>5 DEF Levels
<1> QED BY <1>4, <1>5, <1>6 DEF Deleted

LEMMA DeleteStep ==
    ASSUME FamilyInvariant, NEW u \in Users, NEW i \in live, Delete(u, i)
    PROVE  FamilyInvariant'
<1> DEFINE lost == Deleted(i)
<1>1. /\ live' = live \ lost /\ gone' = gone \cup lost
      /\ node' = [j \in Items |-> IF j \in lost THEN NoNode ELSE node[j]]
      /\ children' = [j \in Items |-> IF j \in lost THEN {} ELSE children[j] \ lost]
      /\ pages' = [j \in Items |-> IF j \in lost THEN {} ELSE pages[j] \ lost]
      /\ from' = [j \in Items |-> IF j \in lost THEN None ELSE from[j]]
      /\ missed' = missed \ lost /\ apart' = apart \ lost
      /\ slot' = slot /\ form' = form /\ changes < MaxChanges /\ changes' = changes + 1
  BY DEF Delete, Without
<1>2. TypeOK /\ Families /\ i \in Items BY DEF FamilyInvariant, TypeOK
<1>3. lost \subseteq Items
  <2>1. \A x \in Items : Listed(x) \subseteq Items BY <1>2 DEF Listed, TypeOK
  <2> QED BY <2>1, <1>2 DEF Deleted
<1>4. /\ \A c \in live \ missed : c \notin lost => node[c].parent \notin lost /\ node[c].book \notin lost
  BY NothingBelow
<1> HIDE DEF lost
<1>5. \A c \in live' : /\ c \in Items /\ c \in live /\ c \notin lost /\ node'[c] = node[c]
                       /\ children'[c] = children[c] \ lost /\ pages'[c] = pages[c] \ lost
                       /\ from'[c] = from[c]
  BY <1>1, <1>2 DEF TypeOK
<1>6. TypeOK'
  <2>1. NoNode \in Node BY DEF Node, NoNode, Sharing
  <2>2. node' \in [Items -> Node] BY <1>1, <1>2, <2>1 DEF TypeOK
  <2>3. children' \in [Items -> SUBSET Items] /\ pages' \in [Items -> SUBSET Items]
    BY <1>1, <1>2 DEF TypeOK
  <2>4. \A j \in Items \ live' : children'[j] = {} /\ pages'[j] = {} /\ node'[j] = NoNode
    BY <1>1, <1>2 DEF TypeOK
  <2>5. from' \in [Items -> Items \cup {None}] BY <1>1, <1>2 DEF TypeOK
  <2>6. changes' \in 0..MaxChanges BY <1>1, <1>2, RecordFamiliesAssumption DEF TypeOK
  <2>7. live' \subseteq Items /\ gone' \subseteq Items /\ live' \cap gone' = {}
    BY <1>1, <1>2, <1>3 DEF TypeOK
  <2>8. missed' \subseteq Items /\ apart' \subseteq Items BY <1>1, <1>2 DEF TypeOK
  <2>9. slot' \in [Users -> Items \cup {None}] /\ form' \in [Tabs -> Form \cup {NoForm}]
    BY <1>1, <1>2 DEF TypeOK
  <2> QED BY <2>2, <2>3, <2>4, <2>5, <2>6, <2>7, <2>8, <2>9 DEF TypeOK
<1>7. ListsMirrorLinks'
  <2> SUFFICES ASSUME NEW j \in live', NEW c \in Items
               PROVE  /\ c \in children'[j] => c \in live' /\ node'[c].parent = j
                      /\ c \in pages'[j] => c \in live' /\ node'[c].book = j
                      /\ c \in live' \ missed' => /\ node'[c].parent = j => c \in children'[j]
                                                  /\ node'[c].book = j => c \in pages'[j]
    BY DEF ListsMirrorLinks
  <2>1. j \in live /\ children'[j] = children[j] \ lost /\ pages'[j] = pages[j] \ lost BY <1>5
  <2>2. CASE c \in lost BY <2>1, <2>2, <1>1
  <2>3. CASE c \notin lost
    <3>1. c \in live' <=> c \in live BY <2>3, <1>1
    <3>2. c \in live => node'[c] = node[c] BY <3>1, <1>5
    <3>3. c \in missed' <=> c \in missed BY <2>3, <1>1
    <3> QED BY <2>1, <2>3, <3>1, <3>2, <3>3, <1>2 DEF Families, ListsMirrorLinks
  <2> QED BY <2>2, <2>3
<1>8. NoOrphans'
  <2> SUFFICES ASSUME NEW c \in live' \ missed'
               PROVE  node'[c].parent \notin gone' /\ node'[c].book \notin gone'
    BY DEF NoOrphans
  <2>1. c \in live \ missed /\ c \notin lost /\ node'[c] = node[c] BY <1>1, <1>5
  <2>2. node[c].parent \notin gone /\ node[c].book \notin gone
    BY <2>1, <1>2 DEF Families, NoOrphans
  <2> QED BY <2>1, <2>2, <1>1, <1>4
<1>9. Known \subseteq Known' BY <1>1 DEF Known
<1>10. LinksKnown' BY <1>2, <1>5, <1>9 DEF Families, LinksKnown
<1>11. Levels'
  <2> SUFFICES ASSUME NEW c \in live'
               PROVE  /\ node'[c].parent \in live' => node'[node'[c].parent].parent = None
                      /\ node'[c].book \in live' => /\ node'[node'[c].book].parent = None
                                                    /\ node'[node'[c].book].book = None
    BY DEF Levels
  <2>1. c \in live /\ node'[c] = node[c] BY <1>5
  <2>2. /\ node[c].parent \in live => node[node[c].parent].parent = None
        /\ node[c].book \in live => /\ node[node[c].book].parent = None
                                   /\ node[node[c].book].book = None
    BY <2>1, <1>2 DEF Families, Levels
  <2> QED BY <2>1, <2>2, <1>5
<1>12. FormsKnown'
  <2> SUFFICES ASSUME NEW t \in Tabs, form'[t] # NoForm PROVE FormKnown(t)'
    BY DEF FormsKnown
  <2>1. form'[t] = form[t] /\ FormKnown(t) BY <1>1 DEF FamilyInvariant, FormsKnown
  <2> QED BY <2>1, <1>5, <1>9 DEF FormKnown
<1>13. PagesFollowBook'
  <2> SUFFICES ASSUME NEW j \in live', NEW c \in pages'[j] \ (apart' \cup missed')
               PROVE  /\ node'[c].protocols = node'[j].protocols
                      /\ node'[c].sharing = node'[j].sharing
    BY DEF PagesFollowBook
  <2>1. j \in live /\ node'[j] = node[j] /\ c \in pages[j] \ lost BY <1>5
  <2>2. c \in Items BY <2>1, <1>2, <1>5 DEF TypeOK
  <2>3. node'[c] = node[c] BY <2>1, <2>2, <1>1
  <2>4. c \notin apart \cup missed BY <2>1, <1>1
  <2> QED BY <2>1, <2>3, <2>4 DEF FamilyInvariant, PagesFollowBook
<1>14. RecordsOfTheirForm' BY <1>5 DEF FamilyInvariant, RecordsOfTheirForm
<1> QED BY <1>6, <1>7, <1>8, <1>10, <1>11, <1>12, <1>13, <1>14 DEF FamilyInvariant, Families

-----------------------------------------------------------------------------
(* Edits. *)

(* After an edit of i, which named x and now names y, the lists have i where it
   is named and nowhere else, unless it was missing before; for the rest they
   are what they were. *)
Corrected(old, new, i, y) ==
    /\ new \in [Items -> SUBSET Items]
    /\ \A j \in Items :
         /\ new[j] \subseteq old[j] \cup {i} /\ old[j] \subseteq new[j] \cup {i}
         /\ i \in new[j] => y = j
         /\ i \in old[j] /\ y = j => i \in new[j]
         /\ j \notin live => new[j] = old[j]

LEMMA ListsRelisted ==
    ASSUME NEW lists \in [Items -> SUBSET Items], NEW u, NEW i \in Items, NEW x, NEW y \in {x, None},
           live \subseteq Items,
           \A j \in Items : i \in lists[j] => j = x /\ j \in live
    PROVE  Corrected(lists, Relisted(lists, u, i, x, y), i, y)
<1> DEFINE new == Relisted(lists, u, i, x, y)
<1>1. None \notin Items BY RecordFamiliesAssumption
<1>2. CASE y # None
  <2>1. new = AddedTo(lists, u, i, y, node) BY <1>2 DEF Relisted
  <2> HIDE DEF new
  <2>2. Grown(lists, new, i, y) BY <2>1, ListsAdded
  <2>3. y = x BY <1>2
  <2>4. \A j \in Items : j \notin live => new[j] = lists[j] BY <2>2 DEF Grown
  <2>5. Corrected(lists, new, i, y) BY <2>2, <2>3, <2>4 DEF Grown, Corrected
  <2> QED BY <2>5 DEF new
<1>3. CASE y = None /\ x \in live
  <2>1. new = [lists EXCEPT ![x] = @ \ {i}] BY <1>3 DEF Relisted
  <2> QED BY <2>1, <1>1, <1>3 DEF Corrected
<1>4. CASE y = None /\ x \notin live
  <2>1. new = lists BY <1>4 DEF Relisted
  <2> QED BY <2>1, <1>1, <1>4 DEF Corrected
<1> QED BY <1>2, <1>3, <1>4

LEMMA EditStep ==
    ASSUME FamilyInvariant, NEW u \in Users, NEW i \in live, NEW ps \in SUBSET Protocols,
           NEW v \in Sharing, Edit(u, i, ps, v)
    PROVE  FamilyInvariant'
<1> DEFINE old == node[i]
           new == [old EXCEPT !.protocols = ps, !.sharing = v,
                              !.parent = Kept(u, old.parent), !.book = Kept(u, old.book)]
<1>1. /\ node' = [j \in Items |-> IF j = i THEN new
                                 ELSE IF j \in pages[i] THEN Replicated(old, new, node[j])
                                 ELSE node[j]]
      /\ children' = Relisted(children, u, i, old.parent, new.parent)
      /\ pages' = Relisted(pages, u, i, old.book, new.book)
      /\ apart' = IF new.book # None /\ (ps # old.protocols \/ v # old.sharing)
                  THEN apart \cup {i} ELSE apart
      /\ live' = live /\ gone' = gone /\ slot' = slot /\ form' = form
      /\ from' = from /\ missed' = missed /\ changes < MaxChanges /\ changes' = changes + 1
  BY DEF Edit
<1>2. /\ TypeOK /\ ListsMirrorLinks /\ NoOrphans /\ LinksKnown /\ Levels
      /\ i \in Items /\ None \notin Items
  BY RecordFamiliesAssumption DEF FamilyInvariant, Families, TypeOK
<1>3. old \in Node BY <1>2 DEF TypeOK
<1>4. /\ new \in Node /\ new.protocols = ps /\ new.sharing = v
      /\ new.parent \in {old.parent, None} /\ new.book \in {old.book, None}
  <2>1. Kept(u, old.parent) \in {old.parent, None} /\ Kept(u, old.book) \in {old.book, None}
    BY DEF Kept
  <2> QED BY <1>3, <2>1 DEF Node
<1> HIDE DEF new
<1>5. \A j \in Items : node[j] \in Node => /\ Replicated(old, new, node[j]) \in Node
                                          /\ Replicated(old, new, node[j]).parent = node[j].parent
                                          /\ Replicated(old, new, node[j]).book = node[j].book
  <2>1. new.protocols \in SUBSET Protocols /\ new.sharing \in Sharing
    BY <1>4 DEF Node
  <2>2. ASSUME NEW n \in Node
        PROVE  /\ Replicated(old, new, n) \in Node
               /\ Replicated(old, new, n).parent = n.parent
               /\ Replicated(old, new, n).book = n.book
    BY <2>1 DEF Replicated, Node
  <2> QED BY <2>2
<1> HIDE DEF old
<1>6. \A j \in Items : node[j] \in Node BY <1>2 DEF TypeOK
<1>7. \A j \in Items : /\ node'[j] \in Node
                       /\ node'[j].parent \in {node[j].parent, None}
                       /\ node'[j].book \in {node[j].book, None}
                       /\ j # i => node'[j].parent = node[j].parent /\ node'[j].book = node[j].book
  <2> SUFFICES ASSUME NEW j \in Items
               PROVE  /\ node'[j] \in Node
                      /\ node'[j].parent \in {node[j].parent, None}
                      /\ node'[j].book \in {node[j].book, None}
                      /\ j # i => node'[j].parent = node[j].parent /\ node'[j].book = node[j].book
    OBVIOUS
  <2>1. CASE j = i BY <2>1, <1>1, <1>4 DEF old
  <2>2. CASE j # i /\ j \in pages[i] BY <2>2, <1>1, <1>5, <1>6
  <2>3. CASE j # i /\ j \notin pages[i] BY <2>3, <1>1, <1>6
  <2> QED BY <2>1, <2>2, <2>3
<1>8. node'[i] = new BY <1>1, <1>2
<1>9. \A j \in Items : j \notin live => children[j] = {} /\ pages[j] = {} BY <1>2 DEF TypeOK
<1>10. \A j \in live : /\ \A c \in children[j] : c \in Items /\ c \in live /\ node[c].parent = j
                       /\ \A c \in pages[j] : c \in Items /\ c \in live /\ node[c].book = j
  BY <1>2 DEF ListsMirrorLinks, TypeOK
<1>11. Corrected(children, children', i, new.parent)
  <2>1. \A j \in Items : i \in children[j] => j = old.parent /\ j \in live
    BY <1>9, <1>10 DEF old
  <2> QED BY <1>1, <1>2, <1>4, <2>1, ListsRelisted DEF TypeOK
<1>12. Corrected(pages, pages', i, new.book)
  <2>1. \A j \in Items : i \in pages[j] => j = old.book /\ j \in live
    BY <1>9, <1>10 DEF old
  <2> QED BY <1>1, <1>2, <1>4, <2>1, ListsRelisted DEF TypeOK
<1>13. TypeOK'
  <2>1. node' \in [Items -> Node] BY <1>1, <1>7
  <2>2. children' \in [Items -> SUBSET Items] /\ pages' \in [Items -> SUBSET Items]
    BY <1>11, <1>12 DEF Corrected
  <2>3. \A j \in Items \ live : children'[j] = {} /\ pages'[j] = {} /\ node'[j] = NoNode
    <3> SUFFICES ASSUME NEW j \in Items \ live
                 PROVE  children'[j] = {} /\ pages'[j] = {} /\ node'[j] = NoNode
      OBVIOUS
    <3>1. children'[j] = {} /\ pages'[j] = {} BY <1>9, <1>11, <1>12 DEF Corrected
    <3>2. j # i /\ j \notin pages[i] BY <1>10
    <3> QED BY <3>1, <3>2, <1>1, <1>2 DEF TypeOK
  <2>4. changes' \in 0..MaxChanges BY <1>1, <1>2, RecordFamiliesAssumption DEF TypeOK
  <2>5. apart' \subseteq Items BY <1>1, <1>2 DEF TypeOK
  <2> QED BY <1>1, <1>2, <2>1, <2>2, <2>3, <2>4, <2>5 DEF TypeOK
<1>14. ListsMirrorLinks'
  <2> SUFFICES ASSUME NEW j \in live', NEW c \in Items
               PROVE  /\ c \in children'[j] => c \in live' /\ node'[c].parent = j
                      /\ c \in pages'[j] => c \in live' /\ node'[c].book = j
                      /\ c \in live' \ missed' => /\ node'[c].parent = j => c \in children'[j]
                                                  /\ node'[c].book = j => c \in pages'[j]
    BY DEF ListsMirrorLinks
  <2>1. j \in live /\ j \in Items /\ j # None BY <1>1, <1>2 DEF TypeOK
  <2>2. /\ c \in children[j] => c \in live /\ node[c].parent = j
        /\ c \in pages[j] => c \in live /\ node[c].book = j
        /\ c \in live \ missed => /\ node[c].parent = j => c \in children[j]
                                  /\ node[c].book = j => c \in pages[j]
    BY <2>1, <1>2 DEF ListsMirrorLinks
  <2>3. CASE c = i
    <3>1. /\ i \in children'[j] => new.parent = j
          /\ i \in pages'[j] => new.book = j
          /\ i \in children[j] /\ new.parent = j => i \in children'[j]
          /\ i \in pages[j] /\ new.book = j => i \in pages'[j]
      BY <2>1, <1>11, <1>12 DEF Corrected
    <3>2. (new.parent = j => node[i].parent = j) /\ (new.book = j => node[i].book = j)
      BY <2>1, <1>4 DEF old
    <3> QED BY <2>2, <2>3, <3>1, <3>2, <1>1, <1>8
  <2>4. CASE c # i
    <3>1. /\ children'[j] \subseteq children[j] \cup {i} /\ children[j] \subseteq children'[j] \cup {i}
          /\ pages'[j] \subseteq pages[j] \cup {i} /\ pages[j] \subseteq pages'[j] \cup {i}
      BY <2>1, <1>11, <1>12 DEF Corrected
    <3>2. node'[c].parent = node[c].parent /\ node'[c].book = node[c].book BY <2>4, <1>7
    <3> QED BY <2>2, <2>4, <3>1, <3>2, <1>1
  <2> QED BY <2>3, <2>4
<1>15. NoOrphans'
  <2> SUFFICES ASSUME NEW c \in live' \ missed'
               PROVE  node'[c].parent \notin gone' /\ node'[c].book \notin gone'
    BY DEF NoOrphans
  <2>1. c \in live \ missed /\ c \in Items /\ None \notin gone BY <1>1, <1>2 DEF TypeOK
  <2>2. node[c].parent \notin gone /\ node[c].book \notin gone BY <2>1, <1>2 DEF NoOrphans
  <2> QED BY <2>1, <2>2, <1>1, <1>7
<1>16. LinksKnown' /\ Known' = Known
  <2>1. Known' = Known BY <1>1 DEF Known
  <2>2. \A c \in live : c \in Items BY <1>2 DEF TypeOK
  <2> QED BY <2>1, <2>2, <1>1, <1>2, <1>7 DEF LinksKnown
<1>17. Levels'
  <2> SUFFICES ASSUME NEW c \in live'
               PROVE  /\ node'[c].parent \in live' => node'[node'[c].parent].parent = None
                      /\ node'[c].book \in live' => /\ node'[node'[c].book].parent = None
                                                    /\ node'[node'[c].book].book = None
    BY DEF Levels
  <2>1. c \in live /\ None \notin live /\ \A x \in live : x \in Items BY <1>1, <1>2 DEF TypeOK
  <2>2. /\ node[c].parent \in live => node[node[c].parent].parent = None
        /\ node[c].book \in live => /\ node[node[c].book].parent = None
                                   /\ node[node[c].book].book = None
    BY <2>1, <1>2 DEF Levels
  <2>3. ASSUME node'[c].parent \in live' PROVE node'[node'[c].parent].parent = None
    <3>1. node'[c].parent = node[c].parent /\ node[c].parent \in live BY <2>1, <2>3, <1>1, <1>7
    <3> QED BY <2>1, <2>2, <3>1, <1>7
  <2>4. ASSUME node'[c].book \in live' PROVE /\ node'[node'[c].book].parent = None
                                            /\ node'[node'[c].book].book = None
    <3>1. node'[c].book = node[c].book /\ node[c].book \in live BY <2>1, <2>4, <1>1, <1>7
    <3> QED BY <2>1, <2>2, <3>1, <1>7
  <2> QED BY <2>3, <2>4
<1>18. FormsKnown'
  <2> SUFFICES ASSUME NEW t \in Tabs, form'[t] # NoForm PROVE FormKnown(t)'
    BY DEF FormsKnown
  <2>1. form'[t] = form[t] /\ FormKnown(t) BY <1>1 DEF FamilyInvariant, FormsKnown
  <2>2. \A x \in live : x \in Items BY <1>2 DEF TypeOK
  <2> QED BY <2>1, <2>2, <1>1, <1>7, <1>16 DEF FormKnown
<1>19. PagesFollowBook'
  <2> SUFFICES ASSUME NEW j \in live', NEW c \in pages'[j] \ (apart' \cup missed')
               PROVE  /\ node'[c].protocols = node'[j].protocols
                      /\ node'[c].sharing = node'[j].sharing
    BY DEF PagesFollowBook
  <2>1. /\ j \in live /\ j \in Items /\ j # None /\ c \notin missed /\ c \notin apart
    BY <1>1, <1>2 DEF TypeOK
  <2>2. c \in live /\ c \in Items /\ c \in pages[j] /\ node[c].book = j
    <3>1. c \in pages'[j] => c \in Items BY <2>1, <1>12 DEF Corrected
    <3>2. c \in live' /\ node'[c].book = j BY <3>1, <1>14 DEF ListsMirrorLinks
    <3>3. node[c].book = j BY <3>1, <3>2, <2>1, <1>7
    <3> QED BY <3>1, <3>2, <3>3, <2>1, <1>1, <1>2 DEF ListsMirrorLinks
  <2>3. node[c].protocols = node[j].protocols /\ node[c].sharing = node[j].sharing
    BY <2>1, <2>2 DEF FamilyInvariant, PagesFollowBook
  <2>4. node[j].parent = None /\ node[j].book = None BY <2>1, <2>2, <1>2 DEF Levels
  <2>5. j \notin pages[i] BY <2>4, <1>10, <1>2
  <2>6. CASE c = i
    <3>1. j # i BY <2>1, <2>2, <2>4, <2>6
    <3>2. node'[j] = node[j] BY <2>1, <2>5, <3>1, <1>1
    <3>3. new.book # None BY <2>1, <2>6, <1>8, <1>14, <2>2 DEF ListsMirrorLinks
    <3>4. ps = old.protocols /\ v = old.sharing BY <3>3, <2>6, <1>1
    <3> QED BY <2>3, <2>6, <3>2, <3>4, <1>4, <1>8 DEF old
  <2>7. CASE c # i /\ j = i
    <3>1. node'[c] = Replicated(old, new, node[c]) BY <2>2, <2>7, <1>1
    <3>2. node[c] \in Node BY <2>2, <1>6
    <3>3. /\ Replicated(old, new, node[c]).protocols = new.protocols
          /\ Replicated(old, new, node[c]).sharing = new.sharing
      BY <3>2, <2>3, <2>7 DEF Replicated, Node, old
    <3> QED BY <2>7, <3>1, <3>3, <1>8
  <2>8. CASE c # i /\ j # i
    <3>1. c \notin pages[i] BY <2>2, <2>8, <1>10
    <3>2. node'[c] = node[c] /\ node'[j] = node[j] BY <2>1, <2>2, <2>5, <2>8, <3>1, <1>1
    <3> QED BY <2>3, <3>2
  <2> QED BY <2>6, <2>7, <2>8
<1>20. RecordsOfTheirForm'
  <2>1. \A c \in live : c \in Items BY <1>2 DEF TypeOK
  <2> QED BY <2>1, <1>1, <1>7 DEF FamilyInvariant, RecordsOfTheirForm
<1> QED BY <1>13, <1>14, <1>15, <1>16, <1>17, <1>18, <1>19, <1>20 DEF FamilyInvariant, Families

-----------------------------------------------------------------------------
(* All of it, by induction over the steps. *)
THEOREM FamilyInvariance == Spec => []FamilyInvariant
<1>1. Init => FamilyInvariant
  <2> SUFFICES ASSUME Init PROVE FamilyInvariant
    OBVIOUS
  <2>1. TypeOK
    <3>1. NoNode \in Node BY DEF Node, NoNode, Sharing
    <3> QED BY <3>1, RecordFamiliesAssumption DEF Init, TypeOK
  <2>2. Families /\ PagesFollowBook /\ RecordsOfTheirForm
    BY DEF Init, Families, ListsMirrorLinks, NoOrphans, LinksKnown, Levels, PagesFollowBook,
           RecordsOfTheirForm
  <2>3. FormsKnown BY DEF Init, FormsKnown
  <2> QED BY <2>1, <2>2, <2>3 DEF FamilyInvariant
<1>2. FamilyInvariant /\ [Next]_vars => FamilyInvariant'
  <2> SUFFICES ASSUME FamilyInvariant, [Next]_vars PROVE FamilyInvariant'
    OBVIOUS
  <2>1. ASSUME NEW u \in Users, NEW i \in Fresh, NEW v \in Sharing,
               NEW ps \in SUBSET Postable(u), Create(u, i, ps, v)
        PROVE  FamilyInvariant'
    BY <2>1, CreateStep
  <2>2. ASSUME NEW t \in Tabs, NEW i \in live, OpenRecordForm(t, i) PROVE FamilyInvariant'
    BY <2>2, OpenRecordFormStep
  <2>3. ASSUME NEW t \in Tabs, NEW i \in live, OpenPageForm(t, i) PROVE FamilyInvariant'
    BY <2>3, OpenPageFormStep
  <2>4. ASSUME NEW t \in Tabs, CloseForm(t) PROVE FamilyInvariant'
    BY <2>4, CloseFormStep
  <2>5. ASSUME NEW t \in Tabs, NEW i \in Fresh, NEW v \in Sharing,
               NEW ps \in SUBSET Postable(UserOf[t]), SubmitRecord(t, i, ps, v)
        PROVE  FamilyInvariant'
    BY <2>5, SubmitRecordStep
  <2>6. ASSUME NEW t \in Tabs, SubmissionDies(t) PROVE FamilyInvariant'
    BY <2>6, SubmissionDiesStep
  <2>7. ASSUME NEW t \in Tabs, NEW i \in Fresh, SubmitPage(t, i) PROVE FamilyInvariant'
    BY <2>7, SubmitPageStep
  <2>8. ASSUME NEW u \in Users, NEW i \in live, NEW ps \in SUBSET Protocols, NEW v \in Sharing,
               Edit(u, i, ps, v)
        PROVE  FamilyInvariant'
    BY <2>8, EditStep
  <2>9. ASSUME NEW u \in Users, NEW i \in live, Delete(u, i) PROVE FamilyInvariant'
    BY <2>9, DeleteStep
  <2>10. CASE UNCHANGED vars
    <3>1. slot' \in [Users -> Items \cup {None}] /\ form' \in [Tabs -> Form \cup {NoForm}]
      BY <2>10 DEF vars, FamilyInvariant, TypeOK
    <3> QED BY <2>10, <3>1, FormInvariant DEF vars
  <2> QED BY <2>1, <2>2, <2>3, <2>4, <2>5, <2>6, <2>7, <2>8, <2>9, <2>10 DEF Next
<1> QED BY <1>1, <1>2, PTL DEF Spec

(* Items, lists, forms and the session have the values of their types. *)
THEOREM TypeCorrect == Spec => []TypeOK
BY FamilyInvariance, PTL DEF FamilyInvariant

(* A record names the item whose form it was made in, or none: no other tab and
   no failed submission can give it another parent. *)
THEOREM RecordsBelong == Spec => []RecordsOfTheirForm
BY FamilyInvariance, PTL DEF FamilyInvariant

(* Lists of children and the links of the children agree, but for children that
   were refused when they were made. *)
THEOREM ListsMirror == Spec => []ListsMirrorLinks
BY FamilyInvariance, PTL DEF FamilyInvariant, Families

(* Pages have the protocols and the setting of their book. *)
THEOREM PagesFollow == Spec => []PagesFollowBook
BY FamilyInvariance, PTL DEF FamilyInvariant

(* Nothing outlives the item it belongs to. *)
THEOREM NobodyIsOrphaned == Spec => []NoOrphans
BY FamilyInvariance, PTL DEF FamilyInvariant, Families
================================================================================
