----------------------------- MODULE RecordFamilies -----------------------------
(***************************************************************************)
(* Families of digital heritage items: an item and its community records,  *)
(* a book and its pages.  A record names its parent and a page its book;   *)
(* the lists of children at the other end are kept by Corresponding Entity *)
(* References (cer).  The protocols and the sharing setting of a book are  *)
(* replicated to its pages, and who deletes an item deletes what it lists. *)
(*                                                                         *)
(* Forms stay open in browser tabs while others work.  The form of a page  *)
(* remembers book and protocols; the parent of a record waits in the       *)
(* session, which all tabs of a user share.  What a user may not view is   *)
(* not among the options of the form's fields, whether they are shown or   *)
(* not, and makes cer's validation of a list fail.                         *)
(*                                                                         *)
(* A submission is one transaction and one step here: requests do not      *)
(* overlap, forms do.  Items are published, and no user has "bypass node   *)
(* access".                                                                *)
(***************************************************************************)
EXTENDS Naturals

CONSTANTS
    Items,         \* node ids, which are never used twice
    Users, Tabs,
    UserOf,        \* whose browser a tab belongs to
    Protocols,
    Open,          \* the protocols with open access
    Stewards, Contributors, Members,  \* the protocols of each user
    None,
    MaxChanges     \* edits and deletions that users make

ASSUME RecordFamiliesAssumption ==
    /\ UserOf \in [Tabs -> Users]
    /\ Open \subseteq Protocols
    /\ Stewards \in [Users -> SUBSET Protocols]
    /\ Contributors \in [Users -> SUBSET Protocols]
    /\ Members \in [Users -> SUBSET Protocols]
    /\ None \notin Items \cup Users
    /\ MaxChanges \in Nat

Sharing == {"any", "all"}

Node == [author : Users \cup {None}, parent : Items \cup {None}, book : Items \cup {None},
         protocols : SUBSET Protocols, sharing : Sharing]
NoNode == [author |-> None, parent |-> None, book |-> None, protocols |-> {}, sharing |-> "all"]

(* A form that is open: to add a record to item of, or a page to book of,
   with the protocols and the sharing setting the form was filled with. *)
Form == [kind : {"record", "page"}, of : Items, protocols : SUBSET Protocols, sharing : Sharing]
NoForm == [kind |-> "none"]

VARIABLES
    live,      \* items that exist
    gone,      \* items that have been deleted
    node,      \* author and fields of each item
    children,  \* field_community_record_children
    pages,     \* field_book_children
    slot,      \* $_SESSION['community_record_parent'], and the path that asked for it
    form,      \* the form open in each tab
    changes,   \* how many edits and deletions users have made
    from,      \* history: the item whose form made a record
    missed,    \* history: items their parent or book did not list when they were made
    apart      \* history: pages given protocols or a setting other than the book's

items == <<live, gone, node, children, pages>>
history == <<from, missed, apart>>
vars == <<items, slot, form, changes, history>>

TypeOK ==
    /\ live \subseteq Items /\ gone \subseteq Items /\ live \cap gone = {}
    /\ node \in [Items -> Node]
    /\ children \in [Items -> SUBSET Items]
    /\ pages \in [Items -> SUBSET Items]
    /\ \A i \in Items \ live : children[i] = {} /\ pages[i] = {} /\ node[i] = NoNode
    /\ slot \in [Users -> Items \cup {None}]
    /\ form \in [Tabs -> Form \cup {NoForm}]
    /\ changes \in 0..MaxChanges
    /\ from \in [Items -> Items \cup {None}]
    /\ missed \subseteq Items /\ apart \subseteq Items

Init ==
    /\ live = {} /\ gone = {}
    /\ node = [i \in Items |-> NoNode]
    /\ children = [i \in Items |-> {}]
    /\ pages = [i \in Items |-> {}]
    /\ slot = [u \in Users |-> None]
    /\ form = [t \in Tabs |-> NoForm]
    /\ changes = 0
    /\ from = [i \in Items |-> None]
    /\ missed = {} /\ apart = {}

-----------------------------------------------------------------------------
(* What users may do with an item. *)

(* ma_cultural_protocol_get_cps_user_can_post_to() *)
Postable(u) == Stewards[u] \cup Contributors[u]

(* The rows of {node_access}, as queries over nodes use them: every protocol's
   unless all are open, anybody's when it is shared with any and one is open. *)
Visible(u, n) ==
    \/ n.protocols \cap Members[u] # {}
    \/ n.protocols \subseteq Open
    \/ n.sharing = "any" /\ n.protocols \cap Open # {}

(* mukurtu_protocol_field_update_node_in_cp_access() *)
MayUpdate(u, n) ==
    LET mine == Stewards[u] \cup (IF n.author = u THEN Contributors[u] ELSE {})
    IN  IF n.sharing = "any" THEN n.protocols \cap mine # {} ELSE n.protocols \subseteq mine

(* The fields of a form offer live items the user may view, and keep no other. *)
Offered(u, x) == x \in live /\ Visible(u, node[x])

(* ma_digitalheritage_add_cr_check() *)
MayAddRecord(u, i) == i \in live /\ node[i].parent = None /\ node[i].protocols \cap Stewards[u] # {}

(* ma_digitalheritage_add_book_page_check() *)
MayAddPage(u, i) == i \in live /\ node[i].parent = None /\ MayUpdate(u, node[i])

(* CerFieldHandler::validate(): a list is valid for a user who may view all of
   it, or none. *)
Valid(u, list, n) == \/ \A c \in list : Visible(u, n[c])
                     \/ \A c \in list : ~Visible(u, n[c])

-----------------------------------------------------------------------------
(* A node_save() of item i with the fields n, by user u.  Rows of the other
   nodes are those of nodes. *)

(* cer adds i to the list of the item it names, when that validates. *)
AddedTo(lists, u, i, x, nodes) ==
    IF x \in live /\ Valid(u, lists[x] \cup {i}, nodes)
    THEN [lists EXCEPT ![x] = @ \cup {i}]
    ELSE lists

Insert(u, i, n) ==
    LET nodes == [node EXCEPT ![i] = n]
    IN  /\ live' = live \cup {i}
        /\ node' = nodes
        /\ children' = AddedTo(children, u, i, n.parent, nodes)
        /\ pages' = AddedTo(pages, u, i, n.book, nodes)
        /\ missed' = IF \/ n.parent # None /\ (n.parent \notin live \/ i \notin children'[n.parent])
                        \/ n.book # None /\ (n.book \notin live \/ i \notin pages'[n.book])
                     THEN missed \cup {i} ELSE missed
        /\ UNCHANGED gone

(* Mutant: the id of a deleted item is used again. *)
Fresh_Again == Items \ live

(* Node ids are never used twice. *)
Fresh == Items \ (live \cup gone)

(* An item of its own. *)
Create(u, i, ps, v) ==
    /\ ps # {}
    /\ Insert(u, i, [author |-> u, parent |-> None, book |-> None,
                     protocols |-> ps, sharing |-> v])
    /\ UNCHANGED <<slot, form, changes, from, apart>>

(* The form of a new record is opened: the session remembers its parent. *)
OpenRecordForm(t, i) ==
    /\ form[t] = NoForm
    /\ MayAddRecord(UserOf[t], i)
    /\ slot' = [slot EXCEPT ![UserOf[t]] = i]
    /\ form' = [form EXCEPT ![t] = [kind |-> "record", of |-> i, protocols |-> {}, sharing |-> "all"]]
    /\ UNCHANGED <<items, changes, history>>

(* A page may be added from another page of the book. *)
OpenPageForm(t, i) ==
    /\ form[t] = NoForm
    /\ Postable(UserOf[t]) # {}
    /\ MayAddPage(UserOf[t], i)
    /\ LET b == IF node[i].book = None THEN i ELSE node[i].book
       IN  /\ b \in live
           /\ form' = [form EXCEPT ![t] = [kind |-> "page", of |-> b,
                                           protocols |-> node[b].protocols, sharing |-> node[b].sharing]]
    /\ UNCHANGED <<items, slot, changes, history>>

CloseForm(t) ==
    /\ form[t] # NoForm
    /\ form' = [form EXCEPT ![t] = NoForm]
    /\ UNCHANGED <<items, slot, changes, history>>

(* Mutant: the path is not compared. *)
ParentFor_AnyPath(t) == slot[UserOf[t]]

(* ma_digitalheritage_node_presave(): the parent is taken from the session when
   the form is the one that asked last. *)
ParentFor(t) == IF slot[UserOf[t]] = form[t].of THEN form[t].of ELSE None

SlotTaken(t) == IF slot[UserOf[t]] = form[t].of THEN [slot EXCEPT ![UserOf[t]] = None] ELSE slot

SubmitRecord(t, i, ps, v) ==
    /\ form[t].kind = "record"
    /\ ps # {}
    /\ slot' = SlotTaken(t)
    /\ from' = [from EXCEPT ![i] = form[t].of]
    /\ form' = [form EXCEPT ![t] = NoForm]
    /\ Insert(UserOf[t], i, [author |-> UserOf[t], parent |-> ParentFor(t), book |-> None,
                             protocols |-> ps, sharing |-> v])
    /\ UNCHANGED <<changes, apart>>

(* A submission that dies is rolled back, but the session is saved. *)
SubmissionDies(t) ==
    /\ form[t].kind = "record"
    /\ slot' = SlotTaken(t)
    /\ UNCHANGED <<items, form, changes, history>>

(* ma_digitalheritage_node_submit(): book and setting are those of now, the
   protocols those the form was opened with.  A new item may only have
   protocols its author may post to; otherwise the form is shown again. *)
SettingFor(t) == IF form[t].of \in live THEN node[form[t].of].sharing ELSE form[t].sharing

SubmitPage(t, i) ==
    LET f == form[t]
        b == IF f.of \in live THEN f.of ELSE None
    IN  /\ f.kind = "page"
        /\ f.protocols \subseteq Postable(UserOf[t])
        /\ form' = [form EXCEPT ![t] = NoForm]
        /\ Insert(UserOf[t], i, [author |-> UserOf[t], parent |-> None, book |-> b,
                                 protocols |-> f.protocols, sharing |-> SettingFor(t)])
        /\ apart' = IF b # None /\ f.protocols # node[b].protocols THEN apart \cup {i} ELSE apart
        /\ UNCHANGED <<slot, changes, from>>

-----------------------------------------------------------------------------
(* Edits. *)

(* ma_culturalprotocol_node_validate(): protocols the user may not post to stay. *)
MayChoose(u, n, ps) ==
    /\ ps # {}
    /\ ps \subseteq n.protocols \cup Postable(u)
    /\ n.protocols \ Postable(u) \subseteq ps

(* The links the form gives back: one to an item that is not offered is lost. *)
Kept(u, x) == IF Offered(u, x) THEN x ELSE None

(* Mutant: the setting is copied with the protocols only. *)
Replicated_Protocols(old, new, n) ==
    [n EXCEPT !.protocols = IF new.protocols # old.protocols THEN new.protocols ELSE @,
              !.sharing = IF new.protocols # old.protocols THEN new.sharing ELSE @]

(* ma_digitalheritage_node_update(): what has changed is copied to the pages.
   The fields of a node that the edit leaves alone are copied nowhere. *)
Replicated(old, new, n) ==
    [n EXCEPT !.protocols = IF new.protocols # old.protocols THEN new.protocols ELSE @,
              !.sharing = IF new.sharing # old.sharing THEN new.sharing ELSE @]

(* cer on the list of the item that i named (x) and names now (y): an item that
   is not named any more is taken off, an unchanged one put on if it is missing. *)
Relisted(lists, u, i, x, y) ==
    IF y # None THEN AddedTo(lists, u, i, y, node)
    ELSE IF x \in live THEN [lists EXCEPT ![x] = @ \ {i}]
    ELSE lists

Edit(u, i, ps, v) ==
    LET old == node[i]
        new == [old EXCEPT !.protocols = ps, !.sharing = v,
                           !.parent = Kept(u, old.parent), !.book = Kept(u, old.book)]
    IN  /\ changes < MaxChanges
        /\ changes' = changes + 1
        /\ MayUpdate(u, old)
        /\ MayChoose(u, old, ps)
        /\ \A c \in children[i] \cup pages[i] : Offered(u, c)  \* ma_digitalheritage_node_validate()
        /\ node' = [j \in Items |-> IF j = i THEN new
                                    ELSE IF j \in pages[i] THEN Replicated(old, new, node[j])
                                    ELSE node[j]]
        /\ children' = Relisted(children, u, i, old.parent, new.parent)
        /\ pages' = Relisted(pages, u, i, old.book, new.book)
        /\ apart' = IF new.book # None /\ (ps # old.protocols \/ v # old.sharing)
                    THEN apart \cup {i} ELSE apart
        /\ UNCHANGED <<live, gone, slot, form, from, missed>>

-----------------------------------------------------------------------------
(* Deletion.  ma_digitalheritage_node_delete() deletes records and pages, whose
   own hooks delete theirs; records have neither, so two levels are all. *)
Listed(i) == children[i] \cup pages[i]

(* Mutant: only records are deleted. *)
Deleted_Records(i) == {i} \cup children[i] \cup (UNION {children[c] : c \in children[i]})

Deleted(i) == {i} \cup Listed(i) \cup (UNION {Listed(c) : c \in Listed(i)})

(* Mutant: cer takes nobody off. *)
Without_Nobody(list, lost) == list

(* Whom cer takes off a list when they are deleted. *)
Without(list, lost) == list \ lost

Delete(u, i) ==
    LET lost == Deleted(i)
    IN  /\ changes < MaxChanges
        /\ changes' = changes + 1
        /\ node[i].author = u
        /\ live' = live \ lost
        /\ gone' = gone \cup lost
        /\ node' = [j \in Items |-> IF j \in lost THEN NoNode ELSE node[j]]
        /\ children' = [j \in Items |-> IF j \in lost THEN {} ELSE Without(children[j], lost)]
        /\ pages' = [j \in Items |-> IF j \in lost THEN {} ELSE Without(pages[j], lost)]
        /\ from' = [j \in Items |-> IF j \in lost THEN None ELSE from[j]]
        /\ missed' = missed \ lost
        /\ apart' = apart \ lost
        /\ UNCHANGED <<slot, form>>

Next ==
    \/ \E u \in Users, i \in Fresh, v \in Sharing :
         \E ps \in SUBSET Postable(u) : Create(u, i, ps, v)
    \/ \E t \in Tabs, i \in live : OpenRecordForm(t, i)
    \/ \E t \in Tabs, i \in live : OpenPageForm(t, i)
    \/ \E t \in Tabs : CloseForm(t)
    \/ \E t \in Tabs, i \in Fresh, v \in Sharing :
         \E ps \in SUBSET Postable(UserOf[t]) : SubmitRecord(t, i, ps, v)
    \/ \E t \in Tabs : SubmissionDies(t)
    \/ \E t \in Tabs, i \in Fresh : SubmitPage(t, i)
    \/ \E u \in Users, i \in live, ps \in SUBSET Protocols, v \in Sharing : Edit(u, i, ps, v)
    \/ \E u \in Users, i \in live : Delete(u, i)

Spec == Init /\ [][Next]_vars

-----------------------------------------------------------------------------
(* A record belongs to the item whose form it was made in, or to none when
   another tab or a failed submission has used up the session's slot; items
   made otherwise are no records. *)
RecordsOfTheirForm == \A i \in live : node[i].parent \in {None, from[i]}

(* Both ends of a family agree, through deletions, edits that lose a link and
   later edits that repair a list: an item lists live items that name it, and
   every live item that names it but for those cer refused when they were made. *)
ListsMirrorLinks ==
    \A i \in live, c \in Items :
      /\ c \in children[i] => c \in live /\ node[c].parent = i
      /\ c \in pages[i] => c \in live /\ node[c].book = i
      /\ c \in live \ missed => /\ node[c].parent = i => c \in children[i]
                                /\ node[c].book = i => c \in pages[i]

(* A page in its book's list has the protocols and the setting of the book,
   however long its form was open and whoever edits the book, unless its form
   had outdated protocols, a user changed the page itself, or it was once
   missing from the list. *)
PagesFollowBook ==
    \A i \in live : \A c \in pages[i] \ (apart \cup missed) :
      /\ node[c].protocols = node[i].protocols
      /\ node[c].sharing = node[i].sharing

(* An item outlives its parent or book only if it was not in the list when it
   was made: refused by cer, or saved from a form older than the deletion. *)
NoOrphans == \A c \in live \ missed : node[c].parent \notin gone /\ node[c].book \notin gone

(* "Prevent editing book parent" (ma_digitalheritage.module:647): no edit takes
   a page out of a book that goes on to exist. *)
BooksKeepPages ==
    [][\A c \in live \cap live' : node[c].book \in live' => node'[c].book = node[c].book]_vars
================================================================================
