---------------------------- MODULE CrossReferences ----------------------------
(***************************************************************************)
(* Corresponding references of ma_search_api.  Related content names one   *)
(* another, and a collection and its items name each other.  When a node   *)
(* is saved, an update hook looks at the references it gained and lost,    *)
(* rebuilds the list of each node at the other end from a query for all    *)
(* nodes that refer to it, and saves those nodes: their hooks run inside   *)
(* of the first.                                                           *)
(*                                                                         *)
(* Two static variables keep this from going on for ever: a request works  *)
(* on each node once, and never updates the node it saved first.  They     *)
(* live as long as the request, which may save several nodes (an import).  *)
(* The query is subject to the node access of whoever saves.               *)
(*                                                                         *)
(* A hook changes the lists of a node object it has loaded.  Loads go      *)
(* through a static cache: hooks that load a node before any of them saves *)
(* it share the object.  node_save() puts another object into the cache,   *)
(* the node as it was stored before, and takes that out when it ends: a    *)
(* hook that loads a node while it is being saved gets its old lists.      *)
(*                                                                         *)
(* All nodes a save reaches are saved in the transaction of its            *)
(* node_save(): one that fails leaves nothing behind and is not modelled.  *)
(* Requests do not overlap here.                                           *)
(***************************************************************************)
EXTENDS Naturals, FiniteSets, Sequences

CONSTANTS
    Items, Collections,
    Users,
    Sees,        \* the nodes each user may view
    Bypass,      \* users with "bypass node access"
    Fresh,       \* nodes that are still to be created
    None,
    MaxSaves     \* nodes that users save

Nodes == Items \cup Collections

ASSUME CrossReferencesAssumption ==
    /\ Items \cap Collections = {}
    /\ Sees \in [Users -> SUBSET Nodes]
    /\ Bypass \subseteq Users
    /\ Fresh \subseteq Nodes
    /\ None \notin Nodes \cup Users
    /\ MaxSaves \in Nat

(* field_related_content, field_digital_heritage_items, field_collection *)
Fields == {"related", "items", "collections"}

FieldsOf(n) == IF n \in Items THEN {"related", "collections"} ELSE {"related", "items"}

(* $custom_cer_fields: the field at the other end. *)
Mirror == [f \in Fields |-> CASE f = "related" -> "related"
                              [] f = "items" -> "collections"
                              [] f = "collections" -> "items"]

(* What a field of node n may hold; no node names itself. *)
Targets(n, f) ==
    CASE f = "related" -> Nodes \ {n}
      [] f = "items" -> IF n \in Collections THEN Items ELSE {}
      [] f = "collections" -> IF n \in Items THEN Collections ELSE {}

Lists == [Fields -> SUBSET Nodes]
NoLists == [f \in Fields |-> {}]
ListsOf(n) == {l \in Lists : \A f \in Fields : l[f] \subseteq Targets(n, f)}

VARIABLES
    refs,       \* the references in the database
    live,       \* nodes that exist
    user,       \* who makes the request, or None
    original,   \* $original_node_being_updated
    processed,  \* $processed_nids
    cache,      \* the lists a load of each node returns
    pending,    \* stack of the hooks that run: whose, and what they still save
    rowless,    \* the node that is being inserted has no access rows yet
    edited,     \* history: what the user saved last in this request
    intent,     \* history: <<n, f, m>> that users linked last, from either end
    excused,    \* history: <<n, f, m>> that a save did not look after
    saves       \* how many users have made

vars == <<refs, live, user, original, processed, cache, pending, rowless, edited,
          intent, excused, saves>>

Links == {x \in Nodes \X Fields \X Nodes : x[3] \in Targets(x[1], x[2])}

(* One link, seen from both of its ends. *)
BothEnds(n, f, ms) == {<<n, f, m>> : m \in ms} \cup {<<m, Mirror[f], n>> : m \in ms}

(* A node to save: its object, which is the one in the cache or has these lists.
   It is saved twice when the hook has set two of its lists. *)
Resaves == [node : Nodes, cached : BOOLEAN, lists : Lists, twice : BOOLEAN]
Frames == [of : Nodes, todo : SUBSET Resaves]

NoEdit == [node |-> None, lists |-> NoLists, first |-> FALSE]

TypeOK ==
    /\ refs \in [Nodes -> Lists]
    /\ \A n \in Nodes : refs[n] \in ListsOf(n)
    /\ live \in SUBSET Nodes
    /\ user \in Users \cup {None}
    /\ original \in Nodes \cup {None}
    /\ processed \in SUBSET Nodes
    /\ cache \in [Nodes -> Lists]
    /\ pending \in Seq(Frames)
    /\ rowless \in SUBSET Nodes
    /\ edited \in [node : Nodes \cup {None}, lists : Lists, first : BOOLEAN]
    /\ intent \in SUBSET Links
    /\ excused \in SUBSET Links
    /\ saves \in Nat

Init ==
    /\ refs = [n \in Nodes |-> NoLists]
    /\ live = Nodes \ Fresh
    /\ user = None
    /\ original = None
    /\ processed = {}
    /\ cache = refs
    /\ pending = <<>>
    /\ rowless = {}
    /\ edited = NoEdit
    /\ intent = {}
    /\ excused = {}
    /\ saves = 0

------------------------------------------------------------------------------
(* The hook of node n, which has just been saved: now[n] are its new lists, ns
   the nodes that exist and have access rows. *)

(* The query is tagged "entity_field_access". *)
Visible(u, ns) == IF u \in Bypass THEN Nodes ELSE Sees[u] \cap ns

(* The nodes of ns that refer to m. *)
ReferringTo(now, f, m, ns) == {n \in ns : m \in now[n][f]}

SymmetricDiff(S, T) == (S \ T) \cup (T \ S)

(* The nodes that n refers to since now, or no more. *)
Moved(now, n, f) == SymmetricDiff(refs[n][f], now[n][f])

(* Mutant: references that were taken out are not followed. *)
ToUpdate_AddedOnly(now, n, touched, first) ==
    {x \in FieldsOf(n) \X Nodes :
        ~touched /\ x[2] \in (now[n][x[1]] \ refs[n][x[1]]) \ {first}}

(* Mutant: the node the request saved first is updated like any other. *)
ToUpdate_FirstToo(now, n, touched, first) ==
    {x \in FieldsOf(n) \X Nodes : ~touched /\ x[2] \in Moved(now, n, x[1])}

(* The lists to rebuild: <<f, m>>, where n names m in field f.  A change of
   the access settings of n, "a trigger", has the nodes reindexed and is not
   followed; neither is a reference to the node the request saved first. *)
ToUpdate(now, n, touched, first) ==
    {x \in FieldsOf(n) \X Nodes :
        ~touched /\ x[2] \in Moved(now, n, x[1]) \ {first}}

(* What a load of a node returns while n is being saved. *)
Loaded(now, n) == [cache EXCEPT ![n] = IF n \in live THEN refs[n] ELSE now[n]]

(* Mutant: the field at the other end is taken to have the same name. *)
Rebuilt_SameField(now, m, fs, ns, lists) ==
    [g \in Fields |-> IF g \in fs THEN ReferringTo(now, g, m, ns) ELSE lists[g]]

(* The lists of m, where those that mirror fs are rebuilt from all nodes that
   refer to m. *)
Rebuilt(now, m, fs, ns, lists) ==
    [g \in Fields |-> IF Mirror[g] \in fs THEN ReferringTo(now, Mirror[g], m, ns)
                     ELSE lists[g]]

First(n) == IF original = None THEN n ELSE original

Updates(now, n, touched) ==
    IF n \in processed THEN {} ELSE ToUpdate(now, n, touched, First(n))

(* The objects in the cache when the hook has set the lists. *)
Updated(now, updates, ns, objects) ==
    [m \in Nodes |->
        Rebuilt(now, m, {f \in Fields : <<f, m>> \in updates}, ns, objects[m])]

(* The hook saves a node for each of its lists that changes. *)
ToResave(before, after) ==
    LET changed(m) == {f \in Fields : after[m][f] # before[m][f]}
    IN  {[node |-> m, cached |-> TRUE, lists |-> NoLists,
          twice |-> Cardinality(changed(m)) > 1] : m \in {x \in Nodes : changed(x) # {}}}

(* The object of n that hooks hold is not the one in the cache any more. *)
Detached(frames, n) ==
    [k \in DOMAIN frames |-> [frames[k] EXCEPT !.todo =
        {IF r.node = n /\ r.cached
         THEN [r EXCEPT !.cached = FALSE, !.lists = cache[n]]
         ELSE r : r \in @}]]

(* ma_search_api_node_update() for n, inside of the hooks of frames. *)
Hook(now, u, n, touched, ns, frames) ==
    LET before == Loaded(now, n)
        after == Updated(now, Updates(now, n, touched), Visible(u, ns), before)
    IN  /\ processed' = processed \cup {n}
        /\ original' = First(n)
        /\ cache' = after
        /\ pending' = <<[of |-> n, todo |-> ToResave(before, after)]>>
                        \o Detached(frames, n)

(* History: the links of n that are one-sided now and not followed, those that
   the rebuilt lists lose because whoever saves cannot see the other end, and
   those where a rebuilt list takes back what a hook further out has set and
   not saved yet. *)
Held(m) == \E k \in DOMAIN pending : \E r \in pending[k].todo : r.node = m /\ r.cached

Missed(now, u, n, touched, ns) ==
    LET left(f) == {m \in Moved(now, n, f) :
                        /\ (m \in now[n][f]) # (n \in now[m][Mirror[f]])
                        /\ n \in processed \/ touched \/ m = original}
        unseen(f, m) == ReferringTo(now, f, m, Nodes \ Visible(u, ns))
        unsaved(f, m) == {x \in SymmetricDiff(cache[m][f], refs[m][f]) : Held(m)}
        undone(f, m) == unsaved(Mirror[f], m) \cap
                          SymmetricDiff(cache[m][Mirror[f]],
                                        ReferringTo(now, f, m, Visible(u, ns)))
    IN  (UNION {BothEnds(n, f, left(f)) : f \in FieldsOf(n)})
        \cup UNION {BothEnds(x[2], Mirror[x[1]],
                             unseen(x[1], x[2]) \cup undone(x[1], x[2])) :
                      x \in Updates(now, n, touched)}

------------------------------------------------------------------------------
(* Requests. *)

(* A user may save n with these lists: what a form shows of other nodes is
   what the user may view. *)
MaySave(u, n, lists) ==
    /\ \A f \in Fields : lists[f] \subseteq Targets(n, f) \cap live
    /\ u \notin Bypass =>
         /\ n \in Sees[u]
         /\ \A f \in Fields : SymmetricDiff(refs[n][f], lists[f]) \subseteq Sees[u]

(* A user saves n, alone or as the next of a request that saves several.  The
   access rows of a new node are written after its hook has run. *)
Save(u, n, lists, touched) ==
    /\ pending = <<>> /\ user \in {None, u}
    /\ saves < MaxSaves
    /\ MaySave(u, n, lists)
    /\ touched => n \in Items \cap live
    /\ LET now == [refs EXCEPT ![n] = lists]
       IN  /\ refs' = now
           /\ Hook(now, u, n, touched, live, <<>>)
           /\ excused' = excused \cup Missed(now, u, n, touched, live)
    /\ user' = u
    /\ live' = live \cup {n}
    /\ rowless' = rowless \cup ({n} \ live)
    /\ saves' = saves + 1
    /\ edited' = [node |-> n, lists |-> lists, first |-> original = None]
    /\ intent' = (intent \ (UNION {BothEnds(n, f, refs[n][f] \ lists[f]) : f \in Fields}))
                   \cup UNION {BothEnds(n, f, lists[f] \ refs[n][f]) : f \in Fields}

(* The innermost hook saves one of the nodes it has set a list of. *)
Object(r) == IF r.cached THEN cache[r.node] ELSE r.lists

Without(frame, r) ==
    [frame EXCEPT !.todo =
        (@ \ {r}) \cup {[x EXCEPT !.twice = FALSE] : x \in {y \in {r} : y.twice}}]

Resave(r) ==
    /\ pending # <<>> /\ r \in Head(pending).todo
    /\ LET now == [refs EXCEPT ![r.node] = Object(r)]
           ns == live \ rowless
       IN  /\ refs' = now
           /\ Hook(now, user, r.node, FALSE, ns,
                   <<Without(Head(pending), r)>> \o Tail(pending))
           /\ excused' = excused \cup Missed(now, user, r.node, FALSE, ns)
    /\ UNCHANGED <<live, user, rowless, edited, intent, saves>>

(* The innermost hook is through, and the node_save() it belongs to ends. *)
Return ==
    /\ pending # <<>> /\ Head(pending).todo = {}
    /\ LET n == Head(pending).of
       IN  /\ cache' = [cache EXCEPT ![n] = refs[n]]
           /\ rowless' = rowless \ {n}
    /\ pending' = Tail(pending)
    /\ UNCHANGED <<refs, live, user, original, processed, edited, intent, excused, saves>>

(* The request ends, and its static variables with it. *)
EndRequest ==
    /\ user # None /\ pending = <<>>
    /\ user' = None
    /\ original' = None
    /\ processed' = {}
    /\ cache' = refs
    /\ edited' = NoEdit
    /\ UNCHANGED <<refs, live, pending, rowless, intent, excused, saves>>

------------------------------------------------------------------------------
Resaving == \E r \in UNION {pending[k].todo : k \in DOMAIN pending} : Resave(r)

Next ==
    \/ \E u \in Users, n \in Nodes, touched \in BOOLEAN :
          \E lists \in ListsOf(n) : Save(u, n, lists, touched)
    \/ Resaving
    \/ Return
    \/ EndRequest

Spec == Init /\ [][Next]_vars

------------------------------------------------------------------------------
(* Properties. *)

Quiet == pending = <<>>

(* The lists of both ends are what users made of them last, from whichever end
   they did, through all saves that hooks make of nodes nobody edited: but for
   links that a save is known to have left alone. *)
ListsFollowUsers ==
    Quiet => \A x \in Links \ excused :
                x[3] \in refs[x[1]][x[2]] <=> x \in intent

(* The first node a request saves ends up with the lists its user gave it,
   although the hooks of nodes it names save nodes that refer to them. *)
EditIsKept ==
    Quiet /\ edited.first => refs[edited.node] = edited.lists
===============================================================================
