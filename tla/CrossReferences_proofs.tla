------------------------ MODULE CrossReferences_proofs ------------------------
(***************************************************************************)
(* Theorems about CrossReferences, for every set of items, collections and *)
(* users, whoever may see what, and any number of saves.                   *)
(***************************************************************************)
EXTENDS CrossReferences, SequenceTheorems, TLAPS

Positions == DOMAIN pending
Todo(k) == pending[k].todo

(* Lists that nodes can have: each field names what it may name. *)
Fit(lists) == lists \in [Nodes -> Lists] /\ \A n \in Nodes : lists[n] \in ListsOf(n)

(* Lists are well-formed wherever they are kept, and hooks run for a user. *)
TypeInvariant ==
    /\ TypeOK
    /\ Fit(cache)
    /\ \A k \in Positions : \A r \in Todo(k) : ~r.cached => r.lists \in ListsOf(r.node)
    /\ user = None => pending = <<>>

------------------------------------------------------------------------------
(* Fields. *)

LEMMA MirrorFacts ==
    /\ Mirror \in [Fields -> Fields]
    /\ \A f \in Fields : Mirror[Mirror[f]] = f
BY DEF Mirror, Fields

(* A node is named by the nodes it may name. *)
LEMMA TargetFacts ==
    ASSUME NEW n \in Nodes, NEW m \in Nodes, NEW f \in Fields
    PROVE  /\ m \in Targets(n, f) <=> n \in Targets(m, Mirror[f])
           /\ Targets(n, f) \subseteq Nodes
           /\ m \in Targets(n, f) => m # n /\ f \in FieldsOf(n)
BY CrossReferencesAssumption DEF Targets, Mirror, Fields, FieldsOf, Nodes

LEMMA FieldsOfFacts == \A n : FieldsOf(n) \subseteq Fields
BY DEF FieldsOf, Fields

LEMMA NoListsFit == NoLists \in Lists /\ \A n \in Nodes : NoLists \in ListsOf(n)
BY DEF NoLists, Lists, ListsOf

LEMMA VisibleFacts ==
    ASSUME NEW u \in Users, NEW ns \in SUBSET Nodes
    PROVE  Visible(u, ns) \in SUBSET Nodes
BY DEF Visible

(* What refers to m in a field is what m may name in its mirror. *)
LEMMA ReferringFacts ==
    ASSUME NEW now, Fit(now), NEW ns \in SUBSET Nodes, NEW m \in Nodes,
           NEW f \in Fields
    PROVE  ReferringTo(now, f, m, ns) \subseteq Targets(m, Mirror[f])
<1> SUFFICES ASSUME NEW n \in ns, m \in now[n][f]
             PROVE  n \in Targets(m, Mirror[f])
  BY DEF ReferringTo
<1>1. m \in Targets(n, f)
  BY DEF Fit, ListsOf
<1> QED BY <1>1, TargetFacts

LEMMA UpdatedFits ==
    ASSUME NEW now, Fit(now), NEW updates, NEW ns \in SUBSET Nodes,
           NEW objects, Fit(objects)
    PROVE  Fit(Updated(now, updates, ns, objects))
<1> DEFINE after == Updated(now, updates, ns, objects)
<1>1. ASSUME NEW m \in Nodes
      PROVE  after[m] \in ListsOf(m) /\ after[m] \in Lists
  <2> DEFINE fs == {f \in Fields : <<f, m>> \in updates}
  <2>1. after[m] = Rebuilt(now, m, fs, ns, objects[m])
    BY DEF Updated
  <2>2. objects[m] \in ListsOf(m) /\ objects[m] \in Lists
    BY DEF Fit
  <2>3. ASSUME NEW g \in Fields
        PROVE  after[m][g] \subseteq Targets(m, g) /\ after[m][g] \subseteq Nodes
    <3>1. objects[m][g] \subseteq Targets(m, g)
      BY <2>2 DEF ListsOf
    <3>2. Mirror[g] \in Fields /\ Mirror[Mirror[g]] = g
      BY MirrorFacts
    <3>3. ReferringTo(now, Mirror[g], m, ns) \subseteq Targets(m, g)
      BY <3>2, ReferringFacts
    <3>4. after[m][g] \subseteq Targets(m, g)
      BY <2>1, <3>1, <3>3 DEF Rebuilt
    <3> QED BY <3>4, TargetFacts
  <2>4. after[m] = [g \in Fields |-> after[m][g]]
    BY <2>1 DEF Rebuilt
  <2> QED BY <2>3, <2>4 DEF ListsOf, Lists
<1>2. after = [m \in Nodes |-> after[m]]
  BY DEF Updated
<1> QED BY <1>1, <1>2 DEF Fit

(* Storing lists that fit leaves lists that fit. *)
LEMMA StoringFits ==
    ASSUME NEW lists, Fit(lists), NEW n \in Nodes, NEW l \in ListsOf(n)
    PROVE  Fit([lists EXCEPT ![n] = l])
BY DEF Fit, ListsOf

LEMMA BothEndsType ==
    ASSUME NEW n \in Nodes, NEW f \in Fields, NEW ms \in SUBSET Targets(n, f)
    PROVE  BothEnds(n, f, ms) \in SUBSET Links
<1>1. ASSUME NEW m \in ms
      PROVE  <<n, f, m>> \in Links /\ <<m, Mirror[f], n>> \in Links
  <2>1. m \in Nodes /\ m \in Targets(n, f) /\ n \in Targets(m, Mirror[f])
    BY TargetFacts
  <2>2. Mirror[f] \in Fields
    BY MirrorFacts
  <2> QED BY <2>1, <2>2 DEF Links
<1> QED BY <1>1 DEF BothEnds
------------------------------------------------------------------------------
(* The stack. *)

FramesFit(frames) ==
    /\ frames \in Seq(Frames)
    /\ \A k \in DOMAIN frames : \A r \in frames[k].todo :
          ~r.cached => r.lists \in ListsOf(r.node)

(* What Detached makes of a node to save. *)
Freed(n, r) ==
    IF r.node = n /\ r.cached
    THEN [r EXCEPT !.cached = FALSE, !.lists = cache[n]] ELSE r

LEMMA SequenceFacts ==
    ASSUME NEW S, NEW s \in Seq(S)
    PROVE  /\ Len(s) \in Nat
           /\ DOMAIN s = 1..Len(s)
           /\ \A k \in 1..Len(s) : s[k] \in S
           /\ s = <<>> <=> Len(s) = 0
           /\ s # <<>> => /\ Head(s) = s[1] /\ 1 \in DOMAIN s
                          /\ Tail(s) \in Seq(S)
                          /\ Len(Tail(s)) = Len(s) - 1
                          /\ \A k \in 1..Len(Tail(s)) : Tail(s)[k] = s[k + 1]
<1>1. Len(s) \in Nat /\ DOMAIN s = 1..Len(s) /\ \A k \in 1..Len(s) : s[k] \in S
  BY LenProperties
<1>2. s = <<>> <=> Len(s) = 0
  BY EmptySeq, <1>1
<1> QED BY <1>1, <1>2, HeadTailProperties

LEMMA PushFacts ==
    ASSUME NEW S, NEW e \in S, NEW s \in Seq(S)
    PROVE  /\ <<e>> \o s \in Seq(S)
           /\ Len(<<e>> \o s) = Len(s) + 1
           /\ (<<e>> \o s)[1] = e
           /\ \A k \in 1..Len(s) : (<<e>> \o s)[k + 1] = s[k]
<1>1. <<e>> \in Seq(S) /\ Len(<<e>>) = 1 /\ <<e>>[1] = e
  OBVIOUS
<1>2. Len(s) \in Nat
  BY LenProperties
<1> QED BY <1>1, <1>2, ConcatProperties

LEMMA FreedType ==
    ASSUME Fit(cache), NEW n \in Nodes, NEW r \in Resaves,
           ~r.cached => r.lists \in ListsOf(r.node)
    PROVE  /\ Freed(n, r) \in Resaves
           /\ Freed(n, r).node = r.node
           /\ Freed(n, r).twice = r.twice
           /\ Freed(n, r).cached <=> r.cached /\ r.node # n
           /\ ~Freed(n, r).cached => /\ Freed(n, r).lists = Object(r)
                                     /\ Freed(n, r).lists \in ListsOf(r.node)
BY DEF Freed, Resaves, Fit, Object

LEMMA DetachedFacts ==
    ASSUME Fit(cache), NEW n \in Nodes, NEW frames, FramesFit(frames)
    PROVE  /\ FramesFit(Detached(frames, n))
           /\ Len(Detached(frames, n)) = Len(frames)
           /\ \A k \in 1..Len(frames) :
                /\ Detached(frames, n)[k].of = frames[k].of
                /\ Detached(frames, n)[k].todo = {Freed(n, r) : r \in frames[k].todo}
<1> DEFINE D == Detached(frames, n)
<1>1. /\ Len(frames) \in Nat
      /\ DOMAIN frames = 1..Len(frames)
      /\ \A k \in 1..Len(frames) : frames[k] \in Frames
  BY SequenceFacts DEF FramesFit
<1>2. ASSUME NEW k \in 1..Len(frames)
      PROVE  /\ D[k] \in Frames
             /\ D[k].of = frames[k].of
             /\ D[k].todo = {Freed(n, r) : r \in frames[k].todo}
  <2>1. frames[k] \in Frames
    BY <1>1
  <2>2. D[k] = [frames[k] EXCEPT !.todo = {Freed(n, r) : r \in frames[k].todo}]
    BY <1>1 DEF Detached, Freed
  <2>3. {Freed(n, r) : r \in frames[k].todo} \in SUBSET Resaves
    BY <1>1, <2>1, FreedType DEF FramesFit, Frames
  <2> QED BY <2>1, <2>2, <2>3 DEF Frames
<1>3. D \in [1..Len(frames) -> Frames]
  <2>1. D = [k \in 1..Len(frames) |-> D[k]]
    BY <1>1 DEF Detached
  <2> QED BY <1>2, <2>1
<1>4. D \in Seq(Frames) /\ Len(D) = Len(frames)
  BY <1>1, <1>3
<1>5. ASSUME NEW k \in 1..Len(frames), NEW s \in D[k].todo, ~s.cached
      PROVE  s.lists \in ListsOf(s.node)
  <2>1. PICK r \in frames[k].todo : s = Freed(n, r)
    BY <1>2
  <2>2. r \in Resaves /\ (~r.cached => r.lists \in ListsOf(r.node))
    BY <1>1 DEF FramesFit, Frames
  <2> QED BY <1>5, <2>1, <2>2, FreedType
<1>6. DOMAIN D = 1..Len(frames)
  BY <1>3
<1> QED BY <1>2, <1>4, <1>5, <1>6 DEF FramesFit

LEMMA ToResaveType ==
    ASSUME NEW before, NEW after
    PROVE  /\ ToResave(before, after) \in SUBSET Resaves
           /\ \A r \in ToResave(before, after) :
                /\ r.cached
                /\ \E f \in Fields : after[r.node][f] # before[r.node][f]
           /\ \A m \in Nodes :
                (\A r \in ToResave(before, after) : r.node # m)
                => \A f \in Fields : after[m][f] = before[m][f]
<1> DEFINE changed(m) == {f \in Fields : after[m][f] # before[m][f]}
           rec(m) == [node |-> m, cached |-> TRUE, lists |-> NoLists,
                      twice |-> Cardinality(changed(m)) > 1]
           changing == {m \in Nodes : changed(m) # {}}
<1>1. ToResave(before, after) = {rec(m) : m \in changing}
  BY DEF ToResave
<1>2. ASSUME NEW m \in Nodes
      PROVE  rec(m) \in Resaves /\ rec(m).cached /\ rec(m).node = m
  <2>1. (Cardinality(changed(m)) > 1) \in BOOLEAN
    OBVIOUS
  <2>2. NoLists \in Lists
    BY NoListsFit
  <2> HIDE DEF changed
  <2> QED BY <2>1, <2>2 DEF Resaves
<1> HIDE DEF rec
<1> QED BY <1>1, <1>2

------------------------------------------------------------------------------
(* A save and its hook. *)

Before(now, n) == Loaded(now, n)
After(now, u, n, touched, ns) ==
    Updated(now, Updates(now, n, touched), Visible(u, ns), Before(now, n))

LEMMA BeforeFits ==
    ASSUME Fit(cache), Fit(refs), NEW now, Fit(now), NEW n \in Nodes
    PROVE  Fit(Before(now, n))
<1>1. (IF n \in live THEN refs[n] ELSE now[n]) \in ListsOf(n)
  BY DEF Fit
<1> QED BY <1>1, StoringFits DEF Before, Loaded

(* The stack gets a frame, above frames that have let go of the object of n. *)
Stacked(frame, n, frames) ==
    /\ Len(pending') = Len(frames) + 1
    /\ pending'[1] = frame
    /\ \A k \in 1..Len(frames) :
         /\ pending'[k + 1].of = frames[k].of
         /\ pending'[k + 1].todo = {Freed(n, r) : r \in frames[k].todo}

NewFrame(now, n, after) == [of |-> n, todo |-> ToResave(Before(now, n), after)]

LEMMA HookFacts ==
    ASSUME Fit(cache), Fit(refs), NEW now, Fit(now), NEW u \in Users,
           NEW n \in Nodes, NEW touched, NEW ns \in SUBSET Nodes, NEW frames,
           FramesFit(frames), Hook(now, u, n, touched, ns, frames)
    PROVE  /\ processed' = processed \cup {n}
           /\ original' = First(n)
           /\ cache' = After(now, u, n, touched, ns)
           /\ Fit(cache')
           /\ FramesFit(pending')
           /\ Stacked(NewFrame(now, n, cache'), n, frames)
<1> DEFINE F == [of |-> n, todo |-> ToResave(Before(now, n), cache')]
           D == Detached(frames, n)
<1>1. /\ processed' = processed \cup {n}
      /\ original' = First(n)
      /\ cache' = After(now, u, n, touched, ns)
      /\ pending' = <<F>> \o D
  BY DEF Hook, After, Before
<1>2. Fit(cache')
  BY <1>1, BeforeFits, VisibleFacts, UpdatedFits DEF After
<1>3. F \in Frames
  BY ToResaveType DEF Frames
<1>4. /\ FramesFit(D)
      /\ Len(D) = Len(frames)
      /\ \A k \in 1..Len(frames) :
           /\ D[k].of = frames[k].of
           /\ D[k].todo = {Freed(n, r) : r \in frames[k].todo}
  BY DetachedFacts
<1>5. D \in Seq(Frames)
  BY <1>4 DEF FramesFit
<1> HIDE DEF F, D
<1>6. /\ pending' \in Seq(Frames)
      /\ Len(pending') = Len(frames) + 1
      /\ pending'[1] = F
      /\ \A k \in 1..Len(frames) : pending'[k + 1] = D[k]
  BY <1>1, <1>3, <1>4, <1>5, PushFacts
<1>7. FramesFit(pending')
  <2>1. SUFFICES ASSUME NEW k \in DOMAIN pending', NEW r \in pending'[k].todo, ~r.cached
                 PROVE  r.lists \in ListsOf(r.node)
    BY <1>6 DEF FramesFit
  <2>2. /\ Len(frames) \in Nat
        /\ DOMAIN frames = 1..Len(frames)
        /\ DOMAIN D = 1..Len(frames)
        /\ DOMAIN pending' = 1..(Len(frames) + 1)
    BY <1>4, <1>5, <1>6, SequenceFacts DEF FramesFit
  <2>3. CASE k = 1
    BY <1>6, <2>1, <2>3, ToResaveType DEF F
  <2>4. CASE k # 1
    <3>1. k - 1 \in 1..Len(frames) /\ k = (k - 1) + 1
      BY <2>2, <2>4
    <3>2. pending'[k] = D[k - 1]
      BY <1>6, <3>1
    <3> QED BY <1>4, <2>1, <2>2, <3>1, <3>2 DEF FramesFit
  <2> QED BY <2>3, <2>4
<1>8. Stacked(NewFrame(now, n, cache'), n, frames)
  BY <1>4, <1>6 DEF F, Stacked, NewFrame
<1> QED BY <1>1, <1>2, <1>7, <1>8

(* What a save may leave alone are links. *)
LEMMA MissedType ==
    ASSUME Fit(cache), Fit(refs), NEW now, Fit(now), NEW u \in Users,
           NEW n \in Nodes, NEW touched, NEW ns \in SUBSET Nodes
    PROVE  Missed(now, u, n, touched, ns) \in SUBSET Links
<1> DEFINE left(f) == {m \in Moved(now, n, f) :
                        /\ (m \in now[n][f]) # (n \in now[m][Mirror[f]])
                        /\ n \in processed \/ touched \/ m = original}
           unseen(f, m) == ReferringTo(now, f, m, Nodes \ Visible(u, ns))
           unsaved(f, m) == {x \in SymmetricDiff(cache[m][f], refs[m][f]) : Held(m)}
           undone(f, m) == unsaved(Mirror[f], m) \cap
                             SymmetricDiff(cache[m][Mirror[f]],
                                           ReferringTo(now, f, m, Visible(u, ns)))
<1>1. ASSUME NEW f \in FieldsOf(n)
      PROVE  BothEnds(n, f, left(f)) \in SUBSET Links
  <2>1. f \in Fields
    BY FieldsOfFacts
  <2>2. refs[n][f] \subseteq Targets(n, f) /\ now[n][f] \subseteq Targets(n, f)
    BY <2>1 DEF Fit, ListsOf
  <2>3. left(f) \in SUBSET Targets(n, f)
    BY <2>2 DEF Moved, SymmetricDiff
  <2> HIDE DEF left
  <2> QED BY <2>1, <2>3, BothEndsType
<1>2. ASSUME NEW x \in Updates(now, n, touched)
      PROVE  BothEnds(x[2], Mirror[x[1]], unseen(x[1], x[2]) \cup undone(x[1], x[2]))
               \in SUBSET Links
  <2>1. x[1] \in Fields /\ x[2] \in Nodes
    BY FieldsOfFacts DEF Updates, ToUpdate
  <2> DEFINE f == x[1]
             m == x[2]
  <2>2. Mirror[f] \in Fields
    BY <2>1, MirrorFacts
  <2>3. unseen(f, m) \subseteq Targets(m, Mirror[f])
    BY <2>1, ReferringFacts
  <2>4. cache[m][Mirror[f]] \subseteq Targets(m, Mirror[f])
    BY <2>1, <2>2 DEF Fit, ListsOf
  <2>5. refs[m][Mirror[f]] \subseteq Targets(m, Mirror[f])
    BY <2>1, <2>2 DEF Fit, ListsOf
  <2>6. undone(f, m) \subseteq Targets(m, Mirror[f])
    BY <2>4, <2>5 DEF SymmetricDiff
  <2> HIDE DEF unseen, undone, f, m
  <2>7. unseen(f, m) \cup undone(f, m) \in SUBSET Targets(m, Mirror[f])
    BY <2>3, <2>6
  <2>8. BothEnds(m, Mirror[f], unseen(f, m) \cup undone(f, m)) \in SUBSET Links
    BY <2>1, <2>2, <2>7, BothEndsType DEF f, m
  <2> QED BY <2>8 DEF f, m
<1>3. Missed(now, u, n, touched, ns) =
        (UNION {BothEnds(n, f, left(f)) : f \in FieldsOf(n)})
        \cup UNION {BothEnds(x[2], Mirror[x[1]], unseen(x[1], x[2]) \cup undone(x[1], x[2])) :
                      x \in Updates(now, n, touched)}
  BY DEF Missed
<1> HIDE DEF left, unseen, undone
<1> QED BY <1>1, <1>2, <1>3

LEMMA InitTypeInvariant == Init => TypeInvariant
<1> SUFFICES ASSUME Init PROVE TypeInvariant
  OBVIOUS
<1>1. Fit(refs) /\ Fit(cache)
  BY NoListsFit DEF Init, Fit
<1>2. NoEdit \in [node : Nodes \cup {None}, lists : Lists, first : BOOLEAN]
  BY NoListsFit DEF NoEdit
<1>3. pending = <<>> /\ <<>> \in Seq(Frames)
  BY EmptySeq DEF Init
<1> QED BY <1>1, <1>2, <1>3 DEF Init, TypeInvariant, TypeOK, Fit, Positions

------------------------------------------------------------------------------
(* The steps, seen from outside. *)

LEMMA PendingFacts ==
    ASSUME TypeInvariant
    PROVE  /\ Fit(refs) /\ Fit(cache) /\ FramesFit(pending)
           /\ Len(pending) \in Nat
           /\ Positions = 1..Len(pending)
           /\ \A k \in Positions : /\ pending[k] \in Frames
                                   /\ pending[k].of \in Nodes
                                   /\ Todo(k) \subseteq Resaves
           /\ pending = <<>> <=> Positions = {}
           /\ pending # <<>> => 1 \in Positions /\ Head(pending) = pending[1]
<1>1. pending \in Seq(Frames)
  BY DEF TypeInvariant, TypeOK
<1>2. /\ Len(pending) \in Nat
      /\ Positions = 1..Len(pending)
      /\ \A k \in Positions : pending[k] \in Frames
      /\ pending = <<>> <=> Positions = {}
      /\ pending # <<>> => 1 \in Positions /\ Head(pending) = pending[1]
  BY <1>1, SequenceFacts DEF Positions
<1>3. Fit(refs) /\ Fit(cache) /\ FramesFit(pending)
  BY <1>1 DEF TypeInvariant, TypeOK, Fit, FramesFit, Positions, Todo
<1> QED BY <1>2, <1>3 DEF Frames, Todo

LEMMA ObjectFits ==
    ASSUME TypeInvariant, NEW k \in Positions, NEW r \in Todo(k)
    PROVE  r \in Resaves /\ r.node \in Nodes /\ Object(r) \in ListsOf(r.node)
<1>1. r \in Resaves /\ Fit(cache)
  BY PendingFacts
<1> QED BY <1>1 DEF TypeInvariant, Resaves, Object, Fit

(* What is left to save when r has been saved. *)
Rest(r) == <<Without(Head(pending), r)>> \o Tail(pending)

LEMMA RestFacts ==
    ASSUME TypeInvariant, pending # <<>>, NEW r \in Head(pending).todo
    PROVE  /\ FramesFit(Rest(r))
           /\ Len(Rest(r)) = Len(pending)
           /\ \A k \in Positions :
                /\ Rest(r)[k].of = pending[k].of
                /\ \A s \in Rest(r)[k].todo :
                     \E q \in Todo(k) : /\ s.node = q.node
                                        /\ s.cached = q.cached
                                        /\ s.lists = q.lists
                                        /\ s \in Resaves
                /\ \A q \in Todo(k) : q \in Rest(r)[k].todo \/ (k = 1 /\ q = r)
<1> DEFINE again == {[x EXCEPT !.twice = FALSE] : x \in {y \in {r} : y.twice}}
           H == Without(Head(pending), r)
<1>1. /\ 1 \in Positions /\ Head(pending) = pending[1] /\ r \in Todo(1)
      /\ Positions = 1..Len(pending) /\ Len(pending) \in Nat
      /\ pending \in Seq(Frames) /\ FramesFit(pending)
      /\ r \in Resaves /\ pending[1] \in Frames
  BY PendingFacts DEF Todo, FramesFit
<1>2. \A s \in again : s \in Resaves /\ s.node = r.node /\ s.cached = r.cached /\ s.lists = r.lists
  <2>1. \A s \in again : s = [r EXCEPT !.twice = FALSE]
    OBVIOUS
  <2>2. LET s == [r EXCEPT !.twice = FALSE]
        IN  s \in Resaves /\ s.node = r.node /\ s.cached = r.cached /\ s.lists = r.lists
    BY <1>1 DEF Resaves
  <2> QED BY <2>1, <2>2
<1>3. /\ H \in Frames
      /\ H.of = pending[1].of
      /\ H.todo = (Todo(1) \ {r}) \cup again
  <2>1. H = [pending[1] EXCEPT !.todo = (Todo(1) \ {r}) \cup again]
    BY <1>1 DEF Without, Todo
  <2>2. (Todo(1) \ {r}) \cup again \in SUBSET Resaves
    BY <1>1, <1>2, PendingFacts
  <2> HIDE DEF again, H
  <2> QED BY <1>1, <2>1, <2>2 DEF Frames
<1>4. /\ Tail(pending) \in Seq(Frames)
      /\ Len(Tail(pending)) = Len(pending) - 1
      /\ \A k \in 1..Len(Tail(pending)) : Tail(pending)[k] = pending[k + 1]
  BY <1>1, SequenceFacts
<1> HIDE DEF again, H
<1>5. /\ Rest(r) \in Seq(Frames)
      /\ Len(Rest(r)) = Len(pending)
      /\ Rest(r)[1] = H
      /\ \A k \in 1..Len(Tail(pending)) : Rest(r)[k + 1] = pending[k + 1]
  BY <1>1, <1>3, <1>4, PushFacts DEF Rest, H
<1>6. \A k \in Positions : k # 1 => Rest(r)[k] = pending[k]
  <2> SUFFICES ASSUME NEW k \in Positions, k # 1 PROVE Rest(r)[k] = pending[k]
    OBVIOUS
  <2>1. k - 1 \in 1..Len(Tail(pending)) /\ k = (k - 1) + 1
    BY <1>1, <1>4
  <2> QED BY <1>5, <2>1
<1>7. ASSUME NEW k \in Positions
      PROVE  /\ Rest(r)[k].of = pending[k].of
             /\ \A s \in Rest(r)[k].todo :
                  \E q \in Todo(k) : /\ s.node = q.node
                                     /\ s.cached = q.cached
                                     /\ s.lists = q.lists
                                     /\ s \in Resaves
             /\ \A q \in Todo(k) : q \in Rest(r)[k].todo \/ (k = 1 /\ q = r)
  <2>1. CASE k = 1
    BY <1>1, <1>2, <1>3, <1>5, <2>1, PendingFacts
  <2>2. CASE k # 1
    <3>1. Rest(r)[k].of = pending[k].of /\ Rest(r)[k].todo = Todo(k)
      BY <1>6, <2>2 DEF Todo
    <3> QED BY <3>1, PendingFacts
  <2> QED BY <2>1, <2>2
<1>8. FramesFit(Rest(r))
  <2>1. DOMAIN Rest(r) = Positions
    BY <1>1, <1>5, SequenceFacts
  <2> QED BY <1>1, <1>5, <1>7, <2>1 DEF FramesFit, Todo
<1> QED BY <1>5, <1>7, <1>8

(* The saves of hooks do not change what access depends on. *)
NotTouched == FALSE

(* A hook saves a node: its hook comes on top of the stack, and everything that
   is left to save below is what it was, but for the object of that node. *)
LEMMA ResaveFacts ==
    ASSUME TypeInvariant, NEW r, Resave(r)
    PROVE  /\ 1 \in Positions /\ r \in Todo(1) /\ r \in Resaves
           /\ Head(pending) = pending[1] /\ Head(pending).todo # {}
           /\ r.node \in Nodes /\ Object(r) \in ListsOf(r.node)
           /\ user \in Users /\ live \ rowless \in SUBSET Nodes
           /\ refs' = [refs EXCEPT ![r.node] = Object(r)]
           /\ Fit(refs') /\ Fit(cache') /\ FramesFit(pending')
           /\ cache' = After(refs', user, r.node, NotTouched, live \ rowless)
           /\ processed' = processed \cup {r.node}
           /\ original' = First(r.node)
           /\ excused' = excused \cup
                           Missed(refs', user, r.node, NotTouched, live \ rowless)
           /\ UNCHANGED <<live, user, rowless, edited, intent, saves>>
<1>1. /\ pending # <<>> /\ r \in Head(pending).todo
      /\ refs' = [refs EXCEPT ![r.node] = Object(r)]
      /\ Hook(refs', user, r.node, NotTouched, live \ rowless, Rest(r))
      /\ excused' = excused \cup Missed(refs', user, r.node, NotTouched, live \ rowless)
      /\ UNCHANGED <<live, user, rowless, edited, intent, saves>>
  BY DEF Resave, Rest, NotTouched
<1>2. /\ 1 \in Positions /\ r \in Todo(1)
      /\ Head(pending) = pending[1]
      /\ Fit(refs) /\ Fit(cache)
  BY <1>1, PendingFacts DEF Todo
<1>3. r \in Resaves /\ r.node \in Nodes /\ Object(r) \in ListsOf(r.node)
  BY <1>2, ObjectFits
<1>4. Fit(refs')
  BY <1>1, <1>2, <1>3, StoringFits
<1>5. user \in Users /\ live \ rowless \in SUBSET Nodes
  BY <1>1 DEF TypeInvariant, TypeOK
<1>6. FramesFit(Rest(r)) /\ Len(Rest(r)) = Len(pending)
  BY <1>1, RestFacts
<1>7. /\ Fit(cache') /\ FramesFit(pending')
      /\ cache' = After(refs', user, r.node, NotTouched, live \ rowless)
      /\ processed' = processed \cup {r.node}
      /\ original' = First(r.node)
  <2>1. Hook(refs', user, r.node, NotTouched, live \ rowless, Rest(r))
    BY <1>1
  <2>2. Fit(cache)
    BY <1>2
  <2>3. Fit(refs)
    BY <1>2
  <2>4. user \in Users
    BY <1>5
  <2>5. live \ rowless \in SUBSET Nodes
    BY <1>5
  <2>6. r.node \in Nodes
    BY <1>3
  <2>7. FramesFit(Rest(r))
    BY <1>6
  <2> QED BY <1>4, <2>1, <2>2, <2>3, <2>4, <2>5, <2>6, <2>7, HookFacts
<1> QED BY <1>1, <1>2, <1>3, <1>4, <1>5, <1>7

(* What a record q comes to be when the object of n leaves the cache. *)
Become(q, n, s) ==
    /\ s.node = q.node
    /\ s.cached <=> q.cached /\ q.node # n
    /\ ~s.cached => s.lists = Object(q)

LEMMA ResaveStack ==
    ASSUME TypeInvariant, NEW r, Resave(r)
    PROVE  /\ Positions' = 1..(Len(pending) + 1)
           /\ pending'[1] = [of |-> r.node,
                             todo |-> ToResave(Before(refs', r.node), cache')]
           /\ \A k \in Positions :
                /\ k + 1 \in Positions'
                /\ pending'[k + 1].of = pending[k].of
                /\ \A s \in pending'[k + 1].todo :
                     \E q \in Todo(k) : Become(q, r.node, s)
                /\ \A q \in Todo(k) :
                     \/ k = 1 /\ q = r
                     \/ \E s \in pending'[k + 1].todo : Become(q, r.node, s)
<1>1. /\ pending # <<>> /\ r \in Head(pending).todo
      /\ refs' = [refs EXCEPT ![r.node] = Object(r)]
      /\ Hook(refs', user, r.node, NotTouched, live \ rowless, Rest(r))
      /\ excused' = excused \cup Missed(refs', user, r.node, NotTouched, live \ rowless)
      /\ UNCHANGED <<live, user, rowless, edited, intent, saves>>
  BY DEF Resave, Rest, NotTouched
<1>2. /\ 1 \in Positions /\ r \in Todo(1)
      /\ Head(pending) = pending[1]
      /\ Fit(refs) /\ Fit(cache)
  BY <1>1, PendingFacts DEF Todo
<1>3. r \in Resaves /\ r.node \in Nodes /\ Object(r) \in ListsOf(r.node)
  BY <1>2, ObjectFits
<1>4. Fit(refs')
  BY <1>1, <1>2, <1>3, StoringFits
<1>5. user \in Users /\ live \ rowless \in SUBSET Nodes
  BY <1>1 DEF TypeInvariant, TypeOK
<1>6. FramesFit(Rest(r)) /\ Len(Rest(r)) = Len(pending)
  BY <1>1, RestFacts
<1>7. /\ FramesFit(pending')
      /\ Len(pending') = Len(pending) + 1
      /\ pending'[1] = [of |-> r.node, todo |-> ToResave(Before(refs', r.node), cache')]
      /\ \A k \in 1..Len(pending) :
           /\ pending'[k + 1].of = Rest(r)[k].of
           /\ pending'[k + 1].todo = {Freed(r.node, s) : s \in Rest(r)[k].todo}
  <2>1. Hook(refs', user, r.node, NotTouched, live \ rowless, Rest(r))
    BY <1>1
  <2>2. Fit(cache)
    BY <1>2
  <2>3. Fit(refs)
    BY <1>2
  <2>4. user \in Users
    BY <1>5
  <2>5. live \ rowless \in SUBSET Nodes
    BY <1>5
  <2>6. r.node \in Nodes
    BY <1>3
  <2>7. FramesFit(Rest(r))
    BY <1>6
  <2>8. /\ FramesFit(pending')
        /\ Stacked(NewFrame(refs', r.node, cache'), r.node, Rest(r))
    BY <1>4, <2>1, <2>2, <2>3, <2>4, <2>5, <2>6, <2>7, HookFacts
  <2> QED BY <1>6, <2>8 DEF Stacked, NewFrame
<1>8. /\ Len(pending) \in Nat
      /\ Positions = 1..Len(pending)
      /\ Positions' = 1..(Len(pending) + 1)
  BY <1>7, PendingFacts, SequenceFacts DEF FramesFit, Positions
<1>9. ASSUME NEW k \in Positions
      PROVE  /\ k + 1 \in Positions'
             /\ pending'[k + 1].of = pending[k].of
  BY <1>1, <1>7, <1>8, RestFacts
<1>10. ASSUME NEW k \in Positions, NEW q \in Todo(k), NEW s \in Resaves,
              s.node = q.node, s.cached = q.cached, s.lists = q.lists
       PROVE  Become(q, r.node, Freed(r.node, s))
  <2>1. ~s.cached => s.lists \in ListsOf(s.node)
    BY <1>10 DEF TypeInvariant
  <2>2. Object(s) = Object(q)
    BY <1>10 DEF Object
  <2> QED BY <1>2, <1>3, <1>10, <2>1, <2>2, FreedType DEF Become
<1>11. ASSUME NEW k \in Positions, NEW t \in pending'[k + 1].todo
       PROVE  \E q \in Todo(k) : Become(q, r.node, t)
  <2>1. PICK s \in Rest(r)[k].todo : t = Freed(r.node, s)
    BY <1>7, <1>8
  <2>2. PICK q \in Todo(k) : /\ s.node = q.node
                             /\ s.cached = q.cached
                             /\ s.lists = q.lists
                             /\ s \in Resaves
    BY <1>1, RestFacts
  <2> QED BY <1>10, <2>1, <2>2
<1>12. ASSUME NEW k \in Positions, NEW q \in Todo(k)
       PROVE  \/ k = 1 /\ q = r
              \/ \E s \in pending'[k + 1].todo : Become(q, r.node, s)
  <2>1. q \in Rest(r)[k].todo \/ (k = 1 /\ q = r)
    BY <1>1, RestFacts
  <2>2. CASE q \in Rest(r)[k].todo
    <3>1. Freed(r.node, q) \in pending'[k + 1].todo
      BY <1>7, <1>8, <2>2
    <3>2. q \in Resaves
      BY ObjectFits
    <3> QED BY <1>10, <3>1, <3>2
  <2> QED BY <2>1, <2>2
<1> QED BY <1>7, <1>8, <1>9, <1>11, <1>12

(* The top of the stack after that, and a record below it seen from either side. *)
LEMMA ResaveTop ==
    ASSUME TypeInvariant, NEW r, Resave(r)
    PROVE  /\ 1 \in Positions' /\ Len(pending) \in Nat
           /\ Positions' = 1..(Len(pending) + 1) /\ Positions = 1..Len(pending)
           /\ pending'[1].of = r.node
           /\ Todo(1)' = ToResave(Before(refs', r.node),
                                  After(refs', user, r.node, NotTouched, live \ rowless))
<1>1. /\ Positions' = 1..(Len(pending) + 1)
      /\ pending'[1] = [of |-> r.node, todo |-> ToResave(Before(refs', r.node), cache')]
  BY ResaveStack
<1>2. cache' = After(refs', user, r.node, NotTouched, live \ rowless)
  BY ResaveFacts
<1>3. Len(pending) \in Nat /\ Positions = 1..Len(pending)
  BY PendingFacts
<1>4. Todo(1)' = ToResave(Before(refs', r.node), cache') /\ pending'[1].of = r.node
  BY <1>1 DEF Todo
<1>5. Todo(1)' = ToResave(Before(refs', r.node),
                         After(refs', user, r.node, NotTouched, live \ rowless))
  BY <1>2, <1>4
<1>6. 1 \in Positions' /\ Positions' = 1..(Len(pending) + 1)
  BY <1>1, <1>3
<1> QED BY <1>3, <1>4, <1>5, <1>6

LEMMA ResaveBelow ==
    ASSUME TypeInvariant, NEW r, Resave(r), NEW k \in Positions', k # 1
    PROVE  /\ k - 1 \in Positions
           /\ pending'[k].of = pending[k - 1].of
           /\ \A s \in Todo(k)' : \E q \in Todo(k - 1) : Become(q, r.node, s)
<1> DEFINE j == k - 1
<1>1. /\ Len(pending) \in Nat
      /\ Positions' = 1..(Len(pending) + 1)
      /\ Positions = 1..Len(pending)
  BY ResaveTop
<1>2. j \in Positions /\ k = j + 1
  BY <1>1
<1> HIDE DEF j
<1>3. /\ pending'[j + 1].of = pending[j].of
      /\ \A s \in pending'[j + 1].todo : \E q \in Todo(j) : Become(q, r.node, s)
  BY <1>2, ResaveStack
<1>4. /\ j \in Positions
      /\ pending'[k].of = pending[j].of
      /\ \A s \in Todo(k)' : \E q \in Todo(j) : Become(q, r.node, s)
  BY <1>2, <1>3 DEF Todo
<1> QED BY <1>4 DEF j

LEMMA ResaveAbove ==
    ASSUME TypeInvariant, NEW r, Resave(r), NEW k \in Positions, NEW q \in Todo(k),
           ~(k = 1 /\ q = r)
    PROVE  /\ k + 1 \in Positions'
           /\ \E s \in Todo(k + 1)' : Become(q, r.node, s)
BY ResaveStack DEF Todo

(* A user saves a node: its hook is the stack. *)
LEMMA SaveFacts ==
    ASSUME TypeInvariant, NEW u \in Users, NEW n \in Nodes, NEW touched,
           NEW lists \in ListsOf(n), Save(u, n, lists, touched)
    PROVE  /\ pending = <<>> /\ Positions = {}
           /\ user' = u
           /\ live \in SUBSET Nodes
           /\ refs' = [refs EXCEPT ![n] = lists]
           /\ Fit(refs') /\ Fit(cache') /\ FramesFit(pending')
           /\ cache' = After(refs', u, n, touched, live)
           /\ processed' = processed \cup {n}
           /\ original' = First(n)
           /\ excused' = excused \cup Missed(refs', u, n, touched, live)
           /\ Positions' = {1}
           /\ pending'[1].of = n
           /\ Todo(1)' = ToResave(Before(refs', n), After(refs', u, n, touched, live))
<1>1. /\ pending = <<>>
      /\ user' = u
      /\ refs' = [refs EXCEPT ![n] = lists]
      /\ Hook(refs', u, n, touched, live, <<>>)
      /\ excused' = excused \cup Missed(refs', u, n, touched, live)
  BY DEF Save
<1>2. Fit(refs) /\ Fit(cache) /\ Positions = {}
  BY <1>1, PendingFacts
<1>3. Fit(refs')
  BY <1>1, <1>2, StoringFits
<1>4. live \in SUBSET Nodes
  BY DEF TypeInvariant, TypeOK
<1>5. FramesFit(<<>>) /\ Len(<<>>) = 0
  BY EmptySeq DEF FramesFit
<1>6. /\ processed' = processed \cup {n}
      /\ original' = First(n)
      /\ cache' = After(refs', u, n, touched, live)
      /\ Fit(cache')
      /\ FramesFit(pending')
      /\ Len(pending') = 1
      /\ pending'[1] = [of |-> n, todo |-> ToResave(Before(refs', n), cache')]
  <2>1. Hook(refs', u, n, touched, live, <<>>)
    BY <1>1
  <2>2. Fit(cache)
    BY <1>2
  <2>3. Fit(refs)
    BY <1>2
  <2>4. FramesFit(<<>>)
    BY <1>5
  <2>5. /\ Fit(cache')
        /\ FramesFit(pending')
        /\ cache' = After(refs', u, n, touched, live)
        /\ processed' = processed \cup {n}
        /\ original' = First(n)
        /\ Stacked(NewFrame(refs', n, cache'), n, <<>>)
    BY <1>3, <1>4, <2>1, <2>2, <2>3, <2>4, HookFacts
  <2> QED BY <1>5, <2>5 DEF Stacked, NewFrame
<1>7. Positions' = {1}
  BY <1>6, SequenceFacts DEF FramesFit, Positions
<1>8. Todo(1)' = ToResave(Before(refs', n), cache') /\ pending'[1].of = n
  BY <1>6 DEF Todo
<1>9. Todo(1)' = ToResave(Before(refs', n), After(refs', u, n, touched, live))
  BY <1>6, <1>8
<1> QED BY <1>1, <1>2, <1>3, <1>4, <1>6, <1>7, <1>8, <1>9

(* A node_save() ends. *)
LEMMA ReturnFacts ==
    ASSUME TypeInvariant, Return
    PROVE  /\ 1 \in Positions /\ Todo(1) = {} /\ pending[1].of \in Nodes
           /\ Head(pending) = pending[1]
           /\ cache' = [cache EXCEPT ![pending[1].of] = refs[pending[1].of]]
           /\ Fit(cache')
           /\ pending' = Tail(pending)
           /\ Len(pending) \in Nat
           /\ Positions' = 1..(Len(pending) - 1)
           /\ \A k \in Positions' : k + 1 \in Positions /\ pending'[k] = pending[k + 1]
           /\ FramesFit(pending')
<1>1. /\ pending # <<>> /\ Head(pending).todo = {}
      /\ cache' = [cache EXCEPT ![Head(pending).of] = refs[Head(pending).of]]
      /\ pending' = Tail(pending)
  BY DEF Return
<1>2. /\ 1 \in Positions /\ Head(pending) = pending[1] /\ pending[1].of \in Nodes
      /\ Fit(refs) /\ Fit(cache) /\ FramesFit(pending)
      /\ Len(pending) \in Nat /\ Positions = 1..Len(pending)
  BY <1>1, PendingFacts
<1>3. Fit(cache')
  BY <1>1, <1>2, StoringFits DEF Fit
<1>4. /\ pending' \in Seq(Frames)
      /\ Len(pending') = Len(pending) - 1
      /\ \A k \in 1..Len(pending') : pending'[k] = pending[k + 1]
  BY <1>1, <1>2, SequenceFacts DEF FramesFit
<1>5. Positions' = 1..(Len(pending) - 1)
  BY <1>4, SequenceFacts DEF Positions
<1>6. \A k \in Positions' : k + 1 \in Positions /\ pending'[k] = pending[k + 1]
  BY <1>2, <1>4, <1>5
<1> QED BY <1>1, <1>2, <1>3, <1>4, <1>5, <1>6 DEF FramesFit, Positions, Todo

------------------------------------------------------------------------------
(* Type correctness. *)

LEMMA NextTypeInvariant == TypeInvariant /\ [Next]_vars => TypeInvariant'
<1> SUFFICES ASSUME TypeInvariant, [Next]_vars PROVE TypeInvariant'
  OBVIOUS
<1>1. TypeOK /\ Fit(refs) /\ Fit(cache)
  BY PendingFacts DEF TypeInvariant
<1>2. ASSUME FramesFit(pending')
      PROVE  /\ pending' \in Seq(Frames)
             /\ (\A k \in Positions : \A r \in Todo(k) :
                   ~r.cached => r.lists \in ListsOf(r.node))'
  BY <1>2 DEF FramesFit, Positions, Todo
<1>3. ASSUME NEW r, Resave(r) PROVE TypeInvariant'
  <2>1. /\ Fit(refs') /\ Fit(cache') /\ FramesFit(pending')
        /\ r.node \in Nodes /\ user \in Users
        /\ processed' = processed \cup {r.node}
        /\ original' = First(r.node)
        /\ excused' = excused \cup Missed(refs', user, r.node, NotTouched, live \ rowless)
        /\ live \ rowless \in SUBSET Nodes
        /\ UNCHANGED <<live, user, rowless, edited, intent, saves>>
    BY <1>3, ResaveFacts
  <2>2. excused' \in SUBSET Links
    BY <1>1, <2>1, MissedType DEF TypeOK
  <2>3. original' \in Nodes \cup {None}
    BY <1>1, <2>1 DEF First, TypeOK
  <2> QED BY <1>1, <1>2, <2>1, <2>2, <2>3, CrossReferencesAssumption
         DEF TypeInvariant, TypeOK, Fit
<1>4. ASSUME NEW u \in Users, NEW n \in Nodes, NEW touched \in BOOLEAN,
             NEW lists \in ListsOf(n), Save(u, n, lists, touched)
      PROVE  TypeInvariant'
  <2>1. /\ Fit(refs') /\ Fit(cache') /\ FramesFit(pending')
        /\ user' = u
        /\ live \in SUBSET Nodes
        /\ processed' = processed \cup {n}
        /\ original' = First(n)
        /\ excused' = excused \cup Missed(refs', u, n, touched, live)
    BY <1>4, SaveFacts
  <2>2. excused' \in SUBSET Links
    <3>1. Fit(cache)
      BY <1>1
    <3>2. Fit(refs)
      BY <1>1
    <3>3. Fit(refs')
      BY <2>1
    <3>4. live \in SUBSET Nodes
      BY <2>1
    <3>5. Missed(refs', u, n, touched, live) \in SUBSET Links
      BY <3>1, <3>2, <3>3, <3>4, MissedType
    <3> QED BY <1>1, <2>1, <3>5 DEF TypeOK
  <2>3. original' \in Nodes \cup {None}
    BY <1>1, <2>1 DEF First, TypeOK
  <2>4. /\ live' = live \cup {n}
        /\ rowless' = rowless \cup ({n} \ live)
        /\ saves' = saves + 1
        /\ edited' = [node |-> n, lists |-> lists, first |-> original = None]
        /\ intent' = (intent \ (UNION {BothEnds(n, f, refs[n][f] \ lists[f]) : f \in Fields}))
                       \cup UNION {BothEnds(n, f, lists[f] \ refs[n][f]) : f \in Fields}
    BY <1>4 DEF Save
  <2>5. edited' \in [node : Nodes \cup {None}, lists : Lists, first : BOOLEAN]
    BY <2>4 DEF ListsOf
  <2>6. intent' \in SUBSET Links
    <3>1. ASSUME NEW f \in Fields
          PROVE  BothEnds(n, f, lists[f] \ refs[n][f]) \in SUBSET Links
      <4>1. lists[f] \ refs[n][f] \in SUBSET Targets(n, f)
        BY DEF ListsOf
      <4> QED BY <4>1, BothEndsType
    <3> QED BY <1>1, <2>4, <3>1 DEF TypeOK
  <2>7. saves' \in Nat
    BY <1>1, <2>4 DEF TypeOK
  <2> QED BY <1>1, <1>2, <2>1, <2>2, <2>3, <2>4, <2>5, <2>6, <2>7,
             CrossReferencesAssumption
         DEF TypeInvariant, TypeOK, Fit
<1>5. CASE Return
  <2>1. /\ Fit(cache') /\ FramesFit(pending') /\ pending[1].of \in Nodes
        /\ 1 \in Positions /\ pending # <<>>
    BY <1>5, ReturnFacts, PendingFacts
  <2>2. /\ rowless' = rowless \ {Head(pending).of}
        /\ UNCHANGED <<refs, live, user, original, processed, edited, intent,
                       excused, saves>>
    BY <1>5 DEF Return
  <2>3. user # None
    BY <2>1 DEF TypeInvariant
  <2> QED BY <1>1, <1>2, <2>1, <2>2, <2>3 DEF TypeInvariant, TypeOK, Fit
<1>6. CASE EndRequest
  <2>1. edited' \in [node : Nodes \cup {None}, lists : Lists, first : BOOLEAN]
    BY <1>6, NoListsFit DEF EndRequest, NoEdit
  <2> QED BY <1>1, <1>6, <2>1
         DEF EndRequest, TypeInvariant, TypeOK, Fit, Positions, Todo
<1>7. CASE UNCHANGED vars
  BY <1>7 DEF vars, TypeInvariant, TypeOK, Fit, Positions, Todo
<1> QED BY <1>3, <1>4, <1>5, <1>6, <1>7 DEF Next, Resaving

(* Every list holds nodes that its field may name, in the database, in the
   cache and in the objects hooks hold; a hook runs for a user. *)
THEOREM TypeCorrect == Spec => []TypeOK
<1>1. TypeInvariant => TypeOK
  BY DEF TypeInvariant
<1> QED BY <1>1, InitTypeInvariant, NextTypeInvariant, PTL DEF Spec

------------------------------------------------------------------------------
(* The first node a request saves. *)

(* The static variables belong to the request, and know what its user saved. *)
RequestInvariant ==
    /\ original = None => processed = {} /\ pending = <<>>
    /\ edited.node # None => edited.node \in processed

(* No hook is about to save the node the request saved first. *)
FirstInvariant ==
    /\ \A k \in Positions : \A r \in Todo(k) : r.node # original
    /\ edited.first => edited.node = original /\ refs[edited.node] = edited.lists

EditInvariant == TypeInvariant /\ RequestInvariant /\ FirstInvariant

(* A hook sets lists of the nodes it updates only. *)
LEMMA UpdatedOnly ==
    ASSUME NEW now, NEW updates, NEW ns, NEW objects, Fit(objects), NEW m \in Nodes,
           NEW g \in Fields, <<Mirror[g], m>> \notin updates
    PROVE  Updated(now, updates, ns, objects)[m][g] = objects[m][g]
BY MirrorFacts DEF Updated, Rebuilt

LEMMA UpdatedList ==
    ASSUME NEW now, NEW updates, NEW ns, NEW objects, Fit(objects), NEW m \in Nodes,
           NEW g \in Fields, <<Mirror[g], m>> \in updates
    PROVE  Updated(now, updates, ns, objects)[m][g] = ReferringTo(now, Mirror[g], m, ns)
BY MirrorFacts DEF Updated, Rebuilt

(* It never updates the first node. *)
LEMMA FirstIsLeft ==
    ASSUME TypeOK, NEW now, Fit(now), NEW n \in Nodes, NEW touched,
           NEW x \in Updates(now, n, touched)
    PROVE  /\ x[1] \in FieldsOf(n) /\ x[1] \in Fields /\ x[2] \in Nodes
           /\ x[2] # First(n) /\ x[2] \in Moved(now, n, x[1])
           /\ ~touched /\ n \notin processed
           /\ x = <<x[1], x[2]>>
BY FieldsOfFacts DEF Updates, ToUpdate

LEMMA NewFrameFacts ==
    ASSUME TypeInvariant, NEW now, Fit(now), NEW u \in Users, NEW n \in Nodes,
           NEW touched, NEW ns \in SUBSET Nodes,
           NEW r \in ToResave(Before(now, n), After(now, u, n, touched, ns))
    PROVE  /\ r \in Resaves /\ r.node \in Nodes /\ r.cached
           /\ r.node # First(n)
           /\ \E f \in Fields : <<f, r.node>> \in Updates(now, n, touched)
<1> DEFINE before == Before(now, n)
           after == After(now, u, n, touched, ns)
<1>1. r \in Resaves /\ r.node \in Nodes /\ r.cached
  BY ToResaveType DEF Resaves
<1>2. PICK g \in Fields : after[r.node][g] # before[r.node][g]
  BY ToResaveType
<1>3. Fit(before)
  BY PendingFacts, BeforeFits
<1>4. <<Mirror[g], r.node>> \in Updates(now, n, touched)
  BY <1>1, <1>2, <1>3, UpdatedOnly DEF After
<1>5. Mirror[g] \in Fields
  BY MirrorFacts
<1>6. r.node # First(n)
  <2> DEFINE x == <<Mirror[g], r.node>>
  <2>1. x[2] # First(n)
    <3>1. x \in Updates(now, n, touched)
      BY <1>4
    <3> HIDE DEF x
    <3> QED BY <3>1, FirstIsLeft DEF TypeInvariant
  <2> QED BY <2>1
<1> QED BY <1>1, <1>4, <1>5, <1>6

LEMMA InitEditInvariant == Init => EditInvariant
<1> SUFFICES ASSUME Init PROVE EditInvariant
  OBVIOUS
<1>1. pending = <<>>
  BY DEF Init
<1> QED BY <1>1, InitTypeInvariant
       DEF Init, EditInvariant, RequestInvariant, FirstInvariant, NoEdit, Positions

LEMMA NextEditInvariant == EditInvariant /\ [Next]_vars => EditInvariant'
<1> SUFFICES ASSUME EditInvariant, [Next]_vars
             PROVE  RequestInvariant' /\ FirstInvariant'
  BY NextTypeInvariant DEF EditInvariant
<1>1. TypeInvariant /\ TypeOK /\ Fit(refs)
  BY PendingFacts DEF EditInvariant, TypeInvariant
<1>2. None \notin Nodes
  BY CrossReferencesAssumption
<1>3. ASSUME NEW r, Resave(r) PROVE RequestInvariant' /\ FirstInvariant'
  <2>1. /\ 1 \in Positions /\ r \in Todo(1) /\ r.node \in Nodes
        /\ refs' = [refs EXCEPT ![r.node] = Object(r)]
        /\ Fit(refs')
        /\ cache' = After(refs', user, r.node, NotTouched, live \ rowless)
        /\ processed' = processed \cup {r.node}
        /\ original' = First(r.node)
        /\ user \in Users /\ live \ rowless \in SUBSET Nodes
        /\ edited' = edited
    BY <1>1, <1>3, ResaveFacts
  <2>2. original # None /\ r.node # original /\ original' = original
    BY <1>1, <2>1, PendingFacts
       DEF EditInvariant, RequestInvariant, FirstInvariant, First
  <2>3. ASSUME NEW k \in Positions', NEW s \in Todo(k)'
        PROVE  s.node # original'
    <3>1. CASE k = 1
      <4>1. Todo(1)' = ToResave(Before(refs', r.node),
                               After(refs', user, r.node, NotTouched, live \ rowless))
        BY <1>1, <1>3, ResaveTop
      <4>2. s \in ToResave(Before(refs', r.node),
                           After(refs', user, r.node, NotTouched, live \ rowless))
        BY <2>3, <3>1, <4>1
      <4> QED BY <1>1, <2>1, <4>2, NewFrameFacts
    <3>2. CASE k # 1
      <4>1. k - 1 \in Positions
        BY <1>1, <1>3, <3>2, ResaveBelow
      <4>2. \E q \in Todo(k - 1) : s.node = q.node
        BY <1>1, <1>3, <2>3, <3>2, ResaveBelow DEF Become
      <4> QED BY <2>2, <4>1, <4>2 DEF EditInvariant, FirstInvariant
    <3> QED BY <3>1, <3>2
  <2>4. edited.first => edited.node = original' /\ refs'[edited.node] = edited.lists
    BY <1>1, <2>1, <2>2 DEF EditInvariant, FirstInvariant, TypeOK
  <2> QED BY <1>2, <2>1, <2>2, <2>3, <2>4
         DEF EditInvariant, RequestInvariant, FirstInvariant
<1>4. ASSUME NEW u \in Users, NEW n \in Nodes, NEW touched \in BOOLEAN,
             NEW lists \in ListsOf(n), Save(u, n, lists, touched)
      PROVE  RequestInvariant' /\ FirstInvariant'
  <2>1. /\ live \in SUBSET Nodes
        /\ refs' = [refs EXCEPT ![n] = lists]
        /\ Fit(refs')
        /\ cache' = After(refs', u, n, touched, live)
        /\ processed' = processed \cup {n}
        /\ original' = First(n)
        /\ Positions' = {1}
        /\ Todo(1)' = ToResave(Before(refs', n), After(refs', u, n, touched, live))
    BY <1>1, <1>4, SaveFacts
  <2>2. edited' = [node |-> n, lists |-> lists, first |-> original = None]
    BY <1>4 DEF Save
  <2>3. original' # None
    BY <1>2, <2>1 DEF First
  <2>4. ASSUME NEW k \in Positions', NEW s \in Todo(k)'
        PROVE  s.node # original'
    <3>1. s \in ToResave(Before(refs', n), After(refs', u, n, touched, live))
      BY <2>1, <2>4
    <3> QED BY <1>1, <2>1, <3>1, NewFrameFacts
  <2>5. edited'.first => edited'.node = original' /\ refs'[edited'.node] = edited'.lists
    <3>1. edited'.first => original = None
      BY <2>2
    <3> QED BY <1>1, <2>1, <2>2, <3>1 DEF First, TypeOK
  <2>6. edited'.node \in processed'
    BY <2>1, <2>2
  <2> QED BY <2>3, <2>4, <2>5, <2>6 DEF RequestInvariant, FirstInvariant
<1>5. CASE Return
  <2>1. \A k \in Positions' : k + 1 \in Positions /\ pending'[k] = pending[k + 1]
    BY <1>1, <1>5, ReturnFacts
  <2>2. UNCHANGED <<refs, original, processed, edited>> /\ pending # <<>>
    BY <1>5 DEF Return
  <2>3. (\A k \in Positions : \A r \in Todo(k) : r.node # original)'
    BY <2>1, <2>2 DEF EditInvariant, FirstInvariant, Todo
  <2> QED BY <2>2, <2>3 DEF EditInvariant, RequestInvariant, FirstInvariant
<1>6. CASE EndRequest
  <2>1. Positions' = {}
    BY <1>1, <1>6, PendingFacts DEF EndRequest, Positions
  <2> QED BY <1>6, <2>1 DEF EndRequest, RequestInvariant, FirstInvariant, NoEdit
<1>7. CASE UNCHANGED vars
  BY <1>7 DEF vars, EditInvariant, RequestInvariant, FirstInvariant, Positions, Todo
<1> QED BY <1>3, <1>4, <1>5, <1>6, <1>7 DEF Next, Resaving

(* The first node a request saves keeps the lists its user gave it: no hook
   holds it, at whatever depth, because none updates it. *)
THEOREM FirstEditIsKept == Spec => []EditIsKept
<1>1. EditInvariant => EditIsKept
  BY DEF EditInvariant, FirstInvariant, EditIsKept
<1> QED BY <1>1, InitEditInvariant, NextEditInvariant, PTL DEF Spec

------------------------------------------------------------------------------
(* Links. *)

Back(x) == <<x[3], Mirror[x[2]], x[1]>>

LEMMA LinkFacts ==
    ASSUME NEW x \in Links
    PROVE  /\ x[1] \in Nodes /\ x[2] \in Fields /\ x[3] \in Nodes
           /\ x[3] \in Targets(x[1], x[2])
           /\ x[1] # x[3] /\ x[2] \in FieldsOf(x[1])
           /\ x = <<x[1], x[2], x[3]>>
           /\ Mirror[x[2]] \in Fields /\ Mirror[Mirror[x[2]]] = x[2]
           /\ Back(x) \in Links /\ Back(Back(x)) = x
           /\ Back(x)[1] = x[3] /\ Back(x)[2] = Mirror[x[2]] /\ Back(x)[3] = x[1]
<1>1. /\ x[1] \in Nodes /\ x[2] \in Fields /\ x[3] \in Nodes
      /\ x[3] \in Targets(x[1], x[2]) /\ x = <<x[1], x[2], x[3]>>
  BY DEF Links
<1>2. x[1] # x[3] /\ x[2] \in FieldsOf(x[1]) /\ x[1] \in Targets(x[3], Mirror[x[2]])
  BY <1>1, TargetFacts
<1>3. Mirror[x[2]] \in Fields /\ Mirror[Mirror[x[2]]] = x[2]
  BY <1>1, MirrorFacts
<1>4. Back(x) \in Links
  BY <1>1, <1>2, <1>3 DEF Back, Links
<1> QED BY <1>1, <1>2, <1>3, <1>4 DEF Back

(* Both ends of a link are excused together. *)
LEMMA BothEndsBack ==
    ASSUME NEW n \in Nodes, NEW f \in Fields, NEW ms, NEW x \in BothEnds(n, f, ms)
    PROVE  Back(x) \in BothEnds(n, f, ms)
BY MirrorFacts DEF BothEnds, Back

(* What Missed is made of. *)
LeftAlone(now, n, f, touched) ==
    {m \in Moved(now, n, f) :
        /\ (m \in now[n][f]) # (n \in now[m][Mirror[f]])
        /\ n \in processed \/ touched \/ m = original}

Overruled(now, u, f, m, ns) ==
    ReferringTo(now, f, m, Nodes \ Visible(u, ns))
    \cup ({x \in SymmetricDiff(cache[m][Mirror[f]], refs[m][Mirror[f]]) : Held(m)}
            \cap SymmetricDiff(cache[m][Mirror[f]],
                               ReferringTo(now, f, m, Visible(u, ns))))

LEMMA MissedParts ==
    ASSUME NEW now, NEW u, NEW n, NEW touched, NEW ns
    PROVE  Missed(now, u, n, touched, ns) =
             (UNION {BothEnds(n, f, LeftAlone(now, n, f, touched)) : f \in FieldsOf(n)})
             \cup UNION {BothEnds(x[2], Mirror[x[1]], Overruled(now, u, x[1], x[2], ns)) :
                           x \in Updates(now, n, touched)}
BY DEF Missed, LeftAlone, Overruled

LEMMA MissedBack ==
    ASSUME TypeOK, NEW now, Fit(now), NEW u \in Users, NEW n \in Nodes, NEW touched,
           NEW ns \in SUBSET Nodes, NEW x \in Missed(now, u, n, touched, ns)
    PROVE  Back(x) \in Missed(now, u, n, touched, ns)
<1>1. CASE \E f \in FieldsOf(n) : x \in BothEnds(n, f, LeftAlone(now, n, f, touched))
  <2>1. PICK f \in FieldsOf(n) : x \in BothEnds(n, f, LeftAlone(now, n, f, touched))
    BY <1>1
  <2>2. Back(x) \in BothEnds(n, f, LeftAlone(now, n, f, touched))
    BY <2>1, FieldsOfFacts, BothEndsBack
  <2> QED BY <2>2, MissedParts
<1>2. CASE \E y \in Updates(now, n, touched) :
              x \in BothEnds(y[2], Mirror[y[1]], Overruled(now, u, y[1], y[2], ns))
  <2>1. PICK y \in Updates(now, n, touched) :
              x \in BothEnds(y[2], Mirror[y[1]], Overruled(now, u, y[1], y[2], ns))
    BY <1>2
  <2>2. y[2] \in Nodes /\ Mirror[y[1]] \in Fields
    BY FirstIsLeft, MirrorFacts
  <2>3. Back(x) \in BothEnds(y[2], Mirror[y[1]], Overruled(now, u, y[1], y[2], ns))
    BY <2>1, <2>2, BothEndsBack
  <2> QED BY <2>3, MissedParts
<1> QED BY <1>1, <1>2, MissedParts

(* A link that moved on one side is excused when the hook does not follow it. *)
LEMMA LeftIsMissed ==
    ASSUME NEW now, NEW u, NEW touched, NEW ns, NEW x \in Links,
           x \notin Missed(now, u, x[1], touched, ns),
           x[3] \in Moved(now, x[1], x[2]),
           (x[3] \in now[x[1]][x[2]]) # (x[1] \in now[x[3]][Mirror[x[2]]])
    PROVE  x[1] \notin processed /\ ~touched /\ x[3] # original
<1> SUFFICES ASSUME x[1] \in processed \/ touched \/ x[3] = original
             PROVE  x \in Missed(now, u, x[1], touched, ns)
  OBVIOUS
<1>1. x[3] \in LeftAlone(now, x[1], x[2], touched)
  BY DEF LeftAlone
<1>2. x \in BothEnds(x[1], x[2], LeftAlone(now, x[1], x[2], touched))
  BY <1>1, LinkFacts DEF BothEnds
<1>3. x[2] \in FieldsOf(x[1])
  BY LinkFacts
<1> QED BY <1>2, <1>3, MissedParts

(* The hook of n rebuilds what other nodes name of them, as the database has it,
   and takes back nothing that a hook further out holds: but for links it is
   known to miss. *)
LEMMA RebuiltRight ==
    ASSUME NEW now, NEW u, NEW n, NEW touched, NEW ns \in SUBSET Nodes,
           Fit(cache), Fit(refs), NEW objects, Fit(objects), Fit(now), NEW x \in Links,
           x \notin Missed(now, u, n, touched, ns),
           <<Mirror[x[2]], x[1]>> \in Updates(now, n, touched)
    PROVE  LET after == Updated(now, Updates(now, n, touched), Visible(u, ns), objects)
           IN  /\ x[3] \in after[x[1]][x[2]] <=> x[1] \in now[x[3]][Mirror[x[2]]]
               /\ /\ Held(x[1])
                  /\ (x[3] \in cache[x[1]][x[2]]) # (x[3] \in refs[x[1]][x[2]])
                  => (x[3] \in after[x[1]][x[2]] <=> x[3] \in cache[x[1]][x[2]])
<1> DEFINE after == Updated(now, Updates(now, n, touched), Visible(u, ns), objects)
           f == Mirror[x[2]]
           y == <<f, x[1]>>
<1>1. /\ x[1] \in Nodes /\ x[2] \in Fields /\ x[3] \in Nodes
      /\ x = <<x[1], x[2], x[3]>> /\ f \in Fields /\ Mirror[f] = x[2]
  BY LinkFacts
<1>2. after[x[1]][x[2]] = ReferringTo(now, f, x[1], Visible(u, ns))
  BY <1>1, UpdatedList
<1>3. x[3] \notin Overruled(now, u, f, x[1], ns)
  <2>1. SUFFICES ASSUME x[3] \in Overruled(now, u, f, x[1], ns)
                 PROVE  x \in Missed(now, u, n, touched, ns)
    OBVIOUS
  <2>2. x \in BothEnds(x[1], x[2], Overruled(now, u, f, x[1], ns))
    BY <1>1, <2>1 DEF BothEnds
  <2>3. x \in BothEnds(y[2], Mirror[y[1]], Overruled(now, u, y[1], y[2], ns))
    BY <1>1, <2>2
  <2> HIDE DEF y
  <2>4. y \in Updates(now, n, touched)
    BY DEF y
  <2> QED BY <2>3, <2>4, MissedParts
<1>4. x[3] \in after[x[1]][x[2]] <=> x[1] \in now[x[3]][Mirror[x[2]]]
  BY <1>1, <1>2, <1>3 DEF Overruled, ReferringTo
<1>5. ASSUME Held(x[1]), (x[3] \in cache[x[1]][x[2]]) # (x[3] \in refs[x[1]][x[2]])
      PROVE  x[3] \in after[x[1]][x[2]] <=> x[3] \in cache[x[1]][x[2]]
  BY <1>1, <1>2, <1>3, <1>5 DEF Overruled, SymmetricDiff
<1> QED BY <1>4, <1>5

(* The cache of a link after the hook of n: rebuilt, or what it was, or what the
   node being saved is loaded with. *)
IsRebuilt(now, n, touched, x) == <<Mirror[x[2]], x[1]>> \in Updates(now, n, touched)

CacheFollows(now, n, touched, x, after) ==
    /\ IsRebuilt(now, n, touched, x) =>
         /\ x[1] # n
         /\ x[3] \in after[x[1]][x[2]] <=> x[1] \in now[x[3]][Mirror[x[2]]]
         /\ /\ Held(x[1])
            /\ (x[3] \in cache[x[1]][x[2]]) # (x[3] \in refs[x[1]][x[2]])
            => (x[3] \in after[x[1]][x[2]] <=> x[3] \in cache[x[1]][x[2]])
    /\ ~IsRebuilt(now, n, touched, x) /\ x[1] # n =>
         after[x[1]][x[2]] = cache[x[1]][x[2]]
    /\ x[1] = n => \/ after[x[1]][x[2]] = refs[x[1]][x[2]]
                   \/ after[x[1]][x[2]] = now[x[1]][x[2]]

LEMMA CacheOfLink ==
    ASSUME TypeInvariant, NEW now, Fit(now), NEW u, NEW n \in Nodes, NEW touched,
           NEW ns \in SUBSET Nodes, NEW x \in Links,
           x \notin Missed(now, u, n, touched, ns)
    PROVE  CacheFollows(now, n, touched, x, After(now, u, n, touched, ns))
<1> DEFINE after == After(now, u, n, touched, ns)
           before == Before(now, n)
<1>1. Fit(cache) /\ Fit(refs)
  BY PendingFacts
<1>2. Fit(before)
  BY <1>1, BeforeFits
<1>3. /\ x[1] \in Nodes /\ x[2] \in Fields /\ x[3] \in Nodes
      /\ Mirror[x[2]] \in Fields
  BY LinkFacts
<1>4. ASSUME IsRebuilt(now, n, touched, x)
      PROVE  x[1] # n
  <2> DEFINE y == <<Mirror[x[2]], x[1]>>
  <2>1. y \in Updates(now, n, touched)
    BY <1>4 DEF IsRebuilt
  <2>2. y[1] = Mirror[x[2]] /\ y[2] = x[1]
    OBVIOUS
  <2> HIDE DEF y
  <2>3. x[1] \in Moved(now, n, Mirror[x[2]])
    BY <2>1, <2>2, FirstIsLeft DEF TypeInvariant
  <2>4. x[1] \in Targets(n, Mirror[x[2]])
    BY <1>1, <1>3, <2>3 DEF Moved, SymmetricDiff, Fit, ListsOf
  <2> QED BY <1>3, <2>4, TargetFacts
<1>5. ASSUME ~IsRebuilt(now, n, touched, x)
      PROVE  after[x[1]][x[2]] = before[x[1]][x[2]]
  BY <1>2, <1>3, <1>5, UpdatedOnly DEF IsRebuilt, After
<1>6. x[1] # n => before[x[1]] = cache[x[1]]
  BY <1>1, <1>3 DEF Before, Loaded, Fit
<1>7. x[1] = n => before[x[1]] = refs[x[1]] \/ before[x[1]] = now[x[1]]
  BY <1>1, <1>3 DEF Before, Loaded, Fit
<1>8. ASSUME IsRebuilt(now, n, touched, x)
      PROVE  /\ x[3] \in after[x[1]][x[2]] <=> x[1] \in now[x[3]][Mirror[x[2]]]
             /\ /\ Held(x[1])
                /\ (x[3] \in cache[x[1]][x[2]]) # (x[3] \in refs[x[1]][x[2]])
                => (x[3] \in after[x[1]][x[2]] <=> x[3] \in cache[x[1]][x[2]])
  <2>1. <<Mirror[x[2]], x[1]>> \in Updates(now, n, touched)
    BY <1>8 DEF IsRebuilt
  <2> QED BY <1>1, <1>2, <2>1, RebuiltRight DEF After
<1> HIDE DEF after, before
<1>9. x[1] = n => ~IsRebuilt(now, n, touched, x)
  BY <1>4
<1>10. x[1] = n => \/ after[x[1]][x[2]] = refs[x[1]][x[2]]
                   \/ after[x[1]][x[2]] = now[x[1]][x[2]]
  BY <1>5, <1>7, <1>9
<1>11. ~IsRebuilt(now, n, touched, x) /\ x[1] # n =>
         after[x[1]][x[2]] = cache[x[1]][x[2]]
  BY <1>5, <1>6
<1>12. CacheFollows(now, n, touched, x, after)
  BY <1>4, <1>8, <1>10, <1>11 DEF CacheFollows
<1> QED BY <1>12 DEF after

(* A node whose lists the hook changes is one the hook will save. *)
LEMMA ChangedIsListed ==
    ASSUME TypeInvariant, NEW now, Fit(now), NEW u \in Users, NEW n \in Nodes, NEW touched,
           NEW ns \in SUBSET Nodes, NEW m \in Nodes, m # n,
           After(now, u, n, touched, ns)[m] # cache[m]
    PROVE  \E r \in ToResave(Before(now, n), After(now, u, n, touched, ns)) :
              r.node = m /\ r.cached
<1> DEFINE after == After(now, u, n, touched, ns)
           before == Before(now, n)
<1>1. Fit(cache) /\ Fit(before)
  BY PendingFacts, BeforeFits
<1>2. Fit(after)
  BY <1>1, UpdatedFits, VisibleFacts DEF After
<1>3. before[m] = cache[m]
  BY <1>1 DEF Before, Loaded, Fit
<1>4. before[m] \in Lists /\ after[m] \in Lists
  BY <1>1, <1>2 DEF Fit
<1> HIDE DEF before, after
<1>5. \E f \in Fields : after[m][f] # before[m][f]
  BY <1>3, <1>4 DEF Lists, after
<1>6. ~(\A r \in ToResave(before, after) : r.node # m)
  BY <1>5, ToResaveType
<1>7. \A r \in ToResave(before, after) : r.cached
  BY ToResaveType
<1> QED BY <1>6, <1>7 DEF before, after

------------------------------------------------------------------------------
(* The lists of users. *)

Stored(x) == x[3] \in refs[x[1]][x[2]] <=> x \in intent
Cached(x) == x[3] \in cache[x[1]][x[2]] <=> x \in intent

(* Every object a hook holds of the node has the link right. *)
Ready(x) ==
    \A k \in Positions : \A r \in Todo(k) :
        r.node = x[1] => (x[3] \in Object(r)[x[2]] <=> x \in intent)
Correct(x) == Cached(x) /\ Ready(x)

(* The other end of a link of the node the user saved last: it is right at both
   ends, or its node is still to be saved, or the hook of its node has put it
   right in the edited node, which is still to be saved. *)
Settled(x) ==
    /\ Stored(x) /\ Stored(Back(x))
    /\ x[1] \notin processed => Correct(x) /\ Correct(Back(x))

Due(x) ==
    /\ ~Stored(x) /\ Cached(x)
    /\ \E k \in Positions : \E r \in Todo(k) : r.node = x[1]
    /\ \A k \in Positions : \A r \in Todo(k) : r.node = x[1] => r.cached

Followed(x) ==
    /\ x[1] \in processed
    /\ ~Stored(Back(x)) /\ Cached(Back(x))
    /\ Held(x[3])

LinkInvariant ==
    \A x \in Links \ excused :
        /\ x[1] # edited.node /\ x[3] # edited.node => Stored(x) /\ Correct(x)
        /\ x[3] = edited.node => Settled(x) \/ Due(x) \/ Followed(x)

Symmetric ==
    \A x \in Links : /\ x \in intent => Back(x) \in intent
                     /\ x \in excused => Back(x) \in excused

(* What holds the object in the cache is further in than what has lost it, and
   not further in than a save of that node. *)
StackInvariant ==
    /\ \A k, l \in Positions : \A r \in Todo(k), s \in Todo(l) :
          k <= l /\ r.node = s.node /\ s.cached => r.cached
    /\ \A k, l \in Positions : \A s \in Todo(l) :
          k <= l /\ s.cached => s.node # pending[k].of

(* The cache has other lists than the database only of nodes that hooks hold, or
   that are being saved. *)
CacheInvariant ==
    \A m \in Nodes : \/ cache[m] = refs[m]
                     \/ Held(m)
                     \/ \E k \in Positions : pending[k].of = m

EditedInvariant ==
    edited.node # None =>
        \/ Held(edited.node)
        \/ cache[edited.node] = refs[edited.node]
        \/ 1 \in Positions /\ pending[1].of = edited.node /\ Todo(1) = {}
        \/ \A x \in Links \ excused : x[1] = edited.node => Stored(x)

UsersInvariant ==
    /\ EditInvariant
    /\ StackInvariant
    /\ Symmetric
    /\ CacheInvariant
    /\ EditedInvariant
    /\ LinkInvariant

LEMMA HeldFacts ==
    ASSUME NEW m
    PROVE  Held(m) <=> \E k \in Positions : \E r \in Todo(k) : r.node = m /\ r.cached
BY DEF Held, Positions, Todo

LEMMA SymmetricFacts ==
    ASSUME Symmetric, NEW x \in Links
    PROVE  /\ x \in intent <=> Back(x) \in intent
           /\ x \in excused <=> Back(x) \in excused
BY LinkFacts DEF Symmetric

(* When no hook runs, all links are stored, and the cache is as the database. *)
LEMMA QuietFacts ==
    ASSUME UsersInvariant, pending = <<>>
    PROVE  /\ \A x \in Links \ excused : Stored(x)
           /\ cache = refs
<1>1. Positions = {} /\ Fit(cache) /\ Fit(refs)
  BY PendingFacts DEF UsersInvariant, EditInvariant
<1>2. \A m : ~Held(m)
  BY <1>1, HeldFacts
<1>3. cache = refs
  <2>1. \A m \in Nodes : cache[m] = refs[m]
    BY <1>1, <1>2 DEF UsersInvariant, CacheInvariant
  <2> QED BY <1>1, <2>1 DEF Fit
<1>4. ASSUME NEW x \in Links \ excused, x[3] = edited.node
      PROVE  Stored(x) /\ Stored(Back(x))
  BY <1>1, <1>2, <1>4 DEF UsersInvariant, LinkInvariant, Settled, Due, Followed
<1>5. ASSUME NEW x \in Links \ excused
      PROVE  Stored(x)
  <2>1. Back(x) \in Links \ excused
    BY SymmetricFacts, LinkFacts DEF UsersInvariant
  <2>2. CASE x[3] = edited.node
    BY <1>4, <2>2
  <2>3. CASE x[1] = edited.node
    <3>1. Back(x)[3] = edited.node /\ Back(Back(x)) = x
      BY <2>3, LinkFacts
    <3> QED BY <1>4, <2>1, <3>1
  <2>4. CASE x[1] # edited.node /\ x[3] # edited.node
    BY <2>4 DEF UsersInvariant, LinkInvariant
  <2> QED BY <2>2, <2>3, <2>4
<1> QED BY <1>3, <1>5

LEMMA InitUsersInvariant == Init => UsersInvariant
<1> SUFFICES ASSUME Init PROVE UsersInvariant
  OBVIOUS
<1>1. EditInvariant
  BY InitEditInvariant
<1>2. Positions = {}
  BY <1>1, PendingFacts DEF Init, EditInvariant
<1>3. StackInvariant /\ Symmetric /\ CacheInvariant
  BY <1>2 DEF Init, StackInvariant, Symmetric, CacheInvariant
<1>4. edited.node = None /\ None \notin Nodes
  BY CrossReferencesAssumption DEF Init, NoEdit
<1>5. EditedInvariant
  BY <1>4 DEF EditedInvariant
<1>6. ASSUME NEW x \in Links
      PROVE  Stored(x) /\ Correct(x) /\ x[3] # edited.node
  <2>1. refs[x[1]][x[2]] = {} /\ cache[x[1]][x[2]] = {}
    BY LinkFacts DEF Init, NoLists
  <2> QED BY <1>2, <1>4, <2>1, LinkFacts DEF Init, Stored, Correct, Cached, Ready
<1>7. LinkInvariant
  BY <1>6 DEF LinkInvariant
<1> QED BY <1>1, <1>3, <1>5, <1>7 DEF UsersInvariant

(* The request ends: nothing changes but the cache, which is what it was. *)
LEMMA EndRequestUsers == UsersInvariant /\ EndRequest => UsersInvariant'
<1> SUFFICES ASSUME UsersInvariant, EndRequest PROVE UsersInvariant'
  OBVIOUS
<1>1. EditInvariant'
  BY NextEditInvariant DEF UsersInvariant, Next
<1>2. /\ pending = <<>> /\ UNCHANGED <<pending, refs, intent, excused>>
      /\ edited'.node = None /\ cache' = refs
  BY DEF EndRequest, NoEdit
<1>3. (\A x \in Links \ excused : Stored(x)) /\ cache = refs
  BY <1>2, QuietFacts
<1>4. Positions' = {}
  BY <1>1, <1>2, PendingFacts DEF EditInvariant, Positions
<1>5. StackInvariant' /\ CacheInvariant' /\ Symmetric'
  BY <1>2, <1>3, <1>4 DEF StackInvariant, CacheInvariant, Symmetric, UsersInvariant
<1>6. None \notin Nodes
  BY CrossReferencesAssumption
<1>7. EditedInvariant'
  BY <1>2 DEF EditedInvariant
<1>8. ASSUME NEW x \in Links \ excused'
      PROVE  Stored(x)' /\ Correct(x)' /\ x[3] # edited'.node
  <2>1. Stored(x)
    BY <1>2, <1>3
  <2> QED BY <1>2, <1>4, <1>6, <2>1, LinkFacts DEF Stored, Correct, Cached, Ready
<1>9. LinkInvariant'
  BY <1>8 DEF LinkInvariant
<1> QED BY <1>1, <1>5, <1>7, <1>9 DEF UsersInvariant

(* A node_save() ends: the cache of its node is as the database. *)
LEMMA ReturnUsers == UsersInvariant /\ Return => UsersInvariant'
<1> SUFFICES ASSUME UsersInvariant, Return PROVE UsersInvariant'
  OBVIOUS
<1> DEFINE n == pending[1].of
<1>1. TypeInvariant
  BY DEF UsersInvariant, EditInvariant
<1>2. EditInvariant'
  BY NextEditInvariant DEF UsersInvariant, Next
<1>3. /\ 1 \in Positions /\ Todo(1) = {} /\ n \in Nodes
      /\ cache' = [cache EXCEPT ![n] = refs[n]]
      /\ Len(pending) \in Nat
      /\ Positions' = 1..(Len(pending) - 1) /\ Positions = 1..Len(pending)
  BY <1>1, ReturnFacts, PendingFacts
<1>4. UNCHANGED <<refs, live, user, original, processed, edited, intent, excused>>
  BY DEF Return
<1>5. /\ \A m \in Nodes : m # n => cache'[m] = cache[m]
      /\ cache'[n] = refs[n]
  BY <1>1, <1>3, PendingFacts DEF Fit
<1>6. ASSUME NEW k \in Positions'
      PROVE  /\ k + 1 \in Positions /\ k + 1 # 1
             /\ pending'[k].of = pending[k + 1].of
             /\ Todo(k)' = Todo(k + 1)
  BY <1>1, <1>3, ReturnFacts DEF Todo
<1>7. ASSUME NEW k \in Positions, k # 1
      PROVE  /\ k - 1 \in Positions'
             /\ pending'[k - 1].of = pending[k].of
             /\ Todo(k - 1)' = Todo(k)
  <2>1. k - 1 \in Positions' /\ (k - 1) + 1 = k
    BY <1>3, <1>7
  <2> QED BY <1>6, <2>1
<1> HIDE DEF n
<1>8. StackInvariant'
  <2>1. ASSUME NEW k \in Positions', NEW l \in Positions', NEW s \in Todo(l)',
               k <= l
        PROVE  /\ \A r \in Todo(k)' : r.node = s.node /\ s.cached => r.cached
               /\ s.cached => s.node # pending'[k].of
    <3>1. /\ k + 1 \in Positions /\ Todo(k)' = Todo(k + 1)
          /\ pending'[k].of = pending[k + 1].of
      BY <1>6
    <3>2. l + 1 \in Positions /\ Todo(l)' = Todo(l + 1)
      BY <1>6
    <3>3. k + 1 <= l + 1
      BY <1>3, <2>1
    <3> QED BY <2>1, <3>1, <3>2, <3>3 DEF UsersInvariant, StackInvariant
  <2> QED BY <2>1 DEF StackInvariant
<1>9. ASSUME NEW m, Held(m)
      PROVE  Held(m)' /\ m # n
  <2>1. PICK k \in Positions : \E r \in Todo(k) : r.node = m /\ r.cached
    BY <1>9, HeldFacts
  <2>2. k # 1 /\ 1 <= k
    BY <1>3, <2>1
  <2>3. k - 1 \in Positions' /\ Todo(k - 1)' = Todo(k)
    BY <1>7, <2>2
  <2>4. Held(m)'
    <3>1. \E j \in Positions' : \E r \in Todo(j)' : r.node = m /\ r.cached
      BY <2>1, <2>3
    <3> QED BY <3>1 DEF Held, Positions, Todo
  <2>5. m # n
    BY <1>3, <2>1, <2>2 DEF UsersInvariant, StackInvariant, n
  <2> QED BY <2>4, <2>5
<1>10. Symmetric'
  BY <1>4 DEF UsersInvariant, Symmetric
<1>11. CacheInvariant'
  <2> SUFFICES ASSUME NEW m \in Nodes
               PROVE  \/ cache'[m] = refs'[m]
                      \/ Held(m)'
                      \/ \E k \in Positions' : pending'[k].of = m
    BY DEF CacheInvariant
  <2>1. CASE m = n
    BY <1>4, <1>5, <2>1
  <2>2. CASE m # n
    <3>1. CASE cache[m] = refs[m]
      BY <1>4, <1>5, <2>2, <3>1
    <3>2. CASE Held(m)
      BY <1>9, <3>2
    <3>3. CASE \E k \in Positions : pending[k].of = m
      BY <1>7, <2>2, <3>3 DEF n
    <3> QED BY <3>1, <3>2, <3>3 DEF UsersInvariant, CacheInvariant
  <2> QED BY <2>1, <2>2
<1>12. ASSUME NEW x \in Links
       PROVE  /\ Stored(x)' <=> Stored(x)
              /\ (x[1] # n => (Cached(x)' <=> Cached(x)))
              /\ (x[1] = n => (Cached(x)' <=> Stored(x)))
  BY <1>4, <1>5, LinkFacts DEF Stored, Cached
<1>13. ASSUME NEW x \in Links, Ready(x), Cached(x)'
       PROVE  Ready(x)'
  <2> SUFFICES ASSUME NEW k \in Positions', NEW r \in Todo(k)', r.node = x[1]
               PROVE  x[3] \in Object(r)'[x[2]] <=> x \in intent'
    BY DEF Ready
  <2>1. k + 1 \in Positions /\ r \in Todo(k + 1)
    BY <1>6
  <2>2. x[3] \in Object(r)[x[2]] <=> x \in intent
    BY <1>13, <2>1 DEF Ready
  <2>3. CASE r.cached
    BY <1>13, <2>3 DEF Object, Cached
  <2>4. CASE ~r.cached
    BY <1>4, <2>2, <2>4 DEF Object
  <2> QED BY <2>3, <2>4
<1>14. ASSUME NEW x \in Links, Stored(x), Correct(x)
       PROVE  Correct(x)'
  BY <1>12, <1>13, <1>14 DEF Correct
<1>15. LinkInvariant'
  <2>1. ASSUME NEW x \in Links \ excused
        PROVE  /\ x[1] # edited.node /\ x[3] # edited.node => Stored(x)' /\ Correct(x)'
               /\ x[3] = edited.node => Settled(x)' \/ Due(x)' \/ Followed(x)'
    <3>1. /\ x[1] # edited.node /\ x[3] # edited.node => Stored(x) /\ Correct(x)
          /\ x[3] = edited.node => Settled(x) \/ Due(x) \/ Followed(x)
      BY DEF UsersInvariant, LinkInvariant
    <3>2. x \in Links /\ Back(x) \in Links /\ Back(x)[1] = x[3]
      BY LinkFacts
    <3>3. CASE x[1] # edited.node /\ x[3] # edited.node
      <4>1. Stored(x) /\ Correct(x)
        BY <3>1, <3>3
      <4> QED BY <1>12, <1>14, <3>2, <3>3, <4>1
    <3>4. ASSUME Settled(x) PROVE Settled(x)'
      BY <1>4, <1>12, <1>14, <3>2, <3>4 DEF Settled
    <3>5. ASSUME Due(x) PROVE Due(x)'
      <4>1. PICK k \in Positions : \E r \in Todo(k) : r.node = x[1]
        BY <3>5 DEF Due
      <4>2. k # 1
        BY <1>3, <4>1
      <4>3. \E j \in Positions' : \E r \in Todo(j)' : r.node = x[1]
        BY <1>7, <4>1, <4>2
      <4>4. \A j \in Positions' : \A r \in Todo(j)' : r.node = x[1] => r.cached
        BY <1>6, <3>5 DEF Due
      <4>5. Held(x[1])
        BY <3>5, <4>1, HeldFacts DEF Due
      <4>6. Cached(x)'
        BY <1>9, <1>12, <3>5, <4>5 DEF Due
      <4>7. ~Stored(x)'
        BY <1>12, <3>5 DEF Due
      <4> QED BY <4>3, <4>4, <4>6, <4>7 DEF Due
    <3>6. ASSUME Followed(x) PROVE Followed(x)'
      <4>1. Held(x[3])' /\ x[3] # n
        BY <1>9, <3>6 DEF Followed
      <4>2. ~Stored(Back(x))' /\ Cached(Back(x))'
        BY <1>12, <3>2, <3>6, <4>1 DEF Followed
      <4> QED BY <1>4, <3>6, <4>1, <4>2 DEF Followed
    <3> QED BY <3>1, <3>3, <3>4, <3>5, <3>6
  <2> QED BY <1>4, <2>1 DEF LinkInvariant
<1>16. EditedInvariant'
  <2> SUFFICES ASSUME NEW e, e = edited.node, e # None
               PROVE  \/ Held(e)'
                      \/ cache'[e] = refs'[e]
                      \/ \A x \in Links \ excused : x[1] = e => Stored(x)'
    BY <1>4 DEF EditedInvariant
  <2>1. e \in Nodes
    BY <1>1 DEF TypeInvariant, TypeOK
  <2>2. CASE Held(e)
    BY <1>9, <2>2
  <2>3. CASE cache[e] = refs[e]
    BY <1>4, <1>5, <2>1, <2>3
  <2>4. CASE n = e
    BY <1>4, <1>5, <2>4
  <2>5. CASE \A x \in Links \ excused : x[1] = e => Stored(x)
    BY <1>12, <2>5
  <2> QED BY <2>2, <2>3, <2>4, <2>5 DEF UsersInvariant, EditedInvariant, n
<1> QED BY <1>2, <1>8, <1>10, <1>11, <1>15, <1>16 DEF UsersInvariant

(* A user saves a node. *)

(* The links of n that are in lists a and not in lists b, from both ends. *)
EndsBetween(n, a, b) == UNION {BothEnds(n, f, a[f] \ b[f]) : f \in Fields}

LEMMA EndsBetweenFacts ==
    ASSUME NEW n \in Nodes, NEW a, NEW b, NEW x \in Links
    PROVE  x \in EndsBetween(n, a, b)
             <=> \/ x[1] = n /\ x[3] \in a[x[2]] \ b[x[2]]
                 \/ x[3] = n /\ x[1] \in a[Mirror[x[2]]] \ b[Mirror[x[2]]]
<1>1. /\ x[1] \in Nodes /\ x[2] \in Fields /\ x[3] \in Nodes
      /\ x = <<x[1], x[2], x[3]>>
      /\ Mirror[x[2]] \in Fields /\ Mirror[Mirror[x[2]]] = x[2]
  BY LinkFacts
<1>2. ASSUME NEW f \in Fields, x \in BothEnds(n, f, a[f] \ b[f])
      PROVE  \/ x[1] = n /\ x[3] \in a[x[2]] \ b[x[2]]
             \/ x[3] = n /\ x[1] \in a[Mirror[x[2]]] \ b[Mirror[x[2]]]
  <2>1. PICK m \in a[f] \ b[f] : x = <<n, f, m>> \/ x = <<m, Mirror[f], n>>
    BY <1>2 DEF BothEnds
  <2>2. Mirror[Mirror[f]] = f
    BY MirrorFacts
  <2> QED BY <2>1, <2>2
<1>3. ASSUME x[1] = n, x[3] \in a[x[2]] \ b[x[2]]
      PROVE  x \in BothEnds(n, x[2], a[x[2]] \ b[x[2]])
  BY <1>1, <1>3 DEF BothEnds
<1>4. ASSUME x[3] = n, x[1] \in a[Mirror[x[2]]] \ b[Mirror[x[2]]]
      PROVE  x \in BothEnds(n, Mirror[x[2]], a[Mirror[x[2]]] \ b[Mirror[x[2]]])
  BY <1>1, <1>4 DEF BothEnds
<1> QED BY <1>1, <1>2, <1>3, <1>4 DEF EndsBetween

(* What the user made of the links that no save has missed is what is stored. *)
LEMMA SaveIntent ==
    ASSUME UsersInvariant, NEW u \in Users, NEW n \in Nodes, NEW touched,
           NEW lists \in ListsOf(n), Save(u, n, lists, touched)
    PROVE  /\ \A x \in Links : x \in intent' => Back(x) \in intent'
           /\ \A x \in Links \ excused :
                /\ x[1] = n => (x \in intent' <=> x[3] \in lists[x[2]])
                /\ x[3] = n => (x \in intent' <=> x[1] \in lists[Mirror[x[2]]])
                /\ x[1] # n /\ x[3] # n => (x \in intent' <=> x \in intent)
<1> DEFINE out == EndsBetween(n, refs[n], lists)
           in == EndsBetween(n, lists, refs[n])
<1>1. intent' = (intent \ out) \cup in /\ pending = <<>>
  BY DEF Save, EndsBetween
<1>2. ASSUME NEW x \in Links
      PROVE  x \in out <=> \/ x[1] = n /\ x[3] \in refs[n][x[2]] \ lists[x[2]]
                           \/ x[3] = n /\ x[1] \in refs[n][Mirror[x[2]]]
                                                     \ lists[Mirror[x[2]]]
  BY EndsBetweenFacts
<1>3. ASSUME NEW x \in Links
      PROVE  x \in in <=> \/ x[1] = n /\ x[3] \in lists[x[2]] \ refs[n][x[2]]
                          \/ x[3] = n /\ x[1] \in lists[Mirror[x[2]]]
                                                    \ refs[n][Mirror[x[2]]]
  BY EndsBetweenFacts
<1> HIDE DEF out, in
<1>4. ASSUME NEW x \in Links
      PROVE  (x \in out <=> Back(x) \in out) /\ (x \in in <=> Back(x) \in in)
  <2>1. /\ Back(x) \in Links /\ Mirror[Mirror[x[2]]] = x[2]
        /\ Back(x)[1] = x[3] /\ Back(x)[2] = Mirror[x[2]] /\ Back(x)[3] = x[1]
    BY LinkFacts
  <2> QED BY <1>2, <1>3, <2>1
<1>5. \A x \in Links : x \in intent' => Back(x) \in intent'
  BY <1>1, <1>4, SymmetricFacts DEF UsersInvariant
<1>6. ASSUME NEW x \in Links \ excused
      PROVE  /\ x[1] = n => (x \in intent' <=> x[3] \in lists[x[2]])
             /\ x[3] = n => (x \in intent' <=> x[1] \in lists[Mirror[x[2]]])
             /\ x[1] # n /\ x[3] # n => (x \in intent' <=> x \in intent)
  <2>1. /\ x \in Links /\ Back(x) \in Links /\ Mirror[Mirror[x[2]]] = x[2]
        /\ Back(x)[1] = x[3] /\ Back(x)[2] = Mirror[x[2]] /\ Back(x)[3] = x[1]
        /\ x[1] # x[3]
    BY LinkFacts
  <2>2. Back(x) \notin excused /\ (x \in intent <=> Back(x) \in intent)
    BY <2>1, SymmetricFacts DEF UsersInvariant
  <2>3. Stored(x) /\ Stored(Back(x))
    BY <1>1, <2>1, <2>2, QuietFacts
  <2>4. x[1] = n => (x \in intent <=> x[3] \in refs[n][x[2]])
    BY <2>3 DEF Stored
  <2>5. x[3] = n => (x \in intent <=> x[1] \in refs[n][Mirror[x[2]]])
    BY <2>1, <2>2, <2>3 DEF Stored
  <2> QED BY <1>1, <1>2, <1>3, <2>1, <2>4, <2>5
<1> QED BY <1>5, <1>6

(* A hook does not save the node it is the hook of. *)
LEMMA NewFrameOthers ==
    ASSUME TypeInvariant, NEW now, Fit(now), NEW u \in Users, NEW n \in Nodes,
           NEW touched, NEW ns \in SUBSET Nodes,
           NEW r \in ToResave(Before(now, n), After(now, u, n, touched, ns))
    PROVE  r.node # n
<1>1. PICK f \in Fields : <<f, r.node>> \in Updates(now, n, touched)
  BY NewFrameFacts
<1> DEFINE y == <<f, r.node>>
<1>2. y \in Updates(now, n, touched) /\ y[1] = f /\ y[2] = r.node
  BY <1>1
<1> HIDE DEF y
<1>3. r.node \in Moved(now, n, f) /\ r.node \in Nodes
  BY <1>2, FirstIsLeft DEF TypeInvariant
<1>4. Fit(refs)
  BY PendingFacts
<1>5. r.node \in Targets(n, f)
  BY <1>3, <1>4 DEF Moved, SymmetricDiff, Fit, ListsOf
<1> QED BY <1>3, <1>5, TargetFacts

LEMMA SaveUsers ==
    ASSUME UsersInvariant, NEW u \in Users, NEW n \in Nodes, NEW touched \in BOOLEAN,
           NEW lists \in ListsOf(n), Save(u, n, lists, touched)
    PROVE  UsersInvariant'
<1>1. TypeInvariant /\ TypeOK /\ RequestInvariant
  BY DEF UsersInvariant, EditInvariant, TypeInvariant
<1>2. EditInvariant'
  BY NextEditInvariant DEF UsersInvariant, Next
<1> DEFINE ns == live
           missed == Missed(refs', u, n, touched, live)
           rebuilt(x) == IsRebuilt(refs', n, touched, x)
<1>3. /\ pending = <<>>
      /\ live \in SUBSET Nodes
      /\ refs' = [refs EXCEPT ![n] = lists]
      /\ Fit(refs')
      /\ cache' = After(refs', u, n, touched, live)
      /\ Fit(cache')
      /\ processed' = processed \cup {n}
      /\ original' = First(n)
      /\ excused' = excused \cup missed
      /\ Positions' = {1}
      /\ pending'[1].of = n
      /\ Todo(1)' = ToResave(Before(refs', n), After(refs', u, n, touched, live))
  BY <1>1, SaveFacts
<1>4. edited'.node = n
  BY DEF Save
<1>5. /\ refs'[n] = lists
      /\ \A m \in Nodes : m # n => refs'[m] = refs[m]
  BY <1>1, <1>3 DEF TypeOK
<1>6. cache = refs /\ \A x \in Links \ excused : Stored(x)
  BY <1>3, QuietFacts
<1>7. ASSUME NEW k \in Positions', NEW r \in Todo(k)'
      PROVE  k = 1 /\ r.cached /\ r.node # n
  <2>1. k = 1 /\ r \in ToResave(Before(refs', n), After(refs', u, n, touched, live))
    BY <1>3, <1>7
  <2>2. r.cached
    BY <1>1, <1>3, <2>1, NewFrameFacts
  <2>3. r.node # n
    BY <1>1, <1>3, <2>1, NewFrameOthers
  <2> QED BY <2>1, <2>2, <2>3
<1>8. StackInvariant'
  BY <1>3, <1>7 DEF StackInvariant
<1>9. Symmetric'
  <2>1. ASSUME NEW x \in Links, x \in missed PROVE Back(x) \in missed
    BY <1>1, <1>3, <2>1, MissedBack
  <2> HIDE DEF missed
  <2>2. \A x \in Links : x \in intent' => Back(x) \in intent'
    BY SaveIntent
  <2> QED BY <1>3, <2>1, <2>2 DEF UsersInvariant, Symmetric
<1>10. ASSUME NEW m \in Nodes, m # n, cache'[m] # cache[m]
       PROVE  Held(m)'
  <2>1. \E r \in Todo(1)' : r.node = m /\ r.cached
    BY <1>1, <1>3, <1>10, ChangedIsListed
  <2>2. \E k \in Positions' : \E r \in Todo(k)' : r.node = m /\ r.cached
    BY <1>3, <2>1
  <2> QED BY <2>2 DEF Held, Positions, Todo
<1>11. CacheInvariant'
  <2> SUFFICES ASSUME NEW m \in Nodes
               PROVE  \/ cache'[m] = refs'[m]
                      \/ Held(m)'
                      \/ \E k \in Positions' : pending'[k].of = m
    BY DEF CacheInvariant
  <2>1. CASE m = n
    BY <1>3, <2>1
  <2>2. CASE m # n
    BY <1>5, <1>6, <1>10, <2>2
  <2> QED BY <2>1, <2>2
<1> HIDE DEF missed, rebuilt
<1>12. ASSUME NEW x \in Links \ excused'
       PROVE  /\ x \in Links \ excused /\ x \notin missed
              /\ x[1] = n => (x \in intent' <=> x[3] \in lists[x[2]])
              /\ x[3] = n => (x \in intent' <=> x[1] \in lists[Mirror[x[2]]])
              /\ x[1] # n /\ x[3] # n => (x \in intent' <=> x \in intent)
  BY <1>3, SaveIntent
<1>13. EditedInvariant'
  <2>1. ASSUME NEW x \in Links \ excused', x[1] = n PROVE Stored(x)'
    BY <1>5, <1>12, <2>1 DEF Stored
  <2> QED BY <1>4, <2>1 DEF EditedInvariant
<1>14. ASSUME NEW x \in Links \ excused', Cached(x)'
       PROVE  Ready(x)'
  BY <1>7, <1>14 DEF Ready, Cached, Object
<1>15. ASSUME NEW x \in Links \ excused'
       PROVE  /\ rebuilt(x) =>
                   /\ x[1] # n
                   /\ x[3] \in cache'[x[1]][x[2]] <=> x[1] \in refs'[x[3]][Mirror[x[2]]]
              /\ ~rebuilt(x) /\ x[1] # n => cache'[x[1]][x[2]] = refs[x[1]][x[2]]
              /\ x[1] = n => \/ cache'[x[1]][x[2]] = refs[x[1]][x[2]]
                             \/ cache'[x[1]][x[2]] = refs'[x[1]][x[2]]
  <2>1. x \in Links /\ x \notin Missed(refs', u, n, touched, live)
    BY <1>12 DEF missed
  <2>2. CacheFollows(refs', n, touched, x, After(refs', u, n, touched, live))
    BY <1>1, <1>3, <2>1, CacheOfLink
  <2>3. CacheFollows(refs', n, touched, x, cache')
    BY <1>3, <2>2
  <2> QED BY <1>6, <2>3 DEF CacheFollows, rebuilt
<1>16. ASSUME NEW x \in Links \ excused', x[1] # n, x[3] # n
       PROVE  Stored(x)' /\ Correct(x)'
  <2>1. /\ x[1] \in Nodes /\ x[3] \in Nodes /\ Back(x) \in Links
        /\ Back(x)[1] = x[3] /\ Back(x)[2] = Mirror[x[2]] /\ Back(x)[3] = x[1]
    BY LinkFacts
  <2>2. Stored(x) /\ Stored(Back(x)) /\ (x \in intent <=> Back(x) \in intent)
    BY <1>6, <1>12, <2>1, SymmetricFacts DEF UsersInvariant
  <2>3. Stored(x)'
    BY <1>5, <1>12, <1>16, <2>1, <2>2 DEF Stored
  <2>4. Cached(x)'
    <3>1. CASE rebuilt(x)
      BY <1>5, <1>12, <1>15, <1>16, <2>1, <2>2, <3>1 DEF Stored, Cached
    <3>2. CASE ~rebuilt(x)
      BY <1>12, <1>15, <1>16, <2>2, <3>2 DEF Stored, Cached
    <3> QED BY <3>1, <3>2
  <2> QED BY <1>14, <2>3, <2>4 DEF Correct
<1>17. ASSUME NEW x \in Links \ excused', x[3] = n
       PROVE  Settled(x)' \/ Due(x)'
  <2> DEFINE f == Mirror[x[2]]
  <2>1. /\ x[1] \in Nodes /\ x[2] \in Fields /\ x[1] # n
        /\ Back(x) \in Links /\ Back(Back(x)) = x /\ Mirror[f] = x[2]
        /\ Back(x)[1] = n /\ Back(x)[2] = f /\ Back(x)[3] = x[1]
        /\ f \in Fields
    BY <1>17, LinkFacts
  <2> HIDE DEF f
  <2>2. Stored(x) /\ Stored(Back(x)) /\ (x \in intent <=> Back(x) \in intent)
    BY <1>6, <1>12, <2>1, SymmetricFacts DEF UsersInvariant
  <2>3. Back(x) \in Links \ excused' /\ (x \in intent' <=> Back(x) \in intent')
    BY <1>9, <2>1 DEF Symmetric
  <2>4. Stored(Back(x))'
    BY <1>5, <1>12, <2>1, <2>3 DEF Stored
  <2>5. CASE x[1] \notin Moved(refs', n, f)
    <3>1. x[1] \in refs'[n][f] <=> x[1] \in refs[n][f]
      BY <2>5 DEF Moved, SymmetricDiff
    <3>2. x \in intent' <=> x \in intent
      BY <1>5, <1>12, <1>17, <2>1, <2>2, <3>1 DEF Stored, f
    <3>3. Stored(x)'
      BY <1>5, <1>17, <2>1, <2>2, <3>2 DEF Stored
    <3>4. ~rebuilt(x)
      <4> DEFINE y == <<f, x[1]>>
      <4>1. SUFFICES ASSUME y \in Updates(refs', n, touched) PROVE FALSE
        BY DEF rebuilt, IsRebuilt, f
      <4>2. y[1] = f /\ y[2] = x[1]
        OBVIOUS
      <4> HIDE DEF y
      <4> QED BY <1>1, <1>3, <2>5, <4>1, <4>2, FirstIsLeft
    <3>5. Cached(x)'
      BY <1>15, <2>1, <2>2, <3>2, <3>4 DEF Stored, Cached
    <3>6. Cached(Back(x))'
      BY <1>15, <2>1, <2>2, <2>3, <3>1, <3>2 DEF Stored, Cached
    <3>7. Correct(x)' /\ Correct(Back(x))'
      BY <1>14, <2>3, <3>5, <3>6 DEF Correct
    <3> QED BY <2>4, <3>3, <3>7 DEF Settled
  <2>6. CASE x[1] \in Moved(refs', n, f)
    <3>1. (x[1] \in refs'[n][f]) # (x[1] \in refs[n][f])
      BY <2>6 DEF Moved, SymmetricDiff
    <3>2. (x \in intent') # (x \in intent)
      BY <1>5, <1>12, <1>17, <2>1, <2>2, <3>1 DEF Stored, f
    <3>3. ~Stored(x)'
      BY <1>5, <1>17, <2>1, <2>2, <3>2 DEF Stored
    <3>4. (x[1] \in refs'[n][f]) # (n \in refs'[x[1]][Mirror[f]])
      BY <1>5, <1>12, <1>17, <2>1, <3>3 DEF Stored, f
    <3>5. n \notin processed /\ ~touched /\ x[1] # original
      <4>1. Back(x) \notin Missed(refs', u, n, touched, live)
        BY <1>12, <2>3 DEF missed
      <4> QED BY <2>1, <2>6, <3>4, <4>1, LeftIsMissed
    <3>6. rebuilt(x)
      <4>1. f \in FieldsOf(n)
        BY <2>1, LinkFacts
      <4>2. x[1] # First(n)
        BY <2>1, <3>5 DEF First
      <4> QED BY <2>1, <2>6, <3>5, <4>1, <4>2
            DEF rebuilt, IsRebuilt, Updates, ToUpdate, f
    <3>7. Cached(x)'
      BY <1>5, <1>12, <1>15, <1>17, <2>1, <3>6 DEF Cached, f
    <3>8. cache'[x[1]] # cache[x[1]]
      BY <1>5, <1>6, <1>17, <2>1, <3>3, <3>7 DEF Stored, Cached
    <3>9. Held(x[1])'
      BY <1>10, <2>1, <3>8
    <3>10. \E k \in Positions' : \E r \in Todo(k)' : r.node = x[1]
      BY <3>9 DEF Held, Positions, Todo
    <3> QED BY <1>7, <3>3, <3>7, <3>10 DEF Due
  <2> QED BY <2>5, <2>6
<1>18. LinkInvariant'
  BY <1>4, <1>16, <1>17 DEF LinkInvariant
<1> QED BY <1>2, <1>8, <1>9, <1>11, <1>13, <1>18 DEF UsersInvariant

(* A hook saves a node. *)

LEMMA ResaveUsers ==
    ASSUME UsersInvariant, NEW r, NEW n, n = r.node, Resave(r)
    PROVE  UsersInvariant'
<1>1. /\ TypeInvariant /\ TypeOK /\ RequestInvariant /\ FirstInvariant
      /\ StackInvariant /\ Symmetric /\ CacheInvariant /\ EditedInvariant
      /\ LinkInvariant
  BY DEF UsersInvariant, EditInvariant, TypeInvariant
<1>2. EditInvariant'
  <2>1. 1 \in Positions /\ r \in Todo(1)
    BY <1>1, ResaveFacts
  <2>2. Resaving
    BY <2>1 DEF Resaving, Positions, Todo
  <2> QED BY <2>2, NextEditInvariant DEF UsersInvariant, Next
<1> DEFINE ns == live \ rowless
           missed == Missed(refs', user, n, NotTouched, ns)
           rebuilt(x) == IsRebuilt(refs', n, NotTouched, x)
           e == edited.node
<1>3. /\ 1 \in Positions /\ r \in Todo(1) /\ n \in Nodes
      /\ user \in Users /\ ns \in SUBSET Nodes
      /\ refs' = [refs EXCEPT ![n] = Object(r)]
      /\ Fit(refs')
      /\ cache' = After(refs', user, n, NotTouched, ns)
      /\ processed' = processed \cup {n}
      /\ original' = First(n)
      /\ excused' = excused \cup missed
      /\ edited' = edited /\ intent' = intent
  BY <1>1, ResaveFacts
<1>4. original # n /\ First(n) = original
  BY <1>1, <1>3, PendingFacts DEF RequestInvariant, FirstInvariant, First
<1>5. /\ refs'[n] = Object(r)
      /\ \A m \in Nodes : m # n => refs'[m] = refs[m]
  BY <1>1, <1>3 DEF TypeOK
<1>6. /\ 1 \in Positions' /\ pending'[1].of = n
      /\ Positions' = 1..(Len(pending) + 1) /\ Positions = 1..Len(pending)
      /\ Len(pending) \in Nat
      /\ Todo(1)' = ToResave(Before(refs', n), After(refs', user, n, NotTouched, ns))
  BY <1>1, ResaveTop
<1>7. ASSUME NEW s \in Todo(1)'
      PROVE  s.cached /\ s.node # n
  <2>1. s \in ToResave(Before(refs', n), After(refs', user, n, NotTouched, ns))
    BY <1>6
  <2> HIDE DEF ns
  <2>2. s.cached
    BY <1>1, <1>3, <2>1, NewFrameFacts
  <2>3. s.node # n
    BY <1>1, <1>3, <2>1, NewFrameOthers
  <2> QED BY <2>2, <2>3
<1>8. ASSUME NEW k \in Positions', k # 1
      PROVE  /\ k - 1 \in Positions /\ pending'[k].of = pending[k - 1].of
             /\ \A s \in Todo(k)' : \E q \in Todo(k - 1) : Become(q, n, s)
  BY <1>1, <1>8, ResaveBelow
<1>9. ASSUME NEW k \in Positions, NEW q \in Todo(k), q.node # n
      PROVE  k + 1 \in Positions' /\ \E s \in Todo(k + 1)' : Become(q, n, s)
  BY <1>1, <1>9, ResaveAbove
<1> HIDE DEF ns
<1>10. StackInvariant'
  <2>1. ASSUME NEW k \in Positions', NEW l \in Positions', NEW s \in Todo(l)',
               k <= l, s.cached
        PROVE  /\ \A t \in Todo(k)' : t.node = s.node => t.cached
               /\ s.node # pending'[k].of
    <3>1. s.node # n
      <4>1. CASE l = 1
        BY <1>7, <4>1
      <4>2. CASE l # 1
        BY <1>8, <2>1, <4>2 DEF Become
      <4> QED BY <4>1, <4>2
    <3>2. CASE k = 1
      BY <1>6, <1>7, <3>1, <3>2
    <3>3. CASE k # 1
      <4>1. l # 1 /\ k - 1 <= l - 1
        BY <1>6, <2>1, <3>3
      <4>2. PICK p \in Todo(l - 1) : Become(p, n, s)
        BY <1>8, <4>1
      <4>3. p.node = s.node /\ p.cached /\ l - 1 \in Positions
        BY <1>8, <2>1, <4>1, <4>2 DEF Become
      <4>4. ASSUME NEW t \in Todo(k)', t.node = s.node PROVE t.cached
        <5>1. PICK q \in Todo(k - 1) : Become(q, n, t)
          BY <1>8, <3>3
        <5>2. q.node = p.node /\ k - 1 \in Positions
          BY <1>8, <3>3, <4>3, <4>4, <5>1 DEF Become
        <5>3. q.cached
          BY <1>1, <4>1, <4>3, <5>2 DEF StackInvariant
        <5> QED BY <3>1, <4>4, <5>1, <5>3 DEF Become
      <4>5. s.node # pending'[k].of
        BY <1>1, <1>8, <3>3, <4>1, <4>3 DEF StackInvariant
      <4> QED BY <4>4, <4>5
    <3> QED BY <3>2, <3>3
  <2> QED BY <2>1 DEF StackInvariant
<1>11. ASSUME NEW m, m # n, Held(m)
       PROVE  Held(m)'
  <2>1. PICK k \in Positions : \E q \in Todo(k) : q.node = m /\ q.cached
    BY <1>11, HeldFacts
  <2>2. PICK q \in Todo(k) : q.node = m /\ q.cached
    BY <2>1
  <2>3. k + 1 \in Positions' /\ \E s \in Todo(k + 1)' : Become(q, n, s)
    BY <1>9, <1>11, <2>2
  <2>4. \E s \in Todo(k + 1)' : s.node = m /\ s.cached
    BY <1>11, <2>2, <2>3 DEF Become
  <2> QED BY <2>3, <2>4 DEF Held, Positions, Todo
<1>12. ASSUME NEW m \in Nodes, m # n, cache'[m] # cache[m]
       PROVE  Held(m)'
  <2>1. After(refs', user, n, NotTouched, ns)[m] # cache[m]
    BY <1>3, <1>12
  <2>2. \E s \in ToResave(Before(refs', n), After(refs', user, n, NotTouched, ns)) :
           s.node = m /\ s.cached
    <3>1. TypeInvariant
      BY <1>1
    <3>2. Fit(refs') /\ user \in Users /\ n \in Nodes /\ ns \in SUBSET Nodes
      BY <1>3
    <3> QED BY <1>12, <2>1, <3>1, <3>2, ChangedIsListed
  <2>3. \E s \in Todo(1)' : s.node = m /\ s.cached
    BY <1>6, <2>2
  <2> QED BY <1>6, <2>3 DEF Held, Positions, Todo
<1>13. CacheInvariant'
  <2> SUFFICES ASSUME NEW m \in Nodes
               PROVE  \/ cache'[m] = refs'[m]
                      \/ Held(m)'
                      \/ \E k \in Positions' : pending'[k].of = m
    BY DEF CacheInvariant
  <2>1. CASE m = n
    BY <1>6, <2>1
  <2>2. CASE m # n
    <3>1. CASE cache'[m] # cache[m]
      BY <1>12, <2>2, <3>1
    <3>2. CASE cache'[m] = cache[m] /\ cache[m] = refs[m]
      BY <1>5, <2>2, <3>2
    <3>3. CASE Held(m)
      BY <1>11, <2>2, <3>3
    <3>4. ASSUME NEW k \in Positions, pending[k].of = m
          PROVE  \E j \in Positions' : pending'[j].of = m
      <4>1. k + 1 \in Positions' /\ k + 1 # 1 /\ (k + 1) - 1 = k
        BY <1>6
      <4> QED BY <1>8, <3>4, <4>1
    <3> QED BY <1>1, <3>1, <3>2, <3>3, <3>4 DEF CacheInvariant
  <2> QED BY <2>1, <2>2
<1>14. Symmetric'
  <2>1. ASSUME NEW x \in Links, x \in missed PROVE Back(x) \in missed
    BY <1>1, <1>3, <2>1, MissedBack
  <2> HIDE DEF missed
  <2> QED BY <1>1, <1>3, <2>1 DEF Symmetric
<1> HIDE DEF missed, rebuilt, e
<1>15. ASSUME NEW x \in Links \ excused'
       PROVE  /\ x \in Links \ excused /\ x \notin missed
              /\ Back(x) \in Links \ excused'
              /\ Back(x) \in Links \ excused /\ Back(x) \notin missed
              /\ Back(Back(x)) = x
              /\ Back(x)[1] = x[3] /\ Back(x)[2] = Mirror[x[2]] /\ Back(x)[3] = x[1]
              /\ Mirror[Back(x)[2]] = x[2]
              /\ x[1] \in Nodes /\ x[2] \in Fields /\ x[3] \in Nodes /\ x[1] # x[3]
              /\ x \in intent <=> Back(x) \in intent
  <2>1. /\ Back(x) \in Links /\ Back(Back(x)) = x
        /\ Back(x)[1] = x[3] /\ Back(x)[2] = Mirror[x[2]] /\ Back(x)[3] = x[1]
        /\ Mirror[Mirror[x[2]]] = x[2]
        /\ x[1] \in Nodes /\ x[2] \in Fields /\ x[3] \in Nodes /\ x[1] # x[3]
    BY LinkFacts
  <2>2. Back(x) \notin excused'
    BY <1>14, <2>1 DEF Symmetric
  <2>3. x \in intent <=> Back(x) \in intent
    BY <1>1, SymmetricFacts
  <2> QED BY <1>3, <2>1, <2>2, <2>3
<1>16. ASSUME NEW x \in Links \ excused'
       PROVE  /\ rebuilt(x) =>
                   /\ x[1] # n
                   /\ x[3] \in cache'[x[1]][x[2]] <=> x[1] \in refs'[x[3]][Mirror[x[2]]]
                   /\ /\ Held(x[1])
                      /\ (x[3] \in cache[x[1]][x[2]]) # (x[3] \in refs[x[1]][x[2]])
                      => (x[3] \in cache'[x[1]][x[2]] <=> x[3] \in cache[x[1]][x[2]])
              /\ ~rebuilt(x) /\ x[1] # n => cache'[x[1]][x[2]] = cache[x[1]][x[2]]
              /\ x[1] = n => \/ cache'[x[1]][x[2]] = refs[x[1]][x[2]]
                             \/ cache'[x[1]][x[2]] = refs'[x[1]][x[2]]
  <2>1. x \in Links /\ x \notin Missed(refs', user, n, NotTouched, ns)
    BY <1>15 DEF missed
  <2>2. CacheFollows(refs', n, NotTouched, x, After(refs', user, n, NotTouched, ns))
    BY <1>1, <1>3, <2>1, CacheOfLink
  <2>3. CacheFollows(refs', n, NotTouched, x, cache')
    BY <1>3, <2>2
  <2> QED BY <2>3 DEF CacheFollows, rebuilt
<1>17. ASSUME NEW x \in Links, Ready(x), Cached(x)'
       PROVE  Ready(x)'
  <2> SUFFICES ASSUME NEW k \in Positions', NEW s \in Todo(k)', s.node = x[1]
               PROVE  x[3] \in Object(s)'[x[2]] <=> x \in intent'
    BY DEF Ready
  <2>1. CASE s.cached
    BY <1>17, <2>1 DEF Object, Cached
  <2>2. CASE ~s.cached
    <3>1. k # 1
      BY <1>7, <2>2
    <3>2. PICK q \in Todo(k - 1) : Become(q, n, s)
      BY <1>8, <3>1
    <3>3. k - 1 \in Positions /\ q.node = x[1] /\ s.lists = Object(q)
      BY <1>8, <2>2, <3>1, <3>2 DEF Become
    <3>4. x[3] \in Object(q)[x[2]] <=> x \in intent
      BY <1>17, <3>3 DEF Ready
    <3> QED BY <1>3, <2>2, <3>3, <3>4 DEF Object
  <2> QED BY <2>1, <2>2
(* A link that moves at n only is followed, by a hook that runs for the first time. *)
<1>18. ASSUME NEW x \in Links \ excused', x[1] = n,
              (x[3] \in refs'[n][x[2]]) # (x[3] \in refs[n][x[2]]),
              (x[3] \in refs'[n][x[2]]) # (n \in refs'[x[3]][Mirror[x[2]]])
       PROVE  n \notin processed /\ x[3] # original
  <2>1. x[3] \in Moved(refs', n, x[2])
    BY <1>18 DEF Moved, SymmetricDiff
  <2>2. x \notin Missed(refs', user, x[1], NotTouched, ns)
    BY <1>15, <1>18 DEF missed
  <2> QED BY <1>18, <2>1, <2>2, LeftIsMissed
<1>19. ASSUME NEW x \in Links
       PROVE  /\ x[1] # n => (Stored(x)' <=> Stored(x))
              /\ x[1] = n /\ Ready(x) => Stored(x)'
  <2>1. x[1] # n => (Stored(x)' <=> Stored(x))
    BY <1>3, <1>5, LinkFacts DEF Stored
  <2>2. ASSUME x[1] = n, Ready(x)
        PROVE  Stored(x)'
    BY <1>3, <1>5, <2>2 DEF Stored, Ready
  <2> QED BY <2>1, <2>2
<1>20. ASSUME NEW x \in Links \ excused', Stored(x), Cached(x), Stored(x)', Stored(Back(x))'
       PROVE  Cached(x)'
  <2>1. CASE rebuilt(x)
    BY <1>3, <1>15, <1>16, <1>20, <2>1 DEF Stored, Cached
  <2>2. CASE ~rebuilt(x) /\ x[1] # n
    BY <1>3, <1>16, <1>20, <2>2 DEF Cached
  <2>3. CASE x[1] = n
    BY <1>3, <1>16, <1>20, <2>3 DEF Stored, Cached
  <2> QED BY <2>1, <2>2, <2>3
<1>21. ASSUME NEW x \in Links \ excused', x[1] # n, Held(x[1]), ~Stored(x), Cached(x)
       PROVE  Cached(x)'
  <2>1. CASE rebuilt(x)
    BY <1>3, <1>16, <1>21, <2>1 DEF Stored, Cached
  <2>2. CASE ~rebuilt(x)
    BY <1>3, <1>16, <1>21, <2>2 DEF Cached
  <2> QED BY <2>1, <2>2
<1>22. ASSUME NEW x \in Links \ excused', Stored(x), Correct(x),
              Stored(Back(x)), Correct(Back(x))
       PROVE  Stored(x)' /\ Correct(x)' /\ Stored(Back(x))' /\ Correct(Back(x))'
  <2> DEFINE y == Back(x)
  <2>1. y \in Links \ excused' /\ Back(y) = x /\ x \in Links /\ y \in Links
    BY <1>15
  <2>2. Stored(x)' /\ Stored(y)'
    BY <1>19, <1>22, <2>1 DEF Correct
  <2>3. Cached(x)'
    BY <1>20, <1>22, <2>2 DEF Correct
  <2>4. Cached(y)'
    <3> HIDE DEF y
    <3>1. Stored(y) /\ Cached(y)
      BY <1>22 DEF Correct, y
    <3>2. Stored(Back(y))'
      BY <2>1, <2>2
    <3> QED BY <1>20, <2>1, <2>2, <3>1, <3>2
  <2> QED BY <1>17, <1>22, <2>1, <2>2, <2>3, <2>4 DEF Correct
<1>23. ASSUME NEW x \in Links \ excused', x[1] # e, x[3] # e
       PROVE  Stored(x)' /\ Correct(x)'
  <2>1. /\ x \in Links \ excused /\ Back(x) \in Links \ excused
        /\ Back(x)[1] = x[3] /\ Back(x)[3] = x[1]
    BY <1>15
  <2>2. Stored(x) /\ Correct(x) /\ Stored(Back(x)) /\ Correct(Back(x))
    BY <1>1, <1>23, <2>1 DEF LinkInvariant, e
  <2> QED BY <1>22, <2>2
<1>24. ASSUME NEW x \in Links \ excused', x[3] = e
       PROVE  e \in processed
  BY <1>1, <1>15, <1>24, CrossReferencesAssumption DEF RequestInvariant, e
(* A settled link stays settled: where it moves at one end of two nodes that the
   request has been through, it is excused. *)
<1>25. ASSUME NEW x \in Links \ excused', x[3] = e, Settled(x)
       PROVE  Settled(x)'
  <2>1. CASE x[1] \notin processed
    <3>1. /\ Stored(x) /\ Stored(Back(x))
          /\ Correct(x) /\ Correct(Back(x))
      BY <1>25, <2>1 DEF Settled
    <3> QED BY <1>22, <3>1 DEF Settled
  <2>2. CASE x[1] \in processed
    <3>1. Stored(x) /\ Stored(Back(x)) /\ e \in processed
      BY <1>24, <1>25 DEF Settled
    <3>2. /\ Back(x) \in Links /\ Back(x) \in Links \ excused'
          /\ Back(x)[1] = x[3] /\ Back(x)[2] = Mirror[x[2]] /\ Back(x)[3] = x[1]
          /\ Mirror[Back(x)[2]] = x[2]
          /\ x[1] # x[3] /\ x \in Links
          /\ x \in intent <=> Back(x) \in intent
      BY <1>15
    <3>3. Stored(x)'
      <4>1. CASE x[1] # n
        BY <1>19, <3>1, <4>1
      <4>2. CASE x[1] = n
        <5>1. Stored(Back(x))'
          BY <1>19, <3>1, <3>2, <4>2
        <5>2. SUFFICES ASSUME ~Stored(x)' PROVE FALSE
          OBVIOUS
        <5>3. (x[3] \in refs'[n][x[2]]) # (x[3] \in refs[n][x[2]])
          BY <1>3, <3>1, <4>2, <5>2 DEF Stored
        <5>4. (x[3] \in refs'[n][x[2]]) # (n \in refs'[x[3]][Mirror[x[2]]])
          BY <1>3, <3>2, <4>2, <5>1, <5>2 DEF Stored
        <5> QED BY <1>18, <2>2, <4>2, <5>3, <5>4
      <4> QED BY <4>1, <4>2
    <3>4. Stored(Back(x))'
      <4>1. CASE x[3] # n
        BY <1>19, <3>1, <3>2, <4>1
      <4>2. CASE x[3] = n
        <5> DEFINE y == Back(x)
        <5>1. /\ y \in Links \ excused' /\ y[1] = n /\ Stored(y)
              /\ y[3] = x[1] /\ Mirror[y[2]] = x[2]
          BY <3>1, <3>2, <4>2
        <5> HIDE DEF y
        <5>2. SUFFICES ASSUME ~Stored(y)' PROVE FALSE
          BY DEF y
        <5>3. (y[3] \in refs'[n][y[2]]) # (y[3] \in refs[n][y[2]])
          BY <1>3, <5>1, <5>2 DEF Stored
        <5>4. y \in intent <=> x \in intent
          BY <3>2 DEF y
        <5>5. (y[3] \in refs'[n][y[2]]) # (n \in refs'[y[3]][Mirror[y[2]]])
          BY <1>3, <3>3, <4>2, <5>1, <5>2, <5>4 DEF Stored
        <5> QED BY <1>18, <1>25, <3>1, <4>2, <5>1, <5>3, <5>5
      <4> QED BY <4>1, <4>2
    <3> QED BY <1>3, <2>2, <3>3, <3>4 DEF Settled
  <2> QED BY <2>1, <2>2
(* Where a node is due, its hook puts the link right in the edited node, or finds
   it right. *)
<1>26. ASSUME NEW x \in Links \ excused', x[3] = e, Due(x), x[1] = n
       PROVE  Settled(x)' \/ Followed(x)'
  <2>1. /\ Back(x) \in Links /\ Back(x) \in Links \ excused'
        /\ Back(x) \in Links \ excused
        /\ Back(x)[1] = x[3] /\ Back(x)[2] = Mirror[x[2]] /\ Back(x)[3] = x[1]
        /\ Mirror[Back(x)[2]] = x[2]
        /\ x[1] # x[3] /\ x \in Links /\ x[3] \in Nodes
        /\ x \in intent <=> Back(x) \in intent
    BY <1>15
  <2>2. Object(r) = cache[n]
    BY <1>3, <1>26 DEF Due, Object
  <2>3. Stored(x)'
    BY <1>3, <1>5, <1>26, <2>2 DEF Due, Cached, Stored
  <2>4. x[1] \in processed'
    BY <1>3, <1>26
  <2>5. CASE Stored(Back(x))
    BY <1>19, <1>26, <2>1, <2>3, <2>4, <2>5 DEF Settled
  <2>6. CASE ~Stored(Back(x))
    <3> DEFINE y == Back(x)
    <3>1. ~Stored(y)'
      BY <1>19, <1>26, <2>1, <2>6
    <3>2. (x[3] \in refs'[n][x[2]]) # (x[3] \in refs[n][x[2]])
      BY <1>3, <1>26, <2>3 DEF Stored, Due
    <3>3. (x[3] \in refs'[n][x[2]]) # (n \in refs'[x[3]][Mirror[x[2]]])
      BY <1>3, <1>26, <2>1, <2>3, <3>1 DEF Stored
    <3>4. n \notin processed /\ x[3] # original
      BY <1>18, <1>26, <3>2, <3>3
    <3>5. rebuilt(y)
      <4>1. x[2] \in FieldsOf(n)
        BY <1>26, <2>1, LinkFacts
      <4>2. x[3] \in Moved(refs', n, x[2])
        BY <3>2 DEF Moved, SymmetricDiff
      <4>3. <<x[2], x[3]>> \in Updates(refs', n, NotTouched)
        BY <1>4, <2>1, <3>4, <4>1, <4>2 DEF Updates, ToUpdate, NotTouched
      <4> QED BY <2>1, <4>3 DEF rebuilt, IsRebuilt
    <3> HIDE DEF y
    <3>6. /\ y \in Links \ excused' /\ y[1] = x[3] /\ y[3] = n /\ Mirror[y[2]] = x[2]
          /\ y \in intent <=> x \in intent
          /\ ~Stored(y)
      BY <1>26, <2>1, <2>6 DEF y
    <3>7. Cached(y)'
      BY <1>3, <1>16, <1>26, <2>3, <3>5, <3>6 DEF Stored, Cached
    <3>8. Held(x[3])'
      <4>1. CASE cache'[x[3]] # cache[x[3]]
        BY <1>12, <1>26, <2>1, <4>1
      <4>2. CASE cache'[x[3]] = cache[x[3]]
        <5>1. cache[x[3]] # refs[x[3]]
          BY <1>3, <3>6, <3>7, <4>2 DEF Stored, Cached
        <5>2. ~(\A z \in Links \ excused : z[1] = e => Stored(z))
          BY <1>15, <1>26, <3>6 DEF y
        <5>3. Todo(1) # {} /\ e # None
          BY <1>3, <1>26, <2>1, CrossReferencesAssumption
        <5>4. Held(x[3])
          BY <1>1, <1>26, <5>1, <5>2, <5>3 DEF EditedInvariant, e
        <5> QED BY <1>11, <1>26, <2>1, <5>4
      <4> QED BY <4>1, <4>2
    <3> QED BY <2>4, <3>1, <3>7, <3>8 DEF Followed, y
  <2> QED BY <2>5, <2>6
<1>27. ASSUME NEW x \in Links \ excused', x[3] = e, Due(x), x[1] # n
       PROVE  Due(x)'
  <2>1. PICK k \in Positions : \E q \in Todo(k) : q.node = x[1]
    BY <1>27 DEF Due
  <2>2. PICK q \in Todo(k) : q.node = x[1]
    BY <2>1
  <2>3. q.cached
    BY <1>27, <2>2 DEF Due
  <2>4. Held(x[1])
    BY <2>2, <2>3, HeldFacts
  <2>5. Cached(x)'
    BY <1>21, <1>27, <2>4 DEF Due
  <2>6. ~Stored(x)'
    BY <1>19, <1>27 DEF Due
  <2>7. \E j \in Positions' : \E s \in Todo(j)' : s.node = x[1]
    <3>1. Held(x[1])'
      BY <1>11, <1>27, <2>4
    <3> QED BY <3>1 DEF Held, Positions, Todo
  <2>8. ASSUME NEW j \in Positions', NEW s \in Todo(j)', s.node = x[1]
        PROVE  s.cached
    <3>1. CASE j = 1
      BY <1>7, <3>1
    <3>2. CASE j # 1
      <4>1. PICK p \in Todo(j - 1) : Become(p, n, s)
        BY <1>8, <3>2
      <4>2. p.cached
        BY <1>8, <1>27, <2>8, <3>2, <4>1 DEF Due, Become
      <4> QED BY <1>27, <2>8, <4>1, <4>2 DEF Become
    <3> QED BY <3>1, <3>2
  <2> QED BY <2>5, <2>6, <2>7, <2>8 DEF Due
(* What is put right in the edited node is stored when that is saved. *)
<1>28. ASSUME NEW x \in Links \ excused', x[3] = e, Followed(x)
       PROVE  Settled(x)' \/ Followed(x)'
  <2> DEFINE y == Back(x)
  <2>1. /\ y \in Links \ excused' /\ y[1] = x[3] /\ y[2] = Mirror[x[2]] /\ y[3] = x[1]
        /\ Mirror[y[2]] = x[2] /\ y \in Links /\ y = Back(x)
        /\ x[1] # x[3] /\ x \in Links
        /\ y \in intent <=> x \in intent
    BY <1>15
  <2> HIDE DEF y
  <2>2. /\ x[1] \in processed /\ x[1] \in processed'
        /\ ~Stored(y) /\ Cached(y) /\ Held(x[3])
    BY <1>3, <1>28, <2>1 DEF Followed
  <2>3. CASE x[3] = n
    <3>1. r.cached
      <4>1. PICK k \in Positions : \E q \in Todo(k) : q.node = n /\ q.cached
        BY <2>2, <2>3, HeldFacts
      <4>2. 1 <= k
        BY <1>6, <4>1
      <4> QED BY <1>1, <1>3, <4>1, <4>2 DEF StackInvariant
    <3>2. Object(r) = cache[n]
      BY <3>1 DEF Object
    <3>3. Stored(y)'
      BY <1>3, <1>5, <2>1, <2>2, <2>3, <3>2 DEF Stored, Cached
    <3>4. (y[3] \in refs'[n][y[2]]) # (y[3] \in refs[n][y[2]])
      BY <1>3, <2>1, <2>2, <2>3, <3>3 DEF Stored
    <3>5. n \in processed
      BY <1>24, <1>28, <2>3
    <3>6. ~((y[3] \in refs'[n][y[2]]) # (n \in refs'[y[3]][Mirror[y[2]]]))
      BY <1>18, <2>1, <2>3, <3>4, <3>5
    <3>7. Stored(x)'
      BY <1>3, <2>1, <2>3, <3>3, <3>6 DEF Stored
    <3> QED BY <2>1, <2>2, <3>3, <3>7 DEF Settled
  <2>4. CASE x[3] # n
    <3>1. ~Stored(y)'
      BY <1>19, <2>1, <2>2, <2>4
    <3>2. Cached(y)'
      BY <1>21, <2>1, <2>2, <2>4
    <3>3. Held(x[3])'
      BY <1>11, <2>2, <2>4
    <3> QED BY <2>1, <2>2, <3>1, <3>2, <3>3 DEF Followed
  <2> QED BY <2>3, <2>4
<1>29. LinkInvariant'
  <2>1. ASSUME NEW x \in Links \ excused', x[3] = e
        PROVE  Settled(x)' \/ Due(x)' \/ Followed(x)'
    <3>1. Settled(x) \/ Due(x) \/ Followed(x)
      BY <1>1, <1>15, <2>1 DEF LinkInvariant, e
    <3> QED BY <1>25, <1>26, <1>27, <1>28, <2>1, <3>1
  <2> QED BY <1>3, <1>23, <2>1 DEF LinkInvariant, e
<1>30. EditedInvariant'
  <2> SUFFICES ASSUME NEW m, m = e, m # None
               PROVE  \/ Held(m)'
                      \/ cache'[m] = refs'[m]
                      \/ /\ 1 \in Positions' /\ pending'[1].of = m
                         /\ Todo(1)' = {}
                      \/ \A x \in Links \ excused' : x[1] = m => Stored(x)'
    BY <1>3 DEF EditedInvariant, e
  <2>1. m \in Nodes
    BY <1>1 DEF TypeOK, e
  <2>2. CASE m = n
    <3>1. Updates(refs', n, NotTouched) = {}
      BY <1>1, <2>2 DEF RequestInvariant, Updates, e
    <3>2. ASSUME NEW s \in Todo(1)'
          PROVE  FALSE
      <4>1. s \in ToResave(Before(refs', n), After(refs', user, n, NotTouched, ns))
        BY <1>6 DEF ns
      <4>2. \E f \in Fields : <<f, s.node>> \in Updates(refs', n, NotTouched)
        BY <1>1, <1>3, <4>1, NewFrameFacts
      <4> QED BY <3>1, <4>2
    <3> QED BY <1>6, <2>2, <3>2
  <2>3. CASE m # n
    <3>1. CASE cache'[m] # cache[m]
      BY <1>12, <2>1, <2>3, <3>1
    <3>2. CASE cache'[m] = cache[m]
      <4>1. CASE Held(m)
        BY <1>11, <2>3, <4>1
      <4>2. CASE cache[m] = refs[m]
        BY <1>5, <2>1, <2>3, <3>2, <4>2
      <4>3. CASE \A x \in Links \ excused : x[1] = m => Stored(x)
        <5>1. ASSUME NEW x \in Links \ excused', x[1] = m
              PROVE  Stored(x)'
          BY <1>15, <1>19, <2>3, <4>3, <5>1
        <5> QED BY <5>1
      <4>4. Todo(1) # {}
        BY <1>3
      <4> QED BY <1>1, <4>1, <4>2, <4>3, <4>4 DEF EditedInvariant, e
    <3> QED BY <3>1, <3>2
  <2> QED BY <2>2, <2>3
<1> QED BY <1>2, <1>10, <1>13, <1>14, <1>29, <1>30 DEF UsersInvariant

LEMMA NextUsersInvariant == UsersInvariant /\ [Next]_vars => UsersInvariant'
<1> SUFFICES ASSUME UsersInvariant, [Next]_vars PROVE UsersInvariant'
  OBVIOUS
<1>1. ASSUME NEW u \in Users, NEW n \in Nodes, NEW touched \in BOOLEAN,
             NEW lists \in ListsOf(n), Save(u, n, lists, touched)
      PROVE  UsersInvariant'
  BY <1>1, SaveUsers
<1>2. ASSUME NEW r, Resave(r)
      PROVE  UsersInvariant'
  BY <1>2, ResaveUsers
<1>3. CASE UNCHANGED vars
  <2>1. EditInvariant'
    BY NextEditInvariant DEF UsersInvariant
  <2>2. UNCHANGED <<refs, processed, cache, pending, edited, intent, excused>>
    BY <1>3 DEF vars
  <2>3. StackInvariant' /\ Symmetric' /\ CacheInvariant'
    BY <2>2 DEF UsersInvariant, StackInvariant, Symmetric, CacheInvariant,
                Positions, Todo, Held
  <2>4. EditedInvariant'
    BY <2>2 DEF UsersInvariant, EditedInvariant, Positions, Todo, Held, Stored
  <2>5. LinkInvariant'
    BY <2>2 DEF UsersInvariant, LinkInvariant, Settled, Due, Followed, Correct, Ready,
                Cached, Stored, Object, Positions, Todo, Held
  <2> QED BY <2>1, <2>3, <2>4, <2>5 DEF UsersInvariant
<1> QED BY <1>1, <1>2, <1>3, ReturnUsers, EndRequestUsers DEF Next, Resaving

(* The lists of both ends are what users made of them last, whatever hooks save on
   the way, but for links that a save is known to have left alone. *)
THEOREM ListsFollowUsersLast == Spec => []ListsFollowUsers
<1>1. UsersInvariant => ListsFollowUsers
  BY QuietFacts DEF ListsFollowUsers, Quiet, Stored
<1> QED BY <1>1, InitUsersInvariant, NextUsersInvariant, PTL DEF Spec

==============================================================================
