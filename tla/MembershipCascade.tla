-------------------------- MODULE MembershipCascade --------------------------
(***************************************************************************)
(* The group-membership cascade of Mukurtu.                                *)
(*                                                                         *)
(* A community has protocols, one of which is its default ("Community      *)
(* Only") protocol, and may have a parent community.  Whenever an active   *)
(* OG membership of a user is saved, hook_og_membership_presave() of       *)
(* ma_culturalprotocol saves further memberships of the same user from     *)
(* inside the first save: a community brings its default protocol and its  *)
(* parent community, a protocol brings its community.  Because the outer   *)
(* membership is not stored yet while the inner ones are saved, the hook   *)
(* breaks the community <-> protocol recursion with marks it leaves in     *)
(* $_SESSION.                                                              *)
(*                                                                         *)
(* A request is one PHP request of one session.  It runs in one database   *)
(* transaction (node_save, user_save and EntityAPIController::save all     *)
(* open one): it reads the snapshot taken when it began plus its own       *)
(* writes, and other requests see nothing of it before Commit.  The PHP    *)
(* call stack is explicit: one frame per membership being saved.           *)
(***************************************************************************)
EXTENDS Naturals, Sequences

CONSTANTS
    Users,
    Communities,    \* nodes of type community
    Protocols,      \* nodes of type cultural_protocol_group
    Sessions,       \* $_SESSION of an acting account; one request at a time
    None,           \* an empty reference field
    CommunityOf,    \* the first og_group_ref of each protocol
    DefaultOf,      \* the protocol that node_load(gid + 1) finds, or None
    AutoJoin,       \* the protocols with field_protocol_auto_join set
    ParentChoices,  \* the <<child, parent>> pairs someone may choose in the form
    InitialParent,  \* field_parent_community of each community at the start
    Serialised,     \* TRUE: requests of different sessions never overlap
    MaxDepth        \* nested saves after which PHP runs out of memory

Groups == Communities \cup Protocols

ASSUME GroupsAssumption ==
    /\ Communities \cap Protocols = {}
    /\ None \notin Groups \cup Users
    /\ CommunityOf \in [Protocols -> Communities]
    /\ DefaultOf \in [Communities -> Protocols \cup {None}]
    /\ \A c \in Communities :
         DefaultOf[c] # None => CommunityOf[DefaultOf[c]] = c

ASSUME SiteAssumption ==
    /\ AutoJoin \subseteq Protocols
    /\ ParentChoices \subseteq {e \in Communities \X Communities : e[1] # e[2]}
    /\ InitialParent \in [Communities -> Communities \cup {None}]
    /\ Serialised \in BOOLEAN
    /\ MaxDepth \in Nat \ {0}

VARIABLES
    parent,      \* field_parent_community, as committed
    state,       \* state of the og_membership row of a user in a group
    registered,  \* users that have an account
    flags,       \* $_SESSION['member_add_prevent_infinite_loop'] of a session
    running,     \* sessions with a request in progress
    todo,        \* memberships the request has still to add, in any order
    stack,       \* memberships being saved, innermost last
    rows,        \* snapshot of state read by the request
    tree,        \* snapshot of parent read by the request
    dirty,       \* memberships the request has stored as active
    edit,        \* the <<child, parent>> the request stores, or None
    newUser,     \* the account the request creates, or None
    withheld,    \* history: memberships last removed, blocked or left pending
    died         \* history: some request was aborted

committed == <<parent, state, registered>>
local == <<todo, stack, rows, tree, dirty, edit, newUser>>
vars == <<parent, state, registered, flags, running, todo, stack, rows, tree,
          dirty, edit, newUser, withheld, died>>

(* "inactive" is a pending or blocked row: the code tests for active only. *)
States == {"none", "active", "inactive"}
Memberships == Users \X Groups

(* A membership being saved, and where its presave hook has got to. *)
Frame ==
    [user : Users, group : Communities, at : {"default", "parent", "write"}]
      \cup [user : Users, group : Protocols, at : {"community", "write"}]

(* Mutants: the hook forgets the default protocol, or the community. *)
NewFrame_NoDefault(u, g) ==
    [user  |-> u,
     group |-> g,
     at    |-> IF g \in Communities THEN "parent" ELSE "community"]

NewFrame_NoCommunity(u, g) ==
    [user  |-> u,
     group |-> g,
     at    |-> IF g \in Communities THEN "default" ELSE "write"]

(* The hook enters with the branch of the group's node type. *)
NewFrame(u, g) ==
    [user  |-> u,
     group |-> g,
     at    |-> IF g \in Communities THEN "default" ELSE "community"]

NoRows == [m \in Memberships |-> "none"]
NoTree == [c \in Communities |-> None]

TypeOK ==
    /\ parent \in [Communities -> Communities \cup {None}]
    /\ state \in [Memberships -> States]
    /\ registered \in SUBSET Users
    /\ flags \in [Sessions -> SUBSET Protocols]
    /\ running \in SUBSET Sessions
    /\ todo \in [Sessions -> SUBSET Memberships]
    /\ stack \in [Sessions -> Seq(Frame)]
    /\ rows \in [Sessions -> [Memberships -> States]]
    /\ tree \in [Sessions -> [Communities -> Communities \cup {None}]]
    /\ dirty \in [Sessions -> SUBSET Memberships]
    /\ edit \in [Sessions -> (Communities \X Communities) \cup {None}]
    /\ newUser \in [Sessions -> Users \cup {None}]
    /\ withheld \in SUBSET Memberships
    /\ died \in BOOLEAN

Init ==
    /\ parent = InitialParent
    /\ state = NoRows
    /\ registered = {}
    /\ flags = [s \in Sessions |-> {}]
    /\ running = {}
    /\ todo = [s \in Sessions |-> {}]
    /\ stack = [s \in Sessions |-> <<>>]
    /\ rows = [s \in Sessions |-> NoRows]
    /\ tree = [s \in Sessions |-> NoTree]
    /\ dirty = [s \in Sessions |-> {}]
    /\ edit = [s \in Sessions |-> None]
    /\ newUser = [s \in Sessions |-> None]
    /\ withheld = {}
    /\ died = FALSE

------------------------------------------------------------------------------
(* What a request sees. *)

(* og_is_member() with the default states: an active row, stored or not yet
   committed by the request itself.  OgMembership::save() resets the static
   caches, so the request reads its own writes. *)
IsMember(s, u, g) ==
    <<u, g>> \in dirty[s] \/ rows[s][<<u, g>>] = "active"

Top(s) == stack[s][Len(stack[s])]

(* The hook of the innermost save of session s stands at point a. *)
At(s, a) ==
    /\ s \in running
    /\ stack[s] # <<>>
    /\ Top(s).at = a

(* The innermost hook goes on to point a. *)
Continue(s, a) ==
    stack' = [stack EXCEPT ![s] = [@ EXCEPT ![Len(@)].at = a]]

(* The innermost hook calls _add_user_to_group(u, g) and will go on at a. *)
Call(s, a, u, g) ==
    /\ Len(stack[s]) < MaxDepth
    /\ stack' = [stack EXCEPT
          ![s] = Append([@ EXCEPT ![Len(@)].at = a], NewFrame(u, g))]

CanStart(s) ==
    /\ s \notin running
    /\ Serialised => running = {}

------------------------------------------------------------------------------
(* Requests. *)

(* A request begins: it adds the memberships ms, the first one at once when
   frames says so, and will store the parent e or the account n. *)
Begin(s, ms, frames, e, n) ==
    /\ CanStart(s)
    /\ running' = running \cup {s}
    /\ todo' = [todo EXCEPT ![s] = ms]
    /\ stack' = [stack EXCEPT ![s] = frames]
    /\ rows' = [rows EXCEPT ![s] = state]
    /\ tree' = [tree EXCEPT ![s] = parent]
    /\ edit' = [edit EXCEPT ![s] = e]
    /\ newUser' = [newUser EXCEPT ![s] = n]
    /\ UNCHANGED <<committed, flags, dirty, withheld, died>>

(* A membership is saved as active: a member is added, an applicant is
   approved, or the membership form of a member is saved again. *)
Join(s, u, g) ==
    /\ u \in registered
    /\ Begin(s, {}, <<NewFrame(u, g)>>, None, None)

(* hook_user_insert(): a new account is added to the auto-join protocols. *)
Register(s, u) ==
    /\ u \notin registered
    /\ \A t \in Sessions : newUser[t] # u
    /\ Begin(s, {u} \X AutoJoin, <<>>, None, u)

(* Mutant: the members the child has already are not added. *)
SetParent_NewMembersOnly(s, c, d) ==
    /\ <<c, d>> \in ParentChoices
    /\ parent[c] # d
    /\ Begin(s, {}, <<>>, <<c, d>>, None)

(* hook_node_presave() of a community that gets a new parent.  The query for
   the users of the child has no condition on the membership's state. *)
SetParent(s, c, d) ==
    /\ <<c, d>> \in ParentChoices
    /\ parent[c] # d
    /\ Begin(s, {<<u, d>> : u \in {v \in Users : state[<<v, c>>] # "none"}},
             <<>>, <<c, d>>, None)

(* The parent field is emptied: the presave hook adds and removes nobody. *)
ClearParent(s, c) ==
    /\ CanStart(s)
    /\ parent[c] # None
    /\ parent' = [parent EXCEPT ![c] = None]
    /\ UNCHANGED <<state, registered, flags, running, local, withheld, died>>

(* A membership is saved as pending or blocked: the hook does nothing. *)
SaveInactive(s, u, g) ==
    /\ CanStart(s)
    /\ u \in registered
    /\ state' = [state EXCEPT ![<<u, g>>] = "inactive"]
    /\ withheld' = withheld \cup {<<u, g>>}
    /\ UNCHANGED <<parent, registered, flags, running, local, died>>

(* og_ungroup(): the row is deleted and no other row with it. *)
Remove(s, u, g) ==
    /\ CanStart(s)
    /\ state[<<u, g>>] # "none"
    /\ state' = [state EXCEPT ![<<u, g>>] = "none"]
    /\ withheld' = withheld \cup {<<u, g>>}
    /\ UNCHANGED <<parent, registered, flags, running, local, died>>

------------------------------------------------------------------------------
(* The steps of a request. *)

(* og_group() for one of the memberships to add: an active one is returned
   as it is, any other is saved as active. *)
NextMembership(s) ==
    /\ s \in running
    /\ stack[s] = <<>>
    /\ \E m \in todo[s] :
         /\ todo' = [todo EXCEPT ![s] = @ \ {m}]
         /\ stack' = IF IsMember(s, m[1], m[2])
                     THEN stack
                     ELSE [stack EXCEPT ![s] = <<NewFrame(m[1], m[2])>>]
    /\ UNCHANGED <<committed, flags, running, rows, tree, dirty, edit, newUser,
                   withheld, died>>

(* Community branch: the default protocol, guarded by the session's mark. *)
DefaultNeeded(s) ==
    LET f == Top(s)
        p == DefaultOf[f.group]
    IN  p # None /\ p \notin flags[s] /\ ~IsMember(s, f.user, p)

(* Mutant: the mark is keyed by the community instead of the protocol. *)
AddDefaultProtocol_MarksCommunity(s) ==
    /\ At(s, "default")
    /\ LET f == Top(s)
           p == DefaultOf[f.group]
       IN  \/ /\ DefaultNeeded(s)
              /\ flags' = [flags EXCEPT ![s] = @ \cup {f.group}]
              /\ Call(s, "parent", f.user, p)
           \/ /\ ~DefaultNeeded(s)
              /\ flags' = [flags EXCEPT ![s] = @ \ {f.group}]
              /\ Continue(s, "parent")
    /\ UNCHANGED <<committed, running, todo, rows, tree, dirty, edit, newUser,
                   withheld, died>>

AddDefaultProtocol(s) ==
    /\ At(s, "default")
    /\ LET f == Top(s)
           p == DefaultOf[f.group]
       IN  \/ /\ DefaultNeeded(s)
              /\ flags' = [flags EXCEPT ![s] = @ \cup {p}]
              /\ Call(s, "parent", f.user, p)
           \/ /\ ~DefaultNeeded(s)
              /\ flags' = [flags EXCEPT ![s] = @ \ {p}]
              /\ Continue(s, "parent")
    /\ UNCHANGED <<committed, running, todo, rows, tree, dirty, edit, newUser,
                   withheld, died>>

(* Mutant: a pending or blocked membership of the parent counts as well. *)
ParentNeeded_AnyState(s) ==
    LET f == Top(s)
        d == tree[s][f.group]
    IN  /\ d # None
        /\ <<f.user, d>> \notin dirty[s]
        /\ rows[s][<<f.user, d>>] = "none"

(* Community branch: the parent community, without any mark. *)
ParentNeeded(s) ==
    LET f == Top(s)
        d == tree[s][f.group]
    IN  d # None /\ ~IsMember(s, f.user, d)

(* Mutant: the user is added to the child once more. *)
AddParentCommunity_AddsToChild(s) ==
    /\ At(s, "parent")
    /\ LET f == Top(s)
       IN  IF ParentNeeded(s)
           THEN Call(s, "write", f.user, f.group)
           ELSE Continue(s, "write")
    /\ UNCHANGED <<committed, flags, running, todo, rows, tree, dirty, edit,
                   newUser, withheld, died>>

AddParentCommunity(s) ==
    /\ At(s, "parent")
    /\ LET f == Top(s)
       IN  IF ParentNeeded(s)
           THEN Call(s, "write", f.user, tree[s][f.group])
           ELSE Continue(s, "write")
    /\ UNCHANGED <<committed, flags, running, todo, rows, tree, dirty, edit,
                   newUser, withheld, died>>

(* Protocol branch: the community, guarded by the same mark. *)
CommunityNeeded(s) ==
    LET f == Top(s)
    IN  f.group \notin flags[s] /\ ~IsMember(s, f.user, CommunityOf[f.group])

(* Mutant: the mark is never cleared. *)
AddCommunity_KeepsMark(s) ==
    /\ At(s, "community")
    /\ LET f == Top(s)
       IN  \/ /\ CommunityNeeded(s)
              /\ flags' = [flags EXCEPT ![s] = @ \cup {f.group}]
              /\ Call(s, "write", f.user, CommunityOf[f.group])
           \/ /\ ~CommunityNeeded(s)
              /\ Continue(s, "write")
              /\ UNCHANGED flags
    /\ UNCHANGED <<committed, running, todo, rows, tree, dirty, edit, newUser,
                   withheld, died>>

AddCommunity(s) ==
    /\ At(s, "community")
    /\ LET f == Top(s)
       IN  \/ /\ CommunityNeeded(s)
              /\ flags' = [flags EXCEPT ![s] = @ \cup {f.group}]
              /\ Call(s, "write", f.user, CommunityOf[f.group])
           \/ /\ ~CommunityNeeded(s)
              /\ flags' = [flags EXCEPT ![s] = @ \ {f.group}]
              /\ Continue(s, "write")
    /\ UNCHANGED <<committed, running, todo, rows, tree, dirty, edit, newUser,
                   withheld, died>>

(* The hooks have returned: the row is written and the save returns. *)
Write(s) ==
    /\ At(s, "write")
    /\ dirty' = [dirty EXCEPT ![s] = @ \cup {<<Top(s).user, Top(s).group>>}]
    /\ stack' = [stack EXCEPT ![s] = SubSeq(@, 1, Len(@) - 1)]
    /\ UNCHANGED <<committed, flags, running, todo, rows, tree, edit, newUser,
                   withheld, died>>

(* The local state of a request is gone once it has ended. *)
End(s) ==
    /\ running' = running \ {s}
    /\ todo' = [todo EXCEPT ![s] = {}]
    /\ stack' = [stack EXCEPT ![s] = <<>>]
    /\ rows' = [rows EXCEPT ![s] = NoRows]
    /\ tree' = [tree EXCEPT ![s] = NoTree]
    /\ dirty' = [dirty EXCEPT ![s] = {}]
    /\ edit' = [edit EXCEPT ![s] = None]
    /\ newUser' = [newUser EXCEPT ![s] = None]

(* A row the request updated but another request has deleted stays deleted:
   UPDATE ... WHERE id finds nothing. *)
Stored(s, m) ==
    m \in dirty[s] /\ (rows[s][m] = "none" \/ state[m] # "none")

(* The transaction is committed. *)
Commit(s) ==
    /\ s \in running
    /\ stack[s] = <<>>
    /\ todo[s] = {}
    /\ state' = [m \in Memberships |->
                   IF Stored(s, m) THEN "active" ELSE state[m]]
    /\ withheld' = {m \in withheld : ~Stored(s, m)}
    /\ parent' = IF edit[s] = None THEN parent
                 ELSE [parent EXCEPT ![edit[s][1]] = edit[s][2]]
    /\ registered' = registered \cup ({newUser[s]} \ {None})
    /\ End(s)
    /\ UNCHANGED <<flags, died>>

(* An exception or a fatal error ends the request: the transaction is rolled
   back, but the session, written at shutdown, keeps its marks. *)
Abort(s) ==
    /\ s \in running
    /\ died' = TRUE
    /\ End(s)
    /\ UNCHANGED <<committed, flags, withheld>>

(* The saves have nested too deeply: PHP dies before the next one. *)
RunAway(s) ==
    /\ Len(stack[s]) = MaxDepth
    /\ \/ At(s, "default") /\ DefaultNeeded(s)
       \/ At(s, "parent") /\ ParentNeeded(s)
       \/ At(s, "community") /\ CommunityNeeded(s)
    /\ Abort(s)

Step(s) ==
    \/ NextMembership(s)
    \/ AddDefaultProtocol(s)
    \/ AddParentCommunity(s)
    \/ AddCommunity(s)
    \/ Write(s)
    \/ Commit(s)
    \/ RunAway(s)

Next ==
    \E s \in Sessions :
        \/ \E u \in Users, g \in Groups : Join(s, u, g)
        \/ \E u \in Users : Register(s, u)
        \/ \E c, d \in Communities : SetParent(s, c, d)
        \/ \E c \in Communities : ClearParent(s, c)
        \/ \E u \in Users, g \in Groups : SaveInactive(s, u, g) \/ Remove(s, u, g)
        \/ Step(s)
        \/ Abort(s)

Spec == Init /\ [][Next]_vars

------------------------------------------------------------------------------
(* Properties. *)

(* "If a user is added to a community, add them to the default protocol": an
   active member of a community is an active member of its default protocol,
   unless someone removed, blocked or held back that membership itself. *)
DefaultMembersAlways ==
    \A u \in Users, c \in Communities :
        LET p == DefaultOf[c]
        IN  (p # None /\ state[<<u, c>>] = "active" /\ <<u, p>> \notin withheld)
            => state[<<u, p>>] = "active"

(* The same as long as no request has died half-way: the marks the session
   keeps make the cascade complete in every interleaving of the requests. *)
DefaultMembers == ~died => DefaultMembersAlways

(* "If the user is added to a protocol, add them to the parent community". *)
CommunityMembersOf(ps) ==
    \A u \in Users, p \in ps :
        (state[<<u, p>>] = "active" /\ <<u, CommunityOf[p]>> \notin withheld)
        => state[<<u, CommunityOf[p]>>] = "active"

DefaultProtocols == {DefaultOf[c] : c \in Communities} \ {None}

(* It holds for default protocols as long as no request has died ... *)
CommunityMembers == ~died => CommunityMembersOf(DefaultProtocols)

(* ... and is what the comment promises for every protocol. *)
CommunityMembersAlways == ~died => CommunityMembersOf(Protocols)

(* "If this is a child community, add the user to the parent community", and
   setting a parent adds the members there are: an active member of a child
   is an active member of the parent, with the same exception.  It does not
   depend on the marks, so it outlives aborted requests. *)
ParentMembers ==
    \A u \in Users, c \in Communities :
        (/\ parent[c] # None
         /\ state[<<u, c>>] = "active"
         /\ <<u, parent[c]>> \notin withheld)
        => state[<<u, parent[c]>>] = "active"

(* The mark set for a default protocol is always cleared by the nested save
   it is meant for: between requests a session marks no default protocol, so
   no later join is skipped by mistake. *)
MarksAreConsumed ==
    ~died => \A s \in Sessions \ running : flags[s] \cap DefaultProtocols = {}

(* Some communities are, in the parent relation t, each below another one of
   them: the relation has a cycle. *)
HasCycle(t) ==
    \E S \in SUBSET Communities : S # {} /\ \A c \in S : t[c] \in S

(* Only a cycle of parents lets the saves nest without end: stale marks and
   concurrent requests never do. *)
RunAwayOnlyOnCycle ==
    [][\A s \in Sessions : RunAway(s) => HasCycle(tree[s])]_vars

(* Communities whose parents form a cycle take nobody in.  Each hook wants the
   parent's membership stored before its own, so a request stores a user in
   the cycle only when it found him an active member there; the join of anyone
   else, the join of a protocol that brings one of these communities and the
   registration that joins such a protocol leave nothing behind. *)
CyclesTakeNobodyIn ==
    \A s \in Sessions, u \in Users, S \in SUBSET Communities :
        (/\ \A c \in S : tree[s][c] \in S
         /\ \E c \in S : <<u, c>> \in dirty[s])
        => \E c \in S : rows[s][<<u, c>>] = "active"
=============================================================================
