------------------------- MODULE Notifications_proofs -------------------------
(***************************************************************************)
(* Theorems about Notifications, for every set of users and items, any     *)
(* number of mails that fail and digests that die.  Types are correct      *)
(* whatever overlaps; the rest is proved for saves and digests that do not *)
(* overlap, which is what the runs check.                                  *)
(***************************************************************************)
EXTENDS Notifications, TLAPS

------------------------------------------------------------------------------
(* The parts of the type invariant. *)
FrequencyOK ==
    /\ frequency \in [Kinds -> [Users -> Channels \cup {None}]]
    /\ custom \in [Items -> [Users -> Channels \cup {None}]]
NodeOK == node \in [Items -> Node] /\ gone \in SUBSET Items
Saves == [at : {"idle", "sending"}, item : Items \cup {None},
          author : Users \cup {None}, final : BOOLEAN, draft : Node,
          todo : SUBSET Users, told : SUBSET Users]
Digests == [at : {"idle", "mailing", "recording"}, blank : BOOLEAN,
            copy : [Items -> Node], todo : [Users -> SUBSET Items],
            sent : [Users -> SUBSET Items]]
RunsOK ==
    /\ save \in Saves /\ cron \in Digests
    /\ save.at = "sending" => save.item \in Items
HistoryOK ==
    /\ issued \in [Items -> Nat]
    /\ addressed \in [Items -> SUBSET Users]
    /\ told \in [Items -> SUBSET Users]
    /\ blank \in [Items -> SUBSET Users]
    /\ stranded \in SUBSET (Items \X Users)
    /\ lapsed \in BOOLEAN
CountsOK ==
    /\ emails \in Nat /\ changes \in Nat /\ choices \in Nat /\ faults \in Nat

Typed == FrequencyOK /\ NodeOK /\ RunsOK /\ HistoryOK /\ CountsOK

LEMMA TypedMeansTypeOK == Typed => TypeOK
BY DEF Typed, TypeOK, FrequencyOK, NodeOK, RunsOK, Saves, Digests, HistoryOK, CountsOK

------------------------------------------------------------------------------
(* What the operators on notification nodes do. *)

LEMMA NoNodeIsNode ==
    /\ NoNode \in Node /\ NoNode.email = 0 /\ NoNode.all = {} /\ NoNode.notified = {}
    /\ ~NoNode.complete /\ \A c \in Channels : NoNode.on[c] = {}
BY DEF NoNode, Node

LEMMA NoRuns ==
    /\ NoSave \in Saves /\ NoSave.at = "idle" /\ NoSave.todo = {}
    /\ NoDigest \in Digests /\ NoDigest.at = "idle"
    /\ \A u \in Users : NoDigest.todo[u] = {} /\ NoDigest.sent[u] = {}
<1>1. NoSave \in Saves /\ NoSave.at = "idle" /\ NoSave.todo = {}
  BY NoNodeIsNode DEF NoSave, Saves
<1>2. [i \in Items |-> NoNode] \in [Items -> Node]
  BY NoNodeIsNode
<1> QED BY <1>1, <1>2 DEF NoDigest, Digests

LEMMA FlagNode ==
    ASSUME NEW n \in Node
    PROVE  /\ WithFlag(n) \in Node
           /\ WithFlag(n).email = n.email /\ WithFlag(n).on = n.on
           /\ WithFlag(n).all = n.all /\ WithFlag(n).notified = n.notified
           /\ WithFlag(n).complete <=> n.all \subseteq n.notified
BY DEF WithFlag, Node

LEMMA NotedNode ==
    ASSUME NEW n \in Node, NEW us \in SUBSET Users
    PROVE  /\ Noted(n, us) \in Node
           /\ Noted(n, us).email = n.email /\ Noted(n, us).on = n.on
           /\ Noted(n, us).all = n.all /\ Noted(n, us).notified = n.notified \cup us
           /\ Noted(n, us).complete = n.complete
BY DEF Noted, Node

LEMMA ListsNode ==
    ASSUME NEW n \in Node, NEW k \in Kinds, NEW own, NEW us \in SUBSET Users
    PROVE  /\ WithLists(n, k, own, us) \in Node
           /\ WithLists(n, k, own, us).email = n.email
           /\ WithLists(n, k, own, us).all = us
           /\ WithLists(n, k, own, us).notified = n.notified
           /\ WithLists(n, k, own, us).complete = n.complete
           /\ \A c \in Channels :
                 WithLists(n, k, own, us).on[c] = {u \in us : ChannelOf(k, own, u) = c}
<1> DEFINE on == [c \in Channels |-> {u \in us : ChannelOf(k, own, u) = c}]
<1>1. on \in [Channels -> SUBSET Users]
  OBVIOUS
<1>2. WithLists(n, k, own, us) = [n EXCEPT !.on = on, !.all = us]
  BY DEF WithLists
<1> HIDE DEF on
<1>3. /\ WithLists(n, k, own, us) \in Node /\ WithLists(n, k, own, us).on = on
      /\ WithLists(n, k, own, us).email = n.email
      /\ WithLists(n, k, own, us).all = us
      /\ WithLists(n, k, own, us).notified = n.notified
      /\ WithLists(n, k, own, us).complete = n.complete
  BY <1>1, <1>2 DEF Node
<1> QED BY <1>3 DEF on

(* The draft of a save. *)
Draft(n, e) == [n EXCEPT !.notified = {}, !.email = e]

LEMMA DraftNode ==
    ASSUME NEW n \in Node, NEW e \in Nat
    PROVE  /\ Draft(n, e) \in Node
           /\ Draft(n, e).email = e /\ Draft(n, e).notified = {}
           /\ Draft(n, e).on = n.on /\ Draft(n, e).all = n.all
           /\ Draft(n, e).complete = n.complete
BY DEF Draft, Node

(* The node of an item of which user u moves to the list of channel c. *)
MovedTo(n, k, u, c) ==
    [n EXCEPT !.on = [d \in Channels |->
                        CASE d = c -> @[d] \cup {u}
                          [] d # c /\ d = frequency[k][u] -> @[d] \ {u}
                          [] OTHER -> @[d]]]

IsMoved(m, n, k, u, c) ==
    /\ m.email = n.email /\ m.all = n.all /\ m.notified = n.notified
    /\ m.complete = n.complete
    /\ \A d \in Channels :
          m.on[d] = IF d = c THEN n.on[d] \cup {u}
                    ELSE IF d = frequency[k][u] THEN n.on[d] \ {u} ELSE n.on[d]

LEMMA MovedNode ==
    ASSUME NEW n \in Node, NEW k \in Kinds, NEW u \in Users, NEW c \in Channels
    PROVE  MovedTo(n, k, u, c) \in Node /\ IsMoved(MovedTo(n, k, u, c), n, k, u, c)
<1> DEFINE on == [d \in Channels |->
                     IF d = c THEN n.on[d] \cup {u}
                     ELSE IF d = frequency[k][u] THEN n.on[d] \ {u} ELSE n.on[d]]
<1>1. on \in [Channels -> SUBSET Users]
  BY DEF Node
<1>2. MovedTo(n, k, u, c) = [n EXCEPT !.on = on]
  BY DEF MovedTo
<1> HIDE DEF on
<1>3. /\ MovedTo(n, k, u, c) \in Node /\ MovedTo(n, k, u, c).on = on
      /\ MovedTo(n, k, u, c).email = n.email
      /\ MovedTo(n, k, u, c).all = n.all
      /\ MovedTo(n, k, u, c).notified = n.notified
      /\ MovedTo(n, k, u, c).complete = n.complete
  BY <1>1, <1>2 DEF Node
<1> QED BY <1>3 DEF on, IsMoved
------------------------------------------------------------------------------
(* Type correctness. *)

LEMMA InitTyped == Init => Typed
<1> SUFFICES ASSUME Init PROVE Typed
  OBVIOUS
<1>1. FrequencyOK
  BY NotificationsAssumption DEF Init, FrequencyOK, NoneChosen
<1>2. NodeOK /\ HistoryOK /\ CountsOK
  BY NoNodeIsNode DEF Init, NodeOK, HistoryOK, CountsOK
<1>3. RunsOK
  BY NoRuns DEF Init, RunsOK
<1> QED BY <1>1, <1>2, <1>3 DEF Typed

(* The mails a digest has still to send, and has sent, after one to u that
   went out, or one that failed. *)
Without(u) == [cron.todo EXCEPT ![u] = {}]
SentTo(u) == [cron.sent EXCEPT ![u] = cron.todo[u]]

LEMMA MailedDigest ==
    ASSUME RunsOK, NEW u \in Users
    PROVE  /\ Without(u) \in [Users -> SUBSET Items]
           /\ SentTo(u) \in [Users -> SUBSET Items]
           /\ [cron EXCEPT !.sent[u] = cron.todo[u], !.todo[u] = {}]
                 = [cron EXCEPT !.todo = Without(u), !.sent = SentTo(u)]
BY DEF RunsOK, Digests, Without, SentTo

LEMMA AfterMail ==
    ASSUME RunsOK, NEW u \in Users,
           cron' = [cron EXCEPT !.sent[u] = cron.todo[u], !.todo[u] = {}]
    PROVE  /\ cron' \in Digests /\ cron'.at = cron.at /\ cron'.copy = cron.copy
           /\ cron'.todo = Without(u) /\ cron'.sent = SentTo(u)
<1> DEFINE w == Without(u)
           s == SentTo(u)
<1>1. w \in [Users -> SUBSET Items] /\ s \in [Users -> SUBSET Items]
  BY MailedDigest
<1>2. cron' = [cron EXCEPT !.todo = w, !.sent = s]
  BY MailedDigest
<1> HIDE DEF w, s
<1>3. cron' \in Digests /\ cron'.at = cron.at /\ cron'.copy = cron.copy
      /\ cron'.todo = w /\ cron'.sent = s
  BY <1>1, <1>2 DEF RunsOK, Digests
<1> QED BY <1>3 DEF w, s

LEMMA AfterFailure ==
    ASSUME RunsOK, NEW u \in Users, cron' = [cron EXCEPT !.todo[u] = {}]
    PROVE  /\ cron' \in Digests /\ cron'.at = cron.at /\ cron'.copy = cron.copy
           /\ cron'.todo = Without(u) /\ cron'.sent = cron.sent
<1> DEFINE w == Without(u)
<1>1. w \in [Users -> SUBSET Items]
  BY MailedDigest
<1>2. cron' = [cron EXCEPT !.todo = w]
  BY DEF Without
<1> HIDE DEF w
<1>3. cron' \in Digests /\ cron'.at = cron.at /\ cron'.copy = cron.copy
      /\ cron'.todo = w /\ cron'.sent = cron.sent
  BY <1>1, <1>2 DEF RunsOK, Digests
<1> QED BY <1>3 DEF w

(* What a save is about when it begins. *)
Basis(i, us, relist) == IF relist THEN WithLists(node[i], Kind[i], custom[i], us) ELSE node[i]
NewSave(i, author, final, d) ==
    [at |-> "sending", item |-> i, author |-> author, final |-> final,
     draft |-> d, todo |-> d.on["immediately"], told |-> {}]

LEMMA SaveBegins ==
    ASSUME Typed, NEW i \in Items, NEW us \in SUBSET Users, NEW relist \in BOOLEAN,
           NEW author \in Users \cup {None}, NEW final \in BOOLEAN,
           BeginSave(i, us, relist, author, final)
    PROVE  \E n, d \in Node : /\ n = Basis(i, us, relist)
                              /\ d = Draft(n, emails + 1)
                              /\ save' = NewSave(i, author, final, d)
                              /\ save' \in Saves
<1> DEFINE n == Basis(i, us, relist)
           d == Draft(n, emails + 1)
<1>1. node[i] \in Node /\ Kind[i] \in Kinds
  BY NotificationsAssumption DEF Typed, NodeOK
<1>2. n \in Node
  BY <1>1, ListsNode DEF Basis
<1>3. emails + 1 \in Nat
  BY DEF Typed, CountsOK
<1>4. save' = NewSave(i, author, final, d)
  BY DEF BeginSave, Draft, Basis, NewSave
<1> HIDE DEF n
<1>5. d \in Node
  BY <1>2, <1>3, DraftNode
<1> HIDE DEF d
<1>6. d.on["immediately"] \in SUBSET Users
  BY <1>5 DEF Node, Channels
<1>7. save' \in Saves
  BY <1>4, <1>5, <1>6 DEF Saves, NewSave
<1> QED BY <1>2, <1>4, <1>5, <1>7 DEF n, d

LEMMA NextTyped == Typed /\ [Next]_vars => Typed'
<1> SUFFICES ASSUME Typed, [Next]_vars PROVE Typed'
  OBVIOUS
<1>0. FrequencyOK /\ NodeOK /\ RunsOK /\ HistoryOK /\ CountsOK
  BY DEF Typed
<1>a. ASSUME UNCHANGED <<frequency, custom, node, gone>>
      PROVE  FrequencyOK' /\ NodeOK'
  BY <1>0, <1>a DEF FrequencyOK, NodeOK
<1>b. ASSUME UNCHANGED history
      PROVE  HistoryOK'
  BY <1>0, <1>b DEF history, HistoryOK
<1>c. ASSUME UNCHANGED <<changes, choices, emails>>, faults' = faults \/ Fault
      PROVE  CountsOK'
  BY <1>0, <1>c DEF Fault, CountsOK
<1>d. ASSUME UNCHANGED save, cron' \in Digests
      PROVE  RunsOK'
  BY <1>0, <1>d DEF RunsOK
<1>e. ASSUME UNCHANGED cron, save' = NoSave
      PROVE  RunsOK'
  BY <1>0, <1>e, NoRuns DEF RunsOK
<1>1. ASSUME NEW i \in Items, NEW us \in SUBSET Users, NEW relist \in BOOLEAN,
             NEW author \in Users \cup {None}, NEW final \in BOOLEAN,
             BeginSave(i, us, relist, author, final)
      PROVE  Typed'
  <2>1. UNCHANGED content /\ UNCHANGED cron /\ UNCHANGED history /\ UNCHANGED bounds
    BY <1>1 DEF BeginSave
  <2>2. save' \in Saves /\ save'.item = i
    <3>1. PICK n, d \in Node : /\ n = Basis(i, us, relist)
                               /\ d = Draft(n, emails + 1)
                               /\ save' = NewSave(i, author, final, d)
                               /\ save' \in Saves
      BY <1>1, SaveBegins
    <3> QED BY <3>1 DEF NewSave
  <2>3. RunsOK'
    BY <1>0, <2>1, <2>2 DEF RunsOK
  <2> QED BY <1>a, <1>b, <1>c, <2>1, <2>3 DEF content, bounds, Typed
<1>2. ASSUME NEW u \in Users, SendNow(u) \/ SendNowFails(u)
      PROVE  Typed'
  <2> DEFINE sent == [save EXCEPT !.todo = @ \ {u}, !.told = @ \cup {u}]
             failed == [save EXCEPT !.todo = @ \ {u}]
  <2>1. /\ sent \in Saves /\ sent.at = save.at /\ sent.item = save.item
        /\ failed \in Saves /\ failed.at = save.at /\ failed.item = save.item
    BY <1>0 DEF RunsOK, Saves
  <2>2. save' = sent \/ save' = failed
    BY <1>2 DEF SendNow, SendNowFails
  <2> HIDE DEF sent, failed
  <2>3. UNCHANGED content /\ UNCHANGED cron /\ UNCHANGED history
    BY <1>2 DEF SendNow, SendNowFails
  <2>4. UNCHANGED <<changes, choices, emails>> /\ (faults' = faults \/ Fault)
    BY <1>2 DEF SendNow, SendNowFails, bounds
  <2>5. RunsOK'
    BY <1>0, <2>1, <2>2, <2>3 DEF RunsOK
  <2> QED BY <1>a, <1>b, <1>c, <2>3, <2>4, <2>5 DEF content, Typed
<1>3. CASE CommitSave
  <2>1. PICK i \in Items : i = save.item
    BY <1>0, <1>3 DEF CommitSave, RunsOK
  <2>2. PICK d \in Node : d = save.draft
    BY <1>0 DEF RunsOK, Saves
  <2>3. PICK t \in SUBSET Users : t = save.told
    BY <1>0 DEF RunsOK, Saves
  <2>4. PICK n \in Node : n = Noted(d, t)
    BY NotedNode
  <2>5. /\ node' = [node EXCEPT ![i] = WithFlag(n)]
        /\ issued' = [issued EXCEPT ![i] = d.email] /\ emails' = emails + 1
        /\ addressed' = [addressed EXCEPT ![i] = n.all]
        /\ told' = [told EXCEPT ![i] = t] /\ blank' = [blank EXCEPT ![i] = {}]
        /\ save' = NoSave
        /\ UNCHANGED <<frequency, custom, cron, lapsed, changes, choices, faults>>
    BY <1>3, <2>1, <2>2, <2>3, <2>4 DEF CommitSave
  <2>6. gone' \subseteq gone \cup {i} /\ stranded' \subseteq stranded
    BY <1>3, <2>1 DEF CommitSave
  <2>7. NodeOK'
    BY <1>0, <2>4, <2>5, <2>6, FlagNode DEF NodeOK
  <2>8. d.email \in Nat /\ n.all \in SUBSET Users
    BY DEF Node
  <2>9. HistoryOK'
    BY <1>0, <2>5, <2>6, <2>8 DEF HistoryOK
  <2> QED BY <1>0, <1>e, <2>5, <2>7, <2>9 DEF Typed, FrequencyOK, CountsOK
<1>4. CASE AbortSave
  BY <1>a, <1>b, <1>c, <1>e, <1>4 DEF AbortSave, content, Typed
<1>5. ASSUME NEW i \in Items, DeletePage(i)
      PROVE  Typed'
  <2>1. /\ node' = [node EXCEPT ![i] = NoNode] /\ gone' = gone \cup {i}
        /\ addressed' = [addressed EXCEPT ![i] = {}]
        /\ told' = [told EXCEPT ![i] = {}] /\ blank' = [blank EXCEPT ![i] = {}]
        /\ stranded' \subseteq stranded
        /\ UNCHANGED <<frequency, custom, save, cron, issued, lapsed, emails, changes,
                       choices, faults>>
    BY <1>5 DEF DeletePage, bounds
  <2>2. NodeOK' /\ HistoryOK'
    BY <1>0, <2>1, NoNodeIsNode DEF NodeOK, HistoryOK
  <2> QED BY <1>0, <2>1, <2>2 DEF Typed, FrequencyOK, RunsOK, CountsOK
<1>6. ASSUME NEW i \in Items, NEW us \in SUBSET Users, SetFollowers(i, us)
      PROVE  Typed'
  <2>1. PICK n \in Node : n = WithLists(node[i], Kind[i], custom[i], us)
    BY <1>0, ListsNode, NotificationsAssumption DEF NodeOK
  <2>2. PICK m \in {n, WithFlag(n)} : node' = [node EXCEPT ![i] = m]
    BY <1>6, <2>1 DEF SetFollowers
  <2>3. /\ addressed' = [addressed EXCEPT ![i] = @ \cap us] /\ stranded' \subseteq stranded
        /\ UNCHANGED <<frequency, custom, gone, save, cron, issued, told, blank, lapsed,
                       emails, choices, faults>>
    BY <1>6 DEF SetFollowers
  <2>4. NodeOK'
    BY <1>0, <2>2, <2>3, FlagNode DEF NodeOK
  <2>5. HistoryOK'
    BY <1>0, <2>3 DEF HistoryOK
  <2>6. CountsOK'
    BY <1>0, <1>6, <2>3 DEF SetFollowers, Change, CountsOK
  <2> QED BY <1>0, <2>3, <2>4, <2>5, <2>6 DEF Typed, FrequencyOK, RunsOK
<1>16. ASSUME NEW i \in Items, NEW u \in Users, NEW c \in Channels \cup {None},
              NEW us \in SUBSET Users, ChooseForPage(i, u, c, us)
       PROVE  Typed'
  <2>1. PICK n \in Node : n = WithLists(node[i], Kind[i], custom'[i], us)
    BY <1>0, ListsNode, NotificationsAssumption DEF NodeOK
  <2>2. /\ custom' = [custom EXCEPT ![i][u] = c]
        /\ node' = [node EXCEPT ![i] = WithFlag(n)]
        /\ addressed' = [addressed EXCEPT ![i] = @ \cap us] /\ stranded' \subseteq stranded
        /\ UNCHANGED <<frequency, gone, save, cron, issued, told, blank, lapsed, emails,
                       changes, faults>>
    BY <1>16, <2>1 DEF ChooseForPage
  <2>3. NodeOK' /\ HistoryOK'
    BY <1>0, <2>2, FlagNode DEF NodeOK, HistoryOK
  <2>4. FrequencyOK'
    BY <1>0, <2>2 DEF FrequencyOK
  <2>5. CountsOK'
    BY <1>0, <1>16, <2>2 DEF ChooseForPage, Choice, CountsOK
  <2> QED BY <1>0, <2>2, <2>3, <2>4, <2>5 DEF Typed, RunsOK
<1>7. ASSUME NEW k \in Kinds, NEW u \in Users, NEW c \in Channels, NEW is \in SUBSET Items,
             ChangeFrequency(k, u, c, is)
      PROVE  Typed'
  <2>1. node' = [i \in Items |-> IF i \in is THEN MovedTo(node[i], k, u, c) ELSE node[i]]
    BY <1>7 DEF ChangeFrequency, MovedTo
  <2>2. /\ frequency' = [frequency EXCEPT ![k][u] = c]
        /\ stranded' = stranded \cup
             {<<i, u>> : i \in {j \in ListedIn(k, u) \ is : custom[j][u] = None}}
        /\ UNCHANGED <<custom, gone, save, cron, issued, addressed, told, blank, lapsed,
                       emails, choices>>
    BY <1>7 DEF ChangeFrequency
  <2>3. NodeOK'
    BY <1>0, <2>1, <2>2, MovedNode DEF NodeOK
  <2>4. FrequencyOK'
    BY <1>0, <2>2 DEF FrequencyOK
  <2>5. HistoryOK'
    BY <1>0, <2>2 DEF HistoryOK, ListedIn
  <2>6. CountsOK'
    <3>1. faults' = faults \/ Fault
      BY <1>7 DEF ChangeFrequency
    <3>2. Change /\ emails' = emails /\ choices' = choices
      BY <1>7 DEF ChangeFrequency
    <3> QED BY <1>0, <3>1, <3>2 DEF Change, Fault, CountsOK
  <2> QED BY <1>0, <2>2, <2>3, <2>4, <2>5, <2>6 DEF Typed, RunsOK
<1>8. ASSUME NEW k \in Kinds, NEW c \in {"day", "week"}, NEW old \in BOOLEAN,
             BeginDigest(k, c, old)
      PROVE  Typed'
  <2>1. PICK todo \in [Users -> SUBSET Items] :
            cron' = [NoDigest EXCEPT !.at = "mailing", !.blank = old, !.copy = node,
                                     !.todo = todo]
    BY <1>8 DEF BeginDigest
  <2>2. cron' \in Digests
    BY <1>0, <2>1, NoRuns DEF NodeOK, Digests
  <2>3. UNCHANGED content /\ UNCHANGED save /\ UNCHANGED history /\ UNCHANGED bounds
    BY <1>8 DEF BeginDigest
  <2> QED BY <1>a, <1>b, <1>c, <1>d, <2>2, <2>3 DEF content, bounds, Typed
<1>9. ASSUME NEW u \in Users, MailDigest(u)
      PROVE  Typed'
  <2>1. cron' = [cron EXCEPT !.sent[u] = cron.todo[u], !.todo[u] = {}]
    BY <1>9 DEF MailDigest
  <2>2. cron' \in Digests
    BY <1>0, <2>1, AfterMail
  <2>3. /\ told' \in [Items -> SUBSET Users] /\ blank' \in [Items -> SUBSET Users]
    <3>1. CASE cron.blank
      BY <1>0, <1>9, <3>1 DEF MailDigest, HistoryOK
    <3>2. CASE ~cron.blank
      BY <1>0, <1>9, <3>2 DEF MailDigest, HistoryOK
    <3> QED BY <3>1, <3>2
  <2>4. UNCHANGED <<content, save, issued, addressed, stranded, lapsed, bounds>>
    BY <1>9 DEF MailDigest
  <2>5. HistoryOK'
    BY <1>0, <2>3, <2>4 DEF HistoryOK
  <2> QED BY <1>a, <1>c, <1>d, <2>2, <2>4, <2>5 DEF content, bounds, Typed
<1>10. ASSUME NEW u \in Users, MailDigestFails(u)
       PROVE  Typed'
  <2>1. cron' = [cron EXCEPT !.todo[u] = {}] /\ cron.sent \in [Users -> SUBSET Items]
    BY <1>0, <1>10 DEF MailDigestFails, RunsOK, Digests
  <2>2. cron' \in Digests
    BY <1>0, <2>1, AfterFailure
  <2> QED BY <1>a, <1>b, <1>c, <1>d, <1>10, <2>2 DEF MailDigestFails, content, Typed
<1>11. CASE Mailed
  <2>1. cron' = NoDigest \/ cron' = [cron EXCEPT !.at = "recording"]
    BY <1>11 DEF Mailed
  <2>2. cron' \in Digests
    BY <1>0, <2>1, NoRuns DEF RunsOK, Digests
  <2> QED BY <1>a, <1>b, <1>c, <1>d, <1>11, <2>2 DEF Mailed, content, bounds, Typed
<1>12. ASSUME NEW i \in Items, Record(i)
       PROVE  Typed'
  <2>1. PICK m \in Node : m = Noted(cron.copy[i], MailedOf(i))
    BY <1>0, NotedNode DEF RunsOK, Digests, MailedOf
  <2>2. PICK n \in {NoNode, WithFlag(m)} : node' = [node EXCEPT ![i] = n]
    BY <1>12, <2>1 DEF Record
  <2>3. NodeOK'
    BY <1>0, <1>12, <2>2, NoNodeIsNode, FlagNode DEF Record, NodeOK
  <2>4. cron' \in Digests
    <3>1. PICK sent \in [Users -> SUBSET Items] :
              cron' = NoDigest \/ cron' = [cron EXCEPT !.sent = sent]
      <4>1. [u \in Users |-> cron.sent[u] \ {i}] \in [Users -> SUBSET Items]
        BY <1>0 DEF RunsOK, Digests
      <4> QED BY <1>12, <4>1 DEF Record
    <3>2. [cron EXCEPT !.sent = sent] \in Digests
      BY <1>0 DEF RunsOK, Digests
    <3> QED BY <3>1, <3>2, NoRuns
  <2> QED BY <1>0, <1>b, <1>c, <1>d, <1>12, <2>3, <2>4 DEF Record, bounds, FrequencyOK, Typed
<1>13. ASSUME NEW i \in Items, RecordDies(i)
       PROVE  Typed'
  <2>1. PICK m \in Node : m = Noted(cron.copy[i], MailedOf(i))
    BY <1>0, NotedNode DEF RunsOK, Digests, MailedOf
  <2>2. PICK n \in {NoNode, m} : node' = [node EXCEPT ![i] = n]
    BY <1>13, <2>1 DEF RecordDies
  <2>3. /\ cron' = NoDigest /\ lapsed' = TRUE /\ Fault
        /\ UNCHANGED <<frequency, custom, gone, save, issued, addressed, told, blank,
                       stranded, emails, changes, choices>>
    BY <1>13 DEF RecordDies
  <2>4. NodeOK' /\ HistoryOK'
    BY <1>0, <2>2, <2>3, NoNodeIsNode DEF NodeOK, HistoryOK
  <2> QED BY <1>0, <1>c, <1>d, <2>3, <2>4, NoRuns DEF FrequencyOK, Typed
<1>14. CASE DigestDies
  <2>1. HistoryOK'
    BY <1>0, <1>14 DEF DigestDies, HistoryOK
  <2> QED BY <1>a, <1>c, <1>d, <1>14, <2>1, NoRuns DEF DigestDies, content, Typed
<1>15. CASE UNCHANGED vars
  BY <1>a, <1>b, <1>c, <1>0, <1>15 DEF vars, history, RunsOK, Typed
<1> QED
  BY <1>1, <1>2, <1>3, <1>4, <1>5, <1>6, <1>7, <1>8, <1>9, <1>10, <1>11, <1>12, <1>13,
     <1>14, <1>15, <1>16, NotificationsAssumption DEF Next, Sending, Digest

(* Nodes, requests and digests are well typed, also when saves and digests
   overlap. *)
THEOREM TypeCorrect == Spec => []TypeOK
BY InitTyped, NextTyped, TypedMeansTypeOK, PTL DEF Spec

------------------------------------------------------------------------------
(* The inductive invariant, for saves and digests that do not overlap. *)

OnAll(n) == \A c \in Channels : n.on[c] \subseteq n.all

(* User u is in the list of the frequency the user chose, and in no other. *)
Right(n, i, u) ==
    \A c \in Channels : u \in n.on[c] <=> c = ChannelOf(Kind[i], custom[i], u)

(* Of an item: its email is the latest; users noted as notified have been told,
   and users told are noted, or a digest is about to note them. *)
OfItem(i) ==
    /\ node[i].email \in {0, issued[i]}
    /\ node[i].email = 0 => node[i].all = {}
    /\ OnAll(node[i])
    /\ addressed[i] \subseteq node[i].all
    /\ node[i].complete => addressed[i] \subseteq node[i].notified
    /\ node[i].notified \subseteq told[i] \cup blank[i]
    /\ lapsed \/ told[i] \cup blank[i] \subseteq node[i].notified \cup MailedOf(i)
    /\ \A u \in node[i].all : <<i, u>> \in stranded \/ Right(node[i], i, u)

(* Of the part of a digest about item i: the copy it works from is what the
   node is, it mails users of the audience that are not notified, and those it
   has mailed have been told. *)
OfDigest(i) ==
    \A u \in Users :
        /\ i \in cron.todo[u] => /\ u \in node[i].all \ node[i].notified
                                 /\ lapsed \/ u \notin told[i] \cup blank[i]
        /\ i \in cron.sent[u] => u \in told[i] \cup blank[i]
        /\ i \in cron.todo[u] \cup cron.sent[u] =>
             node[i] = cron.copy[i] /\ node[i].email # 0

(* Of a save: its draft forgets who was notified, and lists its users right. *)
OfSave ==
    save.at = "sending" =>
        LET i == save.item
            d == save.draft
        IN  /\ d.notified = {} /\ d.email # 0 /\ OnAll(d)
            /\ save.todo \subseteq d.all /\ save.told \subseteq d.all
            /\ \A u \in d.all : Right(d, i, u) \/ (d.on = node[i].on /\ <<i, u>> \in stranded)

Apart ==
    /\ save = NoSave \/ cron = NoDigest
    /\ cron.at = "recording" => \A u \in Users : cron.todo[u] = {}
    /\ \A u \in Users : cron.todo[u] # {} => cron.sent[u] = {}

Undisturbed == Apart /\ OfSave /\ \A i \in Items : OfItem(i) /\ OfDigest(i)

DeliveryInvariant == Typed /\ Undisturbed

(* A step that leaves an item alone. *)
LEMMA ItemStays ==
    ASSUME NEW i \in Items, OfItem(i),
           node'[i] = node[i], issued'[i] = issued[i], addressed'[i] = addressed[i],
           told'[i] = told[i], blank'[i] = blank[i], lapsed => lapsed',
           lapsed' \/ MailedOf(i) \subseteq MailedOf(i)',
           \A u \in Users : <<i, u>> \in stranded => <<i, u>> \in stranded',
           frequency' = frequency, custom'[i] = custom[i], node[i].all \subseteq Users
    PROVE  OfItem(i)'
<1>1. /\ node'[i].email \in {0, issued'[i]}
      /\ node'[i].email = 0 => node'[i].all = {}
      /\ OnAll(node'[i])
      /\ addressed'[i] \subseteq node'[i].all
      /\ node'[i].complete => addressed'[i] \subseteq node'[i].notified
      /\ node'[i].notified \subseteq told'[i] \cup blank'[i]
  BY DEF OfItem
<1>2. lapsed' \/ told'[i] \cup blank'[i] \subseteq node'[i].notified \cup MailedOf(i)'
  BY DEF OfItem
<1>3. \A u \in node[i].all : <<i, u>> \in stranded' \/ Right(node[i], i, u)'
  <2> SUFFICES ASSUME NEW u \in node[i].all, <<i, u>> \notin stranded'
               PROVE  Right(node[i], i, u)'
    OBVIOUS
  <2>1. Right(node[i], i, u)
    BY DEF OfItem
  <2> QED BY <2>1 DEF Right, ChannelOf
<1>4. OnAll(node[i])'
  BY <1>1 DEF OnAll
<1> QED BY <1>1, <1>2, <1>3, <1>4 DEF OfItem

LEMMA DigestStays ==
    ASSUME NEW i \in Items, OfDigest(i),
           node'[i] = node[i], told'[i] = told[i], blank'[i] = blank[i], lapsed => lapsed',
           cron'.copy = cron.copy,
           \A u \in Users : /\ i \in cron'.todo[u] => i \in cron.todo[u]
                            /\ i \in cron'.sent[u] => i \in cron.sent[u]
    PROVE  OfDigest(i)'
<1> SUFFICES ASSUME NEW u \in Users
             PROVE  /\ i \in cron'.todo[u] => /\ u \in node'[i].all \ node'[i].notified
                                              /\ lapsed' \/ u \notin told'[i] \cup blank'[i]
                    /\ i \in cron'.sent[u] => u \in told'[i] \cup blank'[i]
                    /\ i \in cron'.todo[u] \cup cron'.sent[u] =>
                         node'[i] = cron'.copy[i] /\ node'[i].email # 0
  BY DEF OfDigest
<1>1. CASE i \in cron'.todo[u]
  <2>1. i \in cron.todo[u]
    BY <1>1
  <2>2. /\ u \in node[i].all \ node[i].notified /\ node[i] = cron.copy[i] /\ node[i].email # 0
        /\ lapsed \/ u \notin told[i] \cup blank[i]
        /\ i \in cron.sent[u] => u \in told[i] \cup blank[i]
    BY <2>1 DEF OfDigest
  <2> QED BY <2>2
<1>2. CASE i \notin cron'.todo[u]
  <2>1. i \in cron.sent[u] => /\ u \in told[i] \cup blank[i]
                              /\ node[i] = cron.copy[i] /\ node[i].email # 0
    BY DEF OfDigest
  <2> QED BY <1>2, <2>1
<1> QED BY <1>1, <1>2

LEMMA NoDigestStays ==
    ASSUME cron' = NoDigest
    PROVE  /\ \A i \in Items : OfDigest(i)' /\ MailedOf(i)' = {}
           /\ cron'.at = "idle"
BY NoRuns DEF OfDigest, MailedOf

LEMMA InitDelivery == Init => DeliveryInvariant
<1> SUFFICES ASSUME Init PROVE DeliveryInvariant
  OBVIOUS
<1>1. Apart /\ OfSave
  BY NoRuns DEF Init, Apart, OfSave
<1>2. \A i \in Items : OfItem(i)
  BY NoNodeIsNode DEF Init, OfItem, OnAll
<1>3. \A i \in Items : OfDigest(i)
  BY NoRuns DEF Init, OfDigest
<1> QED BY <1>1, <1>2, <1>3, InitTyped DEF DeliveryInvariant, Undisturbed

LEMMA DeliveryImplies ==
    DeliveryInvariant => PendingIsFlagged /\ NotedWereMailed /\ MailedOnce /\ ListsFollowChoice
<1> SUFFICES ASSUME DeliveryInvariant
             PROVE  PendingIsFlagged /\ NotedWereMailed /\ MailedOnce /\ ListsFollowChoice
  OBVIOUS
<1>0. \A i \in Items : OfItem(i) /\ OfDigest(i)
  BY DEF DeliveryInvariant, Undisturbed
<1>1. PendingIsFlagged
  BY <1>0 DEF PendingIsFlagged, OfItem
<1>2. NotedWereMailed
  BY <1>0 DEF NotedWereMailed, OfItem
<1>3. MailedOnce
  <2>1. cron.todo \in [Users -> SUBSET Items]
    BY DEF DeliveryInvariant, Typed, RunsOK, Digests
  <2> QED BY <1>0, <2>1 DEF MailedOnce, OfDigest
<1>4. ListsFollowChoice
  BY <1>0 DEF ListsFollowChoice, OfItem, Right
<1> QED BY <1>1, <1>2, <1>3, <1>4

LEMMA NextDelivery ==
    ASSUME Serialised PROVE DeliveryInvariant /\ [Next]_vars => DeliveryInvariant'
<1> SUFFICES ASSUME DeliveryInvariant, [Next]_vars PROVE DeliveryInvariant'
  OBVIOUS
<1>0. /\ Typed /\ Apart /\ OfSave /\ \A i \in Items : OfItem(i) /\ OfDigest(i)
      /\ node \in [Items -> Node]
      /\ \A i \in Items : node[i] \in Node /\ node[i].all \subseteq Users
  BY DEF DeliveryInvariant, Undisturbed, Typed, NodeOK, Node
<1>t. Typed'
  BY NextTyped DEF DeliveryInvariant
<1>s. SUFFICES Undisturbed'
  BY <1>t DEF DeliveryInvariant
<1>n. NoOverlap => save = NoSave /\ cron = NoDigest /\ save.at = "idle"
  BY NoRuns DEF NoOverlap
<1>h. ASSUME NEW i \in Items, node'[i] = node[i], UNCHANGED <<frequency, custom, cron, history>>
      PROVE  OfItem(i)' /\ OfDigest(i)'
  BY <1>0, <1>h, ItemStays, DigestStays DEF history, MailedOf
<1>1. ASSUME NEW i \in Items, NEW us \in SUBSET Users, NEW relist \in BOOLEAN,
             NEW author \in Users \cup {None}, NEW final \in BOOLEAN,
             BeginSave(i, us, relist, author, final)
      PROVE  Undisturbed'
  <2>1. /\ UNCHANGED <<node, frequency, custom, cron, history>> /\ cron = NoDigest
        /\ ~relist => us = node[i].all
    BY <1>1, <1>n DEF BeginSave, content
  <2>2. \A x \in Items : OfItem(x)' /\ OfDigest(x)'
    BY <1>h, <2>1
  <2>3. PICK n, d \in Node : /\ n = Basis(i, us, relist)
                             /\ d = Draft(n, emails + 1)
                             /\ save' = NewSave(i, author, final, d)
                             /\ save' \in Saves
    BY <1>0, <1>1, SaveBegins
  <2>4. /\ save'.item = i /\ save'.draft = d /\ save'.todo = d.on["immediately"]
        /\ save'.told = {}
    BY <2>3 DEF NewSave
  <2>5. d.notified = {} /\ d.email # 0 /\ d.on = n.on /\ d.all = n.all
    <3>1. emails + 1 \in Nat /\ emails + 1 # 0
      BY <1>0 DEF Typed, CountsOK
    <3> QED BY <2>3, <3>1, DraftNode
  <2>6. CASE relist
    <3>1. /\ n.all = us
          /\ \A c \in Channels : n.on[c] = {u \in us : ChannelOf(Kind[i], custom[i], u) = c}
      BY <1>0, <2>3, <2>6, ListsNode, NotificationsAssumption DEF Basis
    <3>2. OnAll(d) /\ \A u \in d.all : Right(d, i, u)
      BY <2>5, <3>1 DEF OnAll, Right
    <3>3. OnAll(d)' /\ \A u \in d.all : Right(d, i, u)'
      BY <2>1, <3>2 DEF OnAll, Right, ChannelOf
    <3>4. OfSave'
      BY <2>4, <2>5, <3>3 DEF OfSave, OnAll, Channels
    <3> QED BY <2>1, <2>2, <3>4, NoRuns DEF Undisturbed, Apart
  <2>7. CASE ~relist
    <3>1. n = node[i]
      BY <2>3, <2>7 DEF Basis
    <3>2. /\ OnAll(d) /\ d.on = node[i].on
          /\ \A u \in d.all : <<i, u>> \in stranded \/ Right(d, i, u)
      BY <1>0, <2>5, <3>1 DEF OfItem, OnAll, Right
    <3>3. /\ OnAll(d)' /\ d.on = node'[i].on
          /\ \A u \in d.all : <<i, u>> \in stranded' \/ Right(d, i, u)'
      BY <2>1, <3>2 DEF OnAll, Right, ChannelOf, history
    <3>4. OfSave'
      BY <2>4, <2>5, <3>3 DEF OfSave, OnAll, Channels
    <3> QED BY <2>1, <2>2, <3>4, NoRuns DEF Undisturbed, Apart
  <2> QED BY <2>6, <2>7
<1>2. ASSUME NEW u \in Users, SendNow(u) \/ SendNowFails(u)
      PROVE  Undisturbed'
  <2>1. UNCHANGED <<node, frequency, custom, cron, history>>
    BY <1>2 DEF SendNow, SendNowFails, content
  <2>2. \A x \in Items : OfItem(x)' /\ OfDigest(x)'
    BY <1>h, <2>1
  <2>3. /\ save'.at = save.at /\ save'.item = save.item /\ save'.draft = save.draft
        /\ save'.todo \subseteq save.todo
        /\ save'.told \subseteq save.told \cup save.todo
    <3>0. save \in Saves
      BY <1>0 DEF Typed, RunsOK
    <3>1. CASE SendNow(u)
      BY <3>0, <3>1 DEF SendNow, Saves
    <3>2. CASE SendNowFails(u)
      <4>1. save' = [save EXCEPT !.todo = @ \ {u}]
        BY <3>2 DEF SendNowFails
      <4> QED BY <3>0, <4>1 DEF Saves
    <3> QED BY <1>2, <3>1, <3>2
  <2>4. save.todo # {}
    BY <1>2 DEF SendNow, SendNowFails
  <2>5. cron = NoDigest
    BY <1>0, <2>4, NoRuns DEF Apart
  <2>6. OfSave'
    <3> SUFFICES ASSUME save.at = "sending" PROVE OfSave'
      BY <2>3 DEF OfSave
    <3> DEFINE i == save.item
               d == save.draft
    <3>1. /\ d.notified = {} /\ d.email # 0 /\ OnAll(d)
          /\ save.todo \subseteq d.all /\ save.told \subseteq d.all
          /\ \A v \in d.all : Right(d, i, v) \/ (d.on = node[i].on /\ <<i, v>> \in stranded)
      BY <1>0 DEF OfSave
    <3>2. PICK x, e : x = save.item /\ e = save.draft
      OBVIOUS
    <3>3. \A v : Right(e, x, v)' <=> Right(e, x, v)
      BY <2>1 DEF Right, ChannelOf
    <3> QED BY <2>1, <2>3, <3>1, <3>2, <3>3 DEF OfSave, OnAll, history
  <2> QED BY <2>1, <2>2, <2>5, <2>6, NoRuns DEF Undisturbed, Apart
<1>3. CASE CommitSave
  <2>1. PICK i \in Items : i = save.item
    BY <1>0, <1>3 DEF CommitSave, Typed, RunsOK
  <2>2. PICK d \in Node, t \in SUBSET Users : d = save.draft /\ t = save.told
    BY <1>0 DEF Typed, RunsOK, Saves
  <2>3. PICK n \in Node : n = Noted(d, t)
    BY NotedNode
  <2>4. /\ d.notified = {} /\ d.email # 0 /\ OnAll(d) /\ t \subseteq d.all
        /\ \A u \in d.all : Right(d, i, u) \/ (d.on = node[i].on /\ <<i, u>> \in stranded)
    BY <1>0, <1>3, <2>1, <2>2 DEF CommitSave, OfSave
  <2>5. /\ node' = [node EXCEPT ![i] = WithFlag(n)]
        /\ issued' = [issued EXCEPT ![i] = d.email]
        /\ addressed' = [addressed EXCEPT ![i] = n.all]
        /\ told' = [told EXCEPT ![i] = t] /\ blank' = [blank EXCEPT ![i] = {}]
        /\ stranded' = (IF n.on = node[i].on THEN stranded ELSE {x \in stranded : x[1] # i})
        /\ save' = NoSave
        /\ UNCHANGED <<frequency, custom, cron, lapsed, changes, choices, faults>>
    BY <1>3, <2>1, <2>2, <2>3 DEF CommitSave
  <2>6. cron = NoDigest /\ cron' = NoDigest
    BY <1>0, <1>3, <2>5, NoRuns DEF Apart, CommitSave
  <2>7. /\ \A x \in Items : OfDigest(x)' /\ MailedOf(x)' = {} /\ MailedOf(x) = {}
        /\ cron'.at = "idle"
    BY <2>6, NoDigestStays, NoRuns DEF MailedOf
  <2>8. ASSUME NEW x \in Items, x # i
        PROVE  OfItem(x)'
    <3>1. /\ node'[x] = node[x] /\ issued'[x] = issued[x] /\ addressed'[x] = addressed[x]
          /\ told'[x] = told[x] /\ blank'[x] = blank[x]
      BY <1>0, <2>5, <2>8 DEF Typed, HistoryOK
    <3>2. \A u \in Users : <<x, u>> \in stranded => <<x, u>> \in stranded'
      BY <2>5, <2>8
    <3> QED BY <1>0, <2>5, <2>7, <3>1, <3>2, ItemStays
  <2>9. OfItem(i)'
    <3>1. /\ node'[i] = WithFlag(n) /\ issued'[i] = d.email /\ addressed'[i] = d.all
          /\ told'[i] = t /\ blank'[i] = {}
      BY <1>0, <2>3, <2>5, NotedNode DEF Typed, HistoryOK
    <3>2. /\ node'[i].email = d.email /\ node'[i].on = d.on /\ node'[i].all = d.all
          /\ node'[i].notified = t
          /\ node'[i].complete <=> d.all \subseteq t
      <4>1. /\ n.email = d.email /\ n.on = d.on /\ n.all = d.all /\ n.notified = t
        <5>1. /\ n.email = d.email /\ n.on = d.on /\ n.all = d.all
              /\ n.notified = d.notified \cup t
          BY <2>3, NotedNode
        <5>2. d.notified \cup t = t
          BY <2>4
        <5> QED BY <5>1, <5>2
      <4> QED BY <3>1, <4>1, FlagNode
    <3>3. n.on = d.on
      BY <2>3, NotedNode
    <3>4. \A u \in d.all : <<i, u>> \in stranded' \/ Right(d, i, u)
      <4>1. CASE d.on = node[i].on
        BY <2>4, <2>5, <3>3, <4>1
      <4>2. CASE d.on # node[i].on
        BY <2>4, <4>2
      <4> QED BY <4>1, <4>2
    <3>5. ASSUME NEW u \in node'[i].all, <<i, u>> \notin stranded'
          PROVE  Right(node[i], i, u)'
      <4>1. Right(d, i, u)
        BY <3>2, <3>4, <3>5
      <4>2. frequency' = frequency /\ custom' = custom /\ node'[i].on = d.on
        BY <2>5, <3>2
      <4> QED BY <4>1, <4>2 DEF Right, ChannelOf
    <3>6. OnAll(node[i])'
      BY <2>4, <3>2 DEF OnAll
    <3> QED BY <2>4, <3>1, <3>2, <3>5, <3>6 DEF OfItem
  <2>10. Apart' /\ OfSave'
    BY <2>5, <2>6, NoRuns DEF Apart, OfSave
  <2> QED BY <2>7, <2>8, <2>9, <2>10 DEF Undisturbed
<1>4. CASE AbortSave
  <2>1. save' = NoSave /\ cron = NoDigest /\ UNCHANGED <<node, frequency, custom, cron, history>>
    BY <1>0, <1>4 DEF AbortSave, Apart, content
  <2>2. \A x \in Items : OfItem(x)' /\ OfDigest(x)'
    BY <1>h, <2>1
  <2> QED BY <2>1, <2>2, NoRuns DEF Undisturbed, Apart, OfSave
<1>5. ASSUME NEW i \in Items, DeletePage(i)
      PROVE  Undisturbed'
  <2>1. /\ node' = [node EXCEPT ![i] = NoNode]
        /\ addressed' = [addressed EXCEPT ![i] = {}]
        /\ told' = [told EXCEPT ![i] = {}] /\ blank' = [blank EXCEPT ![i] = {}]
        /\ stranded' = {x \in stranded : x[1] # i}
        /\ UNCHANGED <<frequency, custom, save, cron, issued, lapsed>>
    BY <1>5 DEF DeletePage
  <2>2. save = NoSave /\ cron' = NoDigest /\ cron = NoDigest
    BY <1>5, <1>n, <2>1 DEF DeletePage
  <2>3. /\ \A x \in Items : OfDigest(x)' /\ MailedOf(x)' = {} /\ MailedOf(x) = {}
        /\ cron'.at = "idle"
    BY <2>2, NoDigestStays, NoRuns DEF MailedOf
  <2>4. ASSUME NEW x \in Items, x # i
        PROVE  OfItem(x)'
    <3>1. /\ node'[x] = node[x] /\ issued'[x] = issued[x] /\ addressed'[x] = addressed[x]
          /\ told'[x] = told[x] /\ blank'[x] = blank[x]
      BY <1>0, <2>1, <2>4 DEF Typed, HistoryOK
    <3>2. \A u \in Users : <<x, u>> \in stranded => <<x, u>> \in stranded'
      BY <2>1, <2>4
    <3> QED BY <1>0, <2>1, <2>3, <3>1, <3>2, ItemStays
  <2>5. OfItem(i)'
    <3>1. node'[i] = NoNode /\ addressed'[i] = {} /\ told'[i] = {} /\ blank'[i] = {}
      BY <1>0, <2>1 DEF Typed, HistoryOK
    <3>2. OnAll(node[i])'
      BY <3>1, NoNodeIsNode DEF OnAll
    <3> QED BY <3>1, <3>2, NoNodeIsNode DEF OfItem
  <2> QED BY <2>1, <2>2, <2>3, <2>4, <2>5, NoRuns DEF Undisturbed, Apart, OfSave
<1>6. ASSUME NEW i \in Items, NEW us \in SUBSET Users, SetFollowers(i, us)
      PROVE  Undisturbed'
  <2>1. PICK n \in Node : n = WithLists(node[i], Kind[i], custom[i], us)
    BY <1>0, ListsNode, NotificationsAssumption
  <2>2. PICK m \in {n, WithFlag(n)} : node' = [node EXCEPT ![i] = m]
    BY <1>6, <2>1 DEF SetFollowers
  <2>3. /\ addressed' = [addressed EXCEPT ![i] = @ \cap us]
        /\ stranded' = {x \in stranded : x[1] # i} /\ node[i].email # 0
        /\ UNCHANGED <<frequency, custom, save, cron, issued, told, blank, lapsed>>
    BY <1>6 DEF SetFollowers
  <2>4. save = NoSave /\ cron' = NoDigest /\ cron = NoDigest
    BY <1>6, <1>n, <2>3 DEF SetFollowers
  <2>5. /\ \A x \in Items : OfDigest(x)' /\ MailedOf(x)' = {} /\ MailedOf(x) = {}
        /\ cron'.at = "idle"
    BY <2>4, NoDigestStays, NoRuns DEF MailedOf
  <2>6. ASSUME NEW x \in Items, x # i
        PROVE  OfItem(x)'
    <3>1. /\ node'[x] = node[x] /\ issued'[x] = issued[x] /\ addressed'[x] = addressed[x]
          /\ told'[x] = told[x] /\ blank'[x] = blank[x]
      BY <1>0, <2>2, <2>3, <2>6 DEF Typed, HistoryOK
    <3>2. \A u \in Users : <<x, u>> \in stranded => <<x, u>> \in stranded'
      BY <2>3, <2>6
    <3> QED BY <1>0, <2>3, <2>5, <3>1, <3>2, ItemStays
  <2>7. OfItem(i)'
    <3>1. /\ n.email = node[i].email /\ n.all = us /\ n.notified = node[i].notified
          /\ n.complete = node[i].complete
          /\ \A c \in Channels : n.on[c] = {u \in us : ChannelOf(Kind[i], custom[i], u) = c}
      BY <1>0, <2>1, ListsNode, NotificationsAssumption
    <3>2. /\ m.email = node[i].email /\ m.all = us /\ m.notified = node[i].notified
          /\ \A c \in Channels : m.on[c] = {u \in us : ChannelOf(Kind[i], custom[i], u) = c}
          /\ m.complete => node[i].complete \/ us \subseteq node[i].notified
      <4>1. CASE m = n
        BY <3>1, <4>1
      <4>2. CASE m = WithFlag(n)
        BY <3>1, <4>2, FlagNode
      <4> QED BY <4>1, <4>2
    <3>3. node'[i] = m /\ addressed'[i] = addressed[i] \cap us
      BY <1>0, <2>2, <2>3 DEF Typed, HistoryOK
    <3>4. /\ addressed[i] \subseteq node[i].all /\ node[i].email \in {0, issued[i]}
          /\ node[i].complete => addressed[i] \subseteq node[i].notified
          /\ node[i].notified \subseteq told[i] \cup blank[i]
          /\ lapsed \/ told[i] \cup blank[i] \subseteq node[i].notified \cup MailedOf(i)
      BY <1>0 DEF OfItem
    <3>5. OnAll(node[i])' /\ \A u \in us : Right(node[i], i, u)'
      BY <2>3, <3>2, <3>3 DEF OnAll, Right, ChannelOf
    <3>6. m.complete => addressed[i] \cap us \subseteq node[i].notified
      BY <3>2, <3>4
    <3> QED BY <2>3, <2>5, <3>2, <3>3, <3>4, <3>5, <3>6 DEF OfItem
  <2> QED BY <2>3, <2>4, <2>5, <2>6, <2>7, NoRuns DEF Undisturbed, Apart, OfSave
<1>16. ASSUME NEW i \in Items, NEW u \in Users, NEW c \in Channels \cup {None},
              NEW us \in SUBSET Users, ChooseForPage(i, u, c, us)
       PROVE  Undisturbed'
  <2>1. PICK n \in Node : n = WithLists(node[i], Kind[i], custom'[i], us)
    BY <1>0, ListsNode, NotificationsAssumption
  <2>2. PICK m \in Node : m = WithFlag(n)
    BY FlagNode
  <2>3. /\ node' = [node EXCEPT ![i] = m]
        /\ custom' = [custom EXCEPT ![i][u] = c]
        /\ addressed' = [addressed EXCEPT ![i] = @ \cap us]
        /\ stranded' = {x \in stranded : x[1] # i} /\ node[i].email # 0
        /\ UNCHANGED <<frequency, save, cron, issued, told, blank, lapsed>>
    BY <1>16, <2>1, <2>2 DEF ChooseForPage
  <2>4. save = NoSave /\ cron' = NoDigest /\ cron = NoDigest
    BY <1>16, <1>n, <2>3 DEF ChooseForPage
  <2>5. /\ \A x \in Items : OfDigest(x)' /\ MailedOf(x)' = {} /\ MailedOf(x) = {}
        /\ cron'.at = "idle"
    BY <2>4, NoDigestStays, NoRuns DEF MailedOf
  <2>6. ASSUME NEW x \in Items, x # i
        PROVE  OfItem(x)'
    <3>1. /\ node'[x] = node[x] /\ issued'[x] = issued[x] /\ addressed'[x] = addressed[x]
          /\ told'[x] = told[x] /\ blank'[x] = blank[x] /\ custom'[x] = custom[x]
      BY <1>0, <2>3, <2>6 DEF Typed, HistoryOK, FrequencyOK
    <3>2. \A v \in Users : <<x, v>> \in stranded => <<x, v>> \in stranded'
      BY <2>3, <2>6
    <3> QED BY <1>0, <2>3, <2>5, <3>1, <3>2, ItemStays
  <2>7. OfItem(i)'
    <3>1. /\ n.email = node[i].email /\ n.all = us /\ n.notified = node[i].notified
          /\ \A d \in Channels : n.on[d] = {v \in us : ChannelOf(Kind[i], custom'[i], v) = d}
      BY <1>0, <2>1, ListsNode, NotificationsAssumption
    <3>2. /\ m.email = node[i].email /\ m.all = us /\ m.notified = node[i].notified
          /\ \A d \in Channels : m.on[d] = {v \in us : ChannelOf(Kind[i], custom'[i], v) = d}
          /\ m.complete => us \subseteq node[i].notified
      BY <2>2, <3>1, FlagNode
    <3>3. node'[i] = m /\ addressed'[i] = addressed[i] \cap us
      BY <1>0, <2>3 DEF Typed, HistoryOK
    <3>4. /\ addressed[i] \subseteq node[i].all /\ node[i].email \in {0, issued[i]}
          /\ node[i].notified \subseteq told[i] \cup blank[i]
          /\ lapsed \/ told[i] \cup blank[i] \subseteq node[i].notified \cup MailedOf(i)
      BY <1>0 DEF OfItem
    <3>5. \A v : ChannelOf(Kind[i], custom[i], v)' = ChannelOf(Kind[i], custom'[i], v)
      BY <2>3 DEF ChannelOf
    <3>6. OnAll(node[i])' /\ \A v \in us : Right(node[i], i, v)'
      BY <3>2, <3>3, <3>5 DEF OnAll, Right
    <3> QED BY <2>3, <2>5, <3>2, <3>3, <3>4, <3>6 DEF OfItem
  <2> QED BY <2>3, <2>4, <2>5, <2>6, <2>7, NoRuns DEF Undisturbed, Apart, OfSave
<1>7. ASSUME NEW k \in Kinds, NEW u \in Users, NEW c \in Channels, NEW is \in SUBSET Items,
             ChangeFrequency(k, u, c, is)
      PROVE  Undisturbed'
  <2>1. node' = [i \in Items |-> IF i \in is THEN MovedTo(node[i], k, u, c) ELSE node[i]]
    BY <1>7 DEF ChangeFrequency, MovedTo
  <2>2. /\ frequency' = [frequency EXCEPT ![k][u] = c]
        /\ stranded' = stranded \cup
             {<<i, u>> : i \in {j \in ListedIn(k, u) \ is : custom[j][u] = None}}
        /\ UNCHANGED <<custom, save, cron, issued, addressed, told, blank, lapsed>>
        /\ is \subseteq ListedIn(k, u) /\ \A j \in is : custom[j] = NoneChosen
        /\ frequency[k][u] = None => is = {}
    BY <1>7 DEF ChangeFrequency, Plain
  <2>3. save = NoSave /\ cron' = NoDigest /\ cron = NoDigest
    BY <1>7, <1>n, <2>2 DEF ChangeFrequency
  <2>4. /\ \A x \in Items : OfDigest(x)' /\ MailedOf(x)' = {} /\ MailedOf(x) = {}
        /\ cron'.at = "idle"
    BY <2>3, NoDigestStays, NoRuns DEF MailedOf
  <2>5. /\ frequency \in [Kinds -> [Users -> Channels \cup {None}]]
        /\ None \notin Channels
    BY <1>0, NotificationsAssumption DEF Typed, FrequencyOK
  <2>m. ASSUME NEW i \in is
        PROVE  /\ node'[i].email = node[i].email /\ node'[i].all = node[i].all
               /\ node'[i].notified = node[i].notified
               /\ node'[i].complete = node[i].complete
               /\ \A d \in Channels :
                     node'[i].on[d] =
                        IF d = c THEN node[i].on[d] \cup {u}
                        ELSE IF d = frequency[k][u] THEN node[i].on[d] \ {u}
                        ELSE node[i].on[d]
    <3>1. PICK n \in Node : n = node[i]
      BY <1>0
    <3>2. node'[i] = MovedTo(n, k, u, c)
      BY <2>1, <3>1
    <3>3. IsMoved(node'[i], n, k, u, c)
      BY <3>2, MovedNode
    <3> QED BY <3>1, <3>3 DEF IsMoved
  <2>6. ASSUME NEW i \in Items
        PROVE  OfItem(i)'
    <3>1. /\ node'[i].email = node[i].email /\ node'[i].all = node[i].all
          /\ node'[i].notified = node[i].notified /\ node'[i].complete = node[i].complete
      <4>1. CASE i \in is
        BY <2>m, <4>1
      <4>2. CASE i \notin is
        BY <2>1, <4>2
      <4> QED BY <4>1, <4>2
    <3>2. /\ node[i].email \in {0, issued[i]} /\ (node[i].email = 0 => node[i].all = {})
          /\ OnAll(node[i]) /\ addressed[i] \subseteq node[i].all
          /\ node[i].complete => addressed[i] \subseteq node[i].notified
          /\ node[i].notified \subseteq told[i] \cup blank[i]
          /\ lapsed \/ told[i] \cup blank[i] \subseteq node[i].notified \cup MailedOf(i)
      BY <1>0 DEF OfItem
    <3>3. i \in is => /\ Kind[i] = k /\ u \in node[i].all /\ frequency[k][u] # None
                      /\ custom[i][u] = None
      <4> SUFFICES ASSUME i \in is
                   PROVE  /\ Kind[i] = k /\ u \in node[i].all /\ frequency[k][u] # None
                          /\ custom[i][u] = None
        OBVIOUS
      <4>1. i \in ListedIn(k, u)
        BY <2>2
      <4>2. frequency[k][u] # None
        BY <2>2
      <4>3. custom[i][u] = None
        BY <2>2 DEF NoneChosen
      <4> QED BY <4>1, <4>2, <4>3 DEF ListedIn
    <3>4. OnAll(node[i])'
      <4>1. CASE i \in is
        <5>1. \A d \in Channels : node'[i].on[d] \subseteq node[i].on[d] \cup {u}
          BY <2>m, <4>1
        <5> QED BY <3>1, <3>2, <3>3, <4>1, <5>1 DEF OnAll
      <4>2. CASE i \notin is
        BY <2>1, <3>2, <4>2 DEF OnAll
      <4> QED BY <4>1, <4>2
    <3>5. ASSUME NEW v \in node[i].all, <<i, v>> \notin stranded'
          PROVE  Right(node[i], i, v)'
      <4>0. v \in Users /\ Right(node[i], i, v)
        BY <1>0, <2>2, <3>5 DEF OfItem
      <4>1. CASE v # u \/ Kind[i] # k
        <5>1. frequency'[Kind[i]][v] = frequency[Kind[i]][v]
          BY <2>2, <2>5, <4>0, <4>1, NotificationsAssumption
        <5>2. \A d \in Channels : v \in node'[i].on[d] <=> v \in node[i].on[d]
          <6>1. CASE i \in is
            <7>1. v # u
              BY <3>3, <4>1, <6>1
            <7>2. \A d \in Channels :
                     node'[i].on[d] \in {node[i].on[d], node[i].on[d] \cup {u},
                                         node[i].on[d] \ {u}}
              BY <2>m, <6>1
            <7> QED BY <7>1, <7>2
          <6>2. CASE i \notin is
            BY <2>1, <6>2
          <6> QED BY <6>1, <6>2
        <5> QED BY <2>2, <4>0, <5>1, <5>2 DEF Right, ChannelOf
      <4>2. CASE v = u /\ Kind[i] = k /\ custom[i][u] = None
        <5>1. i \in is
          <6>1. node[i].email # 0
            BY <3>2
          <6>2. i \in ListedIn(k, u)
            BY <4>2, <6>1 DEF ListedIn
          <6> QED BY <2>2, <3>5, <4>2, <6>2
        <5>3. frequency'[k][u] = c /\ c # None
          BY <2>2, <2>5
        <5>4. \A d \in Channels : u \in node[i].on[d] <=> d = frequency[k][u]
          BY <3>3, <4>0, <4>2, <5>1 DEF Right, ChannelOf
        <5>5. ASSUME NEW d \in Channels PROVE u \in node'[i].on[d] <=> d = c
          <6>1. node'[i].on[d] = IF d = c THEN node[i].on[d] \cup {u}
                                ELSE IF d = frequency[k][u] THEN node[i].on[d] \ {u}
                                ELSE node[i].on[d]
            BY <2>m, <5>1
          <6>2. u \in node[i].on[d] <=> d = frequency[k][u]
            BY <5>4
          <6> QED BY <6>1, <6>2
        <5> QED BY <2>2, <4>2, <5>3, <5>5 DEF Right, ChannelOf
      <4>3. CASE custom[i][u] # None /\ v = u
        <5>1. node'[i] = node[i]
          BY <2>1, <3>3, <4>3
        <5> QED BY <2>2, <4>0, <4>3, <5>1 DEF Right, ChannelOf
      <4> QED BY <4>1, <4>2, <4>3
    <3> QED BY <2>2, <2>4, <3>1, <3>2, <3>4, <3>5 DEF OfItem
  <2> QED BY <2>2, <2>3, <2>4, <2>6, NoRuns DEF Undisturbed, Apart, OfSave
<1>8. ASSUME NEW k \in Kinds, NEW c \in {"day", "week"}, NEW old \in BOOLEAN,
             BeginDigest(k, c, old)
      PROVE  Undisturbed'
  <2>1. /\ UNCHANGED <<node, frequency, custom, save, history>> /\ save = NoSave
        /\ cron = NoDigest
    BY <1>8, <1>n DEF BeginDigest, content
  <2> DEFINE found == {i \in Items : /\ Kind[i] = k
                                     /\ node[i].email # 0
                                     /\ ~node[i].complete}
             todo == [u \in Users |-> {i \in found : u \in ToNotify(node[i], c)}]
  <2>2. cron' = [NoDigest EXCEPT !.at = "mailing", !.blank = old, !.copy = node,
                                 !.todo = todo]
    BY <1>8 DEF BeginDigest
  <2> HIDE DEF todo
  <2>3. /\ cron'.at = "mailing" /\ cron'.copy = node /\ cron'.todo = todo
        /\ cron'.sent = NoDigest.sent
    BY <2>2 DEF NoDigest
  <2>4. \A i \in Items : MailedOf(i) = {} /\ MailedOf(i)' = {}
    BY <2>1, <2>3, NoRuns DEF MailedOf
  <2>5. \A i \in Items : OfItem(i)'
    BY <1>0, <2>1, <2>4, ItemStays DEF history
  <2>6. ASSUME NEW i \in Items
        PROVE  OfDigest(i)'
    <3>1. \A u \in Users : i \in todo[u] => u \in ToNotify(node[i], c) /\ node[i].email # 0
      BY DEF todo
    <3>2. ToNotify(node[i], c) \subseteq node[i].all \ node[i].notified
      BY <1>0 DEF ToNotify, OfItem, OnAll, Channels
    <3>3. lapsed \/ told[i] \cup blank[i] \subseteq node[i].notified
      BY <1>0, <2>4 DEF OfItem
    <3>4. \A u \in Users : i \notin NoDigest.sent[u]
      BY NoRuns
    <3>5. \A u \in Users : i \in todo[u] =>
             /\ u \in node[i].all \ node[i].notified
             /\ lapsed \/ u \notin told[i] \cup blank[i]
             /\ node[i].email # 0
      BY <3>1, <3>2, <3>3
    <3> QED BY <2>1, <2>3, <3>4, <3>5 DEF OfDigest, history
  <2> QED BY <2>1, <2>3, <2>5, <2>6, NoRuns DEF Undisturbed, Apart, OfSave
<1>d. cron.at # "idle" => save = NoSave
  BY <1>0, NoRuns DEF Apart
<1>9. ASSUME NEW u \in Users, MailDigest(u)
      PROVE  Undisturbed'
  <2>1. /\ cron' = [cron EXCEPT !.sent[u] = cron.todo[u], !.todo[u] = {}]
        /\ cron.at = "mailing" /\ save = NoSave
        /\ UNCHANGED <<frequency, custom, node, save, issued, addressed, stranded, lapsed>>
    BY <1>9, <1>d DEF MailDigest, content
  <2>2. /\ cron'.at = cron.at /\ cron'.copy = cron.copy
        /\ cron'.todo = Without(u) /\ cron'.sent = SentTo(u)
    BY <1>0, <2>1, AfterMail DEF Typed
  <2>3. cron.todo \in [Users -> SUBSET Items] /\ cron.sent \in [Users -> SUBSET Items]
    BY <1>0 DEF Typed, RunsOK, Digests
  <2>4. /\ cron'.todo[u] = {} /\ cron'.sent[u] = cron.todo[u]
        /\ \A v \in Users : v # u => /\ cron'.todo[v] = cron.todo[v]
                                     /\ cron'.sent[v] = cron.sent[v]
    BY <2>2, <2>3 DEF Without, SentTo
  <2>5. ASSUME NEW i \in Items
        PROVE  told'[i] \cup blank'[i]
                  = IF i \in cron.todo[u] THEN told[i] \cup blank[i] \cup {u}
                    ELSE told[i] \cup blank[i]
    <3>1. i \in Current(u) <=> i \in cron.todo[u]
      BY <1>0 DEF Current, OfItem, OfDigest
    <3>2. CASE cron.blank
      <4>1. blank'[i] = IF i \in Current(u) THEN blank[i] \cup {u} ELSE blank[i]
        BY <1>9, <3>2 DEF MailDigest
      <4>2. told'[i] = told[i]
        BY <1>9, <3>2 DEF MailDigest
      <4> QED BY <3>1, <4>1, <4>2
    <3>3. CASE ~cron.blank
      <4>1. told'[i] = IF i \in Current(u) THEN told[i] \cup {u} ELSE told[i]
        BY <1>9, <3>3 DEF MailDigest
      <4>2. blank'[i] = blank[i]
        BY <1>9, <3>3 DEF MailDigest
      <4> QED BY <3>1, <4>1, <4>2
    <3> QED BY <3>2, <3>3
  <2>6. ASSUME NEW i \in Items, i \in cron.todo[u]
        PROVE  OfItem(i)' /\ OfDigest(i)'
    <3>1. told'[i] \cup blank'[i] = told[i] \cup blank[i] \cup {u}
      BY <2>5, <2>6
    <3>2. /\ node[i] = cron.copy[i] /\ node[i].email # 0
          /\ \A v \in Users : /\ i \in cron.todo[v] => v \in node[i].all \ node[i].notified
                              /\ i \in cron.todo[v] => lapsed \/ v \notin told[i] \cup blank[i]
                              /\ i \in cron.sent[v] => v \in told[i] \cup blank[i]
      BY <1>0, <2>6 DEF OfDigest
    <3>4. u \in MailedOf(i)' /\ MailedOf(i) \subseteq MailedOf(i)'
      <4>1. cron.sent[u] = {}
        BY <1>0, <1>9 DEF Apart, MailDigest
      <4> QED BY <2>4, <2>6, <4>1 DEF MailedOf
    <3>5. /\ node[i].email \in {0, issued[i]} /\ (node[i].email = 0 => node[i].all = {})
          /\ OnAll(node[i]) /\ addressed[i] \subseteq node[i].all
          /\ node[i].complete => addressed[i] \subseteq node[i].notified
          /\ node[i].notified \subseteq told[i] \cup blank[i]
          /\ lapsed \/ told[i] \cup blank[i] \subseteq node[i].notified \cup MailedOf(i)
          /\ \A v \in node[i].all : <<i, v>> \in stranded \/ Right(node[i], i, v)
      BY <1>0 DEF OfItem
    <3>6. lapsed' \/ told'[i] \cup blank'[i] \subseteq node[i].notified \cup MailedOf(i)'
      BY <2>1, <3>1, <3>4, <3>5
    <3>7. node'[i].notified \subseteq told'[i] \cup blank'[i]
      BY <2>1, <3>1, <3>5
    <3>8. OnAll(node[i])' /\ \A v : Right(node[i], i, v)' <=> Right(node[i], i, v)
      BY <2>1, <3>5 DEF OnAll, Right, ChannelOf
    <3>9. OfItem(i)'
      BY <2>1, <3>5, <3>6, <3>7, <3>8 DEF OfItem
    <3>10. ASSUME NEW v \in Users
           PROVE  /\ i \in cron'.todo[v] => v \in node'[i].all \ node'[i].notified
                  /\ i \in cron'.todo[v] => lapsed' \/ v \notin told'[i] \cup blank'[i]
                  /\ i \in cron'.sent[v] => v \in told'[i] \cup blank'[i]
                  /\ node'[i] = cron'.copy[i] /\ node'[i].email # 0
      <4>1. CASE v = u
        BY <2>1, <2>2, <2>4, <3>1, <3>2, <4>1
      <4>2. CASE v # u
        <5>1. v \in told'[i] \cup blank'[i] <=> v \in told[i] \cup blank[i]
          BY <3>1, <4>2
        <5> QED BY <2>1, <2>2, <2>4, <3>2, <4>2, <5>1
      <4> QED BY <4>1, <4>2
    <3> QED BY <3>9, <3>10 DEF OfDigest
  <2>7. ASSUME NEW i \in Items, i \notin cron.todo[u]
        PROVE  OfItem(i)' /\ OfDigest(i)'
    <3>1. told'[i] = told[i] /\ blank'[i] = blank[i]
      <4>1. i \notin Current(u)
        BY <2>7 DEF Current
      <4> QED BY <1>0, <1>9, <4>1 DEF MailDigest, Typed, HistoryOK
    <3>2. \A v \in Users : /\ i \in cron'.todo[v] => i \in cron.todo[v]
                           /\ v # u => cron'.sent[v] = cron.sent[v]
                           /\ i \in cron'.sent[v] => i \in cron.sent[v]
      BY <2>4, <2>7
    <3>3. cron.sent[u] = {}
      BY <1>0, <1>9 DEF Apart, MailDigest
    <3>4. MailedOf(i) \subseteq MailedOf(i)'
      BY <2>4, <3>2, <3>3 DEF MailedOf
    <3>5. OfItem(i)'
      BY <1>0, <2>1, <3>1, <3>4, ItemStays
    <3>6. OfDigest(i)'
      BY <1>0, <2>1, <2>2, <3>1, <3>2, DigestStays
    <3> QED BY <3>5, <3>6
  <2>8. Apart'
    <3>1. \A v \in Users : cron'.todo[v] # {} => cron'.sent[v] = {}
      BY <1>0, <2>4 DEF Apart
    <3> QED BY <2>1, <2>2, <3>1 DEF Apart
  <2>9. OfSave'
    BY <2>1, NoRuns DEF OfSave
  <2> QED BY <2>6, <2>7, <2>8, <2>9 DEF Undisturbed
<1>10. ASSUME NEW u \in Users, MailDigestFails(u)
       PROVE  Undisturbed'
  <2>1. /\ cron' = [cron EXCEPT !.todo[u] = {}] /\ cron.at = "mailing" /\ save = NoSave
        /\ UNCHANGED <<frequency, custom, node, save, history>>
    BY <1>10, <1>d DEF MailDigestFails, content
  <2>2. /\ cron'.at = cron.at /\ cron'.copy = cron.copy
        /\ cron'.todo = Without(u) /\ cron'.sent = cron.sent
    BY <1>0, <2>1, AfterFailure DEF Typed
  <2>3. \A v \in Users : cron'.todo[v] \subseteq cron.todo[v]
    BY <1>0, <2>2 DEF Without, Typed, RunsOK, Digests
  <2>4. \A i \in Items : MailedOf(i)' = MailedOf(i)
    BY <2>2 DEF MailedOf
  <2>5. ASSUME NEW i \in Items
        PROVE  OfItem(i)' /\ OfDigest(i)'
    <3>1. OfItem(i)'
      BY <1>0, <2>1, <2>4, ItemStays DEF history
    <3>2. OfDigest(i)'
      BY <1>0, <2>1, <2>2, <2>3, DigestStays DEF history
    <3> QED BY <3>1, <3>2
  <2>6. Apart'
    BY <1>0, <2>1, <2>2, <2>3 DEF Apart
  <2>7. OfSave'
    BY <2>1, NoRuns DEF OfSave
  <2> QED BY <2>5, <2>6, <2>7 DEF Undisturbed
<1>11. CASE Mailed
  <2>1. /\ cron.at = "mailing" /\ save = NoSave /\ \A u \in Users : cron.todo[u] = {}
        /\ UNCHANGED <<frequency, custom, node, save, history>>
    BY <1>11, <1>d DEF Mailed, content, bounds
  <2>2. CASE \A u \in Users : cron.sent[u] = {}
    <3>1. cron' = NoDigest
      BY <1>11, <2>2 DEF Mailed
    <3>2. \A i \in Items : MailedOf(i) = {} /\ MailedOf(i)' = {} /\ OfDigest(i)'
      BY <2>2, <3>1, NoDigestStays DEF MailedOf
    <3>3. \A i \in Items : OfItem(i)'
      BY <1>0, <2>1, <3>2, ItemStays DEF history
    <3> QED BY <2>1, <3>1, <3>2, <3>3, NoRuns DEF Undisturbed, Apart, OfSave
  <2>3. CASE \E u \in Users : cron.sent[u] # {}
    <3>1. cron' = [cron EXCEPT !.at = "recording"]
      BY <1>11, <2>3 DEF Mailed
    <3>2. /\ cron'.at = "recording" /\ cron'.todo = cron.todo /\ cron'.sent = cron.sent
          /\ cron'.copy = cron.copy
      BY <1>0, <3>1 DEF Typed, RunsOK, Digests
    <3>3. \A i \in Items : MailedOf(i)' = MailedOf(i)
      BY <3>2 DEF MailedOf
    <3>4. \A i \in Items : OfItem(i)'
      BY <1>0, <2>1, <3>3, ItemStays DEF history
    <3>5. \A i \in Items : OfDigest(i)'
      BY <1>0, <2>1, <3>2, DigestStays DEF history
    <3>6. Apart' /\ OfSave'
      BY <2>1, <3>2, NoRuns DEF Apart, OfSave
    <3> QED BY <3>4, <3>5, <3>6 DEF Undisturbed
  <2> QED BY <2>2, <2>3
<1>r. ASSUME NEW i \in Items, MailedOf(i) # {}
      PROVE  /\ node[i] = cron.copy[i] /\ node[i].email # 0 /\ save = NoSave
             /\ MailedOf(i) \subseteq told[i] \cup blank[i] /\ MailedOf(i) \in SUBSET Users
  <2>1. \A u \in MailedOf(i) : u \in Users /\ i \in cron.sent[u]
    BY DEF MailedOf
  <2>2. PICK u \in Users : i \in cron.sent[u]
    BY <1>r, <2>1
  <2>3. save = NoSave
    BY <1>0, <2>2, NoRuns DEF Apart
  <2> QED BY <1>0, <2>1, <2>2, <2>3 DEF OfDigest
<1>12. ASSUME NEW i \in Items, Record(i)
       PROVE  Undisturbed'
  <2>1. /\ cron.at = "recording" /\ MailedOf(i) # {}
        /\ UNCHANGED <<frequency, custom, save, history>>
    BY <1>12 DEF Record
  <2>2. PICK m \in Node : m = Noted(node[i], MailedOf(i))
    BY <1>0, <1>r, <2>1, NotedNode
  <2>3. node' = [node EXCEPT ![i] = WithFlag(m)]
    BY <1>12, <1>r, <2>1, <2>2 DEF Record
  <2>4. PICK sent : /\ sent = [u \in Users |-> cron.sent[u] \ {i}]
                    /\ cron' = IF \A u \in Users : sent[u] = {} THEN NoDigest
                               ELSE [cron EXCEPT !.sent = sent]
    BY <1>12 DEF Record
  <2>5. \A u \in Users : cron.todo[u] = {} /\ cron'.todo[u] = {} /\ cron'.sent[u] = sent[u]
    <3>1. CASE \A u \in Users : sent[u] = {}
      BY <1>0, <2>1, <2>4, <3>1, NoRuns DEF Apart
    <3>2. CASE ~\A u \in Users : sent[u] = {}
      <4>1. cron' = [cron EXCEPT !.sent = sent]
        BY <2>4, <3>2
      <4>2. cron'.todo = cron.todo /\ cron'.sent = sent
        BY <1>0, <4>1 DEF Typed, RunsOK, Digests
      <4> QED BY <1>0, <2>1, <4>2 DEF Apart
    <3> QED BY <3>1, <3>2
  <2>6. cron' = NoDigest \/ cron'.copy = cron.copy
    BY <1>0, <2>4 DEF Typed, RunsOK, Digests
  <2>7. \A u \in Users : cron'.sent[u] = cron.sent[u] \ {i}
    BY <2>4, <2>5
  <2>8. ASSUME NEW x \in Items, x # i
        PROVE  OfItem(x)' /\ OfDigest(x)'
    <3>1. node'[x] = node[x]
      BY <1>0, <2>3, <2>8
    <3>2. MailedOf(x)' = MailedOf(x)
      BY <2>7, <2>8 DEF MailedOf
    <3>3. OfItem(x)'
      BY <1>0, <2>1, <3>1, <3>2, ItemStays DEF history
    <3>4. OfDigest(x)'
      <4>1. CASE cron' = NoDigest
        BY <4>1, NoDigestStays
      <4>2. CASE cron'.copy = cron.copy
        BY <1>0, <2>1, <2>5, <2>7, <3>1, <4>2, DigestStays DEF history
      <4> QED BY <2>6, <4>1, <4>2
    <3> QED BY <3>3, <3>4
  <2>9. OfDigest(i)' /\ MailedOf(i)' = {}
    BY <2>5, <2>7 DEF OfDigest, MailedOf
  <2>10. OfItem(i)'
    <3>1. /\ node'[i].email = node[i].email /\ node'[i].on = node[i].on
          /\ node'[i].all = node[i].all
          /\ node'[i].notified = node[i].notified \cup MailedOf(i)
          /\ node'[i].complete <=> node[i].all \subseteq node[i].notified \cup MailedOf(i)
      <4>1. node'[i] = WithFlag(m)
        BY <1>0, <2>3
      <4>2. /\ m.email = node[i].email /\ m.on = node[i].on /\ m.all = node[i].all
            /\ m.notified = node[i].notified \cup MailedOf(i)
        BY <1>0, <1>r, <2>1, <2>2, NotedNode
      <4> QED BY <4>1, <4>2, FlagNode
    <3>2. /\ node[i].email \in {0, issued[i]} /\ (node[i].email = 0 => node[i].all = {})
          /\ OnAll(node[i]) /\ addressed[i] \subseteq node[i].all
          /\ node[i].notified \subseteq told[i] \cup blank[i]
          /\ lapsed \/ told[i] \cup blank[i] \subseteq node[i].notified \cup MailedOf(i)
          /\ \A v \in node[i].all : <<i, v>> \in stranded \/ Right(node[i], i, v)
      BY <1>0 DEF OfItem
    <3>3. OnAll(node[i])' /\ \A v : Right(node[i], i, v)' <=> Right(node[i], i, v)
      BY <2>1, <3>1, <3>2 DEF OnAll, Right, ChannelOf
    <3> QED BY <1>r, <2>1, <3>1, <3>2, <3>3 DEF OfItem, history
  <2>11. Apart' /\ OfSave'
    BY <1>r, <2>1, <2>5, NoRuns DEF Apart, OfSave
  <2> QED BY <2>8, <2>9, <2>10, <2>11 DEF Undisturbed
<1>13. ASSUME NEW i \in Items, RecordDies(i)
       PROVE  Undisturbed'
  <2>1. /\ MailedOf(i) # {} /\ cron' = NoDigest /\ lapsed'
        /\ UNCHANGED <<frequency, custom, save, issued, addressed, told, blank, stranded>>
    BY <1>13 DEF RecordDies
  <2>2. PICK m \in Node : m = Noted(node[i], MailedOf(i))
    BY <1>0, <1>r, <2>1, NotedNode
  <2>3. node' = [node EXCEPT ![i] = m]
    BY <1>13, <1>r, <2>1, <2>2 DEF RecordDies
  <2>4. \A x \in Items : OfDigest(x)' /\ MailedOf(x)' = {}
    BY <2>1, NoDigestStays
  <2>5. ASSUME NEW x \in Items, x # i
        PROVE  OfItem(x)'
    <3>1. node'[x] = node[x]
      BY <1>0, <2>3, <2>5
    <3> QED BY <1>0, <2>1, <3>1, ItemStays
  <2>6. OfItem(i)'
    <3>1. /\ node'[i].email = node[i].email /\ node'[i].on = node[i].on
          /\ node'[i].all = node[i].all /\ node'[i].complete = node[i].complete
          /\ node'[i].notified = node[i].notified \cup MailedOf(i)
      BY <1>0, <1>r, <2>1, <2>2, <2>3, NotedNode
    <3>2. /\ node[i].email \in {0, issued[i]} /\ (node[i].email = 0 => node[i].all = {})
          /\ OnAll(node[i]) /\ addressed[i] \subseteq node[i].all
          /\ node[i].complete => addressed[i] \subseteq node[i].notified
          /\ node[i].notified \subseteq told[i] \cup blank[i]
          /\ \A v \in node[i].all : <<i, v>> \in stranded \/ Right(node[i], i, v)
      BY <1>0 DEF OfItem
    <3>3. OnAll(node[i])' /\ \A v : Right(node[i], i, v)' <=> Right(node[i], i, v)
      BY <2>1, <3>1, <3>2 DEF OnAll, Right, ChannelOf
    <3> QED BY <1>r, <2>1, <3>1, <3>2, <3>3 DEF OfItem
  <2> QED BY <1>r, <2>1, <2>4, <2>5, <2>6, NoRuns DEF Undisturbed, Apart, OfSave
<1>14. CASE DigestDies
  <2>1. /\ cron' = NoDigest /\ lapsed' /\ save = NoSave
        /\ UNCHANGED <<frequency, custom, node, save, issued, addressed, told, blank, stranded>>
    BY <1>0, <1>14 DEF DigestDies, Apart, content
  <2>2. \A x \in Items : OfDigest(x)'
    BY <2>1, NoDigestStays
  <2>3. \A x \in Items : OfItem(x)'
    BY <1>0, <2>1, ItemStays
  <2> QED BY <2>1, <2>2, <2>3, NoRuns DEF Undisturbed, Apart, OfSave
<1>15. CASE UNCHANGED vars
  <2>1. UNCHANGED <<frequency, custom, node, save, cron, history>>
    BY <1>15 DEF vars, history
  <2>2. \A x \in Items : OfItem(x)' /\ OfDigest(x)'
    BY <1>h, <2>1
  <2>3. Apart'
    BY <1>0, <2>1 DEF Apart
  <2>4. OfSave'
    BY <1>0, <2>1 DEF OfSave, OnAll, Right, ChannelOf, history
  <2> QED BY <2>2, <2>3, <2>4 DEF Undisturbed
<1> QED
  BY <1>1, <1>2, <1>3, <1>4, <1>5, <1>6, <1>7, <1>8, <1>9, <1>10, <1>11, <1>12, <1>13,
     <1>14, <1>15, <1>16, NotificationsAssumption DEF Next, Sending, Digest

------------------------------------------------------------------------------
(* The theorems, where a save and a digest never overlap. *)

(* Who is to be notified of the latest email, and has not been, is found by the
   next digest: the flag that hides a notification node from the digests is
   never set too early. *)
THEOREM PendingStaysFlagged == ASSUME Serialised PROVE Spec => []PendingIsFlagged
<1>1. DeliveryInvariant => PendingIsFlagged
  BY DeliveryImplies
<1> QED BY <1>1, InitDelivery, NextDelivery, PTL DEF Spec

(* Nobody is noted as notified of an email that went to others, or of an earlier
   one. *)
THEOREM NobodyIsForgotten == ASSUME Serialised PROVE Spec => []NotedWereMailed
<1>1. DeliveryInvariant => NotedWereMailed
  BY DeliveryImplies
<1> QED BY <1>1, InitDelivery, NextDelivery, PTL DEF Spec

(* Nobody is mailed twice about the same email, unless a digest died between
   its mails and its notes. *)
THEOREM NobodyIsMailedTwice == ASSUME Serialised PROVE Spec => []MailedOnce
<1>1. DeliveryInvariant => MailedOnce
  BY DeliveryImplies
<1> QED BY <1>1, InitDelivery, NextDelivery, PTL DEF Spec

(* Lists agree with the frequencies that users chose, for one page or as their
   default, but for those that a change of the default left as they were. *)
THEOREM ListsAreRight == ASSUME Serialised PROVE Spec => []ListsFollowChoice
<1>1. DeliveryInvariant => ListsFollowChoice
  BY DeliveryImplies
<1> QED BY <1>1, InitDelivery, NextDelivery, PTL DEF Spec

------------------------------------------------------------------------------
(* The refinement: what a Delivery knows of the state. *)
Audience == [i \in Items |-> node[i].all]
Heard == [i \in Items |-> told[i] \cup blank[i]]
Settled == [i \in Items |-> node[i].notified]

(* The steps that nobody who waits for mails sees. *)
LEMMA Unseen ==
    ASSUME \A i \in Items : /\ node'[i].all = node[i].all
                            /\ node'[i].notified = node[i].notified
                            /\ told'[i] = told[i] /\ blank'[i] = blank[i]
    PROVE  UNCHANGED <<Audience, Heard, Settled>>
BY DEF Audience, Heard, Settled

LEMMA InitDelivers == Init => Promise!Init
BY NoNodeIsNode DEF Init, Promise!Init

LEMMA NextDelivers ==
    ASSUME Serialised, DeliveryInvariant, [Next]_vars
    PROVE  Promise!Next \/ UNCHANGED <<Audience, Heard, Settled>>
<1>0. /\ Typed /\ Apart /\ OfSave /\ \A i \in Items : OfItem(i) /\ OfDigest(i)
      /\ node \in [Items -> Node]
      /\ \A i \in Items : /\ node[i].all \subseteq Users
                          /\ node[i].notified \subseteq Users
  BY DEF DeliveryInvariant, Undisturbed, Typed, NodeOK, Node
<1>1. ASSUME UNCHANGED <<node, told, blank>>
      PROVE  UNCHANGED <<Audience, Heard, Settled>>
  BY <1>1, Unseen
<1>2. CASE CommitSave
  <2>1. PICK i \in Items : i = save.item
    BY <1>0, <1>2 DEF CommitSave, Typed, RunsOK
  <2>2. PICK d \in Node, t \in SUBSET Users : d = save.draft /\ t = save.told
    BY <1>0 DEF Typed, RunsOK, Saves
  <2>3. PICK n \in Node : n = Noted(d, t)
    BY NotedNode
  <2>4. d.notified = {} /\ t \subseteq d.all /\ d.all \subseteq Users
    BY <1>0, <1>2, <2>1, <2>2 DEF CommitSave, OfSave, Node
  <2>5. /\ node' = [node EXCEPT ![i] = WithFlag(n)]
        /\ told' = [told EXCEPT ![i] = t] /\ blank' = [blank EXCEPT ![i] = {}]
    BY <1>2, <2>1, <2>2, <2>3 DEF CommitSave
  <2>6. WithFlag(n).all = d.all /\ WithFlag(n).notified = t
    <3>1. n.all = d.all /\ n.notified = d.notified \cup t
      BY <2>3, NotedNode
    <3>2. d.notified \cup t = t
      BY <2>4
    <3> QED BY <3>1, <3>2, FlagNode
  <2>7. \A x \in Items : /\ node'[x] = IF x = i THEN WithFlag(n) ELSE node[x]
                         /\ told'[x] \cup blank'[x] = IF x = i THEN t ELSE told[x] \cup blank[x]
    BY <1>0, <2>5 DEF Typed, HistoryOK
  <2>8. /\ Audience' = [Audience EXCEPT ![i] = d.all]
        /\ Heard' = [Heard EXCEPT ![i] = t]
        /\ Settled' = [Settled EXCEPT ![i] = t]
    BY <2>6, <2>7 DEF Audience, Heard, Settled
  <2>9. Promise!Publish(i)
    BY <2>4, <2>8 DEF Promise!Publish, Audience, Heard, Settled
  <2> QED BY <2>9 DEF Promise!Next
<1>3. ASSUME NEW i \in Items, DeletePage(i)
      PROVE  Promise!Next
  <2>1. /\ node' = [node EXCEPT ![i] = NoNode]
        /\ told' = [told EXCEPT ![i] = {}] /\ blank' = [blank EXCEPT ![i] = {}]
    BY <1>3 DEF DeletePage
  <2>2. \A x \in Items : /\ node'[x] = IF x = i THEN NoNode ELSE node[x]
                         /\ told'[x] \cup blank'[x] = IF x = i THEN {} ELSE told[x] \cup blank[x]
    BY <1>0, <2>1 DEF Typed, HistoryOK
  <2>3. /\ Audience' = [Audience EXCEPT ![i] = {}]
        /\ Heard' = [Heard EXCEPT ![i] = {}]
        /\ Settled' = [Settled EXCEPT ![i] = {}]
    BY <2>2, NoNodeIsNode DEF Audience, Heard, Settled
  <2>4. Promise!Withdraw(i)
    BY <2>3 DEF Promise!Withdraw, Audience, Heard, Settled
  <2> QED BY <2>4 DEF Promise!Next
<1>4. ASSUME NEW i \in Items, NEW us \in SUBSET Users, SetFollowers(i, us)
      PROVE  Promise!Next
  <2>1. PICK n \in Node : /\ n = WithLists(node[i], Kind[i], custom[i], us)
                          /\ n.all = us /\ n.notified = node[i].notified
    BY <1>0, ListsNode, NotificationsAssumption
  <2>2. PICK m \in {n, WithFlag(n)} : node' = [node EXCEPT ![i] = m]
    BY <1>4, <2>1 DEF SetFollowers
  <2>3. m.all = us /\ m.notified = node[i].notified
    BY <2>1, <2>2, FlagNode
  <2>4. told' = told /\ blank' = blank
    BY <1>4 DEF SetFollowers
  <2>5. \A x \in Items : node'[x] = IF x = i THEN m ELSE node[x]
    BY <1>0, <2>2
  <2>6. Audience' = [Audience EXCEPT ![i] = us] /\ UNCHANGED <<Heard, Settled>>
    BY <2>3, <2>4, <2>5 DEF Audience, Heard, Settled
  <2>7. Promise!Retarget(i)
    BY <2>6 DEF Promise!Retarget, Audience, Heard, Settled
  <2> QED BY <2>7 DEF Promise!Next
<1>12. ASSUME NEW i \in Items, NEW u \in Users, NEW c \in Channels \cup {None},
              NEW us \in SUBSET Users, ChooseForPage(i, u, c, us)
       PROVE  Promise!Next
  <2>1. PICK n \in Node : /\ n = WithLists(node[i], Kind[i], custom'[i], us)
                          /\ n.all = us /\ n.notified = node[i].notified
    BY <1>0, ListsNode, NotificationsAssumption
  <2>2. PICK m \in Node : m = WithFlag(n)
    BY FlagNode
  <2>3. m.all = us /\ m.notified = node[i].notified
    BY <2>1, <2>2, FlagNode
  <2>4. \A x \in Items : node'[x] = IF x = i THEN m ELSE node[x]
    BY <1>0, <1>12, <2>1, <2>2 DEF ChooseForPage
  <2>5. told' = told /\ blank' = blank
    BY <1>12 DEF ChooseForPage
  <2>6. Audience' = [Audience EXCEPT ![i] = us] /\ UNCHANGED <<Heard, Settled>>
    BY <2>3, <2>4, <2>5 DEF Audience, Heard, Settled
  <2>7. Promise!Retarget(i)
    BY <2>6 DEF Promise!Retarget, Audience, Heard, Settled
  <2> QED BY <2>7 DEF Promise!Next
<1>5. ASSUME NEW k \in Kinds, NEW u \in Users, NEW c \in Channels, NEW is \in SUBSET Items,
             ChangeFrequency(k, u, c, is)
      PROVE  UNCHANGED <<Audience, Heard, Settled>>
  <2>1. node' = [i \in Items |-> IF i \in is THEN MovedTo(node[i], k, u, c) ELSE node[i]]
    BY <1>5 DEF ChangeFrequency, MovedTo
  <2>2. told' = told /\ blank' = blank
    BY <1>5 DEF ChangeFrequency
  <2>3. \A i \in Items : node'[i].all = node[i].all /\ node'[i].notified = node[i].notified
    BY <1>0, <2>1, MovedNode DEF IsMoved
  <2> QED BY <2>2, <2>3, Unseen
<1>6. ASSUME NEW u \in Users, MailDigest(u)
      PROVE  Promise!Next
  <2>1. PICK is \in SUBSET Items : is = cron.todo[u]
    BY <1>0 DEF Typed, RunsOK, Digests
  <2>2. \A i \in is : u \in node[i].all \ node[i].notified /\ i \in Current(u)
    BY <1>0, <2>1 DEF OfItem, OfDigest, Current
  <2>3. Current(u) = is
    BY <2>1, <2>2 DEF Current
  <2>4. node' = node
    BY <1>6 DEF MailDigest, content
  <2>5. \A i \in Items : told'[i] \cup blank'[i] = IF i \in is THEN told[i] \cup blank[i] \cup {u}
                                                   ELSE told[i] \cup blank[i]
    <3>1. CASE cron.blank
      <4>1. /\ blank' = [i \in Items |-> IF i \in is THEN blank[i] \cup {u} ELSE blank[i]]
            /\ told' = told
        BY <1>6, <2>3, <3>1 DEF MailDigest
      <4> QED BY <4>1
    <3>2. CASE ~cron.blank
      <4>1. /\ told' = [i \in Items |-> IF i \in is THEN told[i] \cup {u} ELSE told[i]]
            /\ blank' = blank
        BY <1>6, <2>3, <3>2 DEF MailDigest
      <4> QED BY <4>1
    <3> QED BY <3>1, <3>2
  <2>6. /\ \A i \in is : u \in Audience[i] \ Settled[i]
        /\ Heard' = [i \in Items |-> IF i \in is THEN Heard[i] \cup {u} ELSE Heard[i]]
        /\ UNCHANGED <<Audience, Settled>>
    BY <2>2, <2>4, <2>5 DEF Audience, Heard, Settled
  <2>7. Promise!Tell(u, is)
    BY <2>6 DEF Promise!Tell, Promise!Owed, Audience, Heard, Settled
  <2> QED BY <2>7 DEF Promise!Next
<1>7. ASSUME NEW i \in Items, Record(i) \/ RecordDies(i)
      PROVE  Promise!Next
  <2>1. MailedOf(i) # {} /\ told' = told /\ blank' = blank
    BY <1>7 DEF Record, RecordDies, history
  <2>2. PICK us \in SUBSET Users : us = MailedOf(i)
    BY DEF MailedOf
  <2>3. /\ us \subseteq told[i] \cup blank[i]
        /\ node[i] = cron.copy[i] /\ node[i].email # 0
    BY <1>0, <2>1, <2>2 DEF OfDigest, MailedOf
  <2>4. PICK n \in Node : /\ n = Noted(node[i], us) /\ n.all = node[i].all
                          /\ n.notified = node[i].notified \cup us
    BY <1>0, NotedNode
  <2>5. PICK m \in {n, WithFlag(n)} : node' = [node EXCEPT ![i] = m]
    BY <1>7, <2>2, <2>3, <2>4 DEF Record, RecordDies
  <2>6. m.all = node[i].all /\ m.notified = node[i].notified \cup us
    BY <2>4, <2>5, FlagNode
  <2>7. \A x \in Items : node'[x] = IF x = i THEN m ELSE node[x]
    BY <1>0, <2>5
  <2>8. /\ us \in SUBSET Heard[i] /\ Settled' = [Settled EXCEPT ![i] = @ \cup us]
        /\ UNCHANGED <<Audience, Heard>>
    BY <2>1, <2>3, <2>6, <2>7 DEF Audience, Heard, Settled
  <2>9. Promise!Settle(i)
    BY <2>8 DEF Promise!Settle, Audience, Heard, Settled
  <2> QED BY <2>9 DEF Promise!Next
<1>8. ASSUME NEW i \in Items, NEW us \in SUBSET Users, NEW relist \in BOOLEAN,
             NEW author \in Users \cup {None}, NEW final \in BOOLEAN,
             BeginSave(i, us, relist, author, final)
      PROVE  UNCHANGED <<node, told, blank>>
  BY <1>8 DEF BeginSave, content, history
<1>9. ASSUME NEW u \in Users, SendNow(u) \/ SendNowFails(u) \/ MailDigestFails(u)
      PROVE  UNCHANGED <<node, told, blank>>
  BY <1>9 DEF SendNow, SendNowFails, MailDigestFails, content, history
<1>10. ASSUME NEW k \in Kinds, NEW c \in {"day", "week"}, NEW old \in BOOLEAN,
              BeginDigest(k, c, old)
       PROVE  UNCHANGED <<node, told, blank>>
  BY <1>10 DEF BeginDigest, content, history
<1>11. ASSUME AbortSave \/ Mailed \/ DigestDies \/ UNCHANGED vars
       PROVE  UNCHANGED <<node, told, blank>>
  BY <1>11 DEF AbortSave, Mailed, DigestDies, content, history, vars
<1> QED
  BY <1>1, <1>2, <1>3, <1>4, <1>5, <1>6, <1>7, <1>8, <1>9, <1>10, <1>11, <1>12,
     NotificationsAssumption DEF Next, Sending, Digest

(* The notifications implement Delivery: whatever fails, users are told only of
   emails they are owed, and settled only once they have been told. *)
THEOREM NotificationsDeliver == ASSUME Serialised PROVE Spec => Delivers
<1>1. DeliveryInvariant /\ [Next]_vars => [Promise!Next]_<<Audience, Heard, Settled>>
  BY NextDelivers
<1>2. DeliveryInvariant /\ [Next]_vars
      => [Promise!Next]_<<[i \in Items |-> node[i].all],
                          [i \in Items |-> told[i] \cup blank[i]],
                          [i \in Items |-> node[i].notified]>>
  BY <1>1 DEF Audience, Heard, Settled
<1> QED
  BY <1>2, InitDelivers, InitDelivery, NextDelivery, PTL DEF Spec, Delivers, Promise!Spec
===============================================================================
