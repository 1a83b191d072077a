----------------------------- MODULE Notifications -----------------------------
(***************************************************************************)
(* Notifications of digital heritage items ("dhan") and of collaboration   *)
(* pages ("following").                                                    *)
(*                                                                         *)
(* Every item has a notification node: an email (the latest of a list of   *)
(* field collections), the users to notify, listed by the frequency they   *)
(* chose, the users notified, and a flag that says all of them are.        *)
(* Saving the item resets the users notified and attaches a new email,     *)
(* whose insert hook mails the users listed "immediately" at once, all     *)
(* inside the transaction of the item's node_save().  Cron mails the rest  *)
(* in digests, and finds its work by the flag.  Three jobs of Elysia cron  *)
(* do that: the shared one for each of the two kinds, and an older one of  *)
(* ma_collaboration_tools, which mails a message no hook_mail() fills in.  *)
(*                                                                         *)
(* A digest runs outside of any transaction: it reads all nodes, mails     *)
(* user by user, then saves node by node, from the copies it read.         *)
(***************************************************************************)
EXTENDS Naturals

CONSTANTS
    Users,
    Items,        \* digital heritage items and collaboration pages
    Kind,         \* "dhan" or "following", the notifications of an item
    None,         \* no frequency chosen yet, nobody
    Chosen,       \* the frequencies users have chosen at the start
    Offered,      \* the frequencies users choose from for one page
    Serialised,   \* TRUE: a save and a digest never overlap
    MaxEmails,    \* emails there may be
    MaxChanges,   \* how often users change frequency or followers
    MaxChoices,   \* how often users choose a frequency for one page
    MaxFaults,    \* mails that fail and processes that die
    MaxEvents     \* changes, choices and faults together

Kinds == {"dhan", "following"}
Channels == {"immediately", "day", "week"}    \* field_notify_*

ASSUME NotificationsAssumption ==
    /\ Kind \in [Items -> Kinds]
    /\ None \notin Users \cup Items \cup Channels
    /\ Chosen \in [Kinds -> [Users -> Channels \cup {None}]]
    /\ \A u \in Users : Chosen["following"][u] # None
    /\ Offered \subseteq Channels
    /\ Serialised \in BOOLEAN
    /\ MaxEmails \in Nat /\ MaxChanges \in Nat /\ MaxChoices \in Nat
    /\ MaxFaults \in Nat /\ MaxEvents \in Nat

VARIABLES
    frequency,  \* field_dhan_frequency, field_notifications_freq_def of a user
    custom,     \* field_custom_notification_freq of a page: frequencies of users
    node,       \* the notification node of each item
    gone,       \* items that have been deleted
    save,       \* the request that saves an item
    cron,       \* the digest that runs
    issued,     \* history: the latest email of an item
    addressed,  \* history: users listed since the latest email
    told,       \* history: users the latest email was mailed to, or its author
    blank,      \* history: users mailed a blank digest instead
    stranded,   \* history: <<i, u>> whose list a change of frequency left as it was
    lapsed,     \* history: a digest died between mailing and recording
    emails, changes, choices, faults    \* how many there have been

content == <<frequency, custom, node, gone>>
history == <<issued, addressed, told, blank, stranded, lapsed>>
bounds == <<emails, changes, choices, faults>>
vars == <<frequency, custom, node, gone, save, cron, issued, addressed, told,
          blank, stranded, lapsed, emails, changes, choices, faults>>

(* A notification node; email 0 is that of an item without one. *)
Node == [email : Nat, on : [Channels -> SUBSET Users], all : SUBSET Users,
         notified : SUBSET Users, complete : BOOLEAN]

NoNode == [email |-> 0, on |-> [c \in Channels |-> {}], all |-> {},
           notified |-> {}, complete |-> FALSE]

NoneChosen == [u \in Users |-> None]

NoSave == [at |-> "idle", item |-> None, author |-> None, final |-> FALSE,
           draft |-> NoNode, todo |-> {}, told |-> {}]

NoDigest == [at |-> "idle", blank |-> FALSE, copy |-> [i \in Items |-> NoNode],
             todo |-> [u \in Users |-> {}], sent |-> [u \in Users |-> {}]]

TypeOK ==
    /\ frequency \in [Kinds -> [Users -> Channels \cup {None}]]
    /\ custom \in [Items -> [Users -> Channels \cup {None}]]
    /\ node \in [Items -> Node]
    /\ gone \in SUBSET Items
    /\ save \in [at : {"idle", "sending"}, item : Items \cup {None},
                 author : Users \cup {None}, final : BOOLEAN, draft : Node,
                 todo : SUBSET Users, told : SUBSET Users]
    /\ cron \in [at : {"idle", "mailing", "recording"}, blank : BOOLEAN,
                 copy : [Items -> Node], todo : [Users -> SUBSET Items],
                 sent : [Users -> SUBSET Items]]
    /\ issued \in [Items -> Nat]
    /\ addressed \in [Items -> SUBSET Users]
    /\ told \in [Items -> SUBSET Users]
    /\ blank \in [Items -> SUBSET Users]
    /\ stranded \in SUBSET (Items \X Users)
    /\ lapsed \in BOOLEAN
    /\ emails \in Nat
    /\ changes \in Nat
    /\ choices \in Nat
    /\ faults \in Nat

Init ==
    /\ frequency = Chosen
    /\ custom = [i \in Items |-> NoneChosen]
    /\ node = [i \in Items |-> NoNode]
    /\ gone = {}
    /\ save = NoSave
    /\ cron = NoDigest
    /\ issued = [i \in Items |-> 0]
    /\ addressed = [i \in Items |-> {}]
    /\ told = [i \in Items |-> {}]
    /\ blank = [i \in Items |-> {}]
    /\ stranded = {}
    /\ lapsed = FALSE
    /\ emails = 0
    /\ changes = 0
    /\ choices = 0
    /\ faults = 0

------------------------------------------------------------------------------
(* Notification nodes. *)

(* The frequency of u for an item of kind k, on which the users have chosen
   their own: that one, else the user's default, else right away. *)
ChannelOf(k, own, u) ==
    CASE own[u] # None -> own[u]
      [] own[u] = None /\ frequency[k][u] # None -> frequency[k][u]
      [] OTHER -> "immediately"

(* The lists for the users us. *)
WithLists(n, k, own, us) ==
    [n EXCEPT !.on = [c \in Channels |-> {u \in us : ChannelOf(k, own, u) = c}],
              !.all = us]

(* ma_shared_notification_components_update_field_all_users_notified() *)
WithFlag(n) == [n EXCEPT !.complete = (n.all \subseteq n.notified)]

(* Mutant: a digest leaves out the immediate users that are still to be told. *)
ToNotify_ScheduleOnly(n, c) == n.on[c] \ n.notified

(* The users a digest of schedule c mails. *)
ToNotify(n, c) == (n.on["immediately"] \cup n.on[c]) \ n.notified

(* Mutant: a digest notes those it mailed, and forgets those noted before. *)
Noted_Replaced(n, us) == [n EXCEPT !.notified = us]

(* Mutant: once a digest has gone out, everyone is taken to be notified. *)
Noted_Everyone(n, us) == [n EXCEPT !.notified = n.all]

Noted(n, us) == [n EXCEPT !.notified = @ \cup us]

(* Bounds. *)
Calm == changes + choices + faults < MaxEvents
Fault == Calm /\ faults < MaxFaults /\ faults' = faults + 1
Change == Calm /\ changes < MaxChanges /\ changes' = changes + 1
Choice == Calm /\ choices < MaxChoices /\ choices' = choices + 1

NoOverlap == Serialised => save = NoSave /\ cron = NoDigest

------------------------------------------------------------------------------
(* Saving an item, with its notification node in the same transaction. *)

(* The lists are rebuilt, for whatever users the rebuilding finds, when the
   item is new or its protocols or followers changed; a deleted item gets a
   last email.  The users notified are reset and a new email is attached. *)
BeginSave(i, us, relist, author, final) ==
    /\ save = NoSave /\ NoOverlap
    /\ i \notin gone /\ emails < MaxEmails
    /\ ~relist => node[i].email # 0 /\ us = node[i].all
    /\ final => node[i].email # 0 /\ ~relist /\ Kind[i] = "dhan"
    /\ LET n == IF relist THEN WithLists(node[i], Kind[i], custom[i], us) ELSE node[i]
           draft == [n EXCEPT !.notified = {}, !.email = emails + 1]
       IN  save' = [at |-> "sending", item |-> i, author |-> author,
                    final |-> final, draft |-> draft,
                    todo |-> draft.on["immediately"], told |-> {}]
    /\ UNCHANGED <<content, cron, history, bounds>>

(* The insert hook of the email: the author is not mailed, but noted. *)
SendNow(u) ==
    /\ u \in save.todo
    /\ save' = [save EXCEPT !.todo = @ \ {u}, !.told = @ \cup {u}]
    /\ UNCHANGED <<content, cron, history, bounds>>

SendNowFails(u) ==
    /\ u \in save.todo /\ u # save.author
    /\ save' = [save EXCEPT !.todo = @ \ {u}]
    /\ Fault
    /\ UNCHANGED <<content, cron, history, emails, changes, choices>>

(* Mutant: the flag is not computed again. *)
CommitSave_KeepsFlag ==
    /\ save.at = "sending" /\ save.todo = {}
    /\ LET i == save.item
       IN  /\ node' = [node EXCEPT ![i] = Noted(save.draft, save.told)]
           /\ gone' = IF save.final THEN gone \cup {i} ELSE gone
           /\ issued' = [issued EXCEPT ![i] = save.draft.email]
           /\ emails' = emails + 1
           /\ addressed' = [addressed EXCEPT ![i] = save.draft.all]
           /\ told' = [told EXCEPT ![i] = save.told]
           /\ blank' = [blank EXCEPT ![i] = {}]
           /\ stranded' = stranded
    /\ save' = NoSave
    /\ UNCHANGED <<frequency, custom, cron, lapsed, changes, choices, faults>>

(* Lists, email and users notified become visible with the item. *)
CommitSave ==
    /\ save.at = "sending" /\ save.todo = {}
    /\ LET i == save.item
           n == Noted(save.draft, save.told)
       IN  /\ node' = [node EXCEPT ![i] = WithFlag(n)]
           /\ gone' = IF save.final THEN gone \cup {i} ELSE gone
           /\ issued' = [issued EXCEPT ![i] = save.draft.email]
           /\ emails' = emails + 1
           /\ addressed' = [addressed EXCEPT ![i] = n.all]
           /\ told' = [told EXCEPT ![i] = save.told]
           /\ blank' = [blank EXCEPT ![i] = {}]
           /\ stranded' = IF n.on = node[i].on THEN stranded
                          ELSE {x \in stranded : x[1] # i}
    /\ save' = NoSave
    /\ UNCHANGED <<frequency, custom, cron, lapsed, changes, choices, faults>>

(* The save is rolled back; what has been mailed has been mailed. *)
AbortSave ==
    /\ save # NoSave
    /\ Fault
    /\ save' = NoSave
    /\ UNCHANGED <<content, cron, history, emails, changes, choices>>

(* A collaboration page is deleted, and its notification node with it. *)
DeletePage(i) ==
    /\ Kind[i] = "following" /\ node[i].email # 0 /\ NoOverlap
    /\ node' = [node EXCEPT ![i] = NoNode]
    /\ gone' = gone \cup {i}
    /\ addressed' = [addressed EXCEPT ![i] = {}]
    /\ told' = [told EXCEPT ![i] = {}]
    /\ blank' = [blank EXCEPT ![i] = {}]
    /\ stranded' = {x \in stranded : x[1] # i}
    /\ UNCHANGED <<frequency, custom, save, cron, issued, lapsed, bounds>>

------------------------------------------------------------------------------
(* Users choose what they are notified of, and how often. *)

(* The followers of an item change.  Only for a page is the flag computed
   again. *)
SetFollowers(i, us) ==
    /\ node[i].email # 0 /\ i \notin gone
    /\ us # node[i].all
    /\ NoOverlap
    /\ Change
    /\ LET n == WithLists(node[i], Kind[i], custom[i], us)
       IN  node' = [node EXCEPT
             ![i] = IF Kind[i] = "following" THEN WithFlag(n) ELSE n]
    /\ addressed' = [addressed EXCEPT ![i] = @ \cap us]
    /\ stranded' = {x \in stranded : x[1] # i}
    /\ UNCHANGED <<frequency, custom, gone, save, cron, issued, told, blank, lapsed,
                   emails, choices, faults>>

(* A user chooses a frequency for one page, or goes back to the default (c is
   None).  The page is saved, and its update hook rebuilds the lists for
   whatever followers us it finds. *)
ChooseForPage(i, u, c, us) ==
    /\ Kind[i] = "following" /\ node[i].email # 0
    /\ custom[i][u] # c
    /\ NoOverlap
    /\ Choice
    /\ custom' = [custom EXCEPT ![i][u] = c]
    /\ node' = [node EXCEPT
         ![i] = WithFlag(WithLists(node[i], Kind[i], custom'[i], us))]
    /\ addressed' = [addressed EXCEPT ![i] = @ \cap us]
    /\ stranded' = {x \in stranded : x[1] # i}
    /\ UNCHANGED <<frequency, gone, save, cron, issued, told, blank, lapsed,
                   emails, changes, faults>>

ListedIn(k, u) == {i \in Items : Kind[i] = k /\ node[i].email # 0 /\ u \in node[i].all}

(* The loop over those pages skips a page on which anybody, the user or not,
   has chosen a frequency, and every page after it: the test assigns instead
   of comparing, and what it sets is never reset. *)
Plain(is) == {i \in is : custom[i] = NoneChosen}

(* Mutant: the user stays in the list of the old frequency as well. *)
ChangeFrequency_KeepsOld(k, u, c, is) ==
    /\ NoOverlap
    /\ Change
    /\ is = IF frequency[k][u] = None THEN {} ELSE Plain(ListedIn(k, u))
    /\ frequency' = [frequency EXCEPT ![k][u] = c]
    /\ node' = [i \in Items |->
                  IF i \in is
                  THEN [node[i] EXCEPT !.on[c] = @ \cup {u}]
                  ELSE node[i]]
    /\ stranded' = stranded \cup {<<i, u>> : i \in ListedIn(k, u) \ is}
    /\ UNCHANGED <<custom, gone, save, cron, issued, addressed, told, blank, lapsed,
                   emails, choices, faults>>

(* The account is saved, then node by node the user is taken from the list of
   the frequency before and added to that of the new one.  The nodes is are
   done before the loop meets a page to skip (the query has no order), or
   before the request dies: it always dies at the first one if the account
   had no frequency before, because there is no field of that name. *)
ChangeFrequency(k, u, c, is) ==
    /\ k = "following" => frequency[k][u] # c
    /\ NoOverlap
    /\ Change
    /\ is \subseteq Plain(ListedIn(k, u))
    /\ frequency[k][u] = None => is = {}
    /\ IF \/ is = ListedIn(k, u)
          \/ frequency[k][u] = None
          \/ Plain(ListedIn(k, u)) # ListedIn(k, u)
       THEN UNCHANGED faults
       ELSE Fault
    /\ frequency' = [frequency EXCEPT ![k][u] = c]
    /\ node' = [i \in Items |->
                  IF i \in is
                  THEN [node[i] EXCEPT
                          !.on = [d \in Channels |->
                                    CASE d = c -> @[d] \cup {u}
                                      [] d # c /\ d = frequency[k][u] -> @[d] \ {u}
                                      [] OTHER -> @[d]]]
                  ELSE node[i]]
    /\ stranded' = stranded \cup
                     {<<i, u>> : i \in {j \in ListedIn(k, u) \ is : custom[j][u] = None}}
    /\ UNCHANGED <<custom, gone, save, cron, issued, addressed, told, blank, lapsed,
                   emails, choices>>

------------------------------------------------------------------------------
(* Digests. *)

(* The daily or weekly digest of one kind begins: the nodes whose flag is not
   set are read. *)
BeginDigest(k, c, old) ==
    /\ cron = NoDigest /\ NoOverlap
    /\ old => k = "following"
    /\ LET found == {i \in Items : /\ Kind[i] = k
                                   /\ node[i].email # 0
                                   /\ ~node[i].complete}
           todo == [u \in Users |-> {i \in found : u \in ToNotify(node[i], c)}]
       IN  /\ \E u \in Users : todo[u] # {}
           /\ cron' = [NoDigest EXCEPT !.at = "mailing", !.blank = old,
                                       !.copy = node, !.todo = todo]
    /\ UNCHANGED <<content, save, history, bounds>>

(* The items of which u is mailed the latest email. *)
Current(u) == {i \in cron.todo[u] : cron.copy[i].email = issued[i]}

(* One mail to u about all of them; the older job sends it blank. *)
MailDigest(u) ==
    /\ cron.at = "mailing" /\ cron.todo[u] # {}
    /\ cron' = [cron EXCEPT !.sent[u] = cron.todo[u], !.todo[u] = {}]
    /\ LET Reached(h) == [i \in Items |-> IF i \in Current(u) THEN h[i] \cup {u}
                                          ELSE h[i]]
       IN  IF cron.blank
           THEN blank' = Reached(blank) /\ UNCHANGED told
           ELSE told' = Reached(told) /\ UNCHANGED blank
    /\ UNCHANGED <<content, save, issued, addressed, stranded, lapsed, bounds>>

(* Mutant: the result of the mail is not looked at. *)
MailDigestFails_Noted(u) ==
    /\ cron.at = "mailing" /\ cron.todo[u] # {}
    /\ cron' = [cron EXCEPT !.sent[u] = cron.todo[u], !.todo[u] = {}]
    /\ Fault
    /\ UNCHANGED <<content, save, history, emails, changes, choices>>

MailDigestFails(u) ==
    /\ cron.at = "mailing" /\ cron.todo[u] # {}
    /\ cron' = [cron EXCEPT !.todo[u] = {}]
    /\ Fault
    /\ UNCHANGED <<content, save, history, emails, changes, choices>>

(* Mutant: a digest of which no mail went out does not end. *)
Mailed_NoEnd ==
    /\ cron.at = "mailing"
    /\ \A u \in Users : cron.todo[u] = {}
    /\ cron' = [cron EXCEPT !.at = IF \A u \in Users : cron.sent[u] = {}
                                  THEN "mailed" ELSE "recording"]
    /\ UNCHANGED <<content, save, history, bounds>>

(* All users have been mailed: the nodes are to be updated, if any. *)
Mailed ==
    /\ cron.at = "mailing"
    /\ \A u \in Users : cron.todo[u] = {}
    /\ cron' = IF \A u \in Users : cron.sent[u] = {} THEN NoDigest
               ELSE [cron EXCEPT !.at = "recording"]
    /\ UNCHANGED <<content, save, history, bounds>>

MailedOf(i) == {u \in Users : i \in cron.sent[u]}

(* The copy of the node is saved with the users notified, then again with the
   flag.  A node that has been deleted meanwhile stays deleted. *)
Record(i) ==
    /\ cron.at = "recording" /\ MailedOf(i) # {}
    /\ node' = [node EXCEPT
         ![i] = IF node[i].email = 0 THEN NoNode
                ELSE WithFlag(Noted(cron.copy[i], MailedOf(i)))]
    /\ LET sent == [u \in Users |-> cron.sent[u] \ {i}]
       IN  cron' = IF \A u \in Users : sent[u] = {} THEN NoDigest
                   ELSE [cron EXCEPT !.sent = sent]
    /\ UNCHANGED <<frequency, custom, gone, save, history, bounds>>

(* The process dies between the two saves. *)
RecordDies(i) ==
    /\ cron.at = "recording" /\ MailedOf(i) # {}
    /\ Fault
    /\ node' = [node EXCEPT
         ![i] = IF node[i].email = 0 THEN NoNode ELSE Noted(cron.copy[i], MailedOf(i))]
    /\ cron' = NoDigest
    /\ lapsed' = TRUE
    /\ UNCHANGED <<frequency, custom, gone, save, issued, addressed, told, blank,
                   stranded, emails, changes, choices>>

DigestDies ==
    /\ cron # NoDigest
    /\ Fault
    /\ cron' = NoDigest
    /\ lapsed' = TRUE
    /\ UNCHANGED <<content, save, issued, addressed, told, blank, stranded, emails,
                   changes, choices>>

------------------------------------------------------------------------------
Digest ==
    \/ \E u \in Users : MailDigest(u)
    \/ Mailed
    \/ \E i \in Items : Record(i)

Sending == CommitSave \/ \E u \in Users : SendNow(u)

Next ==
    \/ \E i \in Items, us \in SUBSET Users, relist, final \in BOOLEAN,
          author \in Users \cup {None} : BeginSave(i, us, relist, author, final)
    \/ Sending
    \/ \E u \in Users : SendNowFails(u)
    \/ AbortSave
    \/ \E i \in Items : DeletePage(i)
    \/ \E i \in Items, us \in SUBSET Users : SetFollowers(i, us)
    \/ \E i \in Items, u \in Users, c \in Offered \cup {None}, us \in SUBSET Users :
          ChooseForPage(i, u, c, us)
    \/ \E k \in Kinds, u \in Users, c \in Channels, is \in SUBSET Items :
          ChangeFrequency(k, u, c, is)
    \/ \E k \in Kinds, c \in {"day", "week"}, old \in BOOLEAN : BeginDigest(k, c, old)
    \/ Digest
    \/ \E u \in Users : MailDigestFails(u)
    \/ \E i \in Items : RecordDies(i)
    \/ DigestDies

Spec == Init /\ [][Next]_vars

(* PHP runs a request on; cron starts every digest there is work for. *)
FairSpec ==
    /\ Spec
    /\ WF_vars(Sending)
    /\ WF_vars(Digest)
    /\ \A k \in Kinds, c \in {"day", "week"} :
         WF_vars(\E old \in BOOLEAN : BeginDigest(k, c, old))

------------------------------------------------------------------------------
(* Properties. *)

(* The digests look at nodes whose flag is not set only: whoever the latest
   email was meant for, and still is, and has not been noted, is on such a
   node, whatever has happened to frequencies and followers since. *)
PendingIsFlagged ==
    \A i \in Items :
        (addressed[i] \cap node[i].all) \ node[i].notified # {} => ~node[i].complete

(* "Do not send to users already notified" is safe: a user is noted as
   notified only when the latest email, not an earlier one, was mailed to the
   user, or the user is its author - or a blank digest took its place. *)
NotedWereMailed ==
    \A i \in Items : node[i].notified \subseteq told[i] \cup blank[i]

(* No digest mails what its reader already got, from an earlier digest or when
   the item was saved, except after a digest that died before its notes. *)
MailedOnce ==
    ~lapsed => \A u \in Users : \A i \in cron.todo[u] : u \notin told[i] \cup blank[i]

(* The lists of a notification node agree with the frequency its users chose:
   each is in the list of that frequency and in no other, unless the change of
   the user's default left the node as it was: the request died, or it skipped
   the page because of the frequencies chosen there. *)
ListsFollowChoice ==
    \A i \in Items : \A u \in node[i].all : \A c \in Channels :
        <<i, u>> \notin stranded
        => (u \in node[i].on[c] <=> c = ChannelOf(Kind[i], custom[i], u))

(* The users the latest email of item i is owed to. *)
Owed(i, u) ==
    u \in (addressed[i] \cap node[i].all) \ (told[i] \cup blank[i])

(* Everyone is told: a user to whom an email is owed does not wait for ever,
   although mails fail and digests die, as long as cron goes on. *)
EveryoneIsTold ==
    \A i \in Items, u \in Users : Owed(i, u) ~> ~Owed(i, u)

(* The abstract specification of delivery: a blank digest counts as one. *)
Promise == INSTANCE Delivery WITH
    audience <- [i \in Items |-> node[i].all],
    told <- [i \in Items |-> told[i] \cup blank[i]],
    settled <- [i \in Items |-> node[i].notified]

Delivers == Promise!Spec
===============================================================================
