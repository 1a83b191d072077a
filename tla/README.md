# A verification project for Mukurtu CMS

Mukurtu CMS 3.0.7 is a Drupal 7 distribution in which communities share digital heritage under
*cultural protocols*. This directory holds TLA+ models of the part of it that decides who belongs to
what and who sees what, the configurations that check them with TLC, and proofs that TLAPS checks.
File names below are relative to `src/sites/all/modules/`, those of core (`includes/`, `modules/`) to `src/`;
`custom/features/ma_x` stands for the module file of that name in it.

- [The system](#the-system): parts, state, interactions, what makes them hard
- [The modules](#the-modules): how state and actions correspond to the code
- [The runs](#the-runs): what each one checks, bounds, fairness
- [The proofs](#the-proofs)
- [Where the code does not do what it says](#where-the-code-does-not-do-what-it-says)
- [What is not modelled](#what-is-not-modelled)
- [Plan](#plan)

## The system

Drupal answers each request with one PHP process. Processes share the database and nothing else; a
process reads the site's *variables* when it begins (`includes/bootstrap.inc`, `variable_get` reads
the copy), its `$_SESSION` is written back when it ends, even if its database transaction was rolled
back. `node_save()`, `user_save()` and the entity API's `save()` open a transaction; hooks run inside
them and often save further entities, so one click can be a tree of nested saves. Modules interact by
hooks, by the entities they all read, by variables and by session keys.

### Components

| Component | State it keeps | Operations | What makes it correct |
|---|---|---|---|
| Membership cascade (`custom/features/ma_culturalprotocol`, `ma_community`) | rows of `og_membership`; `field_parent_community`; marks in `$_SESSION` | add, approve, block, remove a member; register; set or clear a parent community | whoever is added to a community, a protocol or a child community is added to what it implies; marks never spoil a later request; the recursion ends |
| Communities and default protocols (`custom/mukurtu_protocol_field`, `ma_culturalprotocol`) | nodes, the node id counter | create a community, import one, create a protocol | every community made with the form has its default protocol, and the cascade finds that one |
| Item access (`custom/mukurtu_protocol_field`, `ma_culturalprotocol`, `ma_search_api`, with `contrib/og_access`, `contrib/search_api`) | access of protocols, protocols and sharing of items, rows of `{node_access}`, search index, three queues in variables | save an item, save a protocol, render a listing, batch, cron | page and listing agree; no outdated row is forgotten |
| Custom corresponding references (`ma_search_api`) | pairs of reference fields, two statics of a request | node insert and update | both ends of a pair are what users made of them, whichever end they edited |
| Notifications (`ma_shared_notification_components`, `ma_dhan`, `ma_collaboration_tools`) | notification nodes: lists by frequency, users notified, a flag; frequencies of users | save of an item, immediate mails, change of frequency or followers, three cron jobs | everyone is notified, once, and nobody is taken for notified without a mail |
| Books and community records (`ma_digitalheritage`, with `contrib/cer`) | parent and book of an item, lists of records and pages, forms in tabs, the session's parent | open and submit forms, edit, delete | a record belongs to the item it was made for, lists and links agree, pages follow their book, nothing outlives its parent |
| Media access (`ma_scald`) | `mukurtu_protocol_map`, `scald_protocol_access` | save, delete and view media, change memberships and protocols | the library lists exactly what the view rule allows |
| Scheduled fixity checks (`ma_file_fixity`, with `contrib/job_scheduler`) | schedules, next runs, reports, `job_schedule` | save, delete, cron, run by hand | every schedule has its job, runs and edits do not lose each other |
| Collections (`ma_collection`) | items, sub-collections, personal collections | save, delete, add to collection | the hierarchy has no cycle |
| Dictionary (`ma_dictionary`) | words, entries, lists | save, delete | no entry outlives its word |
| Taxonomy records (`custom/mukurtu_taxonomy_records`) | links from terms to records and their cache | forms | the cache agrees with the links |
| Import and export (`ma_importexport`, `ma_importexport_dc`, `custom/mukurtu_export`) | feeds, templates | import, export | what is exported can be imported |
| Mobile client (`ma_mobile_client`) | lists of content kept on a device | synchronise | serialisation |
| People, profiles, lessons, media pages; site pages, themes, licences | blocks and settings | rendering | - |
| Organic groups, Search API, Drupal core | memberships, tracked items, nodes, sessions, variables | called by the above | modelled as far as they are called |

### How they interact

1. `og_group()` or a form saves an `og_membership`. `ma_culturalprotocol_og_membership_presave()`
   runs **before** the row is written and saves further memberships of the same user, whose own
   presave hook runs before theirs. Nothing of this is stored yet, so the hook cannot see what it is
   about to do; it leaves marks in the session instead.
2. `ma_community_node_presave()` adds the users of a community to a parent that has just been chosen,
   by the same path.
3. A new community saves a protocol from its insert hook; OG then subscribes the author to the
   protocol and to the community, which sets the cascade off again.
4. Saving a protocol queues its items in a variable; a listing rebuilds them and empties the variable;
   og_access starts a batch for the same items if the form was used; Search API tracks what
   was touched and indexes it when the request shuts down, or cron does.

5. Saving an item saves the items at the other end of its references, from hooks, and saving a book
   saves its pages; each of these saves runs the hooks of all modules again.
6. Saving an item attaches an email to its notification node in the same transaction; cron mails the
   rest from copies of nodes it read before.
7. A run of a fixity check saves a node it loaded minutes ago; its presave hook sets the job that cron
   has put off meanwhile.

### What is hard about it

Orders of nested saves nobody wrote down; marks in a store that no rollback reaches; reads of copies
(variables, nodes, forms, the transaction's snapshot) that were taken before the write they meet; node
ids used as a relation; a queue emptied without looking; rows computed from one state and indexed from
another; lists rebuilt by queries that see only what the user may see; work that is repeated, or not,
after a process has died. PROJECT.json lists each hazard at its line, with the properties that watch it;
the ones without a property are the plan.

## The modules

Each component is one specification module; `MC...` gives its constants values, `..._proofs` holds
its theorems. Operators named `X_Something` that follow the comment "Mutant" are deliberately
wrong versions of `X`, used to see that a property notices the corresponding bug; no action uses
them.

### `MembershipCascade`

One user's memberships ripple through communities, protocols and parents.

| State | Code |
|---|---|
| `parent`, `state`, `registered` | `field_parent_community`, `og_membership.state`, `{users}`, as committed |
| `flags[s]` | `$_SESSION['member_add_prevent_infinite_loop']`, by protocol: every protocol has one community, so the key of the code is determined by it |
| `stack[s]` | the PHP call stack, a frame per membership being saved, and where its hook is |
| `todo[s]` | what `ma_community_node_presave()` or `ma_culturalprotocol_user_insert()` has still to add |
| `rows[s]`, `tree[s]`, `dirty[s]` | what the request's transaction reads: its snapshot and its own writes |
| `edit[s]`, `newUser[s]` | the node or account whose save is the outermost one |
| `withheld`, `died` | history: memberships somebody removed or held back; whether any request died |

`Join`, `Register`, `SetParent`, `ClearParent`, `SaveInactive`, `Remove` are the requests. `SetParent`
reads the users of the child without a condition on their state, as the code does. The steps of a
request are the three calls of the hook (`AddDefaultProtocol`, `AddParentCommunity`, `AddCommunity`),
`Write` when hooks have returned, `NextMembership`, and `Commit` or `Abort`. `RunAway` is the death of a
request whose saves nest `MaxDepth` deep. The properties about what follows from a membership except
the memberships that someone removed, blocked or left pending themselves: the code never restores
those and does not claim to.

### `GroupCreation`

Where the default protocol comes from. `counter` is the auto-increment of `{node}`: every request
takes ids from it (`TakeId`), rollbacks do not give them back. Between the insert of a community and that of its
default protocol (`Waiting`), another request may take the next id: `overtaken` is the history of the communities this has happened to. `Recognised` is the test of the cascade:
`node_load(gid + 1)` is a protocol that refers to the community. A request is `BeginCommunity` (or
`BeginImport`, `BeginProtocol`, `OtherNode`), then `InsertDefault` from the insert hook,
`SubscribeToProtocol`, `SubscribeToCommunity` in the order in which `hook_entity_insert()` reaches them (the inner
save first) and `Commit` or `Abort`. The cascade of `MembershipCascade` is one step here (`InCommunity`,
`InProtocol`); there are no parents, and memberships are read as they are rather than from a snapshot
(in this module only the author's own request can write memberships of a group that is not committed).
Requests interleave at each of these steps; nothing is serialised.
This module composes with the other through `DefaultOf`: what is a constant there is computed here,
and `DefaultIsRecognised` justifies the assumption of `MembershipCascade` that `DefaultOf` names a
protocol of the community.

### `ContentGrants`

The four copies of the answer to "who may see this item".

| State | Code |
|---|---|
| `access` | `group_access` of a protocol, 0 open, 2 strict |
| `refs`, `privacy` | `og_group_ref`, `field_item_privacy_setting` of an item |
| `grants` | the item's rows in `{node_access}`: a row of og_access by its protocol, `"public"` for realm `mukurtu_nodes_in_cp_any_public_group`, `"everyone"` for realm `all` |
| `indexed`, `changed` | `search_api_access_node` in the index; items tracked as changed |
| `queue` | the variables `mukurtu_*_nodes_to_rebuild_perms_and_reindex`, one for the type at hand |
| `conf[s]` | the request's copy of that variable |
| `work`, `current`, `records`, `wiped`, `delayed` | the loop over items, the item whose rows are being replaced, the rows computed, whether the old ones are deleted, the items to index at shutdown |
| `batch` | batches og_access has registered |
| `cut`, `unseen` | history: items that a dead request was busy with; items that someone outside their protocol did not see as he saved it |

`CanView` is `mukurtu_protocol_field_node_access()`, `Rows` is og_access' records, the module's own
record and the choice by priority in `node_access_acquire_grants()`, `Listed` is the access filter of Search API
with `ma_search_api_search_api_query_alter()`. A node save is one transaction and so one step at
`CommitItem` or `CommitProtocol`; a listing and a batch are not, so each item is `ReadItem`,
`DeleteGrants`, `WriteGrants`, and other requests may see what is in between. `Abort` may come at any of
these points.

`BeginProtocol` looks for the items to queue with an `EntityFieldQuery` that has a condition on a field (`ma_culturalprotocol.module:310-315`). Field SQL storage tags such a
query for node access (`modules/field/modules/field_sql_storage/field_sql_storage.module:694-695`), and unlike the query at `:24` it does not switch to user 1: it finds the items
whose current rows admit the saver (`Viewable`), or all of them if he bypasses node access. So the saver is a parameter of the action: his protocols `ms`, and `bypass`. Members of the protocol find all
its items, however outdated the rows are; others may miss some, and `unseen` keeps them until their rows are computed again. The query of the batch of og_access is for memberships and finds everything.

### `Notifications` and `Delivery`

| State | Code |
|---|---|
| `node[i]` | the notification node of item `i`: `on[c]` are the fields `field_notify_*` by frequency, `all` everyone to notify, `notified` the users notified, `complete` the flag "all users notified" |
| `frequency` | `field_dhan_frequency` and `field_notifications_freq_def` of users; `None` where none was chosen |
| `custom` | `field_custom_notification_freq` of a page: the frequency a user has chosen for this page only |
| `save` | the request that saves an item, with the users it has still to mail at once |
| `cron` | the digest that runs: the nodes it read, whom it has to mail, the nodes it has to record |
| `issued`, `addressed`, `told`, `blank`, `stranded`, `lapsed` | history: the latest email, whom it was listed for, who got it, who got a blank one instead, users whom a change of their default left on an old list, a digest that died before its notes |

A save is `BeginSave`, `SendNow` or `SendNowFails` for each immediate reader, and `CommitSave` or
`AbortSave`: mails that were sent stay sent. A digest is `BeginDigest`, `MailDigest` or `MailDigestFails`
for each user, then `Record` for each node; `DigestDies` and `RecordDies` may end it anywhere.
`ChangeFrequency`, `ChooseForPage` and `SetFollowers` move users between lists.
`ChangeFrequency` goes through the pages of the user, in no order, and ends at the first one on which anybody has chosen a frequency (`Plain` are the others): `ma_collaboration_tools.module:1129` assigns where it should
compare, and nothing resets what it sets. `ChooseForPage` saves the page, and its update hook computes all lists again. The older digest of
`ma_collaboration_tools` (`old`) reads the same nodes, sends a message that no `hook_mail()` fills in, and
notes its readers all the same; the model records them in `blank`.

`Delivery` is what this is for: an email has an audience, users are told, and users that have been told
are settled. It knows neither lists nor flags nor digests. `Delivers` is its specification under the
mapping of `audience` to the users to notify, `told` to those who have been mailed and `settled` to the users notified;
every step of `Notifications` is one of its steps or a stutter. In particular nobody is settled without having been
told, and nobody outside of the audience, or settled already, is told.

### `CrossReferences`

| State | Code |
|---|---|
| `refs`, `live` | the reference fields in the database, the nodes there are |
| `original`, `processed` | the statics of `ma_search_api_node_update()` |
| `cache` | what `node_load()` returns: an object that hooks share and change, or, while a node is being saved, another one with its old lists |
| `pending` | the PHP call stack, innermost first: the node whose hook runs, and the objects it still has to save |
| `rowless` | nodes that are being inserted and have no access rows yet |
| `edited`, `intent`, `excused` | history: the save of the user, what users linked last from either end, links a save is known to leave alone |

`Save` is a user's `node_save()` with the hook in it, `Resave` a save a hook makes, whose own hook runs inside (`Hook` is both), `Return` the end
of a `node_save()`. `Rebuilt` is the query for all nodes that refer to another one, restricted to what the user may view (`Visible`). The hook
saves a node once for each of its lists that it has set, hence `twice`. `node_save()` loads the node as it was before its hooks run
(`modules/node/node.module:1082`), and the cache holds that object until `node_save()` resets it at its end
(`:1188`): a hook further in that loads the node gets the old lists, and what it sets in them is not what the hook further out will save (`Detached`).
`EndRequest` is what resets the statics: a request may save several nodes. Each member of `excused` has a reason in the comment of `Missed`: a node the user
may not see, a node another hook of the request has already worked on, a change of the access setting in the same save, a list that is rebuilt from the database
before the hook that has changed it saves it.

### `MediaAccess`

| State | Code |
|---|---|
| `opened`, `strict` | `group_access` of protocols and of communities |
| `member`, `joined` | active memberships of protocols and of communities |
| `shut` | protocols that have a row of their community in `{node_access}`: the community was strict when the rows were written |
| `exists`, `atom` | media items, with protocols and sharing setting |
| `sets`, `rows` | `mukurtu_protocol_map` numbers sets of protocols, `scald_protocol_access` lists numbers for each item |
| `req`, `settled` | requests, and how far they are; history: items whose last save was alone and came to its end |

`Allowed` is the view rule. It asks `node_access('view')` for the protocol node (`MayView`), which og_access answers by rows: a strict protocol has one of its own, and any protocol has one of its community when that
is strict (`contrib/og/og_access/og_access.module:97-122`); rows are OR'ed, and a node without any can be viewed by all. So members of a strict community may view its strict protocols, and members of an open protocol outside
its strict community may not. `Listed` is the query of the library, with `Held` the numbers of the sets of the user. It counts (`Counted`) the protocols of his memberships, whatever their rows, and the open ones he may view.

The row of a protocol's own is there if and only if the protocol is strict, because a save writes both; the row of its community is written then as well (`SaveProtocol`), and stays as it is when the
community changes (`ChangeCommunity`) until the batch of the form reaches the protocol (`AcquireGrants`), if it ever does. `ChangeMembership` and `JoinOrLeave` are separate, for memberships of a protocol and of its community need
not go together: those who are removed from one stay in the other. The community of a protocol is a constant; roles that bypass node access and unpublished protocols are left out. A save of an item
is outside of any transaction: `BeginSave`, `ClearRows`, `LookUp` and `AddSet` for each set it needs, `InsertRow` for each
number, `EndSave`; `View` computes `Held`, which adds missing sets as well. Requests interleave at each of these steps and `Die` anywhere. Numbers are integers, like the node ids of protocols with
which they share an array: `Held` lets one replace the other as the code does.

### `FixityJobs`

`node` are the checks, `job` the rows of `job_schedule` by their id, where new checks share the row with id 0. `Presaved` is
the presave hook, `PresaveJob` what it does with the table. Cron is `StartCron` (it fetches the jobs that are due), `Execute`
(the job is put off, a run begins) or `ExecuteMissing` for each, and `StopCron` after 30 seconds; `RunManually` begins a run in a
request. A run is open for as long as it takes to hash files: `FinishRun` saves the node it loaded, with a report,
`FinishDeleted` is the same when the check was deleted meanwhile, `RunThrows` and `RunDies` are its failures. `adrift` and `crossed` name the checks
whose state a failure, or a copy older than the last save, has touched.

### `RecordFamilies`

| State | Code |
|---|---|
| `live`, `gone`, `node` | items: author, `field_community_record_parent`, `field_book_parent`, protocols, sharing setting |
| `children`, `pages` | `field_community_record_children`, `field_book_children` |
| `slot` | `$_SESSION['community_record_parent']`, which all tabs of a user share; it stands for the requesting path as well, in which the same node id occurs |
| `form` | the form open in a tab: what it is for, and the protocols it was filled with |
| `from`, `missed`, `apart` | history: whose form made a record; items their parent or book did not list when they were made; pages given protocols or a setting other than the book's |

`OpenRecordForm` and `OpenPageForm` are the two buttons, `SubmitRecord`, `SubmitPage` and `Create` insert an item
(`Insert` is `node_save()` with cer's part in it), `SubmissionDies` is a submission that is rolled back after the presave hook.
`Edit` is the form of an existing item: who may, which protocols may be chosen, what the hidden selects keep (`Kept`), the
validation of lists, the copies to the pages (`Replicated`) and cer's update (`Relisted`). `Delete` takes records and pages and theirs.
`Visible` is the answer of `{node_access}` that `ContentGrants` computes row by row; cer's validation of a
list of children (`Valid`) asks it for all of them at once, and refuses a list of which the user sees a part only.

## The runs

| Run | Question | Instance | Distinct states |
|---|---|---|---|
| `cascade_cycle` | do default protocols and parents get the members they should, what can nest without end, who gets into a cycle? | 1 user, 1 session, each community may be put below the other, auto-join | 81,988 |
| `cascade_overlap` | do protocols bring their community and are marks consumed when requests interleave at each nested save? | 1 user, 2 sessions, child with default below a parent | 2,723,176 |
| `grants_two_items` | do page and listing agree, is every outdated row queued, every listing fresh? | 2 items saved with both of 2 protocols, shared with any or with all of them | 1,237,649 |
| `creation` | does a community have its default protocol, is it found, do the memberships of the pair go together, when requests interleave? | 2 users, 2 sessions, 5 ids, imports | 601,651 |
| `notifications` | is everyone told, once, and does all of it implement `Delivery`? | an item and a page, 2 users, 2 emails, 1 change, 1 choice of a weekly digest for a page, 1 fault, at most 2 of these three together, `FairSpec` | 355,885 |
| `references` | are both ends what users made of them? | 2 items, 1 collection, an administrator, a contributor who does not see one item, 3 saves | 189,835 |
| `media_library` | does the library list what the view rule allows? | 1 user, member of the first protocol; 2 items, 2 protocols of one community, 2 requests, 2 saves, 1 event (a change of the site, a view or a death) | 4,224,812 |
| `fixity` | do node and job stay in step, is every due check run? | 2 checks, 2 periods, 3 days, 3 edits, 1 run by hand, 1 fault, `FairSpec` | 159,467 |
| `families` | do families keep together? | 3 items, 2 users who see different protocols, 2 tabs of one of them, 2 edits or deletions | 366,187 |
| `v_mark_leak`, `v_number_clash`, `v_link_lost` | the disagreements below | | |

**Bounds.** One user is enough where the cascade never relates two users; the exception is a mark left by
one and read by another, and that run (`v_mark_leak`) has two. Two communities give every shape of the
parent relation the hook can tell apart: none, one above, a cycle; the nested saves go one level per
community, and `MaxDepth` 5 is more than the longest chain of two communities and one protocol, 6 in the
run with the cycle. Two sessions are the smallest number that interleave. Two protocols on one item cover all mixtures of open and
strict, member and not; both items of `grants_two_items` are saved with both protocols, each with any or with all of them, so that the AND rule meets the OR'ed rows and
the queues of the two protocols merge. Five ids let two communities, their defaults and one more node exist, or two aborted attempts before a community.
An email that replaces another, a fault at any point, a user who changes the default in between, and a page that this change skips or dies at are all in the bounds of `notifications`; `MaxEvents` allows any two of change, choice and fault together. Two items and a collection have every kind of
reference, and three saves let hooks nest, meet lists that are set and not saved, and the request go on with another node. Two requests of `media_library` race for a number, and one death, view or change falls into
any gap of them. It starts from 16 sites (`MCInit`: which protocols are open, whether the community is strict, whether the user is in it) without media; that the user is a member of one protocol and not of the other is fixed, which has either kind
of protocol on an item, and `ChangeMembership` makes him a member of both or of none. Three days let a period of one and one of two days come due together and a run be missed; four days (638,317 states) showed nothing new.
Three items make a book, a page and a record of either, which is as deep as a family gets; two edits or deletions let one user undo what another one needs. The same
module with other roles, a second steward of `p` (1,206,937 states) among them, had no error either.

**Symmetry.** Sessions, users, requests and items are permuted where the instance treats them alike and no property needs the order; in `families`,
items and the two tabs of one user (users are not alike there). In `grants_two_items` items and protocols are. The runs with liveness properties, `cascade_cycle` and `references` use none.

**Serialised.** Several properties hold only when requests do not overlap; `Serialised` says so in
the specification, and the text below says what happens otherwise. `MembershipCascade`, `MediaAccess` and `FixityJobs` interleave without it, and `GroupCreation` has no such switch. `CrossReferences` and
`RecordFamilies` take a save as one step: forms, which stay open for long, do overlap there.

**Fairness.** `notifications`: weak fairness of the steps of the request that sends and of the digest, because PHP executes a request until it returns or dies, and cron starts every digest for which there is work; faults are bounded, because a mail server that never works tells nobody. `fixity`: cron is started again and
again (weak), executes at least one job of those it has fetched before its 30 seconds are over (strong fairness of the step: it is disabled whenever cron is between two runs), and
runs end. Nothing is assumed of users.

**Deadlock** is checked in `cascade_cycle`, `cascade_overlap` and `grants_two_items`. In the other runs the bounds on ids, edits, emails or time end the behaviours, so that `CHECK_DEADLOCK FALSE` is right there.

**Properties.** `DefaultMembers`, `CommunityMembers` and `ParentMembers` are the three sentences of the
hook's comments; `MarksAreConsumed` says that the marks that keep the first two going are gone after each
request, which is the reason why the next request works. `RunAwayOnlyOnCycle` says that only a cycle of parents keeps the recursion from ending, and `CyclesTakeNobodyIn` what it does to the site: nothing that runs into such a cycle is ever stored, so nobody who is not in it gets in. `DefaultExists`, `DefaultIsRecognised` and `MembershipsPaired` tie
the creation of a protocol to what the cascade later makes of it. `ListingsAgree` is the claim of the comment "HOW NODES-IN-CULTURAL PROTOCOL
... PERMISSIONS ARE IMPLEMENTED": grants, which are OR'ed, and the altered query add up to the AND/OR rule of the page. `StaleIsQueued`, `IndexFollowsGrants`,
`ListIsFresh` and `RebuiltBeforeDropped` say that the copies catch up, whichever request dies where; the first and second except the items (`Excused`) a dead request was busy with and those the saver of a protocol did not see. `PendingIsFlagged`, `NotedWereMailed` and `MailedOnce` are the three ways a digest could go wrong: not see a reader, take one for
notified, mail one again. `ListsFollowUsers` and `EditIsKept` say that saves of nodes nobody edited do not undo what users did. `ListedIsAllowed` and `AllowedIsListed` are the two
halves of the library's promise. `JobFollowsNode`, `NothingLost`, `DueIsRun` and `OrphansGo` are about runs that take long enough for everything else to happen meanwhile.
`RecordsOfTheirForm`, `ListsMirrorLinks`, `PagesFollowBook` and `NoOrphans` hold for whole families, through forms that are older than the edits and deletions they meet.

## The proofs

| Theorem | Statement |
|---|---|
| `MembershipCascade_proofs!TypeCorrect` | `Spec => []TypeOK` |
| `MembershipCascade_proofs!ParentMembersHold` | `Spec => []ParentMembers`, if `Serialised` or nobody may change a parent |
| `MembershipCascade_proofs!DefaultMembersHold`, `CommunityMembersHold`, `MarksAreAlwaysConsumed` | `Spec => []DefaultMembers`, `[]CommunityMembers`, `[]MarksAreConsumed`, any interleaving |
| `MembershipCascade_proofs!RunAwaysMeetCycles` | `Spec => []RunAwayOnlyOnCycle`, any interleaving, for finitely many communities and a `MaxDepth` that exceeds their number by 2 |
| `MembershipCascade_proofs!CyclesStayShut` | `Spec => []CyclesTakeNobodyIn`, if `Serialised` or nobody may change a parent |
| `ContentGrants_proofs!TypeCorrect` | `Spec => []TypeOK` |
| `ContentGrants_proofs!ListingsDecideLikePages` | `Spec => []ListingsAgree`, any interleaving |
| `ContentGrants_proofs!StaleItemsAreQueued` | `Spec => []StaleIsQueued`, if `Serialised` |
| `ContentGrants_proofs!ListingsAreFresh` | `Spec => []ListIsFresh`, if `Serialised` |
| `ContentGrants_proofs!QueueIsWorkedOff` | `Spec => RebuiltBeforeDropped`, if `Serialised` |
| `ContentGrants_proofs!IndexIsTracked` | `Spec => []IndexFollowsGrants`, if `Serialised` |
| `ContentGrants_proofs!IndexCatchesUpAnyway` | `Spec => []EntriesCatchUp`: an entry that differs is tracked, or due when a running request ends, or was left by a dead one; any interleaving |
| `GroupCreation_proofs!TypeCorrect` | `Spec => []TypeOK` |
| `GroupCreation_proofs!DefaultsExist` | `Spec => []DefaultExists`, any interleaving |
| `GroupCreation_proofs!DefaultsAreRecognised` | `Spec => []DefaultIsRecognised`, any interleaving |
| `GroupCreation_proofs!MembershipsArePaired` | `Spec => []MembershipsPaired`, any interleaving |
| `CrossReferences_proofs!TypeCorrect`, `FirstEditIsKept`, `ListsFollowUsersLast` | `Spec => []TypeOK`, `[]EditIsKept`, `[]ListsFollowUsers` |
| `MediaAccess_proofs!TypeCorrect`, `ListingsAreAllowed` | `Spec => []TypeOK`, `[]ListedIsAllowed`, any interleaving |
| `MediaAccess_proofs!AllowedAreListed` | `Spec => [](NumbersApart => AllowedIsListed)`, any interleaving |
| `FixityJobs_proofs!TypeCorrect`, `JobsFollowNodes`, `NothingElseIsLost` | `Spec => []TypeOK`, `[]JobFollowsNode`, `[]NothingLost` |
| `Notifications_proofs!TypeCorrect` | `Spec => []TypeOK`, any interleaving |
| `Notifications_proofs!PendingStaysFlagged`, `NobodyIsForgotten`, `NobodyIsMailedTwice`, `ListsAreRight` | `Spec => []PendingIsFlagged`, `[]NotedWereMailed`, `[]MailedOnce`, `[]ListsFollowChoice`, if `Serialised` |
| `Notifications_proofs!NotificationsDeliver` | `Spec => Delivers`, if `Serialised`: the refinement of `Delivery` |
| `RecordFamilies_proofs!TypeCorrect`, `RecordsBelong`, `ListsMirror`, `PagesFollow`, `NobodyIsOrphaned` | `Spec => []TypeOK`, `[]RecordsOfTheirForm`, `[]ListsMirrorLinks`, `[]PagesFollowBook`, `[]NoOrphans` |

They hold for all values of the constants that satisfy the modules' assumptions: any number of
users, groups, sessions, items and ids, any hierarchy, any depth. The assumptions are that
communities and protocols are distinct, that a default protocol belongs to its community, that the realms
of rows are not protocols, and the types of the switches. Three hypotheses come on top where the table says so. `Serialised` is a switch of the specification:
the theorem is about requests that do not overlap. The depth in `RunAwaysMeetCycles` is where PHP gives up, which the code does not set; with less of it, long chains die too. `NumbersApart` says that no
protocol has the node id that is the number of a set: the code does not see to it, and `v_number_clash` shows what happens otherwise.

**ParentMembers.** The property is not inductive: between the hook's test and the commit, a membership
of the child is stored and that of the parent is still on the stack or in `todo`. `ParentInvariant` adds,
for a running request, that its snapshot is what is committed (`SnapshotHolds`; this is where
overlapping requests are excluded, or are harmless because no parent changes), that a frame past the
parent step has the parent stored or in a frame above it (`ParentsNested`), that stored rows have their parents stored
(`ParentsStored`), and, for a request that sets a parent, that all users of the child are stored
or in `todo` (`AllUsersOfChild`). The marks do not occur in it: parents do not depend on them, and so
neither an aborted request nor a stale mark spoils this property.

**Marks.** `DefaultMembers` and `CommunityMembers` are not inductive either: a request stores one membership of a pair before the other, and skips a call because of a mark. `MarksInvariant`
treats both directions as one relation, `Pair`. A mark of a default protocol is set between two steps only if it was set by the second innermost save, for the innermost one, which saves the other of the pair for the same user and
has not looked at the mark yet (`MarksHold`); so whoever skips a call because of a mark has its counterpart on the stack. A membership whose hook is past that point has its counterpart stored or on the stack (`PairsHold`), and the rows a transaction reads
contain what is stored (`RowsHold`), which is all that is needed of other requests: the theorems hold in any interleaving. A dead request leaves marks behind for which none of this is true, hence `~died`.

**Cycles.** `CyclesStayShut` follows from `ParentInvariant`: a hook stores its own membership only when that of the parent is stored already or was found. The first one that a request stores in a cycle can therefore only have found the next one there.

**Depth.** `ChainInvariant` says that the call stack is a chain of communities, each below the next one, with a protocol at most at either end: a protocol brings its community when it is saved first, and finds its own mark when it is saved for its
community. A stack of more frames than there are communities, and two, has one of them twice by the pigeonhole principle, and the chain between the two is a cycle of parents. Parents are those the transaction reads, so that no other request matters, and the marks of dead requests make the chain shorter only.

**The queue.** `QueueInvariant` adds to `StaleIsQueued` that at most one request is under way, that
its copies of the variable and of the protocols are the current ones, that a listing keeps in
`work` everything it has not rebuilt, that the rows computed for the current item are still right and that,
once wiped, it has none, and that an index entry that differs from the rows is due in some `delayed` set
(`IndexIsDue`). The three theorems follow from it. A protocol whose access changes must find its items, or have them in `edit[s].missed`, which is where `unseen` comes from: `RowsReachMembers` says that the rows of an item admit everyone or name all of its protocols,
however outdated they are, so that only a saver from outside the protocol misses any. Without `Serialised` the invariant fails: items queued while a listing works are dropped with the rest.
`TrackInvariant` adds for `IndexFollowsGrants` that the item whose rows are being replaced is tracked as changed all that time, whichever request dies with them half written.
When requests overlap this is false, as TLC shows in a few steps: cron indexes the item, and untracks it, while a listing is between two of its steps. What is left is `EntriesCatchUp`, which holds in any interleaving, because the
listing notes what it has to index when it ends before it touches the rows (`HeldIsDelayed`), and only its death loses the note. It has no run of its own; without `Serialised`, one item and two sessions were explored to depth 17 (11.8 million states).

**ListingsAgree** is invariant because of what its parts compute, not of how the state evolves: the proof is a
case distinction over shared openly, some protocol strict, none strict, for any set of protocols.

**Default protocols.** `CreationInvariant` says that ids from the counter on are free, that a fresh node
belongs to one request, and that a request past the point `"default"` holds the default with its
community; so a commit brings both and an abort removes both. `RecognitionInvariant` says what the ids tell while requests overlap: a community that waits for its default has the id
before the counter until it is overtaken (`WaitingHold`), and from then on the id after it is not a protocol of it (`OvertakenHold`); so a default protocol follows its community exactly if that was not overtaken (`FollowHold`). It needs that a protocol and the
community it refers to are rolled back together (`CommunitiesHold`, `TwinsHold`). `MembershipInvariant` builds `MembershipsPaired` on that, for the pairs that were not overtaken (`Tracked`): what is stored so far is paired, also inside a request, together with what
other requests have committed meanwhile (`AddedHolds`); memberships name nodes that exist; and no default protocol that is recognised is marked between two steps, because its community recognises it and clears the mark.

**The library.** That listed items are allowed does not follow from the rows alone: `RowsInvariant` says that numbers once given keep their set, that
a request knows the sets of the numbers it is going to insert, and that the rows of a settled item are exactly sets its protocols and sharing setting open. Rows that were raced for are harmless in this direction, because either
number names the right set.
The rest is about one user and one set: each protocol the user is counted for may be viewed, but for a member who is not in its strict community, which is the exception of `ListedIsAllowed`.
For the other direction, `CoverInvariant` says that the rows of a settled item stand for *all* sets that open it: a save that works alone has every set still to look up, or the number of it in hand, until the rows are written.

**Jobs.** `JobInvariant` adds to `JobFollowsNode` what holds while a check is busy: the job has the period of the node and a later time, or the run that will set
it again is open; and, for `NothingLost`, that the copy of a run is the node's, unless the check is among those in `crossed`.

**Digests.** `DeliveryInvariant` says what an open save and an open digest know: the draft of a save differs from the node in the new email only, those mailed at once are among
the told, the digest's copies are the nodes as they are (this is where `Serialised` is needed), whom it has mailed is told or blank, whom it has still to mail is neither. For the lists, each reader of a node is in the list of the frequency in force, be it of the page or the default, or is in `stranded`. The
refinement proof takes the steps one by one: a commit is `Publish`, a mail is `Tell`, a record is `Settle`, a change of followers `Retarget`, a deletion `Withdraw`, everything else a stutter.

**References.** Three invariants, each on top of the one before. `TypeInvariant` knows that lists name what their field may name, in the database, in the cache and in every object on the stack, and that hooks run for a user. `EditInvariant`: the node a request
saved first is never held by a hook, since `ToUpdate` leaves it out, so nothing saves it again. `UsersInvariant` is about single links, seen from both ends. Every link that does not touch the node the user has saved is stored and cached as users want it
(`LinkInvariant`). One that does is `Settled`, stored right at both ends; or `Due`, wrong in the database and right in the object that a hook still has to save; or `Followed`, the same seen from the other end. That the object stays right depends on who holds it: `StackInvariant`
says that of all hooks with the same node to save, those further in hold the object of the cache, and that no node is held and saved at the same time; `CacheInvariant` that cache and database differ only for nodes that are held or being saved. Stacks are summed up by
the nodes they hold, not by their order, so that a push or a pop is a step of a few cases for each link.

The attempt to prove this found the model wrong, in a way TLC could not tell. An earlier version let each hook work on lists of its own; the proof needed that a node saved twice in one request is saved with the lists set last, and the code does not give that: the objects are shared by the cache, except
for those of nodes that are being saved. The model now has the cache, the stack of frames and the double save. With them, TLC found that a hook further in rebuilds a list from the database and takes back what a hook further out has set and not saved yet; that is
one of the reasons in `Missed`.

**Families.** The properties of `RecordFamilies` are proved together, since each needs others. `FamilyInvariant` adds three facts. Items name only items that exist or have existed (`LinksKnown`), so that
a new item is not named by anybody. Families have two levels (`Levels`): a record has no records, a page no pages. It is so because forms are opened on items at the top and remember it (`FormsKnown`),
and it is why two levels of deletion hooks leave nothing behind, and why the copies to pages never meet an item that is book and page at once.

The properties have been checked with TLC on the instances above before they were proved, and so has `UsersInvariant`, on larger ones as well (simulation with 5 nodes).

**Only model-checked:** `EveryoneIsTold`, `DueIsRun` and `OrphansGo`. They are liveness properties under fairness and stay with TLC, because the prover does not reason about `ENABLED`.
Where a theorem of `ContentGrants` or `Notifications` needs `Serialised`, overlapping requests are not covered by TLC either: the text below says what happens then.

## Where the code does not do what it says

| Run | What happens | What the repository says |
|---|---|---|
| `v_mark_leak` | adding a user to a protocol that is not the default one leaves its mark; the next user the same session adds to it is not added to the community | "If the user is added to a protocol, add them to the parent community", `ma_culturalprotocol.module:42` |
| `v_number_clash` | the number of a compound set equals the node id of a protocol and replaces it in the array of the query: media of that protocol disappear from the library of its members | "User has access to each single protocol they are a member of.", `ma_scald.module:553` |
| `v_link_lost` | a page whose protocols are no longer its book's is edited by someone who cannot see the book: the hidden select loses it, and the page leaves the book | "Prevent editing book parent", `ma_digitalheritage.module:647` |

The models contain more facts of this kind, which the properties name as exceptions or which only show without `Serialised`:

- *Memberships.* A user who joins a child community while its parent is being set is in the child only (`ma_community.module:231` reads the list before). Two communities that are parents of each other make any
  join nest until PHP dies, so that nobody who is in neither can join them, nor a protocol that brings one of them (`CyclesTakeNobodyIn`); the form excludes cycles of one only (`ma_community.module:139`). Pending and blocked users of a child become active in the parent. A request that dies leaves its marks in the
  session (the database is rolled back, `$_SESSION` is not), and the next join of that session can skip the
  default protocol; so the properties about marks and memberships are stated for histories without a death (`~died`).
- *Creation.* A node inserted between a community and its default protocol takes the id the cascade looks at: the default is not found any more (`overtaken`), no other protocol is taken for it, and the mark of the creator's request stays set, so that the next join of that session is incomplete as well. All other communities keep their
  defaults, whatever overlaps. `BeginImport` makes a community without a default protocol
  (`mukurtu_protocol_field.module:20`); the protocol created next gets the id after it and the cascade takes it for the default.
- *Listings.* Items queued while a listing works the queue off are dropped, and a protocol saved meanwhile overwrites the variable from its copy. If cron indexes an item while a listing replaces its rows and the listing dies, nothing
  tracks the item any more, and its entry stays as it is until the item is rebuilt. The batch of og_access repairs some of it, if the form was used.
  Even requests that do not overlap can miss items: the query for the items of a protocol (`ma_culturalprotocol.module:310-315`) finds those the saver may view. The role 'Mukurtu Administrator' may edit all protocols and does not bypass node access
  (`ma_core.features.user_permission.inc:655-662`); when such a user changes a protocol of which he is no member, strict items in it are not queued, and listings show their outdated entries until the batch, or a save of the item, rebuilds them (`unseen`).
- *References.* The insert hook runs before the access rows of a new node are written, so a contributor's new node is not found by the query that rebuilds the list at the other end (`ma_search_api.module:13`; "It's a 2-way relationship", `ma_dhan.module:102`). Lists are rebuilt from what the user may see: references from hidden nodes are dropped. A hook further in rebuilds a list from the database
  before the hook further out has saved what it set in it (`ma_search_api.module:179`): of two changes in one request, the earlier one can be lost.
- *Fixity.* A new check has no node id in the presave hook: its job is stored with id 0, where the next new check replaces it and where a run throws; the check shows a next run and has no job until it is saved again ("Set the fixity check scheduled job if it has a schedule", `ma_file_fixity.module:70`).
- *Notifications.* The older digest of collaboration pages (`ma_collaboration_tools.module:1321`) mails a message without a body and notes its readers as notified, although the field is labelled "All users notified (of created, or most recent update)". The form of the frequency of digital heritage items throws for a user
  who had none before: the frequency is saved and the lists are not. An assignment in place of a comparison (`ma_collaboration_tools.module:1129`) makes a change of the default skip every page on which anybody has chosen
  a frequency, and all pages after it: readers who have chosen nothing stay on the list of their old default until the page is saved again (`stranded`).
- *Media.* The view rule and the library disagree on protocols whose community is strict. The field says "Strict - This cultural protocol and the items within it are shared with, visible, and accessible to its cultural protocol members only"
  (`ma_culturalprotocol.features.field_instance.inc:703-704`); all members of a strict community may view media of its strict protocols, because the protocol node has the row of the community too, and the library does not list those media to them
  (`Overlooked`). A member of an open protocol who is not in its strict community, as after a removal from the community only, finds media in the library that he may not view.
- *Families.* Two tabs with record forms share one session entry: the record submitted from the first one gets no parent. So does one whose first submission was rolled back, because the session was not. A page form keeps the protocols its book had when it was opened. The branches that should lock the
  fields of an existing page look for `[0]['target_id']['#default_value']`, which the select widget of the field does not have, so users can give a page other protocols than its book's. Corresponding Entity References refuses a new child
  when the user sees only a part of the list; a later edit of the child by somebody who sees it all adds it ("it always gets updated since the parent<>child records are a CER", `ma_digitalheritage.module:100`). A deletion takes the records other people made, whose deletion the form says is their creators' alone.
  `$_SESSION['force_update_cr_mm_field']` is read and never set, so that the links for the mobile app are never populated; the model leaves that branch out.

## What is not modelled

Deletion of groups, roles and permissions inside groups, unpublished items, the update rule of items outside of `RecordFamilies`, item types
without a queue (person, word list, unit plan; they rely on the batch), two rows for one user and
group (the table has no key that prevents them), field cardinality and other exceptions of OG beyond "the request dies",
failures of the search server; a digest that overlaps a save is in the model (`Serialised = FALSE`) without a property; personal collections; saves of references and families that
overlap; importers of digital heritage items, the bulk action for protocols (no exported view offers it), the order inside lists, redirects. A retry of what died is a new request. The components with status
`not_modelled` in PROJECT.json are either on the plan or have no state a model checker would say anything about.

Nearly all of the 2 million lines of `src/` are Drupal core, contributed modules, libraries and exported configuration, which Mukurtu uses and does not change. What the models stand for is the distribution's
own code, in `.module` and `.inc` files under `custom/`; the `.js` and `.php` files are vendored libraries, tests and templates, and nothing in them decides what these models are about.

## Plan

Done: the modules above with their runs, proofs for all of them and for every safety property of the runs, and one refinement.

Next, in this order:

1. Overlapping saves: two processes that rebuild the same list in `CrossReferences` and `RecordFamilies`, an item and a protocol in `ContentGrants`; which entries can be lost and which save brings them back.
2. Groups being deleted in `MembershipCascade`, memberships as a bag.
3. `Collections`: the hierarchy and its cycles; `Dictionary`: deletion of words with their entries.
4. Theorems without `Serialised`: which part of `StaleIsQueued` is left when listings and saves overlap.
5. Abstract specifications: `Memberships` (implied memberships are closed after each request), `Access` (a listing shows what a page shows) and a symmetric relation for `CrossReferences`.
