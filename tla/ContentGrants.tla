----------------------------- MODULE ContentGrants -----------------------------
(***************************************************************************)
(* Who may see an item, kept in four places.                               *)
(*                                                                         *)
(* An item (digital heritage, dictionary word, collection) refers to       *)
(* cultural protocols and is shared with "any" or with "all" of them; a    *)
(* protocol is open or strict.  The page of an item evaluates that rule.   *)
(* A listing cannot: it asks the search index, which holds a copy of the   *)
(* item's rows in {node_access}, which are computed when the item is saved.*)
(* So a protocol that changes from open to strict, or back, leaves rows    *)
(* and copies behind.  Saving the protocol puts its items in a queue (a    *)
(* variable), and the listing works the queue off just before it is        *)
(* rendered.  The query that finds them is a query of the user who saves:  *)
(* it leaves out what the rows do not show him.  og_access also starts a   *)
(* batch when the form was used, and its query is not restricted.          *)
(*                                                                         *)
(* node_save() is one transaction; a listing and a batch are not, each     *)
(* step of theirs is visible at once.  Variables are read when a request   *)
(* begins.  Items are published, and their type is one the queue covers.   *)
(***************************************************************************)
CONSTANTS
    Items,
    Protocols,
    Sessions,     \* PHP processes, one request at a time
    None,         \* no item
    ItemForms,    \* the <<refs, privacy>> an item may be saved with
    StoredAs,     \* the <<refs, privacy>> all items have at the start
    Serialised    \* TRUE: requests never overlap

Access == {"open", "strict"}        \* group_access 0 and 2
Privacy == {"any", "all"}           \* field_item_privacy_setting
Realms == {"everyone", "public"}    \* 'all', 'mukurtu_nodes_in_cp_any_public_group'
Points == {"idle", "item", "protocol", "list", "clear", "batch", "render",
           "shutdown"}

ASSUME RealmsAssumption ==
    /\ Realms \cap Protocols = {}
    /\ None \notin Items

ASSUME FormsAssumption ==
    /\ ItemForms \subseteq (SUBSET Protocols) \X Privacy
    /\ StoredAs \in (SUBSET Protocols) \X Privacy
    /\ Serialised \in BOOLEAN

VARIABLES
    access,     \* group_access of each protocol
    refs,       \* og_group_ref of each item
    privacy,    \* field_item_privacy_setting of each item
    grants,     \* rows of {node_access}: og_access rows are named by the group
    indexed,    \* search_api_access_node in the search index
    changed,    \* items search_api tracks as changed
    queue,      \* mukurtu_{dh,dw,coll}_nodes_to_rebuild_perms_and_reindex
    batch,      \* protocols whose batch of og_access has yet to run
    cut,        \* history: items a request that died was still busy with
    unseen,     \* history: items a saver who is not in their protocol missed
    at,         \* how far the request of a session is
    edit,       \* what a request stores: an item or a protocol
    seen,       \* access, as the request's transaction reads it
    conf,       \* queue, as the request read it when it began
    work,       \* items the request queues or rebuilds
    current,    \* item whose rows are being replaced
    records,    \* the rows computed for it
    wiped,      \* whether its old rows are deleted
    delayed     \* items to index when the request shuts down

site == <<access, refs, privacy>>
local == <<edit, seen, conf, work, current, records, wiped, delayed>>
vars == <<access, refs, privacy, grants, indexed, changed, queue, batch, cut,
          unseen, at, edit, seen, conf, work, current, records, wiped, delayed>>

ItemEdits == [item : Items, refs : SUBSET Protocols, privacy : Privacy]
ProtocolEdits == [protocol : Protocols, access : Access, batch : BOOLEAN,
                  missed : SUBSET Items]

TypeOK ==
    /\ access \in [Protocols -> Access]
    /\ refs \in [Items -> SUBSET Protocols]
    /\ privacy \in [Items -> Privacy]
    /\ grants \in [Items -> SUBSET (Realms \cup Protocols)]
    /\ indexed \in [Items -> SUBSET (Realms \cup Protocols)]
    /\ changed \in SUBSET Items
    /\ queue \in SUBSET Items
    /\ batch \in SUBSET Protocols
    /\ cut \in SUBSET Items
    /\ unseen \in SUBSET Items
    /\ at \in [Sessions -> Points]
    /\ edit \in [Sessions -> ItemEdits \cup ProtocolEdits \cup {None}]
    /\ seen \in [Sessions -> [Protocols -> Access]]
    /\ conf \in [Sessions -> SUBSET Items]
    /\ work \in [Sessions -> SUBSET Items]
    /\ current \in [Sessions -> Items \cup {None}]
    /\ records \in [Sessions -> SUBSET (Realms \cup Protocols)]
    /\ wiped \in [Sessions -> BOOLEAN]
    /\ delayed \in [Sessions -> SUBSET Items]
    /\ \A s \in Sessions :
         /\ at[s] = "item" => edit[s] \in ItemEdits
         /\ at[s] = "protocol" => edit[s] \in ProtocolEdits
         /\ current[s] # None => at[s] \in {"list", "batch"}
         /\ wiped[s] => current[s] # None

------------------------------------------------------------------------------
(* The rows of an item with protocols ps and privacy v when acc says which
   protocols are open.  The row of an item shared with any, one of them open,
   has priority over og_access' rows.  Otherwise one strict protocol is enough
   for a row of every protocol, and no row at all means everyone. *)
SharedOpenly(ps, v, acc) == v = "any" /\ \E p \in ps : acc[p] = "open"

Rows(ps, v, acc) ==
    IF SharedOpenly(ps, v, acc)
    THEN {"public"}
    ELSE IF \E p \in ps : acc[p] # "open" THEN ps ELSE {"everyone"}

RowsOf(i) == Rows(refs[i], privacy[i], access)

(* When mukurtu_protocol_field_node_access_records() returns before it deletes
   the rows of its own realm and of 'all'. *)
KeepsRealms(i) ==
    privacy[i] = "any" /\ (refs[i] = {} \/ SharedOpenly(refs[i], privacy[i], access))

(* The page of item i, for someone who is an active member of the protocols
   ms: mukurtu_protocol_field_node_access().  Only the types that need no
   protocol are saved without any. *)
CanView(ms, i) ==
    \/ refs[i] = {}
    \/ privacy[i] = "any" /\ \E p \in refs[i] : p \in ms \/ access[p] = "open"
    \/ privacy[i] = "all" /\ \A p \in refs[i] : p \in ms \/ access[p] = "open"

(* Mutant: the query is not altered, so one protocol of all is enough. *)
Listed_RowsOnly(ms, i) == indexed[i] \cap (ms \cup Realms) # {}

(* The listings: search_api compares the index with the reader's grants,
   ma_search_api_search_api_query_alter() takes out the items shared with all
   that have a strict protocol the reader is not in. *)
Listed(ms, i) ==
    /\ indexed[i] \cap (ms \cup Realms) # {}
    /\ ~(/\ privacy[i] = "all"
         /\ \E p \in refs[i] : access[p] = "strict" /\ p \notin ms)

------------------------------------------------------------------------------
AllOpen == [p \in Protocols |-> "open"]

Init ==
    /\ access \in [Protocols -> Access]
    /\ refs = [i \in Items |-> StoredAs[1]]
    /\ privacy = [i \in Items |-> StoredAs[2]]
    /\ grants = [i \in Items |-> RowsOf(i)]
    /\ indexed = grants
    /\ changed = {}
    /\ queue = {}
    /\ batch = {}
    /\ cut = {}
    /\ unseen = {}
    /\ at = [s \in Sessions |-> "idle"]
    /\ edit = [s \in Sessions |-> None]
    /\ seen = [s \in Sessions |-> AllOpen]
    /\ conf = [s \in Sessions |-> {}]
    /\ work = [s \in Sessions |-> {}]
    /\ current = [s \in Sessions |-> None]
    /\ records = [s \in Sessions |-> {}]
    /\ wiped = [s \in Sessions |-> FALSE]
    /\ delayed = [s \in Sessions |-> {}]

Quiet == \A s \in Sessions : at[s] = "idle"

CanStart(s) ==
    /\ at[s] = "idle"
    /\ Serialised => Quiet

Go(s, point) == at' = [at EXCEPT ![s] = point]

(* What a request holds is gone when it ends. *)
End(s) ==
    /\ Go(s, "idle")
    /\ edit' = [edit EXCEPT ![s] = None]
    /\ seen' = [seen EXCEPT ![s] = AllOpen]
    /\ conf' = [conf EXCEPT ![s] = {}]
    /\ work' = [work EXCEPT ![s] = {}]
    /\ current' = [current EXCEPT ![s] = None]
    /\ records' = [records EXCEPT ![s] = {}]
    /\ wiped' = [wiped EXCEPT ![s] = FALSE]
    /\ delayed' = [delayed EXCEPT ![s] = {}]

(* The index takes over the rows of the items is. *)
Index(is) ==
    /\ indexed' = [i \in Items |-> IF i \in is THEN grants[i] ELSE indexed[i]]
    /\ changed' = changed \ is

------------------------------------------------------------------------------
(* An item is saved: node_save() in one transaction. *)

BeginItem(s, i, ps, v) ==
    /\ CanStart(s)
    /\ Go(s, "item")
    /\ edit' = [edit EXCEPT ![s] = [item |-> i, refs |-> ps, privacy |-> v]]
    /\ seen' = [seen EXCEPT ![s] = access]
    /\ UNCHANGED <<site, grants, indexed, changed, queue, batch, cut, unseen, conf,
                   work, current, records, wiped, delayed>>

(* The item and its rows are stored; indexing waits for the shutdown. *)
CommitItem(s) ==
    /\ at[s] = "item"
    /\ LET e == edit[s]
       IN  /\ refs' = [refs EXCEPT ![e.item] = e.refs]
           /\ privacy' = [privacy EXCEPT ![e.item] = e.privacy]
           /\ grants' = [grants EXCEPT
                           ![e.item] = Rows(e.refs, e.privacy, seen[s])]
           /\ changed' = changed \cup {e.item}
           /\ delayed' = [delayed EXCEPT ![s] = {e.item}]
           /\ unseen' = unseen \ {e.item}
    /\ Go(s, "shutdown")
    /\ UNCHANGED <<access, indexed, queue, batch, cut, edit, seen, conf, work,
                   current, records, wiped>>

(* The rows of item i admit someone who is in the protocols ms. *)
Viewable(ms, i) == grants[i] \cap (ms \cup Realms) # {}

(* A protocol is saved.  If its access or its use of roles has changed, the
   items that refer to it are found, as far as the saver may view them: he is
   in the protocols ms, and bypasses the rows or not.  The form also registers
   a batch when the access has changed. *)
BeginProtocol(s, p, a, roles, form, ms, bypass) ==
    LET moved == a # access[p]
        members == {i \in Items : p \in refs[i]}
        found == {i \in members : bypass \/ Viewable(ms, i)}
    IN  /\ CanStart(s)
        /\ Go(s, "protocol")
        /\ edit' = [edit EXCEPT
                      ![s] = [protocol |-> p, access |-> a, batch |-> moved /\ form,
                              missed |-> IF moved /\ p \notin ms
                                         THEN members \ found ELSE {}]]
        /\ conf' = [conf EXCEPT ![s] = queue]
        /\ work' = [work EXCEPT ![s] = IF moved \/ roles THEN found ELSE {}]
        /\ UNCHANGED <<site, grants, indexed, changed, queue, batch, cut, unseen,
                       seen, current, records, wiped, delayed>>

(* Mutant: the items that were waiting already are forgotten. *)
Queued_Overwritten(s) == work[s]

(* ... and queued, in the copy of the variable the request began with. *)
Queued(s) == conf[s] \cup work[s]

CommitProtocol(s) ==
    /\ at[s] = "protocol"
    /\ LET e == edit[s]
       IN  /\ access' = [access EXCEPT ![e.protocol] = e.access]
           /\ queue' = IF work[s] # {} THEN Queued(s) ELSE queue
           /\ batch' = IF e.batch THEN batch \cup {e.protocol} ELSE batch
           /\ unseen' = unseen \cup e.missed
    /\ End(s)
    /\ UNCHANGED <<refs, privacy, grants, indexed, changed, cut>>

------------------------------------------------------------------------------
(* A listing is about to be rendered, or the batch of a protocol runs. *)

BeginList(s) ==
    /\ CanStart(s)
    /\ Go(s, IF queue = {} THEN "render" ELSE "list")
    /\ conf' = [conf EXCEPT ![s] = queue]
    /\ work' = [work EXCEPT ![s] = queue]
    /\ UNCHANGED <<site, grants, indexed, changed, queue, batch, cut, unseen, edit, seen,
                   current, records, wiped, delayed>>

BeginBatch(s, p) ==
    /\ CanStart(s)
    /\ p \in batch
    /\ batch' = batch \ {p}
    /\ Go(s, "batch")
    /\ work' = [work EXCEPT ![s] = {i \in Items : p \in refs[i]}]
    /\ UNCHANGED <<site, grants, indexed, changed, queue, cut, unseen, edit, seen, conf,
                   current, records, wiped, delayed>>

(* Mutant: the item is not tracked as changed. *)
ReadItem_NotTracked(s, i) ==
    /\ at[s] \in {"list", "batch"}
    /\ current[s] = None
    /\ i \in work[s]
    /\ current' = [current EXCEPT ![s] = i]
    /\ records' = [records EXCEPT ![s] = RowsOf(i)]
    /\ grants' = [grants EXCEPT ![i] = IF KeepsRealms(i) THEN @ ELSE @ \ Realms]
    /\ delayed' = [delayed EXCEPT ![s] = @ \cup {i}]
    /\ UNCHANGED <<site, indexed, changed, queue, batch, cut, unseen, at, edit, seen, conf,
                   work, wiped>>

(* node_access_acquire_grants(): the rows are computed, and the hook may
   delete those of its own realm and of 'all' ... *)
ReadItem(s, i) ==
    /\ at[s] \in {"list", "batch"}
    /\ current[s] = None
    /\ i \in work[s]
    /\ current' = [current EXCEPT ![s] = i]
    /\ records' = [records EXCEPT ![s] = RowsOf(i)]
    /\ grants' = [grants EXCEPT ![i] = IF KeepsRealms(i) THEN @ ELSE @ \ Realms]
    /\ changed' = changed \cup {i}
    /\ delayed' = [delayed EXCEPT ![s] = @ \cup {i}]
    /\ UNCHANGED <<site, indexed, queue, batch, cut, unseen, at, edit, seen, conf, work, wiped>>

(* ... node_access_write_grants() deletes the rows there are ... *)
DeleteGrants(s) ==
    /\ current[s] # None
    /\ ~wiped[s]
    /\ grants' = [grants EXCEPT ![current[s]] = {}]
    /\ wiped' = [wiped EXCEPT ![s] = TRUE]
    /\ UNCHANGED <<site, indexed, changed, queue, batch, cut, unseen, at, edit, seen, conf,
                   work, current, records, delayed>>

(* ... and inserts the new ones, which fails when another request has inserted
   one of them meanwhile: the key of the table is the row. *)
WriteGrants(s) ==
    /\ current[s] # None
    /\ wiped[s]
    /\ grants[current[s]] \cap records[s] = {}
    /\ grants' = [grants EXCEPT ![current[s]] = @ \cup records[s]]
    /\ work' = [work EXCEPT ![s] = @ \ {current[s]}]
    /\ current' = [current EXCEPT ![s] = None]
    /\ records' = [records EXCEPT ![s] = {}]
    /\ wiped' = [wiped EXCEPT ![s] = FALSE]
    /\ unseen' = unseen \ {current[s]}
    /\ UNCHANGED <<site, indexed, changed, queue, batch, cut, at, edit, seen, conf,
                   delayed>>

(* Mutant: the queued items are left to the shutdown. *)
IndexQueued_Skips(s) ==
    /\ at[s] = "list"
    /\ current[s] = None
    /\ work[s] = {}
    /\ cut' = cut \ conf[s]
    /\ Go(s, "clear")
    /\ UNCHANGED <<site, grants, indexed, changed, queue, batch, unseen, local>>

IndexQueued(s) ==
    /\ at[s] = "list"
    /\ current[s] = None
    /\ work[s] = {}
    /\ Index(conf[s])
    /\ cut' = cut \ conf[s]
    /\ Go(s, "clear")
    /\ UNCHANGED <<site, grants, queue, batch, unseen, local>>

ClearQueue(s) ==
    /\ at[s] = "clear"
    /\ queue' = {}
    /\ conf' = [conf EXCEPT ![s] = {}]
    /\ Go(s, "render")
    /\ UNCHANGED <<site, grants, indexed, changed, batch, cut, unseen, edit, seen, work,
                   current, records, wiped, delayed>>

(* Mutant: the batch stops with an item half done. *)
Finish_Early(s) ==
    /\ at[s] = "render" \/ at[s] = "batch"
    /\ Go(s, "shutdown")
    /\ UNCHANGED <<site, grants, indexed, changed, queue, batch, cut, unseen, local>>

(* The listing has been rendered, or the batch is through. *)
Finish(s) ==
    /\ \/ at[s] = "render"
       \/ at[s] = "batch" /\ current[s] = None /\ work[s] = {}
    /\ Go(s, "shutdown")
    /\ UNCHANGED <<site, grants, indexed, changed, queue, batch, cut, unseen, local>>

(* _search_api_index_queued_items(), at the end of the request. *)
Shutdown(s) ==
    /\ at[s] = "shutdown"
    /\ Index(delayed[s])
    /\ cut' = cut \ delayed[s]
    /\ End(s)
    /\ UNCHANGED <<site, grants, queue, batch, unseen>>

(* Cron indexes what is tracked as changed. *)
Cron ==
    /\ Serialised => Quiet
    /\ changed # {}
    /\ Index(changed)
    /\ UNCHANGED <<site, grants, queue, batch, cut, unseen, at, local>>

(* A request dies without a shutdown: its transaction is rolled back, what
   other steps have done stays. *)
Abort(s) ==
    /\ at[s] # "idle"
    /\ cut' = cut \cup delayed[s]
    /\ End(s)
    /\ UNCHANGED <<site, grants, indexed, changed, queue, batch, unseen>>

Next ==
    \/ \E s \in Sessions :
         \/ \E i \in Items, e \in ItemForms : BeginItem(s, i, e[1], e[2])
         \/ \E p \in Protocols, a \in Access, roles, form, bypass \in BOOLEAN,
               ms \in SUBSET Protocols :
              BeginProtocol(s, p, a, roles, form, ms, bypass)
         \/ BeginList(s)
         \/ \E p \in Protocols : BeginBatch(s, p)
         \/ CommitItem(s)
         \/ CommitProtocol(s)
         \/ \E i \in Items : ReadItem(s, i)
         \/ DeleteGrants(s)
         \/ WriteGrants(s)
         \/ IndexQueued(s)
         \/ ClearQueue(s)
         \/ Finish(s)
         \/ Shutdown(s)
         \/ Abort(s)
    \/ Cron

Spec == Init /\ [][Next]_vars

------------------------------------------------------------------------------
(* Properties. *)

(* The listings show an item to those who may open its page, and to nobody
   else, as soon as the index holds the rows the item should have: grants,
   which can only be OR'ed, and the query alteration together decide as the
   AND/OR rule of the page does. *)
ListingsAgree ==
    \A i \in Items :
        indexed[i] = RowsOf(i)
        => \A ms \in SUBSET Protocols : Listed(ms, i) <=> CanView(ms, i)

(* Items with outdated rows that the code does not bring back: a request died
   while it rebuilt them, or someone who is not in their protocol saved it. *)
Excused == cut \cup unseen

(* Rows that a changed protocol has made wrong are not forgotten: the item
   waits in the queue, or is being rebuilt, however the protocol was saved and
   whether or not the batch runs.  In particular whoever is in the protocol he
   saves finds all of its items, however outdated their rows are. *)
StaleIsQueued ==
    \A i \in Items \ Excused :
        grants[i] = RowsOf(i) \/ i \in queue \/ \E s \in Sessions : current[s] = i

(* An index entry that differs from the rows is tracked, so cron repairs it
   even if the request dies before it has indexed anything. *)
IndexFollowsGrants ==
    \A i \in Items : indexed[i] = grants[i] \/ i \in changed

(* "Rebuild permissions and reindex any nodes-in-CP that were queued up for
   this op, just before the view is rendered": what a listing shows is up to
   date, but for the items in Excused. *)
ListIsFresh ==
    \A s \in Sessions :
        at[s] = "render" => \A i \in Items \ Excused : indexed[i] = RowsOf(i)

(* "Rebuild permissions and reindex any nodes-in-CP that were queued up": an
   item leaves the queue only when it has the rows it should have. *)
RebuiltBeforeDropped ==
    [][\A i \in queue \ queue' : (grants[i] = RowsOf(i))']_vars

==============================================================================
