-------------------------- MODULE KvPageAggregate --------------------------
(***************************************************************************)
(* lib/storage/kv-page-aggregate-repository.ts: the page repository over   *)
(* Deno KV.  A page and its index rows (endpoint claims, owner row, public *)
(* row) are separate keys.  Every call awaits single-key reads, which      *)
(* other clients' commits interleave with, and writes through one atomic   *)
(* operation that checks the versionstamp of everything it read.  A failed *)
(* check restarts the attempt.                                             *)
(*                                                                         *)
(* One client runs one call at a time.  client[c] is the frame of that     *)
(* call: where it is (at), the keys it still waits for (pending), what the *)
(* current batch of reads returned (got), and what earlier batches did.    *)
(* The synchronous code between two awaits is one step with the read that  *)
(* resumes it.                                                             *)
(***************************************************************************)
EXTENDS PageAggregates, FiniteSets

CONSTANTS Clients,       \* concurrent callers, in this or other processes
          Scenarios,     \* stores to start from, each with calls to come
          MaxEndpoints,  \* max_kv_page_endpoints
          MaxAttempts    \* page_aggregate_max_attempts

VARIABLES kv,       \* key -> [vs, val] of each entry
          clock,    \* the last versionstamp given out
          requests, \* the calls still to come
          client    \* client -> frame of its current call

(* The calls a repository gets.  Health is only reported of external assets. *)
Request ==
    [kind : {"put_trial"}, new_id : PageIds, endpoint_set : EndpointSet,
     content_asset_id : ContentAssets] \cup
    [kind : {"create"}, new_id : PageIds, endpoint_set : EndpointSet, owner : Owners,
     access : {"public", "private"}, content_asset_id : ContentAssets] \cup
    [kind : {"update"}, id : PageIds, owner : Owners, expected_revision : 1 .. MaxRevision,
     patch : Patch] \cup
    [kind : {"duplicate"}, id : PageIds, owner : Owners, expected_revision : 1 .. MaxRevision,
     new_id : PageIds, endpoint_set : EndpointSet] \cup
    [kind : {"delete"}, id : PageIds, owner : Owners, expected_revision : 1 .. MaxRevision] \cup
    [kind : {"health"}, id : PageIds, content_asset_id : ExternalAssets, missing : BOOLEAN] \cup
    [kind : {"find"}, id : PageIds] \cup
    [kind : {"resolve"}, locator : Locators] \cup
    [kind : {"list"}, owner : Owners \cup {None}] \cup
    [kind : {"create_content_asset"}, content_asset_id : ContentAssets]

(* Endpoint sets this adapter can check in one atomic operation. *)
Within(e) == Cardinality(bindings(e)) <= MaxEndpoints

ASSUME CapacityAssumption == MaxEndpoints \in Nat /\ IsFiniteSet(Locators)

ASSUME ScenariosAssumption ==
    \A s \in Scenarios :
        /\ s.store \in Seeds /\ s.requests \subseteq Request
        /\ \A id \in PageIds : s.store.pages[id] # None => Within(s.store.pages[id].endpoint_set)

INSTANCE DenoKv

vars == <<kv, clock, requests, client>>

-----------------------------------------------------------------------------
(* Keys and entries. *)

page_aggregate_storage_key(id) == <<"by-id", id>>
page_endpoint_claim_key(l) == <<"by-endpoint", l>>
page_aggregate_owner_key(owner, l, id) == <<"by-owner", owner, l, id>>
page_aggregate_public_key(l, id) == <<"public", l, id>>
content_asset_manifest_key(a) == <<"content-asset", a>>

PageKeys == {page_aggregate_storage_key(id) : id \in PageIds}
ManifestKeys == {content_asset_manifest_key(a) : a \in ContentAssets}

endpoint_keys(page) == {page_endpoint_claim_key(l) : l \in bindings(page.endpoint_set)}

projection_keys(id, page) ==
    IF page.owner = None THEN {}
    ELSE {page_aggregate_owner_key(page.owner, page.endpoint_set.canonical, id)} \cup
         (IF page.access = "public"
          THEN {page_aggregate_public_key(page.endpoint_set.canonical, id)} ELSE {})

visibility_keys(id, page) == endpoint_keys(page) \cup projection_keys(id, page)

page_pointer(id, page) == [page_id |-> id, revision |-> page.revision]

Pointers(id, page) == [k \in visibility_keys(id, page) |-> page_pointer(id, page)]

(* The entries a store of pages and assets consists of. *)
VisibleEntries(map, stored) ==
    LET ids == {id \in PageIds : map[id] # None}
        rows == UNION {visibility_keys(id, map[id]) : id \in ids}
        RowOwner(k) == CHOOSE id \in ids : k \in visibility_keys(id, map[id])
    IN Overlay([k \in {page_aggregate_storage_key(id) : id \in ids} |-> map[k[2]]],
       Overlay([k \in {content_asset_manifest_key(a) : a \in stored} |-> k[2]],
               [k \in rows |-> page_pointer(RowOwner(k), map[RowOwner(k)])]))

(* A snapshot: a page, its entry, and the entries of all its index rows. *)
Snapshot(id, entry, index) == [id |-> id, entry |-> entry, index |-> index, page |-> entry.val]

(* None is neither a snapshot nor an answer. *)
SnapshotsOf(id, page) ==
    LET Entry == [vs : Nat, val : [page_id : PageIds, revision : 1 .. MaxRevision] \cup {None}]
    IN [id : {id}, entry : [vs : Nat, val : {page}],
        index : [visibility_keys(id, page) -> Entry], page : {page}]

ASSUME NoneAssumption ==
    /\ None # "found"
    /\ \A id \in PageIds, page \in PageAggregate : None \notin SnapshotsOf(id, page)

Idle == [at |-> "idle", req |-> None, attempt |-> 0, reply |-> None,
         pending |-> {}, got |-> NoEntries,
         reading |-> None, entry |-> None, snapshot_attempt |-> 0,
         targets |-> NoEntries, queue |-> {}, snapshots |-> {}, claim_attempt |-> 0,
         existing |-> None, probed |-> NoEntries, destination |-> NoEntries,
         id |-> None, page |-> None, rows |-> NoEntries, row |-> None]

Init ==
    \E s \in Scenarios :
        /\ kv = Stamped(VisibleEntries(s.store.pages, s.store.assets), 1)
        /\ clock = 1
        /\ requests = s.requests
        /\ client = [c \in Clients |-> Idle]

-----------------------------------------------------------------------------
(* Awaiting reads, retrying, and ending a call.                            *)

Become(c, f) == client' = [client EXCEPT ![c] = f]

Await(c, f, at, keys) == Become(c, [f EXCEPT !.at = at, !.pending = keys, !.got = NoEntries])

(* One of the pending reads returns.  After the last one of the batch the  *)
(* code runs on to its next await.                                         *)
Resume(c, at, Continue(_, _)) ==
    /\ client[c].at = at
    /\ \E k \in client[c].pending :
          LET f == [client[c] EXCEPT !.pending = @ \ {k}, !.got = Overlay(Single(k, get(k)), @)]
          IN IF f.pending # {} THEN Become(c, f) ELSE Continue(c, f)
    /\ UNCHANGED <<kv, clock, requests>>

Return(c, reply) == Become(c, [Idle EXCEPT !.reply = reply])

Found(c, snapshots) == Become(c, [Idle EXCEPT !.reply = "found", !.snapshots = snapshots])

(* An exception ends the call too; its frame stays for the properties.     *)
Throw(c, f, error) == Become(c, [f EXCEPT !.at = error, !.pending = {}, !.got = NoEntries])

invariant_violation(c, f) == Throw(c, f, "invariant violated")
contention_exhausted(c, f) == Throw(c, f, "contention exhausted")

read_snapshot(c, f, id) ==
    Await(c, [f EXCEPT !.reading = id, !.snapshot_attempt = 0], "snapshot entry",
          {page_aggregate_storage_key(id)})

ClaimKeysOf(e) == {page_endpoint_claim_key(l) : l \in bindings(e)}

read_claimed_endpoint_state(c, f, keys) ==
    Await(c, [f EXCEPT !.claim_attempt = 0, !.snapshots = {}], "claims", keys)

(* The first reads of an attempt. *)
Attempt(c, f) ==
    \/ /\ f.req.kind \in {"put_trial", "create"}
       /\ read_claimed_endpoint_state(c, f, ClaimKeysOf(f.req.endpoint_set))
    \/ /\ f.req.kind \in {"find", "update", "duplicate", "health", "delete"}
       /\ read_snapshot(c, f, f.req.id)
    \/ /\ f.req.kind = "resolve"
       /\ read_claimed_endpoint_state(c, f, {page_endpoint_claim_key(f.req.locator)})
    \/ /\ f.req.kind = "list"
       /\ Await(c, f, "list", {})

(* A failed check or a detected change: forget every read and start over.  *)
Retry(c, f) ==
    LET again == [Idle EXCEPT !.req = f.req, !.attempt = f.attempt + 1]
    IN \/ again.attempt < MaxAttempts /\ Attempt(c, again)
       \/ again.attempt = MaxAttempts /\ contention_exhausted(c, again)

RequestedSets(req) ==
    IF req.kind \in {"put_trial", "create", "duplicate"} THEN {req.endpoint_set}
    ELSE IF req.kind = "update" THEN {req.patch.endpoint_set} \ {None}
    ELSE {}

(* Mutant: the capacity test is forgotten. *)
Persistable_unchecked(req) == TRUE

Persistable(req) == \A e \in RequestedSets(req) : Within(e)

(* A call arrives.  Writers refuse endpoint sets this adapter cannot check *)
(* in one atomic operation.                                                *)
Call(c, req) ==
    /\ client[c].at \in {"idle", "contention exhausted"}
    /\ req.kind # "create_content_asset"
    /\ requests' = requests \ {req}
    /\ \/ Persistable(req) /\ Attempt(c, [Idle EXCEPT !.req = req])
       \/ ~Persistable(req) /\ Return(c, "endpoint_capacity_exceeded")
    /\ UNCHANGED <<kv, clock>>

-----------------------------------------------------------------------------
(* What the operations do once their reads are in.                         *)

Ready(c, f) == Await(c, f, "commit", {})

(* The page this attempt will write, and under which id. *)
Plan(f, id, page) == [f EXCEPT !.id = id, !.page = page]

read_destination_projections(c, f) ==
    Await(c, f, "destination", projection_keys(f.id, f.page))

(* The asset's manifest and, for a new page, the free-id read: awaited one  *)
(* after the other in the code, in an order that differs by operation.     *)
Probe(c, f, a, new) ==
    Await(c, f, "probe", {content_asset_manifest_key(a)} \cup
                         (IF new THEN {page_aggregate_storage_key(f.req.new_id)} ELSE {}))

NotOwned(snapshot, req) ==
    snapshot # None /\ snapshot.page.owner # None => snapshot.page.owner # req.owner

Stale(snapshot, req) ==
    snapshot # None => snapshot.page.content_asset_id # req.content_asset_id

(* The page an update, duplicate or delete may touch, or the refusal. *)
Refused(c, f, snapshot) ==
    \/ NotOwned(snapshot, f.req) /\ Return(c, "not_found")
    \/ /\ ~NotOwned(snapshot, f.req)
       /\ snapshot.page.revision # f.req.expected_revision
       /\ Return(c, "revision_conflict")

Allowed(f, snapshot) ==
    ~NotOwned(snapshot, f.req) /\ snapshot.page.revision = f.req.expected_revision

ExistingRead(c, f, snapshot) ==
    LET req == f.req
        next == [f EXCEPT !.existing = snapshot]
    IN
    \/ req.kind = "find" /\ Found(c, {snapshot} \ {None})
    \/ /\ req.kind = "health" \* only asked of external assets, which are immutable
       /\ \/ Stale(snapshot, req) /\ Return(c, "stale")
          \/ /\ ~Stale(snapshot, req)
             /\ snapshot.page.external_missing = req.missing
             /\ Return(c, "unchanged")
          \/ /\ ~Stale(snapshot, req)
             /\ snapshot.page.external_missing # req.missing
             /\ Ready(c, Plan(next, req.id,
                              [snapshot.page EXCEPT !.external_missing = req.missing]))
    \/ req.kind \in {"update", "duplicate", "delete"} /\ Refused(c, f, snapshot)
    \/ req.kind = "delete" /\ Allowed(f, snapshot) /\ Ready(c, next)
    \/ /\ req.kind = "update" /\ Allowed(f, snapshot)
       /\ \/ ~RevisionAvailable(snapshot.page) /\ Return(c, "revision_exhausted")
          \/ /\ RevisionAvailable(snapshot.page)
             /\ LET page == PatchedPage(snapshot.page, req.patch)
                IN Probe(c, Plan(next, req.id, page), page.content_asset_id, FALSE)
    \/ /\ req.kind = "duplicate" /\ Allowed(f, snapshot)
       /\ read_claimed_endpoint_state(c,
             Plan(next, req.new_id, DuplicatePage(snapshot.page, req.endpoint_set)),
             ClaimKeysOf(req.endpoint_set))

(* The pages that hold a wanted locator, the updated page itself aside. *)
Displaced(f) == {s \in f.snapshots : f.req.kind = "update" => s.id # f.req.id}

ClaimsRead(c, f) ==
    LET req == f.req
        by_managed == \E s \in Displaced(f) : s.page.owner # None
    IN
    \/ /\ req.kind = "resolve"
       /\ Found(c, f.snapshots)
    \/ req.kind # "resolve" /\ by_managed /\ Return(c, "managed or endpoint conflict")
    \/ /\ req.kind = "put_trial" /\ ~by_managed
       /\ \/ Cardinality(f.snapshots) > 1 /\ Return(c, "endpoint_conflict")
          \/ \E s \in f.snapshots :
                /\ f.snapshots = {s}
                /\ \/ ~RevisionAvailable(s.page) /\ Return(c, "revision_exhausted")
                   \/ /\ RevisionAvailable(s.page)
                      /\ Probe(c, Plan(f, s.id, TrialPage(req.endpoint_set, req.content_asset_id,
                                                          s.page.revision + 1)),
                               req.content_asset_id, FALSE)
          \/ /\ f.snapshots = {}
             /\ Probe(c, Plan(f, req.new_id,
                              TrialPage(req.endpoint_set, req.content_asset_id, 1)),
                      req.content_asset_id, TRUE)
    \/ /\ req.kind = "create" /\ ~by_managed
       /\ Probe(c, Plan(f, req.new_id, ManagedPage(req.endpoint_set, req.owner, req.access,
                                                   req.content_asset_id)),
                req.content_asset_id, TRUE)
    \/ /\ req.kind = "duplicate" /\ ~by_managed
       /\ Probe(c, f, f.page.content_asset_id, TRUE)
    \/ /\ req.kind = "update" /\ ~by_managed
       /\ read_destination_projections(c, f)

ProbeRead(c, f) ==
    LET req == f.req
        next == [f EXCEPT !.probed = f.got]
        taken == \E k \in DOMAIN f.got : k \in PageKeys /\ present(f.got[k])
        missing == \E k \in DOMAIN f.got : k \in ManifestKeys /\ ~present(f.got[k])
        inherited == req.kind = "duplicate" \/ (req.kind = "update" /\ req.patch.content_asset_id = None)
    IN
    \/ taken /\ Return(c, "page_id_conflict")
    \/ ~taken /\ missing /\ inherited /\ invariant_violation(c, f)
    \/ ~taken /\ missing /\ ~inherited /\ Return(c, "content_asset_not_found")
    \/ /\ ~taken /\ ~missing
       /\ \/ req.kind = "put_trial" /\ Ready(c, next)
          \/ /\ req.kind = "update" /\ req.patch.endpoint_set # None
             /\ read_claimed_endpoint_state(c, next, ClaimKeysOf(req.patch.endpoint_set))
          \/ /\ \/ req.kind \in {"create", "duplicate"}
                \/ req.kind = "update" /\ req.patch.endpoint_set = None
             /\ read_destination_projections(c, next)

-----------------------------------------------------------------------------
(* Listings: the rows of one prefix, then a snapshot of each row's page.   *)
(* owner = None lists public pages, any other owner that owner's pages.    *)
(* Filters, limits and cursors only select among these pages.              *)

Lists(req, k) == IF req.owner = None THEN k[1] = "public"
                 ELSE k[1] = "by-owner" /\ k[2] = req.owner

NextRow(c, f) ==
    \/ DOMAIN f.rows = {} /\ Found(c, f.snapshots)
    \/ /\ DOMAIN f.rows # {}
       /\ LET row == CHOOSE k \in DOMAIN f.rows : TRUE \* the code goes in key order
              rest == [k \in DOMAIN f.rows \ {row} |-> f.rows[k]]
          IN read_snapshot(c, [f EXCEPT !.row = <<row, f.rows[row]>>, !.rows = rest],
                           f.rows[row].val.page_id)

ListRows(c) ==
    /\ client[c].at = "list"
    /\ LET rows == {k \in DOMAIN kv : Lists(client[c].req, k)}
       IN NextRow(c, [client[c] EXCEPT !.rows = [k \in rows |-> kv[k]]])
    /\ UNCHANGED <<kv, clock, requests>>

(* Mutant: any page the row points to is listed. *)
RowMatches_unchecked(f, snapshot) == snapshot # None

RowMatches(f, snapshot) ==
    /\ snapshot # None
    /\ f.row[1] \in projection_keys(snapshot.id, snapshot.page)
    /\ f.row[2].val.revision = snapshot.page.revision

RowRead(c, f, snapshot) ==
    \/ RowMatches(f, snapshot) /\ NextRow(c, [f EXCEPT !.snapshots = @ \cup {snapshot}])
    \/ ~RowMatches(f, snapshot) /\ Await(c, f, "row again", {f.row[1]})

(* #entry_changed: a row that moved meanwhile is skipped. *)
RowAgainRead(c, f) ==
    \/ f.got[f.row[1]].vs # f.row[2].vs /\ NextRow(c, f)
    \/ f.got[f.row[1]].vs = f.row[2].vs /\ invariant_violation(c, f)

-----------------------------------------------------------------------------
(* #read_snapshot: the page, its index rows, the page again.               *)

NextClaimed(c, f) ==
    \/ f.queue = {} /\ Await(c, f, "claims again", DOMAIN f.targets)
    \/ /\ f.queue # {}
       /\ LET id == CHOOSE id \in f.queue : TRUE \* the code takes the bindings' order
          IN read_snapshot(c, [f EXCEPT !.queue = @ \ {id}], id)

SnapshotRead(c, f, snapshot) ==
    \/ f.req.kind = "list" /\ RowRead(c, f, snapshot)
    \/ /\ f.targets # NoEntries
       /\ NextClaimed(c, [f EXCEPT !.snapshots = @ \cup ({snapshot} \ {None})])
    \/ /\ f.req.kind # "list" /\ f.targets = NoEntries
       /\ ExistingRead(c, f, snapshot)

EntryRead(c, f) ==
    LET entry == f.got[page_aggregate_storage_key(f.reading)] IN
    \/ ~present(entry) /\ SnapshotRead(c, f, None)
    \/ /\ present(entry)
       /\ Await(c, [f EXCEPT !.entry = entry], "snapshot indexes",
                visibility_keys(f.reading, entry.val))

(* The rows are kept while the page is read a second time. *)
IndexesRead(c, f) ==
    Become(c, [f EXCEPT !.at = "snapshot again",
                        !.pending = {page_aggregate_storage_key(f.reading)}])

(* Mutant: the second read of the page is left out. *)
SnapshotTorn_never(f) == FALSE

SnapshotTorn(f) == f.got[page_aggregate_storage_key(f.reading)].vs # f.entry.vs

AgainRead(c, f) ==
    LET page == f.entry.val
        keys == visibility_keys(f.reading, page)
        coherent == \A k \in keys : f.got[k].val = page_pointer(f.reading, page)
        again == [f EXCEPT !.snapshot_attempt = @ + 1]
    IN
    \/ /\ SnapshotTorn(f)
       /\ \/ /\ again.snapshot_attempt < MaxAttempts
             /\ Await(c, again, "snapshot entry", {page_aggregate_storage_key(f.reading)})
          \/ again.snapshot_attempt = MaxAttempts /\ contention_exhausted(c, again)
    \/ ~SnapshotTorn(f) /\ ~coherent /\ invariant_violation(c, f)
    \/ /\ ~SnapshotTorn(f) /\ coherent
       /\ SnapshotRead(c, f, Snapshot(f.reading, f.entry, [k \in keys |-> f.got[k]]))

-----------------------------------------------------------------------------
(* #read_claimed_endpoint_state and resolve_page_endpoint: the claims, a    *)
(* snapshot of every page they point to, the claims again.                 *)

TargetsRead(c, f) ==
    LET claimed == {k \in DOMAIN f.got : present(f.got[k])} IN
    \/ f.req.kind = "resolve" /\ claimed = {} /\ Found(c, {})
    \/ /\ f.req.kind = "resolve" => claimed # {}
       /\ NextClaimed(c, [f EXCEPT !.targets = f.got,
                                   !.queue = {f.got[k].val.page_id : k \in claimed}])

(* Mutant: the claims are not read a second time. *)
ClaimsMoved_never(f) == FALSE

ClaimsMoved(f) == \E k \in DOMAIN f.targets : f.got[k].vs # f.targets[k].vs

(* Every claim is an index row of the snapshot of the page it points to.   *)
ClaimsCoherent(f) ==
    \A k \in {k \in DOMAIN f.targets : present(f.targets[k])} :
        \E s \in f.snapshots :
            /\ f.targets[k].val = page_pointer(s.id, s.page)
            /\ k \in DOMAIN s.index /\ s.index[k].vs = f.targets[k].vs

ClaimsAgainRead(c, f) ==
    LET again == [f EXCEPT !.claim_attempt = @ + 1, !.snapshot_attempt = 0,
                           !.targets = NoEntries, !.snapshots = {}]
    IN
    \/ /\ ClaimsMoved(f)
       /\ \/ again.claim_attempt < MaxAttempts /\ Await(c, again, "claims", DOMAIN f.targets)
          \/ again.claim_attempt = MaxAttempts /\ contention_exhausted(c, again)
    \/ ~ClaimsMoved(f) /\ ~ClaimsCoherent(f) /\ invariant_violation(c, f)
    \/ ~ClaimsMoved(f) /\ ClaimsCoherent(f) /\ ClaimsRead(c, f)

-----------------------------------------------------------------------------
(* #read_destination_projections: the rows the new page will have must be  *)
(* free, or be rows the replaced page has.                                 *)

DestinationRead(c, f) ==
    LET next == [f EXCEPT !.destination = f.got]
        reusable == IF f.existing # None /\ f.req.kind = "update"
                    THEN f.existing.index ELSE NoEntries
        kept == DOMAIN f.got \cap DOMAIN reusable
        moved == \E k \in kept : f.got[k].vs # reusable[k].vs
        occupied == \E k \in DOMAIN f.got \ kept : present(f.got[k])
    IN
    \/ moved /\ Retry(c, f)
    \/ ~moved /\ occupied /\ Await(c, next, "authority", {page_aggregate_storage_key(f.id)})
    \/ ~moved /\ ~occupied /\ Ready(c, next)

AuthorityRead(c, f) ==
    LET key == page_aggregate_storage_key(f.id)
        authority == IF f.req.kind = "update" THEN f.existing.entry ELSE f.probed[key]
    IN
    \/ f.got[key].vs # authority.vs /\ Retry(c, f)
    \/ f.got[key].vs = authority.vs /\ invariant_violation(c, f)

-----------------------------------------------------------------------------
(* The atomic operation. *)

SnapshotVersions(s) ==
    {<<page_aggregate_storage_key(s.id), s.entry.vs>>} \cup Versions(s.index)

(* Everything the attempt has read, one check per key and version.         *)
Checks(f) ==
    IF f.req.kind = "health"
    THEN {<<page_aggregate_storage_key(f.id), f.existing.entry.vs>>}
    ELSE (UNION {SnapshotVersions(s) : s \in f.snapshots \cup ({f.existing} \ {None})})
         \cup Versions(f.targets) \cup Versions(f.probed) \cup Versions(f.destination)

Written(f) ==
    LET page == Single(page_aggregate_storage_key(f.id), f.page)
    IN CASE f.req.kind = "delete" -> NoEntries
         [] f.req.kind = "health" -> page
         [] OTHER -> Overlay(page, Pointers(f.id, f.page))

(* The pages a commit removes or rewrites, with their rows. *)
Replaced(f) ==
    CASE f.req.kind = "health" -> {}
      [] f.req.kind = "delete" -> {f.existing}
      [] f.req.kind = "update" -> {f.existing} \cup Displaced(f)
      [] OTHER -> f.snapshots

(* Mutant: the rows of a replaced page are left behind. *)
Removed_pages_only(f) == {page_aggregate_storage_key(s.id) : s \in Replaced(f)}

Removed(f) == UNION {{page_aggregate_storage_key(s.id)} \cup DOMAIN s.index : s \in Replaced(f)}

(* Mutant: only the page's own entry is checked. *)
Current_page_only(f) ==
    AllCurrent({check \in Checks(f) : check[1] = page_aggregate_storage_key(f.id)})

Current(f) == AllCurrent(Checks(f))

(* #merge_checks refuses two versions of one key: they cannot both be      *)
(* current, so that the attempt fails either way.                          *)
Merge(f) == \A a, b \in Checks(f) : a[1] = b[1] => a = b

Commit(c) ==
    LET f == client[c] IN
    /\ f.at = "commit"
    /\ \/ /\ Current(f)
          /\ Write(Written(f), Removed(f))
          /\ Return(c, "ok")
       \/ ~Current(f) /\ Retry(c, f) /\ UNCHANGED <<kv, clock>>
    /\ UNCHANGED requests

(* External to this file: the manifest of a stored asset appears at once.  *)
create_content_asset(req) ==
    LET key == content_asset_manifest_key(req.content_asset_id) IN
    /\ req.kind = "create_content_asset"
    /\ ~present(get(key))
    /\ requests' = requests \ {req}
    /\ Write(Single(key, req.content_asset_id), {})
    /\ UNCHANGED client

(* The process that runs the call stops: every write was atomic.           *)
Crash(c) ==
    /\ client[c].at # "idle"
    /\ client' = [client EXCEPT ![c] = Idle]
    /\ UNCHANGED <<kv, clock, requests>>

-----------------------------------------------------------------------------
SnapshotEntry(c) == Resume(c, "snapshot entry", EntryRead)
SnapshotIndexes(c) == Resume(c, "snapshot indexes", IndexesRead)
SnapshotAgain(c) == Resume(c, "snapshot again", AgainRead)
Claims(c) == Resume(c, "claims", TargetsRead)
ClaimsAgain(c) == Resume(c, "claims again", ClaimsAgainRead)
ProbeEntries(c) == Resume(c, "probe", ProbeRead)
Destination(c) == Resume(c, "destination", DestinationRead)
Authority(c) == Resume(c, "authority", AuthorityRead)
RowAgain(c) == Resume(c, "row again", RowAgainRead)

Next ==
    \/ \E req \in requests : create_content_asset(req)
    \/ \E c \in Clients :
          \/ \E req \in requests : Call(c, req)
          \/ SnapshotEntry(c) \/ SnapshotIndexes(c) \/ SnapshotAgain(c)
          \/ Claims(c) \/ ClaimsAgain(c) \/ ProbeEntries(c)
          \/ Destination(c) \/ Authority(c)
          \/ ListRows(c) \/ RowAgain(c)
          \/ Commit(c)
          \/ Crash(c)

Spec == Init /\ [][Next]_vars

-----------------------------------------------------------------------------
(* Properties. *)

StoredPages == [id \in PageIds |-> get(page_aggregate_storage_key(id)).val]

StoredAssets == {a \in ContentAssets : present(get(content_asset_manifest_key(a)))}

ClaimedBy ==
    [l \in Locators |->
        LET claim == get(page_endpoint_claim_key(l))
        IN IF present(claim) THEN claim.val.page_id ELSE None]

Pointer == [page_id : PageIds, revision : 1 .. MaxRevision]

Places == {"idle", "snapshot entry", "snapshot indexes", "snapshot again", "claims",
           "claims again", "probe", "destination", "authority", "list", "row again",
           "commit", "invariant violated", "contention exhausted"}

TypeOK ==
    /\ clock \in Nat
    /\ requests \subseteq UNION {s.requests : s \in Scenarios}
    /\ \A k \in DOMAIN kv :
          /\ kv[k].vs \in 1 .. clock
          /\ kv[k].val \in (IF k \in PageKeys THEN PageAggregate
                           ELSE IF k \in ManifestKeys THEN {k[2]} ELSE Pointer)
    /\ \A c \in Clients : client[c].at \in Places

(* #read_snapshot, #read_claimed_endpoint_state, the destination reads and *)
(* the listings throw "invariant violated" when rows and pages disagree.   *)
(* Other clients' commits between their awaits must never make them throw: *)
(* what they see torn is always noticed as a change and read again.        *)
NoFalseInvariantViolation == \A c \in Clients : client[c].at # "invariant violated"

(* After every commit the endpoint claims, owner rows and public rows are  *)
(* those of the stored pages, each with its page's current revision, and   *)
(* no row outlives its page; and every stored value is of its key's type.  *)
IndexesMatchPages ==
    TypeOK /\
    LET RowsOf(id, page) ==
            {page_endpoint_claim_key(l) : l \in bindings(page.endpoint_set)} \cup
            {k \in {page_aggregate_owner_key(page.owner, page.endpoint_set.canonical, id)} :
                page.owner # None} \cup
            {k \in {page_aggregate_public_key(page.endpoint_set.canonical, id)} :
                page.owner # None /\ page.access = "public"}
        stored == {id \in PageIds : StoredPages[id] # None}
    IN {<<k, kv[k].val>> : k \in DOMAIN kv \ (PageKeys \cup ManifestKeys)} =
       UNION {RowsOf(id, StoredPages[id]) \X {page_pointer(id, StoredPages[id])} : id \in stored}

(* max_page_aggregate_atomic_checks: with N endpoints per page, N claims   *)
(* held by N trials, a source page, a free id, an asset and the two rows   *)
(* of the new page.  87 for N = 8.                                         *)
max_page_aggregate_atomic_checks == MaxEndpoints * MaxEndpoints + 2 * MaxEndpoints + 7

AtomicCheckBudget ==
    \A c \in Clients :
        client[c].at = "commit" /\ Merge(client[c]) =>
            Cardinality(Checks(client[c])) <= max_page_aggregate_atomic_checks

(* A resolution answers with the page that holds the locator, at its       *)
(* current revision, at the very step at which it answers.                 *)
ResolveReturnsCurrent ==
    [][\A c \in Clients :
          /\ client[c].at = "claims again" /\ client[c].req.kind = "resolve"
          /\ client'[c].reply = "found"
          => \E s \in client'[c].snapshots :
                get(page_endpoint_claim_key(client[c].req.locator)).val =
                    page_pointer(s.id, s.page)]_vars

(* A page enters a listing as it is stored at that step, and only while it *)
(* has the listed row: a page made private, retargeted or given up after   *)
(* the rows were read is not shown from the stale row.                     *)
ListedPagesAreCurrent ==
    [][\A c \in Clients :
          client[c].at = "snapshot again" /\ client[c].req.kind = "list" =>
              \A s \in client'[c].snapshots \ client[c].snapshots :
                  /\ get(page_aggregate_storage_key(s.id)) = s.entry
                  /\ \E k \in projection_keys(s.id, s.page) : Lists(client[c].req, k)]_vars

(* The operation of the abstract store that a call asks for, a disjunct of *)
(* its next-state relation.                                                *)
Abstract == INSTANCE PageStore WITH
            pages <- StoredPages, endpoint_page_ids <- ClaimedBy, assets <- StoredAssets

RequestedOperation(req) ==
    CASE req.kind = "put_trial" ->
            Abstract!put_trial_page_aggregate(req.new_id, req.endpoint_set, req.content_asset_id)
      [] req.kind = "create" ->
            Abstract!create_managed_page_aggregate(req.new_id, req.endpoint_set, req.owner,
                                                   req.access, req.content_asset_id)
      [] req.kind = "update" ->
            Abstract!update_managed_page_aggregate(req.id, req.owner, req.expected_revision,
                                                   req.patch)
      [] req.kind = "duplicate" ->
            Abstract!duplicate_managed_page_aggregate(req.id, req.owner, req.expected_revision,
                                                      req.new_id, req.endpoint_set)
      [] req.kind = "health" ->
            Abstract!update_external_content_health(req.id, req.content_asset_id, req.missing)
      [] req.kind = "delete" ->
            Abstract!delete_managed_page_aggregate(req.id, req.owner, req.expected_revision)

(* A commit, however long ago its reads were, is the very operation the    *)
(* caller asked for, on the abstract store as it is at that step; no other *)
(* step changes the store, the appearance of an asset aside.  This is what *)
(* the conformance suite asks of both repositories, under concurrency, and *)
(* implies Abstract!Spec.                                                  *)
ImplementsPageStore ==
    /\ Abstract!Init
    /\ [][kv' # kv =>
             \/ \E c \in Clients :
                   /\ client[c].at = "commit" /\ client'[c] # client[c]
                   /\ RequestedOperation(client[c].req)
             \/ \E a \in ContentAssets : Abstract!create_content_asset(a)]_vars
=============================================================================
