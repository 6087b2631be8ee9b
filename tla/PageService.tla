----------------------------- MODULE PageService -----------------------------
(***************************************************************************)
(* lib/page/service.ts: the page use cases over a page repository, the     *)
(* namespace reservations and an external storage provider.  A use case    *)
(* reads, decides on what it read, and calls the repository later: each    *)
(* await is a step of the calling client, a repository call is one step of *)
(* PageStore.                                                              *)
(*                                                                         *)
(* What a caller is told is left out: a refused call ends and changes      *)
(* nothing.  Content assets are immutable and never deleted, so reading    *)
(* one is not a step.                                                      *)
(***************************************************************************)
EXTENDS PageAggregates, Sequences, FiniteSets, TLC

CONSTANTS Namespaces, PageNames,
          Clients,                 \* concurrent requests
          Scenarios,               \* stores and reservations to start from, each
                                   \* with calls to come
          digest,                  \* the bytes of each content asset
          max_page_id_attempts, max_page_name_attempts

namespace(l) == l[1]

Access == {"public", "private"}

(* One command of the service, with what its guards read of it: the pages  *)
(* a command is about are a selection of ids and revisions, and None marks *)
(* an absent field of a patch.  Content is inline or of a storage provider;*)
(* a guest's is inline.                                                    *)
Request ==
    LET Selection == Seq(PageIds \X (1 .. MaxRevision)) IN
         [kind : {"publish_trial"}, actor : {None},
          endpoint_set : EndpointSet, content : {"inline"}]
    \cup [kind : {"create_managed"}, actor : Owners, via_api_key : BOOLEAN,
          endpoint_set : EndpointSet, access : Access, content : {"inline", "external"}]
    \cup [kind : {"update"}, actor : Owners, via_api_key : BOOLEAN, selection : Selection,
          endpoint_set : EndpointSet \cup {None}, access : Access \cup {None},
          block_api_write : BOOLEAN \cup {None}, content : {"inline", "external", None}]
    \cup [kind : {"relink"}, actor : Owners, via_api_key : BOOLEAN, selection : Selection,
          content : {"external"}]
    \cup [kind : {"rename"}, actor : Owners, via_api_key : BOOLEAN, selection : Selection,
          page_name : PageNames]
    \cup [kind : {"duplicate", "delete"}, actor : Owners, via_api_key : BOOLEAN,
          selection : Selection]
    \cup [kind : {"duplicate"}, actor : Owners, via_api_key : BOOLEAN,
          selection : Selection, endpoint_set : EndpointSet]
    \cup [kind : {"deliver"}, actor : Owners \cup {None}, locator : Locators]

(* A store with the reservations it was written under, and typed calls.    *)
ScenarioOK(s) ==
    /\ s.store \in Seeds
    /\ s.reservations \in [Namespaces -> Owners \cup {None}]
    /\ \A p \in PageIds :
          s.store.pages[p] # None /\ s.store.pages[p].owner # None =>
              \A l \in bindings(s.store.pages[p].endpoint_set) :
                  s.reservations[namespace(l)] = s.store.pages[p].owner
    /\ s.requests \subseteq Request

ASSUME ServiceAssumption ==
    /\ Locators = Namespaces \X PageNames
    /\ IsFiniteSet(Namespaces) /\ IsFiniteSet(PageNames)
    /\ None \notin EndpointSet \cup ContentAssets \cup Access
    /\ None \notin {"inline", "external"}
    /\ DOMAIN digest = ContentAssets
    /\ \A s \in Scenarios : ScenarioOK(s)
    /\ max_page_id_attempts \in Nat \ {0}
    /\ max_page_name_attempts \in 1 .. Cardinality(PageNames) - 1

VARIABLES pages, endpoint_page_ids, assets,  \* the repository
          reservations,  \* namespace -> its owner, for good
          source,        \* state of the external object of each external asset
          drawn,         \* page ids a page has had: random ids do not come twice
          requests,      \* the calls still to come
          client         \* client -> frame of its current call

store == <<pages, endpoint_page_ids, assets>>
world == <<reservations, source>>
vars == <<store, world, drawn, requests, client>>

Repository == INSTANCE PageStore

(* Mutant: only the canonical namespace is looked up. *)
NamespacesOf_canonical(e) == {namespace(e.canonical)}

NamespacesOf(e) == {namespace(l) : l \in bindings(e)}

(* page: the page read, page_id and expected: the selected page, left: the *)
(* rest of a bulk selection, todo: the awaits ahead, names: tried names,   *)
(* copy: the endpoints drawn for a duplicate.                              *)
Idle == [at |-> "idle", req |-> None, left |-> <<>>, page_id |-> None, expected |-> 0,
         page |-> None, todo |-> <<>>, unread |-> {}, asset |-> None,
         attempt |-> 0, names |-> {}, copy |-> None]

Init ==
    /\ Repository!Init
    /\ \E s \in Scenarios :
          /\ pages = s.store.pages /\ assets = s.store.assets
          /\ reservations = s.reservations
          /\ requests = s.requests
    /\ source = [a \in ExternalAssets |->
                    IF \E p \in PageIds : pages[p] # None /\ pages[p].external_missing
                                          /\ pages[p].content_asset_id = a
                    THEN "lost" ELSE "intact"]
    /\ drawn = {p \in PageIds : pages[p] # None}
    /\ client = [c \in Clients |-> Idle]

-----------------------------------------------------------------------------
(* The course of a call. *)

Become(c, f) == client' = [client EXCEPT ![c] = f]
Return(c) == Become(c, Idle)

EndpointsOf(req) == IF "endpoint_set" \in DOMAIN req THEN req.endpoint_set ELSE None

Advance(c, f) ==
    Become(c, [f EXCEPT !.at = Head(f.todo), !.todo = Tail(@),
                        !.unread = IF Head(f.todo) = "authority"
                                   THEN NamespacesOf(EndpointsOf(f.req)) ELSE {}])

(* The next page of the selection: a single command selects one. *)
ItemDone(c, f) ==
    \/ f.left = <<>> /\ Return(c)
    \/ /\ f.left # <<>>
       /\ Become(c, [Idle EXCEPT !.at = "page", !.req = f.req, !.left = Tail(f.left),
                                 !.page_id = Head(f.left)[1], !.expected = Head(f.left)[2]])

When(condition, place) == IF condition THEN <<place>> ELSE <<>>

(* The awaits of each command between its checks and its end. *)
Course(req) ==
    LET authority == When(EndpointsOf(req) # None, "authority")
        upload == When("content" \in DOMAIN req /\ req.content = "external", "upload")
        stage == When("content" \in DOMAIN req /\ req.content # None, "stage")
    IN CASE req.kind \in {"publish_trial", "create_managed"} ->
                authority \o upload \o stage \o <<"commit">>
         [] req.kind = "update" -> upload \o authority \o stage \o <<"commit">>
         [] req.kind = "relink" -> <<"fetch candidate", "stage", "commit">>
         [] req.kind = "duplicate" -> authority \o <<"commit">>
         [] req.kind \in {"rename", "delete"} -> <<"commit">>
         [] req.kind = "deliver" -> <<>>

protection_requires_session(req) ==
    req.kind = "update" /\ req.block_api_write # None /\ req.via_api_key

Call(c, req) ==
    LET f == [Idle EXCEPT !.req = req, !.todo = Course(req)] IN
    /\ client[c].at = "idle"
    /\ requests' = requests \ {req}
    /\ \/ req.kind \in {"publish_trial", "create_managed"} /\ Advance(c, f)
       \/ req.kind = "deliver" /\ Become(c, [f EXCEPT !.at = "resolve"])
       \/ "selection" \in DOMAIN req /\ ~protection_requires_session(req)
          /\ ItemDone(c, [f EXCEPT !.left = req.selection])
       \/ protection_requires_session(req) /\ UNCHANGED client
    /\ UNCHANGED <<store, world, drawn>>

-----------------------------------------------------------------------------
(* Reads and decisions.                                                    *)

(* find_page_aggregate_by_id of #find_authorized_page. *)
ReadPage(c) ==
    LET f == client[c]
        mine == pages[f.page_id] # None /\ pages[f.page_id].owner = f.req.actor
    IN
    /\ f.at = "page"
    /\ \/ mine /\ Become(c, [f EXCEPT !.page = pages[f.page_id], !.at = "page authority"])
       \/ ~mine /\ ItemDone(c, f)
    /\ UNCHANGED <<store, world, drawn, requests>>

api_write_blocked(f) == f.req.via_api_key /\ f.page.block_api_write

(* Mutant: the revision is left to the repository everywhere. *)
revision_conflict_never(f) == FALSE

(* delete_managed and bulk_delete_managed leave the revision to the        *)
(* repository; the other commands compare it with the page they read.      *)
revision_conflict(f) == f.req.kind # "delete" /\ f.page.revision # f.expected

Renamed(f) == <<namespace(f.page.endpoint_set.canonical), f.req.page_name>>

Refused(f) ==
    \/ api_write_blocked(f)
    \/ revision_conflict(f)
    \/ f.req.kind \in {"update", "relink", "rename"} /\ ~RevisionAvailable(f.page)
    \/ f.req.kind = "relink" /\ f.page.content_asset_id \notin ExternalAssets
    \/ f.req.kind = "rename" /\ Renamed(f) \in bindings(f.page.endpoint_set)
    \/ f.req.kind = "duplicate" /\ EndpointsOf(f.req) = None
       /\ f.page.endpoint_set.alternates # {}

(* The canonical namespace's authority, and the checks on the page read.   *)
ReadPageAuthority(c) ==
    LET f == client[c]
        owned == reservations[namespace(f.page.endpoint_set.canonical)] = f.req.actor
    IN
    /\ f.at = "page authority"
    /\ \/ owned /\ ~Refused(f) /\ Advance(c, [f EXCEPT !.todo = Course(f.req)])
       \/ (~owned \/ Refused(f)) /\ ItemDone(c, f)
    /\ UNCHANGED <<store, world, drawn, requests>>

(* An update that would change nothing ends without a new revision. *)
NothingToChange(f) ==
    /\ f.req.kind = "update" /\ f.req.endpoint_set = f.page.endpoint_set
    /\ f.req.access = None /\ f.req.block_api_write = None /\ f.req.content = None

(* Each namespace of the endpoint set: a guest's must be unreserved, a     *)
(* user's their own (the actor of a guest is None).                        *)
ReadAuthority(c) ==
    LET f == client[c] IN
    /\ f.at = "authority"
    /\ \E n \in f.unread :
          \/ reservations[n] # f.req.actor /\ ItemDone(c, f)
          \/ /\ reservations[n] = f.req.actor
             /\ \/ f.unread # {n} /\ Become(c, [f EXCEPT !.unread = @ \ {n}])
                \/ f.unread = {n} /\ NothingToChange(f) /\ ItemDone(c, f)
                \/ f.unread = {n} /\ ~NothingToChange(f) /\ Advance(c, f)
    /\ UNCHANGED <<store, world, drawn, requests>>

(* put_content, which may fail. *)
Upload(c) ==
    /\ client[c].at = "upload"
    /\ Advance(c, client[c]) \/ ItemDone(c, client[c])
    /\ UNCHANGED <<store, world, drawn, requests>>

(* An object with the bytes of the page's content, to relink it to. *)
Candidates(f) ==
    {a \in ExternalAssets \ assets : digest[a] = digest[f.page.content_asset_id]}

(* stat_content and fetch_content of the new object. *)
FetchCandidate(c) ==
    LET f == client[c] IN
    /\ f.at = "fetch candidate"
    /\ \/ (\E a \in Candidates(f) : source[a] # "lost") /\ Advance(c, f)
       \/ ItemDone(c, f)
    /\ UNCHANGED <<store, world, drawn, requests>>

(* #stage_prepared_content_asset, under a fresh asset id. *)
Stage(c) ==
    LET f == client[c]
        fresh == IF f.req.kind = "relink" THEN Candidates(f)
                 ELSE IF f.req.content = "external" THEN ExternalAssets \ assets
                 ELSE (ContentAssets \ ExternalAssets) \ assets
    IN
    /\ f.at = "stage"
    /\ \E a \in fresh :
          /\ Repository!create_content_asset(a)
          /\ Advance(c, [f EXCEPT !.asset = a])
    /\ UNCHANGED <<world, drawn, requests>>

-----------------------------------------------------------------------------
(* Repository calls, each with the reasons the repository refuses it for.  *)

Generated == {id \in PageIds : pages[id] # None \/ id \notin drawn}

Conflict(e, self) == ~Repository!OnlyTrials(Repository!claimed_page_ids(e) \ {self})

Draw == drawn' = drawn \cup {p \in PageIds : pages'[p] # None}

(* Mutant: the attempts are not counted. *)
NextId_uncounted(c, f, place, todo) ==
    /\ Become(c, [f EXCEPT !.at = place, !.todo = todo])
    /\ UNCHANGED <<store, drawn>>

(* page_id_conflict: the next id, for content staged anew, up to a limit. *)
NextId(c, f, place, todo) ==
    LET next == [f EXCEPT !.attempt = @ + 1, !.at = place, !.todo = todo] IN
    /\ \/ next.attempt < max_page_id_attempts /\ Become(c, next)
       \/ next.attempt = max_page_id_attempts /\ Return(c)
    /\ UNCHANGED <<store, drawn>>

Refuse(c, f) == ItemDone(c, f) /\ UNCHANGED <<store, drawn>>

PutTrial(c, f, id) ==
    LET e == f.req.endpoint_set
        claimed == Repository!claimed_page_ids(e)
        refused == \/ Conflict(e, None)
                   \/ Cardinality(claimed) > 1
                   \/ \E p \in claimed : ~RevisionAvailable(pages[p])
    IN \/ Repository!put_trial_page_aggregate(id, e, f.asset) /\ Return(c) /\ Draw
       \/ refused /\ Refuse(c, f)
       \/ claimed = {} /\ pages[id] # None /\ NextId(c, f, "stage", <<"commit">>)

CreateManaged(c, f, id) ==
    LET e == f.req.endpoint_set IN
    \/ /\ Repository!create_managed_page_aggregate(id, e, f.req.actor, f.req.access, f.asset)
       /\ Return(c) /\ Draw
    \/ Conflict(e, None) /\ Refuse(c, f)
    \/ ~Conflict(e, None) /\ pages[id] # None /\ NextId(c, f, "stage", <<"commit">>)

NoPatch == [endpoint_set |-> None, content_asset_id |-> None,
            access |-> None, block_api_write |-> None]

PatchOf(f) ==
    CASE f.req.kind = "update" ->
            [endpoint_set |-> IF f.req.endpoint_set = f.page.endpoint_set
                              THEN None ELSE f.req.endpoint_set,
             content_asset_id |-> f.asset,
             access |-> Or(f.req.access, f.page.access),
             block_api_write |-> f.req.block_api_write]
      [] f.req.kind = "rename" ->
            [NoPatch EXCEPT !.endpoint_set = [f.page.endpoint_set EXCEPT !.canonical = Renamed(f)]]
      [] f.req.kind = "relink" -> [NoPatch EXCEPT !.content_asset_id = f.asset]

Update(c, f) ==
    LET owned == Repository!OwnedAt(f.page_id, f.req.actor, f.expected)
        patch == PatchOf(f)
        refused == \/ ~owned
                   \/ patch.endpoint_set # None /\ Conflict(patch.endpoint_set, f.page_id)
    IN /\ \/ /\ Repository!update_managed_page_aggregate(f.page_id, f.req.actor, f.expected, patch)
             /\ ItemDone(c, f)
          \/ refused /\ ItemDone(c, f) /\ UNCHANGED store
       /\ UNCHANGED drawn

Delete(c, f) ==
    /\ \/ Repository!delete_managed_page_aggregate(f.page_id, f.req.actor, f.expected)
       \/ ~Repository!OwnedAt(f.page_id, f.req.actor, f.expected) /\ UNCHANGED store
    /\ ItemDone(c, f)
    /\ UNCHANGED drawn

(* The copy's endpoints: those asked for, or a generated name. *)
CopyEndpoints(f) ==
    LET canonical == f.page.endpoint_set.canonical IN
    IF EndpointsOf(f.req) # None THEN {f.req.endpoint_set}
    ELSE IF f.copy # None THEN {f.copy}
    ELSE {[canonical |-> <<namespace(canonical), name>>, alternates |-> {}] :
             name \in PageNames \ (f.names \cup {canonical[2]})}

(* A name that is taken: another, with a new count of ids. *)
NextName(c, f, e) ==
    LET next == [f EXCEPT !.names = @ \cup {e.canonical[2]}, !.copy = None, !.attempt = 0] IN
    /\ \/ EndpointsOf(f.req) # None /\ Return(c)
       \/ /\ EndpointsOf(f.req) = None
          /\ \/ Cardinality(next.names) < max_page_name_attempts /\ Become(c, next)
             \/ Cardinality(next.names) = max_page_name_attempts /\ Return(c)
    /\ UNCHANGED <<store, drawn>>

Duplicate(c, f, id) ==
    \E e \in CopyEndpoints(f) :
        LET owned == Repository!OwnedAt(f.page_id, f.req.actor, f.expected) IN
        \/ /\ Repository!duplicate_managed_page_aggregate(f.page_id, f.req.actor, f.expected, id, e)
           /\ Return(c) /\ Draw
        \/ ~owned /\ Refuse(c, f)
        \/ owned /\ Conflict(e, None) /\ NextName(c, f, e)
        \/ owned /\ ~Conflict(e, None) /\ pages[id] # None
           /\ NextId(c, [f EXCEPT !.copy = e], "commit", <<>>)

Commit(c) ==
    LET f == client[c] IN
    /\ f.at = "commit"
    /\ \/ \E id \in Generated :
             \/ f.req.kind = "publish_trial" /\ PutTrial(c, f, id)
             \/ f.req.kind = "create_managed" /\ CreateManaged(c, f, id)
             \/ f.req.kind = "duplicate" /\ Duplicate(c, f, id)
       \/ f.req.kind \in {"update", "relink", "rename"} /\ Update(c, f)
       \/ f.req.kind = "delete" /\ Delete(c, f)
    /\ UNCHANGED <<world, requests>>

-----------------------------------------------------------------------------
(* Delivery of a locator, with what it observes of external content.       *)

Resolve(c) ==
    LET f == client[c]
        id == endpoint_page_ids[f.req.locator]
        deliverable == id # None
                       /\ (pages[id].access = "private" => pages[id].owner = f.req.actor)
    IN
    /\ f.at = "resolve"
    /\ \/ deliverable /\ pages[id].content_asset_id \in ExternalAssets
          /\ Become(c, [f EXCEPT !.page_id = id, !.page = pages[id], !.at = "fetch"])
       \/ ~(deliverable /\ pages[id].content_asset_id \in ExternalAssets) /\ Return(c)
    /\ UNCHANGED <<store, world, drawn, requests>>

(* An unreachable provider says nothing of the content. *)
Fetch(c) ==
    LET f == client[c]
        lost == source[f.page.content_asset_id] = "lost"
    IN
    /\ f.at = "fetch"
    /\ \/ lost /\ Become(c, [f EXCEPT !.at = "record missing"])
       \/ ~lost /\ f.page.external_missing /\ Become(c, [f EXCEPT !.at = "record found"])
       \/ ~lost /\ ~f.page.external_missing /\ Return(c)
       \/ Return(c)
    /\ UNCHANGED <<store, world, drawn, requests>>

Observe(c) ==
    LET f == client[c]
        missing == f.at = "record missing"
        id == f.page_id
        current == pages[id] # None /\ pages[id].content_asset_id = f.page.content_asset_id
        news == current /\ pages[id].external_missing # missing
    IN
    /\ f.at \in {"record missing", "record found"}
    /\ \/ Repository!update_external_content_health(id, f.page.content_asset_id, missing)
       \/ ~news /\ UNCHANGED store
    /\ Return(c)
    /\ UNCHANGED <<world, drawn, requests>>

-----------------------------------------------------------------------------
(* Reservations, external objects, and a process that stops. *)

Reserve(owner, n) ==
    /\ reservations[n] = None
    /\ reservations' = [reservations EXCEPT ![n] = owner]
    /\ UNCHANGED <<store, source, drawn, requests, client>>

LoseSource(a) ==
    /\ source[a] # "lost"
    /\ source' = [source EXCEPT ![a] = "lost"]
    /\ UNCHANGED <<store, reservations, drawn, requests, client>>

RestoreSource(a) ==
    /\ source[a] = "lost"
    /\ source' = [source EXCEPT ![a] = "restored"]
    /\ UNCHANGED <<store, reservations, drawn, requests, client>>

Crash(c) ==
    /\ client[c].at # "idle"
    /\ Return(c)
    /\ UNCHANGED <<store, world, drawn, requests>>

Step(c) ==
    \/ ReadPage(c) \/ ReadPageAuthority(c) \/ ReadAuthority(c)
    \/ Upload(c) \/ FetchCandidate(c) \/ Stage(c) \/ Commit(c)
    \/ Resolve(c) \/ Fetch(c) \/ Observe(c)

Next ==
    \/ \E c \in Clients :
          \/ \E req \in requests : Call(c, req)
          \/ Step(c)
          \/ Crash(c)
    \/ \E owner \in Owners, n \in Namespaces : Reserve(owner, n)
    \/ \E a \in ExternalAssets : LoseSource(a) \/ RestoreSource(a)

Spec == Init /\ [][Next]_vars

-----------------------------------------------------------------------------
(* Properties. *)

Places == {"idle", "page", "page authority", "authority", "upload", "fetch candidate", "stage",
           "commit", "resolve", "fetch", "record missing", "record found"}

TypeOK ==
    /\ Repository!TypeOK
    /\ reservations \in [Namespaces -> Owners \cup {None}]
    /\ source \in [ExternalAssets -> {"intact", "lost", "restored"}]
    /\ drawn \in SUBSET PageIds /\ requests \subseteq UNION {s.requests : s \in Scenarios}
    /\ \A c \in Clients :
          /\ client[c].at \in Places
          /\ client[c].page \in PageAggregate \cup {None}
          /\ client[c].asset \in ContentAssets \cup {None}
          /\ client[c].attempt \in 0 .. max_page_id_attempts

(* "A managed actor must own every referenced namespace"                   *)
(* (docs/specification/domain-and-addressing.md): canonical and alternate  *)
(* locators alike, whoever reserved what while the page was being written; *)
(* and pages, commands and attempts stay in their types and bounds.        *)
ManagedPagesInOwnNamespaces ==
    TypeOK /\ \A p \in PageIds :
        pages[p] # None /\ pages[p].owner # None =>
            \A l \in bindings(pages[p].endpoint_set) :
                reservations[namespace(l)] = pages[p].owner

(* A page is reported missing only if the source of the content it has now *)
(* was lost at some time: what a slow delivery saw of the content before   *)
(* a relink is not held against the content after it.                      *)
HealthIsOfThisContent ==
    \A p \in PageIds :
        pages[p] # None /\ pages[p].external_missing =>
            /\ pages[p].content_asset_id \in ExternalAssets
            /\ source[pages[p].content_asset_id] # "intact"

KeyCommits(c) ==
    /\ client[c].at = "commit" /\ client'[c] # client[c]
    /\ client[c].req.actor # None /\ client[c].req.via_api_key

LockRespected ==
    \A p \in PageIds :
        pages'[p] # pages[p] =>
            \/ pages[p] # None /\ ~pages[p].block_api_write
               /\ (pages'[p] # None => ~pages'[p].block_api_write)
            \/ pages[p] = None /\ ~pages'[p].block_api_write

(* "While a page is locked, every key-authenticated mutation that targets  *)
(* it fails", and a key "can neither grant itself write access nor lock a  *)
(* page" (docs/api/pages.md), also when the owner locks the page while the *)
(* request is being served.                                                *)
KeysRespectLock == [][(\E c \in Clients : KeyCommits(c)) => LockRespected]_vars

(* A relink repoints a page to other bytes' home, never to other bytes:    *)
(* the bytes it compared are still the page's when it commits.             *)
RelinkKeepsContent ==
    [][\A c \in Clients, p \in PageIds :
          /\ client[c].at = "commit" /\ client[c].req.kind = "relink" /\ client'[c] # client[c]
          /\ pages[p] # None /\ pages'[p] # None
          => digest[pages'[p].content_asset_id] = digest[pages[p].content_asset_id]]_vars

(* "every trial namespace must be unreserved": no trial is written into a  *)
(* reserved namespace (older trials may still be there).                   *)
TrialsAvoidReservedNamespaces ==
    [][\A p \in PageIds :
          pages'[p] # None /\ pages'[p] # pages[p] /\ pages'[p].owner = None =>
              \A l \in bindings(pages'[p].endpoint_set) :
                  reservations[namespace(l)] = None]_vars

AwaitsAhead(f) ==
    LET each == 1 + Cardinality(Namespaces) IN
    CASE f.at = "page" -> 8 * each
      [] f.at = "page authority" -> 7 * each
      [] f.at = "resolve" -> 3
      [] f.at = "fetch" -> 2
      [] OTHER -> Len(f.todo) * each + Cardinality(f.unread) + 1

(* What a call has ahead of it: pages of its selection, names to try for   *)
(* each, ids to try for each name, awaits for each id.                     *)
Ahead(f) ==
    LET names_left == max_page_name_attempts - Cardinality(f.names)
        ids_left == max_page_id_attempts - f.attempt
        tries == (Len(f.left) * (max_page_name_attempts + 1) + names_left)
                 * (max_page_id_attempts + 1) + ids_left
    IN IF f.at = "idle" THEN 0 ELSE tries * 9 * (1 + Cardinality(Namespaces)) + AwaitsAhead(f)

(* The nested loops over a selection, generated names and generated ids    *)
(* end however often names and ids collide: every step of a call, whatever *)
(* the other calls did, leaves it less to do.                              *)
EveryStepIsProgress ==
    [][\A c \in Clients :
          client[c].at # "idle" /\ client'[c] # client[c]
          => Ahead(client'[c]) < Ahead(client[c])]_vars
=============================================================================
