--------------------------- MODULE PageAggregates ---------------------------
(***************************************************************************)
(* The logical page of lib/page/aggregate.ts and lib/page/endpoint.ts, and *)
(* the pages the operations of a repository build.  The in-memory and the  *)
(* KV repository construct them field by field in the same way.            *)
(*                                                                         *)
(* Tags, timestamps and the delivery profile of a binding are data no      *)
(* guard of a repository reads, and are left out.                          *)
(***************************************************************************)
EXTENDS Naturals

CONSTANTS PageIds,         \* generated page identities
          Locators,        \* endpoint locators, up to letter case
          Owners,          \* user ids that can own managed pages
          ContentAssets,   \* content asset ids
          ExternalAssets,  \* the assets whose source is an external object
          None,            \* undefined, null, or a missing map entry
          MaxRevision,     \* Number.MAX_SAFE_INTEGER
          Seeds            \* the stores an earlier process may have left

(* A canonical binding and alternates, all with different locators. *)
EndpointSet ==
    {e \in [canonical : Locators, alternates : SUBSET Locators] :
        e.canonical \notin e.alternates}

bindings(e) == {e.canonical} \cup e.alternates

(* owner = None is trial stewardship, any other owner a managed page. *)
PageAggregate ==
    [endpoint_set     : EndpointSet,
     owner            : Owners \cup {None},
     access           : {"public", "private"},
     block_api_write  : BOOLEAN,
     revision         : 1 .. MaxRevision,
     content_asset_id : ContentAssets,
     external_missing : BOOLEAN]

(* page_aggregate_violation(page) = null, with a stored content asset, and *)
(* a health observation only on external content.                          *)
ValidPage(page, stored) ==
    /\ page.owner = None => page.access = "public" /\ ~page.block_api_write
    /\ page.content_asset_id \in stored
    /\ page.external_missing => page.content_asset_id \in ExternalAssets

(* No two pages of the map hold the same locator. *)
OnePagePerLocator(map) ==
    \A p, q \in PageIds :
        p # q /\ map[p] # None /\ map[q] # None =>
            bindings(map[p].endpoint_set) \cap bindings(map[q].endpoint_set) = {}

Store == [pages : [PageIds -> PageAggregate \cup {None}], assets : SUBSET ContentAssets]

ASSUME ConstantsAssumption ==
    /\ MaxRevision \in Nat \ {0}
    /\ ExternalAssets \subseteq ContentAssets
    /\ None \notin PageIds \cup Owners \cup PageAggregate

ASSUME SeedsAssumption ==
    \A s \in Seeds :
        /\ s \in Store
        /\ OnePagePerLocator(s.pages)
        /\ \A p \in PageIds : s.pages[p] # None => ValidPage(s.pages[p], s.assets)

-----------------------------------------------------------------------------
(* The pages the operations build. *)

TrialPage(e, a, revision) ==
    [endpoint_set |-> e, owner |-> None, access |-> "public", block_api_write |-> FALSE,
     revision |-> revision, content_asset_id |-> a, external_missing |-> FALSE]

ManagedPage(e, owner, access, a) ==
    [endpoint_set |-> e, owner |-> owner, access |-> access, block_api_write |-> FALSE,
     revision |-> 1, content_asset_id |-> a, external_missing |-> FALSE]

(* Mutant: the revision_exhausted test is forgotten. *)
RevisionAvailable_unchecked(page) == TRUE

RevisionAvailable(page) == page.revision < MaxRevision

(* A patch replaces the fields it has; None marks an absent field. *)
Patch == [endpoint_set     : EndpointSet \cup {None},
          content_asset_id : ContentAssets \cup {None},
          access           : {"public", "private", None},
          block_api_write  : BOOLEAN \cup {None}] \
         {[endpoint_set |-> None, content_asset_id |-> None,
           access |-> None, block_api_write |-> None]}

Or(field, default) == IF field = None THEN default ELSE field

(* Mutant: a patch of access, tags or lock alone does not count. *)
RevisionAfter_content_only(page, patch) ==
    IF patch.endpoint_set = None /\ patch.content_asset_id = None
    THEN page.revision ELSE page.revision + 1

RevisionAfter(page, patch) == page.revision + 1

(* Mutant: the spread keeps the old observation. *)
HealthAfter_spread(page, patch) == page.external_missing

HealthAfter(page, patch) == patch.content_asset_id = None /\ page.external_missing

PatchedPage(page, patch) ==
    [endpoint_set     |-> Or(patch.endpoint_set, page.endpoint_set),
     owner            |-> page.owner,
     access           |-> Or(patch.access, page.access),
     block_api_write  |-> Or(patch.block_api_write, page.block_api_write),
     revision         |-> RevisionAfter(page, patch),
     content_asset_id |-> Or(patch.content_asset_id, page.content_asset_id),
     external_missing |-> HealthAfter(page, patch)]

DuplicatePage(source, e) ==
    [endpoint_set |-> e, owner |-> source.owner, access |-> source.access,
     block_api_write |-> source.block_api_write, revision |-> 1,
     content_asset_id |-> source.content_asset_id, external_missing |-> FALSE]
=============================================================================
