----------------------------- MODULE PageStore -----------------------------
(***************************************************************************)
(* What a page repository promises: lib/page/aggregate-interfaces.ts, in   *)
(* the shape of its reference implementation, the process-local            *)
(* MemoryPageAggregateRepository, whose mutations contain no await, so     *)
(* that every call is one atomic step over two maps (pages by id, page ids *)
(* by endpoint) and a set of immutable content assets.                     *)
(*                                                                         *)
(* A call that returns { ok: false, ... } changes nothing and is not a     *)
(* step: the reasons are the guards.                                       *)
(***************************************************************************)
EXTENDS PageAggregates

VARIABLES pages,             \* #pages
          endpoint_page_ids, \* #endpoint_page_ids
          assets             \* #assets

vars == <<pages, endpoint_page_ids, assets>>

(* The page a locator resolves to in a map of pages. *)
HolderIn(map, l) ==
    IF \E p \in PageIds : map[p] # None /\ l \in bindings(map[p].endpoint_set)
    THEN CHOOSE p \in PageIds : map[p] # None /\ l \in bindings(map[p].endpoint_set)
    ELSE None

Init ==
    \E s \in Seeds :
        /\ pages = s.pages
        /\ assets = s.assets
        /\ endpoint_page_ids = [l \in Locators |-> HolderIn(s.pages, l)]

-----------------------------------------------------------------------------
(* Helpers of the repository. *)

claimed_page_ids(e) == {endpoint_page_ids[l] : l \in bindings(e)} \ {None}

(* Mutant: removal forgets the alternates. *)
ReleasedBy_canonical_only(removed) == {pages[p].endpoint_set.canonical : p \in removed}

ReleasedBy(removed) == UNION {bindings(pages[p].endpoint_set) : p \in removed}

(* remove_page for every page of removed, then install_page(id, page). *)
ReplacePages(removed, id, page) ==
    /\ pages' = [p \in PageIds |->
                    IF p = id THEN page ELSE IF p \in removed THEN None ELSE pages[p]]
    /\ endpoint_page_ids' =
          [l \in Locators |->
              IF l \in bindings(page.endpoint_set) THEN id
              ELSE IF l \in ReleasedBy(removed) THEN None
              ELSE endpoint_page_ids[l]]

RemovePage(id) ==
    /\ pages' = [pages EXCEPT ![id] = None]
    /\ endpoint_page_ids' = [l \in Locators |->
                                IF l \in ReleasedBy({id}) THEN None
                                ELSE endpoint_page_ids[l]]

(* Mutant: the expected revision is not compared. *)
OwnedAt_any_revision(id, owner, expected_revision) ==
    pages[id] # None /\ owner # None /\ pages[id].owner = owner

(* The existing-page guards of update, duplicate and delete. *)
OwnedAt(id, owner, expected_revision) ==
    /\ pages[id] # None
    /\ owner # None /\ pages[id].owner = owner
    /\ pages[id].revision = expected_revision

(* Mutant: the stewardship of claimed pages is not looked at. *)
OnlyTrials_unchecked(ids) == TRUE

OnlyTrials(ids) == \A p \in ids : pages[p].owner = None

-----------------------------------------------------------------------------
(* Operations. *)

create_content_asset(a) ==
    /\ a \notin assets
    /\ assets' = assets \cup {a}
    /\ UNCHANGED <<pages, endpoint_page_ids>>

(* A first trial takes the generated id; a trial that already holds one of *)
(* the endpoints is replaced in place under its own id.                    *)
put_trial_page_aggregate(id, e, a) ==
    LET claimed == claimed_page_ids(e) IN
    /\ OnlyTrials(claimed)
    /\ a \in assets
    /\ \/ /\ claimed = {}
          /\ pages[id] = None
          /\ ReplacePages({}, id, TrialPage(e, a, 1))
       \/ \E existing \in claimed :
             /\ claimed = {existing}
             /\ RevisionAvailable(pages[existing])
             /\ ReplacePages({existing}, existing,
                             TrialPage(e, a, pages[existing].revision + 1))
    /\ UNCHANGED assets

(* A managed page retires every trial it overlaps, or is not created. *)
create_managed_page_aggregate(id, e, owner, access, a) ==
    /\ OnlyTrials(claimed_page_ids(e))
    /\ pages[id] = None
    /\ a \in assets
    /\ ReplacePages(claimed_page_ids(e), id, ManagedPage(e, owner, access, a))
    /\ UNCHANGED assets

(* Trials a new endpoint set displaces: none when the set stays. *)
Displaced(id, patch) ==
    IF patch.endpoint_set = None THEN {}
    ELSE claimed_page_ids(patch.endpoint_set) \ {id}

update_managed_page_aggregate(id, owner, expected_revision, patch) ==
    /\ OwnedAt(id, owner, expected_revision)
    /\ RevisionAvailable(pages[id])
    /\ patch.content_asset_id # None => patch.content_asset_id \in assets
    /\ OnlyTrials(Displaced(id, patch))
    /\ ReplacePages({id} \cup Displaced(id, patch), id, PatchedPage(pages[id], patch))
    /\ UNCHANGED assets

duplicate_managed_page_aggregate(source_id, owner, expected_revision, id, e) ==
    /\ OwnedAt(source_id, owner, expected_revision)
    /\ OnlyTrials(claimed_page_ids(e))
    /\ pages[id] = None
    /\ ReplacePages(claimed_page_ids(e), id, DuplicatePage(pages[source_id], e))
    /\ UNCHANGED assets

(* Revision-neutral observation, bound to the asset it was made on. *)
update_external_content_health(id, a, missing) ==
    /\ pages[id] # None
    /\ pages[id].content_asset_id = a
    /\ a \in assets \cap ExternalAssets
    /\ pages[id].external_missing # missing
    /\ pages' = [pages EXCEPT ![id].external_missing = missing]
    /\ UNCHANGED <<endpoint_page_ids, assets>>

delete_managed_page_aggregate(id, owner, expected_revision) ==
    /\ OwnedAt(id, owner, expected_revision)
    /\ RemovePage(id)
    /\ UNCHANGED assets

Next ==
    \/ \E a \in ContentAssets : create_content_asset(a)
    \/ \E id \in PageIds, e \in EndpointSet, a \in ContentAssets :
          put_trial_page_aggregate(id, e, a)
    \/ \E id \in PageIds, e \in EndpointSet, owner \in Owners,
          access \in {"public", "private"}, a \in ContentAssets :
          create_managed_page_aggregate(id, e, owner, access, a)
    \/ \E id \in PageIds, owner \in Owners, expected \in 1 .. MaxRevision, patch \in Patch :
          update_managed_page_aggregate(id, owner, expected, patch)
    \/ \E source, id \in PageIds, owner \in Owners, expected \in 1 .. MaxRevision,
          e \in EndpointSet :
          duplicate_managed_page_aggregate(source, owner, expected, id, e)
    \/ \E id \in PageIds, a \in ContentAssets, missing \in BOOLEAN :
          update_external_content_health(id, a, missing)
    \/ \E id \in PageIds, owner \in Owners, expected \in 1 .. MaxRevision :
          delete_managed_page_aggregate(id, owner, expected)

Spec == Init /\ [][Next]_vars

-----------------------------------------------------------------------------
(* Properties. *)

TypeOK ==
    /\ pages \in [PageIds -> PageAggregate \cup {None}]
    /\ endpoint_page_ids \in [Locators -> PageIds \cup {None}]
    /\ assets \in SUBSET ContentAssets

(* A locator is indexed to a page exactly when that page binds it, so no   *)
(* two pages share a locator and none of the repository's                  *)
(* "invariant violated" throws in resolve, install and remove can fire.    *)
EndpointIndexCoherent ==
    \A l \in Locators, p \in PageIds :
        endpoint_page_ids[l] = p <=>
            pages[p] # None /\ l \in bindings(pages[p].endpoint_set)

(* Whatever sequence of trial publications, claims, updates, duplications  *)
(* and health observations led here, a trial is public and unlocked, every *)
(* asset is stored, and only external content can be reported missing.     *)
StoredPagesValid ==
    \A p \in PageIds : pages[p] # None => ValidPage(pages[p], assets)

ManagedClaimsStay ==
    \A l \in Locators :
        LET holder == endpoint_page_ids[l] IN
        holder # None /\ pages[holder].owner # None =>
            endpoint_page_ids'[l] \in {holder, None}

(* What a mutation does to the page it keeps. *)
Mutated(old, new) ==
    /\ new.revision = old.revision + 1
    /\ new.owner = old.owner
    /\ new.content_asset_id # old.content_asset_id => ~new.external_missing

ChangesAreMutations ==
    \A p \in PageIds :
        pages[p] # None /\ pages'[p] # None /\ pages'[p] # pages[p] =>
            \/ pages'[p] = [pages[p] EXCEPT !.external_missing = ~@]
            \/ Mutated(pages[p], pages'[p])

VanishesAlone ==
    \A p \in PageIds :
        pages[p] # None /\ pages[p].owner # None /\ pages'[p] = None =>
            \A q \in PageIds \ {p} : pages'[q] = pages[q]

(* A locator of a managed page is never handed to another page in one      *)
(* step: a publisher can only take it after the owner has released it.     *)
ManagedClaimNeverTransferred == [][ManagedClaimsStay]_vars

(* A step that changes a page it keeps is one of two things: a health      *)
(* observation, which changes nothing else, or a mutation, which keeps the *)
(* stewardship and raises the revision by exactly one.  A page whose       *)
(* content was repointed starts healthy again.                             *)
OneMutationPerRevision == [][ChangesAreMutations]_vars

(* Only a trial can be retired by somebody else's operation: when a        *)
(* managed page disappears, that deletion is all that happened.            *)
ManagedPagesVanishAlone == [][VanishesAlone]_vars
=============================================================================
