-------------------------- MODULE PageStoreProofs --------------------------
(***************************************************************************)
(* Theorems about PageStore, for any sets of pages, locators, owners and   *)
(* assets, any revision limit and any coherent stored state to start from. *)
(* The three invariants are proved together: ReplacePages releases the     *)
(* locators its removed pages bind, which are the right ones only because  *)
(* the index is coherent.                                                  *)
(***************************************************************************)
EXTENDS PageStore, TLAPS

Inv == TypeOK /\ EndpointIndexCoherent /\ StoredPagesValid

(* What every step does besides keeping the invariant.                     *)
StepOK == ManagedClaimsStay /\ ChangesAreMutations /\ VanishesAlone

(* The bindings of an endpoint set are locators, and there is one.         *)
LEMMA BindingsType ==
    ASSUME NEW e \in EndpointSet
    PROVE  bindings(e) \subseteq Locators
  BY DEF EndpointSet, bindings

(* Removing pages and installing one over the locators they held keeps the *)
(* index coherent: #remove_page and #install_page.                         *)
LEMMA ReplaceKeepsIndex ==
    ASSUME TypeOK, EndpointIndexCoherent,
           NEW removed \in SUBSET PageIds, NEW id \in PageIds, NEW page \in PageAggregate,
           \A p \in removed : pages[p] # None,
           pages[id] = None \/ id \in removed,
           \A l \in bindings(page.endpoint_set) :
               endpoint_page_ids[l] \in removed \cup {None},
           ReplacePages(removed, id, page)
    PROVE  /\ pages' \in [PageIds -> PageAggregate \cup {None}]
           /\ endpoint_page_ids' \in [Locators -> PageIds \cup {None}]
           /\ EndpointIndexCoherent'
  <1> USE ConstantsAssumption
  <1>1. pages' \in [PageIds -> PageAggregate \cup {None}]
    BY DEF ReplacePages, TypeOK
  <1>2. endpoint_page_ids' \in [Locators -> PageIds \cup {None}]
    BY DEF ReplacePages, TypeOK
  <1>3. page # None
    OBVIOUS
  <1>4. ASSUME NEW l \in Locators, NEW p \in PageIds
        PROVE  endpoint_page_ids'[l] = p <=>
                   pages'[p] # None /\ l \in bindings(pages'[p].endpoint_set)
    <2> DEFINE held(q) == pages[q] # None /\ l \in bindings(pages[q].endpoint_set)
    <2>1. \A q \in PageIds : endpoint_page_ids[l] = q <=> held(q)
      BY DEF EndpointIndexCoherent
    <2>2. endpoint_page_ids[l] \in PageIds \cup {None}
      BY DEF TypeOK
    <2>3. pages'[p] = IF p = id THEN page ELSE IF p \in removed THEN None ELSE pages[p]
      BY DEF ReplacePages
    <2>4. endpoint_page_ids'[l] = IF l \in bindings(page.endpoint_set) THEN id
                                  ELSE IF l \in ReleasedBy(removed) THEN None
                                  ELSE endpoint_page_ids[l]
      BY DEF ReplacePages
    <2>5. l \in ReleasedBy(removed) <=> \E q \in removed : held(q)
      BY DEF ReleasedBy
    <2>6. CASE l \in bindings(page.endpoint_set)
      <3>1. p # id /\ p \notin removed => ~held(p)
        BY <2>1, <2>6
      <3> QED BY <1>3, <2>3, <2>4, <2>6, <3>1
    <2>7. CASE l \notin bindings(page.endpoint_set)
      <3>1. CASE l \in ReleasedBy(removed)
        <4>1. PICK q \in removed : held(q)
          BY <2>5, <3>1
        <4>2. endpoint_page_ids[l] = q
          BY <2>1, <4>1
        <4>3. p \notin removed => ~held(p)
          BY <2>1, <4>2
        <4> QED BY <2>3, <2>4, <2>7, <3>1, <4>3
      <3>2. CASE l \notin ReleasedBy(removed)
        <4>1. \A q \in removed : ~held(q)
          BY <2>5, <3>2
        <4>2. p \in removed => endpoint_page_ids[l] # p
          BY <2>1, <4>1
        <4>3. ~held(id)
          BY <4>1
        <4> QED BY <2>1, <2>3, <2>4, <2>7, <3>2, <4>2, <4>3
      <3> QED BY <3>1, <3>2
    <2> QED BY <2>6, <2>7
  <1> QED BY <1>1, <1>2, <1>4 DEF EndpointIndexCoherent

(* Every claimed page is stored, and holds only locators of the set.       *)
LEMMA ClaimedPages ==
    ASSUME TypeOK, EndpointIndexCoherent, NEW e \in EndpointSet
    PROVE  /\ claimed_page_ids(e) \in SUBSET PageIds
           /\ \A p \in claimed_page_ids(e) : pages[p] # None
           /\ \A l \in bindings(e) : endpoint_page_ids[l] \in claimed_page_ids(e) \cup {None}
  <1>1. bindings(e) \subseteq Locators
    BY BindingsType
  <1>2. claimed_page_ids(e) \in SUBSET PageIds
    BY <1>1 DEF claimed_page_ids, TypeOK
  <1>3. ASSUME NEW p \in claimed_page_ids(e) PROVE pages[p] # None
    <2>1. PICK l \in bindings(e) : endpoint_page_ids[l] = p
      BY DEF claimed_page_ids
    <2> QED BY <1>1, <1>2, <2>1 DEF EndpointIndexCoherent
  <1>4. \A l \in bindings(e) : endpoint_page_ids[l] \in claimed_page_ids(e) \cup {None}
    BY DEF claimed_page_ids
  <1> QED BY <1>2, <1>3, <1>4

-----------------------------------------------------------------------------
(* What each operation that installs a page hands to ReplacePages.         *)

LEMMA PatchedPageType ==
    ASSUME NEW page \in PageAggregate, RevisionAvailable(page), NEW patch \in Patch
    PROVE  PatchedPage(page, patch) \in PageAggregate
  BY ConstantsAssumption
  DEF PatchedPage, RevisionAfter, HealthAfter, RevisionAvailable, Or, Patch, PageAggregate

LEMMA DuplicatePageType ==
    ASSUME NEW page \in PageAggregate, NEW e \in EndpointSet
    PROVE  DuplicatePage(page, e) \in PageAggregate
  BY ConstantsAssumption DEF DuplicatePage, PageAggregate

LEMMA TrialPageType ==
    ASSUME NEW e \in EndpointSet, NEW a \in ContentAssets, NEW r \in 1 .. MaxRevision
    PROVE  TrialPage(e, a, r) \in PageAggregate
  BY DEF TrialPage, PageAggregate

(* ReplacePages of valid pages by a valid page leaves valid pages.         *)
LEMMA ReplaceKeepsValid ==
    ASSUME StoredPagesValid, UNCHANGED assets,
           NEW removed \in SUBSET PageIds, NEW id \in PageIds, NEW page \in PageAggregate,
           ValidPage(page, assets), ReplacePages(removed, id, page)
    PROVE  StoredPagesValid'
  <1> SUFFICES ASSUME NEW p \in PageIds, pages'[p] # None
               PROVE  ValidPage(pages'[p], assets')
    BY DEF StoredPagesValid
  <1>1. pages'[p] = IF p = id THEN page ELSE IF p \in removed THEN None ELSE pages[p]
    BY DEF ReplacePages
  <1>2. CASE p = id
    BY <1>1, <1>2
  <1>3. CASE p # id
    <2>1. pages'[p] = pages[p]
      BY <1>1, <1>3
    <2>2. ValidPage(pages[p], assets)
      BY <2>1 DEF StoredPagesValid
    <2> QED BY <2>1, <2>2
  <1> QED BY <1>2, <1>3

(* ReplacePages that removes other pages only if they are trials, and      *)
(* installs a mutation when the id is already stored, is a good step.      *)
LEMMA ReplaceStepOK ==
    ASSUME Inv,
           NEW removed \in SUBSET PageIds, NEW id \in PageIds, NEW page \in PageAggregate,
           pages[id] = None \/ Mutated(pages[id], page),
           OnlyTrials(removed \ {id}),
           \A l \in bindings(page.endpoint_set) :
               endpoint_page_ids[l] \in removed \cup {None},
           ReplacePages(removed, id, page)
    PROVE  StepOK
  <1>1. \A p \in PageIds :
           pages'[p] = IF p = id THEN page ELSE IF p \in removed THEN None ELSE pages[p]
    BY DEF ReplacePages
  <1>2. ManagedClaimsStay
    <2> SUFFICES ASSUME NEW l \in Locators, endpoint_page_ids[l] # None,
                        pages[endpoint_page_ids[l]].owner # None
                 PROVE  endpoint_page_ids'[l] \in {endpoint_page_ids[l], None}
      BY DEF ManagedClaimsStay
    <2>1. endpoint_page_ids'[l] = IF l \in bindings(page.endpoint_set) THEN id
                                  ELSE IF l \in ReleasedBy(removed) THEN None
                                  ELSE endpoint_page_ids[l]
      BY DEF ReplacePages
    <2>2. l \in bindings(page.endpoint_set) => endpoint_page_ids[l] = id
      BY DEF OnlyTrials
    <2> QED BY <2>1, <2>2
  <1>3. ChangesAreMutations
    BY <1>1 DEF ChangesAreMutations
  <1>4. VanishesAlone
    <2> SUFFICES ASSUME NEW p \in PageIds, pages[p] # None, pages[p].owner # None,
                        pages'[p] = None
                 PROVE  FALSE
      BY DEF VanishesAlone
    <2>1. p # id
      BY <1>1, ConstantsAssumption
    <2> QED BY <1>1, <2>1 DEF OnlyTrials
  <1> QED BY <1>2, <1>3, <1>4 DEF StepOK

(* The facts all ReplacePages steps share, from their common guards.       *)
LEMMA ReplaceStep ==
    ASSUME Inv, UNCHANGED assets,
           NEW removed \in SUBSET PageIds, NEW id \in PageIds, NEW page \in PageAggregate,
           \A p \in removed : pages[p] # None,
           OnlyTrials(removed \ {id}),
           pages[id] = None \/ (id \in removed /\ Mutated(pages[id], page)),
           \A l \in bindings(page.endpoint_set) :
               endpoint_page_ids[l] \in removed \cup {None},
           ValidPage(page, assets), ReplacePages(removed, id, page)
    PROVE  Inv' /\ StepOK
  <1>1. /\ pages' \in [PageIds -> PageAggregate \cup {None}]
        /\ endpoint_page_ids' \in [Locators -> PageIds \cup {None}]
        /\ EndpointIndexCoherent'
    BY ReplaceKeepsIndex DEF Inv
  <1>2. StoredPagesValid'
    BY ReplaceKeepsValid DEF Inv
  <1>3. StepOK
    BY ReplaceStepOK
  <1> QED BY <1>1, <1>2, <1>3 DEF Inv, TypeOK

-----------------------------------------------------------------------------
(* Every stored state an earlier process may have left is coherent.        *)
LEMMA InitInv == Init => Inv
  <1> SUFFICES ASSUME NEW s \in Seeds,
                      pages = s.pages, assets = s.assets,
                      endpoint_page_ids = [l \in Locators |-> HolderIn(s.pages, l)]
               PROVE  Inv
    BY DEF Init
  <1> USE ConstantsAssumption
  <1>1. /\ pages \in [PageIds -> PageAggregate \cup {None}]
        /\ assets \in SUBSET ContentAssets
        /\ OnePagePerLocator(pages)
        /\ StoredPagesValid
    BY SeedsAssumption DEF Store, StoredPagesValid
  <1> DEFINE holds(p, l) == pages[p] # None /\ l \in bindings(pages[p].endpoint_set)
  <1>2. ASSUME NEW l \in Locators, NEW p \in PageIds, NEW q \in PageIds,
               holds(p, l), holds(q, l)
        PROVE  p = q
    BY <1>1, <1>2 DEF OnePagePerLocator
  <1>3. ASSUME NEW l \in Locators
        PROVE  /\ endpoint_page_ids[l] \in PageIds \cup {None}
               /\ \A p \in PageIds : endpoint_page_ids[l] = p <=> holds(p, l)
    <2>1. endpoint_page_ids[l] = HolderIn(pages, l)
      OBVIOUS
    <2>2. CASE \E p \in PageIds : holds(p, l)
      <3>1. endpoint_page_ids[l] \in PageIds /\ holds(endpoint_page_ids[l], l)
        BY <2>1, <2>2 DEF HolderIn
      <3> QED BY <1>2, <3>1
    <2>3. CASE ~\E p \in PageIds : holds(p, l)
      <3>1. endpoint_page_ids[l] = None
        BY <2>1, <2>3 DEF HolderIn
      <3> QED BY <2>3, <3>1
    <2> QED BY <2>2, <2>3
  <1>4. endpoint_page_ids \in [Locators -> PageIds \cup {None}]
    BY <1>3
  <1> QED BY <1>1, <1>3, <1>4 DEF Inv, TypeOK, EndpointIndexCoherent

LEMMA TrialStep ==
    ASSUME Inv, NEW id \in PageIds, NEW e \in EndpointSet, NEW a \in ContentAssets,
           put_trial_page_aggregate(id, e, a)
    PROVE  Inv' /\ StepOK
  <1> USE ConstantsAssumption
  <1> DEFINE claimed == claimed_page_ids(e)
  <1>1. /\ claimed \in SUBSET PageIds
        /\ \A p \in claimed : pages[p] # None
        /\ \A l \in bindings(e) : endpoint_page_ids[l] \in claimed \cup {None}
    BY ClaimedPages DEF Inv
  <1>2. /\ OnlyTrials(claimed)
        /\ a \in assets
        /\ UNCHANGED assets
    BY DEF put_trial_page_aggregate
  <1>3. ASSUME NEW r \in 1 .. MaxRevision
        PROVE  /\ TrialPage(e, a, r) \in PageAggregate
               /\ TrialPage(e, a, r).endpoint_set = e
               /\ ValidPage(TrialPage(e, a, r), assets)
    BY <1>2, TrialPageType DEF TrialPage, ValidPage
  <1>4. CASE claimed = {} /\ pages[id] = None /\ ReplacePages({}, id, TrialPage(e, a, 1))
    <2>1. 1 \in 1 .. MaxRevision
      OBVIOUS
    <2> QED BY <1>1, <1>2, <1>3, <1>4, <2>1, ReplaceStep DEF OnlyTrials
  <1>5. ASSUME NEW old \in claimed, claimed = {old}, RevisionAvailable(pages[old]),
               ReplacePages({old}, old, TrialPage(e, a, pages[old].revision + 1))
        PROVE  Inv' /\ StepOK
    <2>1. pages[old] \in PageAggregate
      BY <1>1 DEF Inv, TypeOK
    <2>2. pages[old].revision + 1 \in 1 .. MaxRevision
      BY <1>5, <2>1 DEF PageAggregate, RevisionAvailable
    <2> DEFINE page == TrialPage(e, a, pages[old].revision + 1)
    <2>3. Mutated(pages[old], page)
      BY <1>2, <1>5 DEF Mutated, TrialPage, OnlyTrials
    <2>4. /\ page \in PageAggregate
          /\ page.endpoint_set = e
          /\ ValidPage(page, assets)
          /\ ReplacePages({old}, old, page)
      BY <1>3, <1>5, <2>2
    <2> HIDE DEF page
    <2> QED BY <1>1, <1>2, <1>5, <2>3, <2>4, ReplaceStep DEF OnlyTrials
  <1> QED BY <1>4, <1>5 DEF put_trial_page_aggregate

LEMMA CreateStep ==
    ASSUME Inv, NEW id \in PageIds, NEW e \in EndpointSet, NEW owner \in Owners,
           NEW access \in {"public", "private"}, NEW a \in ContentAssets,
           create_managed_page_aggregate(id, e, owner, access, a)
    PROVE  Inv' /\ StepOK
  <1> USE ConstantsAssumption
  <1> DEFINE page == ManagedPage(e, owner, access, a)
  <1>1. /\ claimed_page_ids(e) \in SUBSET PageIds
        /\ \A p \in claimed_page_ids(e) : pages[p] # None
        /\ \A l \in bindings(e) : endpoint_page_ids[l] \in claimed_page_ids(e) \cup {None}
    BY ClaimedPages DEF Inv
  <1>2. /\ pages[id] = None
        /\ OnlyTrials(claimed_page_ids(e))
        /\ a \in assets
        /\ UNCHANGED assets
        /\ ReplacePages(claimed_page_ids(e), id, page)
    BY DEF create_managed_page_aggregate
  <1>3. page \in PageAggregate /\ page.endpoint_set = e /\ ValidPage(page, assets)
    BY <1>2 DEF ManagedPage, PageAggregate, ValidPage
  <1> HIDE DEF page
  <1> QED BY <1>1, <1>2, <1>3, ReplaceStep DEF OnlyTrials

LEMMA UpdateStep ==
    ASSUME Inv, NEW id \in PageIds, NEW owner \in Owners, NEW expected \in 1 .. MaxRevision,
           NEW patch \in Patch,
           update_managed_page_aggregate(id, owner, expected, patch)
    PROVE  Inv' /\ StepOK
  <1> USE ConstantsAssumption
  <1> DEFINE page == PatchedPage(pages[id], patch)
             removed == {id} \cup Displaced(id, patch)
  <1>1. /\ OwnedAt(id, owner, expected)
        /\ RevisionAvailable(pages[id])
        /\ patch.content_asset_id # None => patch.content_asset_id \in assets
        /\ UNCHANGED assets
        /\ ReplacePages(removed, id, page)
    BY DEF update_managed_page_aggregate
  <1>2. pages[id] \in PageAggregate /\ pages[id].owner # None /\ ValidPage(pages[id], assets)
    BY <1>1 DEF OwnedAt, Inv, TypeOK, StoredPagesValid
  <1>3. page \in PageAggregate
    BY <1>1, <1>2, PatchedPageType
  <1>4. ValidPage(page, assets)
    BY <1>1, <1>2 DEF ValidPage, PatchedPage, HealthAfter, Or
  <1>5. /\ removed \in SUBSET PageIds
        /\ \A p \in removed : pages[p] # None
        /\ \A l \in bindings(page.endpoint_set) : endpoint_page_ids[l] \in removed \cup {None}
    <2>1. pages[id] # None
      BY <1>1 DEF OwnedAt
    <2>2. CASE patch.endpoint_set = None
      <3>1. page.endpoint_set = pages[id].endpoint_set
        BY <2>2 DEF PatchedPage, Or
      <3>2. bindings(page.endpoint_set) \subseteq Locators
        BY <1>2, <3>1, BindingsType DEF PageAggregate
      <3>3. \A l \in bindings(page.endpoint_set) : endpoint_page_ids[l] = id
        BY <2>1, <3>1, <3>2 DEF Inv, EndpointIndexCoherent
      <3> QED BY <2>1, <2>2, <3>3 DEF Displaced
    <2>3. CASE patch.endpoint_set # None
      <3>1. patch.endpoint_set \in EndpointSet /\ page.endpoint_set = patch.endpoint_set
        BY <2>3 DEF PatchedPage, Or, Patch
      <3>2. /\ claimed_page_ids(patch.endpoint_set) \in SUBSET PageIds
            /\ \A p \in claimed_page_ids(patch.endpoint_set) : pages[p] # None
            /\ \A l \in bindings(patch.endpoint_set) :
                   endpoint_page_ids[l] \in claimed_page_ids(patch.endpoint_set) \cup {None}
        BY <3>1, ClaimedPages DEF Inv
      <3> QED BY <2>1, <2>3, <3>1, <3>2 DEF Displaced
    <2> QED BY <2>2, <2>3
  <1>6. id \in removed /\ OnlyTrials(removed \ {id})
    BY DEF update_managed_page_aggregate, OnlyTrials
  <1>7. Mutated(pages[id], page)
    BY DEF Mutated, PatchedPage, RevisionAfter, HealthAfter, Or
  <1> HIDE DEF page, removed
  <1> QED BY <1>1, <1>3, <1>4, <1>5, <1>6, <1>7, ReplaceStep

LEMMA DuplicateStep ==
    ASSUME Inv, NEW source \in PageIds, NEW owner \in Owners,
           NEW expected \in 1 .. MaxRevision, NEW id \in PageIds, NEW e \in EndpointSet,
           duplicate_managed_page_aggregate(source, owner, expected, id, e)
    PROVE  Inv' /\ StepOK
  <1> USE ConstantsAssumption
  <1> DEFINE page == DuplicatePage(pages[source], e)
  <1>1. /\ claimed_page_ids(e) \in SUBSET PageIds
        /\ \A p \in claimed_page_ids(e) : pages[p] # None
        /\ \A l \in bindings(e) : endpoint_page_ids[l] \in claimed_page_ids(e) \cup {None}
    BY ClaimedPages DEF Inv
  <1>2. /\ OwnedAt(source, owner, expected)
        /\ pages[id] = None
        /\ OnlyTrials(claimed_page_ids(e))
        /\ UNCHANGED assets
        /\ ReplacePages(claimed_page_ids(e), id, page)
    BY DEF duplicate_managed_page_aggregate
  <1>3. pages[source] \in PageAggregate /\ ValidPage(pages[source], assets)
    BY <1>2 DEF OwnedAt, Inv, TypeOK, StoredPagesValid
  <1>4. page \in PageAggregate
    BY <1>3, DuplicatePageType
  <1>5. page.endpoint_set = e /\ ValidPage(page, assets)
    BY <1>3 DEF DuplicatePage, ValidPage
  <1> HIDE DEF page
  <1> QED BY <1>1, <1>2, <1>4, <1>5, ReplaceStep DEF OnlyTrials

LEMMA HealthStep ==
    ASSUME Inv, NEW id \in PageIds, NEW a \in ContentAssets, NEW missing \in BOOLEAN,
           update_external_content_health(id, a, missing)
    PROVE  Inv' /\ StepOK
  <1>1. /\ pages[id] # None
        /\ pages[id].content_asset_id = a
        /\ a \in ExternalAssets
        /\ pages' = [pages EXCEPT ![id].external_missing = missing]
        /\ endpoint_page_ids' = endpoint_page_ids
        /\ assets' = assets
    BY DEF update_external_content_health
  <1> DEFINE page == [pages[id] EXCEPT !.external_missing = missing]
  <1>2. pages' = [pages EXCEPT ![id] = page]
    BY <1>1
  <1>3. pages[id] \in PageAggregate /\ ValidPage(pages[id], assets)
    BY <1>1 DEF Inv, TypeOK, StoredPagesValid
  <1>4. /\ page \in PageAggregate
        /\ page.endpoint_set = pages[id].endpoint_set
        /\ ValidPage(page, assets)
    BY <1>1, <1>3 DEF PageAggregate, ValidPage
  <1>5. page # None
    BY <1>4, ConstantsAssumption
  <1>6. pages[id].external_missing # missing
    BY DEF update_external_content_health
  <1>7. page = [pages[id] EXCEPT !.external_missing = ~@]
    BY <1>3, <1>6 DEF PageAggregate
  <1> HIDE DEF page
  <1>8. \A p \in PageIds : pages'[p] = IF p = id THEN page ELSE pages[p]
    BY <1>2 DEF Inv, TypeOK
  <1>9. TypeOK'
    BY <1>1, <1>2, <1>4 DEF Inv, TypeOK
  <1>10. EndpointIndexCoherent'
    BY <1>1, <1>4, <1>5, <1>8 DEF Inv, EndpointIndexCoherent
  <1>11. StoredPagesValid'
    BY <1>1, <1>4, <1>8 DEF Inv, StoredPagesValid
  <1>12. StepOK
    <2>1. ManagedClaimsStay
      BY <1>1 DEF ManagedClaimsStay
    <2>2. ChangesAreMutations
      BY <1>7, <1>8 DEF ChangesAreMutations
    <2>3. VanishesAlone
      BY <1>5, <1>8 DEF VanishesAlone
    <2> QED BY <2>1, <2>2, <2>3 DEF StepOK
  <1> QED BY <1>9, <1>10, <1>11, <1>12 DEF Inv

LEMMA DeleteStep ==
    ASSUME Inv, NEW id \in PageIds, NEW owner \in Owners, NEW expected \in 1 .. MaxRevision,
           delete_managed_page_aggregate(id, owner, expected)
    PROVE  Inv' /\ StepOK
  <1> USE ConstantsAssumption
  <1>1. /\ pages[id] # None
        /\ assets' = assets
        /\ pages' = [pages EXCEPT ![id] = None]
        /\ endpoint_page_ids' = [l \in Locators |-> IF l \in bindings(pages[id].endpoint_set)
                                                    THEN None ELSE endpoint_page_ids[l]]
    BY DEF delete_managed_page_aggregate, OwnedAt, RemovePage, ReleasedBy
  <1>2. \A p \in PageIds : pages'[p] = IF p = id THEN None ELSE pages[p]
    BY <1>1 DEF Inv, TypeOK
  <1>3. TypeOK'
    BY <1>1 DEF Inv, TypeOK
  <1>4. EndpointIndexCoherent'
    BY <1>1, <1>2 DEF Inv, EndpointIndexCoherent
  <1>5. StoredPagesValid'
    BY <1>1, <1>2 DEF Inv, StoredPagesValid
  <1>6. StepOK
    BY <1>1, <1>2 DEF StepOK, ManagedClaimsStay, ChangesAreMutations, VanishesAlone
  <1> QED BY <1>3, <1>4, <1>5, <1>6 DEF Inv

LEMMA AssetStep ==
    ASSUME Inv, NEW a \in ContentAssets, create_content_asset(a)
    PROVE  Inv' /\ StepOK
  <1>1. /\ pages' = pages /\ endpoint_page_ids' = endpoint_page_ids
        /\ assets' = assets \cup {a}
    BY DEF create_content_asset
  <1>2. Inv'
    BY <1>1 DEF Inv, TypeOK, EndpointIndexCoherent, StoredPagesValid, ValidPage
  <1>3. StepOK
    BY <1>1 DEF StepOK, ManagedClaimsStay, ChangesAreMutations, VanishesAlone
  <1> QED BY <1>2, <1>3

LEMMA NextStep == Inv /\ Next => Inv' /\ StepOK
  BY TrialStep, CreateStep, UpdateStep, DuplicateStep, HealthStep, DeleteStep, AssetStep DEF Next

LEMMA Stutter == Inv /\ UNCHANGED vars => Inv'
  BY DEF vars, Inv, TypeOK, EndpointIndexCoherent, StoredPagesValid, ValidPage

LEMMA InvHolds == Spec => []Inv
  <1>1. Inv /\ [Next]_vars => Inv'
    BY NextStep, Stutter
  <1> QED BY <1>1, InitInv, PTL DEF Spec

-----------------------------------------------------------------------------
(* Every variable keeps its type, whatever is stored at the start.         *)
THEOREM TypeCorrect == Spec => []TypeOK
  <1>1. Inv => TypeOK
    BY DEF Inv
  <1> QED BY <1>1, InvHolds, PTL

(* Resolution never meets a dangling, missing or double claim, so the      *)
(* repository's "invariant violated" throws are unreachable.               *)
THEOREM IndexIsCoherent == Spec => []EndpointIndexCoherent
  <1>1. Inv => EndpointIndexCoherent
    BY DEF Inv
  <1> QED BY <1>1, InvHolds, PTL

(* Trials stay public and unlocked, assets stay present, and only external *)
(* content is ever reported missing.                                       *)
THEOREM PagesStayValid == Spec => []StoredPagesValid
  <1>1. Inv => StoredPagesValid
    BY DEF Inv
  <1> QED BY <1>1, InvHolds, PTL

(* No operation hands a managed page's locator to another page.            *)
THEOREM ManagedClaimsAreKept == Spec => ManagedClaimNeverTransferred
  <1>1. Inv /\ [Next]_vars => [ManagedClaimsStay]_vars
    BY NextStep DEF StepOK
  <1> QED BY <1>1, InvHolds, PTL DEF Spec, ManagedClaimNeverTransferred

(* Surviving pages change by health observations and by single revisions.  *)
THEOREM RevisionsCountMutations == Spec => OneMutationPerRevision
  <1>1. Inv /\ [Next]_vars => [ChangesAreMutations]_vars
    BY NextStep DEF StepOK
  <1> QED BY <1>1, InvHolds, PTL DEF Spec, OneMutationPerRevision

(* A managed page disappears only by its own deletion.                     *)
THEOREM ManagedPagesAreOnlyDeleted == Spec => ManagedPagesVanishAlone
  <1>1. Inv /\ [Next]_vars => [VanishesAlone]_vars
    BY NextStep DEF StepOK
  <1> QED BY <1>1, InvHolds, PTL DEF Spec, ManagedPagesVanishAlone
=============================================================================
