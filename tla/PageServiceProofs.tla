-------------------------- MODULE PageServiceProofs --------------------------
(***************************************************************************)
(* Theorems about PageService, for any number of concurrent requests, any  *)
(* scenario, any pages, namespaces and assets, and any number of attempts. *)
(*                                                                         *)
(* A call decides on a page it read several awaits ago.  What makes its    *)
(* decision still good at its commit is the inductive invariant: while the *)
(* stored page has the revision of the page read, it is the page read      *)
(* (Current), ids are never used again, reservations are for good          *)
(* (Owned, Cleared), and a source seen lost was never intact again.        *)
(***************************************************************************)
EXTENDS PageService, SequenceTheorems, FiniteSetTheorems, TLAPS

Proved == INSTANCE PageStoreProofs

-----------------------------------------------------------------------------
(* The inductive invariant. *)

Creating == {"publish_trial", "create_managed"}
Selecting == {"update", "relink", "rename", "duplicate", "delete"}
Working == {"authority", "upload", "fetch candidate", "stage", "commit"}
Delivering == {"resolve", "fetch", "record missing", "record found"}

(* The calls that can come.                                                *)
Asked == Request \cap UNION {s.requests : s \in Scenarios}

Frame ==
    [at : Places, req : Asked \cup {None}, left : Seq(PageIds \X (1 .. MaxRevision)),
     page_id : PageIds \cup {None}, expected : 0 .. MaxRevision,
     page : PageAggregate \cup {None}, todo : Seq(Places), unread : SUBSET Namespaces,
     asset : ContentAssets \cup {None}, attempt : 0 .. max_page_id_attempts - 1,
     names : SUBSET PageNames, copy : EndpointSet \cup {None}]

(* What is left of a course at each await. *)
Suffixes(req) ==
    CASE req.kind \in Creating ->
           {<<"authority", "stage", "commit">>, <<"authority", "upload", "stage", "commit">>,
            <<"upload", "stage", "commit">>, <<"stage", "commit">>, <<"commit">>}
      [] req.kind = "update" /\ EndpointsOf(req) # None ->
           {<<"authority", "commit">>, <<"authority", "stage", "commit">>,
            <<"upload", "authority", "stage", "commit">>, <<"stage", "commit">>, <<"commit">>}
      [] req.kind = "update" /\ EndpointsOf(req) = None ->
           {<<"commit">>, <<"stage", "commit">>, <<"upload", "stage", "commit">>}
      [] req.kind = "relink" ->
           {<<"fetch candidate", "stage", "commit">>, <<"stage", "commit">>, <<"commit">>}
      [] req.kind = "duplicate" /\ EndpointsOf(req) # None ->
           {<<"authority", "commit">>, <<"commit">>}
      [] OTHER -> {<<"commit">>}

OnCourse(f) ==
    \/ f.at \in {"page", "page authority"} /\ f.req.kind \in Selecting
    \/ f.at \in Delivering /\ f.req.kind = "deliver" /\ f.todo = <<>>
    \/ /\ f.at \in Working /\ f.req.kind \in Creating \cup Selecting
       /\ \E s \in Suffixes(f.req) : f.at = Head(s) /\ f.todo = Tail(s)

OwnedBy(actor, namespaces) == \A n \in namespaces : reservations[n] = actor

Owned(page) == page.owner # None => OwnedBy(page.owner, NamespacesOf(page.endpoint_set))

(* The namespaces asked for are the actor's as far as they have been read. *)
Cleared(f) ==
    f.req.actor # None /\ EndpointsOf(f.req) # None
    /\ f.at \in Working /\ f.todo # <<"authority", "stage", "commit">>
    => OwnedBy(f.req.actor, NamespacesOf(EndpointsOf(f.req)) \ f.unread)

(* A stored page whose revision is the one read is the page read, up to    *)
(* the health observed since.                                              *)
Current(id, page) ==
    \/ pages[id] = None
    \/ pages[id].revision > page.revision
    \/ pages[id] = [page EXCEPT !.external_missing = pages[id].external_missing]

(* What a call knows of the page it read. *)
PageRead(f) ==
    /\ f.page \in PageAggregate
    /\ f.page_id \in drawn
    /\ Owned(f.page)
    /\ Current(f.page_id, f.page)

CommandOK(f) ==
    /\ f.at = "page authority" \/ f.at \in Working =>
          PageRead(f) /\ f.page.owner = f.req.actor
    /\ f.at \in Working => ~Refused(f)
    /\ f.copy # None => OwnedBy(f.req.actor, NamespacesOf(f.copy))
    /\ f.req.kind = "relink" /\ f.at = "commit" =>
          f.asset \in ExternalAssets /\ digest[f.asset] = digest[f.page.content_asset_id]

DeliveryOK(f) ==
    /\ f.at \in {"fetch", "record missing", "record found"} =>
          PageRead(f) /\ f.page.content_asset_id \in ExternalAssets
    /\ f.at = "record missing" => source[f.page.content_asset_id] # "intact"

(* The names tried for a copy so far are fewer than the limit, and the one *)
(* an id is being drawn for is not among them.                             *)
NamesOK(f) ==
    /\ Cardinality(f.names) < max_page_name_attempts
    /\ f.copy # None /\ EndpointsOf(f.req) = None => f.copy.canonical[2] \notin f.names

FrameOK(f) ==
    /\ f \in Frame
    /\ NamesOK(f)
    /\ f.at # "idle" =>
          /\ f.req \in Asked /\ ~protection_requires_session(f.req)
          /\ OnCourse(f)
          /\ f.at # "authority" => f.unread = {}
          /\ Cleared(f)
          /\ f.req.kind \in Selecting => f.page_id \in PageIds /\ CommandOK(f)
          /\ f.req.kind \notin Selecting => f.left = <<>>
          /\ f.req.kind = "deliver" => DeliveryOK(f)

StoreInv == Repository!TypeOK /\ Repository!EndpointIndexCoherent /\ Repository!StoredPagesValid

WorldInv ==
    /\ reservations \in [Namespaces -> Owners \cup {None}]
    /\ source \in [ExternalAssets -> {"intact", "lost", "restored"}]
    /\ drawn \in SUBSET PageIds
    /\ \A p \in PageIds : pages[p] # None => p \in drawn /\ Owned(pages[p])
    /\ HealthIsOfThisContent

CallsInv ==
    /\ requests \in SUBSET Asked
    /\ client \in [Clients -> Frame]
    /\ \A c \in Clients : FrameOK(client[c])

Inv == StoreInv /\ WorldInv /\ CallsInv

-----------------------------------------------------------------------------
(* Requests and courses. *)

(* Sequences written out, put together.                                    *)
LEMMA Concatenations ==
    /\ <<>> \o <<>> = <<>>
    /\ \A x : <<>> \o <<x>> = <<x>> /\ <<x>> \o <<>> = <<x>>
    /\ \A x, y : <<x>> \o <<y>> = <<x, y>>
    /\ \A x, y, z : <<x, y>> \o <<z>> = <<x, y, z>>
    /\ \A x, y, z, w : <<x, y, z>> \o <<w>> = <<x, y, z, w>>
  <1>1. ASSUME NEW x PROVE <<>> \o <<x>> = <<x>> /\ <<x>> \o <<>> = <<x>>
    <2>1. <<x>> \in Seq({x})
      OBVIOUS
    <2> QED BY <2>1, ConcatEmptySeq
  <1>2. ASSUME NEW x, NEW y PROVE <<x>> \o <<y>> = <<x, y>>
    <2> DEFINE s == <<x>> \o <<y>>
    <2>1. s \in Seq({x, y}) /\ <<x, y>> \in Seq({x, y}) /\ Len(s) = 2 /\ Len(<<x, y>>) = 2
      OBVIOUS
    <2>2. s[1] = x /\ s[2] = y
      OBVIOUS
    <2>3. \A i \in 1 .. 2 : i = 1 \/ i = 2
      OBVIOUS
    <2>4. \A i \in 1 .. 2 : s[i] = <<x, y>>[i]
      BY <2>2, <2>3
    <2> QED BY <2>1, <2>4, SeqEqual
  <1>3. ASSUME NEW x, NEW y, NEW z PROVE <<x, y>> \o <<z>> = <<x, y, z>>
    <2> DEFINE s == <<x, y>> \o <<z>>
    <2>1. /\ s \in Seq({x, y, z}) /\ <<x, y, z>> \in Seq({x, y, z})
          /\ Len(s) = 3 /\ Len(<<x, y, z>>) = 3
      OBVIOUS
    <2>2. s[1] = x /\ s[2] = y /\ s[3] = z
      OBVIOUS
    <2>3. \A i \in 1 .. 3 : i = 1 \/ i = 2 \/ i = 3
      OBVIOUS
    <2>4. \A i \in 1 .. 3 : s[i] = <<x, y, z>>[i]
      BY <2>2, <2>3
    <2> QED BY <2>1, <2>4, SeqEqual
  <1>4. ASSUME NEW x, NEW y, NEW z, NEW w PROVE <<x, y, z>> \o <<w>> = <<x, y, z, w>>
    <2> DEFINE s == <<x, y, z>> \o <<w>>
    <2>1. /\ s \in Seq({x, y, z, w}) /\ <<x, y, z, w>> \in Seq({x, y, z, w})
          /\ Len(s) = 4 /\ Len(<<x, y, z, w>>) = 4
      OBVIOUS
    <2>2. s[1] = x /\ s[2] = y /\ s[3] = z /\ s[4] = w
      OBVIOUS
    <2>3. \A i \in 1 .. 4 : i = 1 \/ i = 2 \/ i = 3 \/ i = 4
      OBVIOUS
    <2>4. \A i \in 1 .. 4 : s[i] = <<x, y, z, w>>[i]
      BY <2>2, <2>3
    <2> QED BY <2>1, <2>4, SeqEqual
  <1>5. <<>> \o <<>> = <<>>
    OBVIOUS
  <1> QED BY <1>1, <1>2, <1>3, <1>4, <1>5

(* The sums the courses are made of.                                       *)
LEMMA CourseSums ==
    /\ <<>> \o <<>> = <<>>
    /\ <<>> \o <<"authority">> = <<"authority">> /\ <<"authority">> \o <<>> = <<"authority">>
    /\ <<>> \o <<"stage">> = <<"stage">> /\ <<>> \o <<"commit">> = <<"commit">>
    /\ <<"upload">> \o <<>> = <<"upload">>
    /\ <<"authority">> \o <<"upload">> = <<"authority", "upload">>
    /\ <<"upload">> \o <<"authority">> = <<"upload", "authority">>
    /\ <<"authority">> \o <<"stage">> = <<"authority", "stage">>
    /\ <<"upload">> \o <<"stage">> = <<"upload", "stage">>
    /\ <<"authority">> \o <<"commit">> = <<"authority", "commit">>
    /\ <<"stage">> \o <<"commit">> = <<"stage", "commit">>
    /\ <<"authority", "upload">> \o <<"stage">> = <<"authority", "upload", "stage">>
    /\ <<"upload", "authority">> \o <<"stage">> = <<"upload", "authority", "stage">>
    /\ <<"authority", "stage">> \o <<"commit">> = <<"authority", "stage", "commit">>
    /\ <<"upload", "stage">> \o <<"commit">> = <<"upload", "stage", "commit">>
    /\ <<"authority", "upload", "stage">> \o <<"commit">> =
           <<"authority", "upload", "stage", "commit">>
    /\ <<"upload", "authority", "stage">> \o <<"commit">> =
           <<"upload", "authority", "stage", "commit">>
  BY Concatenations

(* What each kind of request asks for. *)
LEMMA RequestFields ==
    ASSUME NEW req \in Asked
    PROVE  /\ req.kind \in Creating \cup Selecting \cup {"deliver"}
           /\ "selection" \in DOMAIN req <=> req.kind \in Selecting
           /\ req.kind \in Creating =>
                 EndpointsOf(req) = req.endpoint_set /\ req.endpoint_set \in EndpointSet
           /\ req.kind = "publish_trial" => req.actor = None
           /\ req.kind = "create_managed" =>
                 req.actor \in Owners /\ req.access \in {"public", "private"}
           /\ req.kind = "update" =>
                 /\ EndpointsOf(req) = req.endpoint_set
                 /\ req.access \in {"public", "private", None}
                 /\ req.block_api_write \in BOOLEAN \cup {None}
           /\ req.kind \in {"update", "duplicate"} => EndpointsOf(req) \in EndpointSet \cup {None}
           /\ EndpointsOf(req) # None => EndpointsOf(req) = req.endpoint_set
           /\ req.kind \in {"relink", "rename", "delete"} => EndpointsOf(req) = None
           /\ req.kind = "rename" => req.page_name \in PageNames
           /\ req.kind = "relink" => req.content = "external"
           /\ req.kind = "deliver" => req.locator \in Locators
           /\ req.kind \in Selecting =>
                 /\ req.actor \in Owners /\ req.via_api_key \in BOOLEAN
                 /\ req.selection \in Seq(PageIds \X (1 .. MaxRevision))
  BY DEF Request, Asked, EndpointsOf, Creating, Selecting, Access

(* The awaits of each command, written out.                                *)
LEMMA Courses ==
    ASSUME NEW req \in Asked, req.kind # "deliver"
    PROVE  /\ req.kind \in Creating =>
                 Course(req) \in {<<"authority", "stage", "commit">>,
                                  <<"authority", "upload", "stage", "commit">>}
           /\ req.kind = "update" /\ EndpointsOf(req) # None =>
                 Course(req) \in {<<"authority", "commit">>, <<"authority", "stage", "commit">>,
                                  <<"upload", "authority", "stage", "commit">>}
           /\ req.kind = "update" /\ EndpointsOf(req) = None =>
                 Course(req) \in {<<"commit">>, <<"stage", "commit">>,
                                  <<"upload", "stage", "commit">>}
           /\ req.kind = "relink" => Course(req) = <<"fetch candidate", "stage", "commit">>
           /\ req.kind = "duplicate" =>
                 Course(req) = IF EndpointsOf(req) = None THEN <<"commit">>
                               ELSE <<"authority", "commit">>
           /\ req.kind \in {"rename", "delete"} => Course(req) = <<"commit">>
  <1> DEFINE authority == When(EndpointsOf(req) # None, "authority")
             upload == When("content" \in DOMAIN req /\ req.content = "external", "upload")
             stage == When("content" \in DOMAIN req /\ req.content # None, "stage")
  <1>1. /\ EndpointsOf(req) # None => authority = <<"authority">>
        /\ EndpointsOf(req) = None => authority = <<>>
        /\ upload \in {<<>>, <<"upload">>}
        /\ stage \in {<<>>, <<"stage">>}
    BY DEF When
  <1>2. CASE req.kind \in Creating
    <2>1. EndpointsOf(req) # None /\ stage = <<"stage">>
      BY <1>2, ServiceAssumption DEF Request, Asked, EndpointsOf, Creating, When
    <2>2. Course(req) = authority \o upload \o stage \o <<"commit">>
      BY <1>2 DEF Course, Creating
    <2> HIDE DEF authority, upload, stage
    <2>3. Course(req) = <<"authority">> \o upload \o <<"stage">> \o <<"commit">>
      BY <1>1, <2>1, <2>2
    <2>4. Course(req) \in {<<"authority", "stage", "commit">>,
                          <<"authority", "upload", "stage", "commit">>}
      <3>1. CASE upload = <<>>
        BY <2>3, <3>1, CourseSums
      <3>2. CASE upload = <<"upload">>
        BY <2>3, <3>2, CourseSums
      <3> QED BY <1>1, <3>1, <3>2
    <2> QED BY <1>2, <2>4 DEF Creating
  <1>3. CASE req.kind = "update"
    <2>1. upload = <<"upload">> => stage = <<"stage">>
      BY <1>3, ServiceAssumption DEF Request, Asked, When
    <2>2. Course(req) = upload \o authority \o stage \o <<"commit">>
      BY <1>3 DEF Course
    <2> HIDE DEF authority, upload, stage
    <2>3. CASE EndpointsOf(req) # None
      <3>1. Course(req) = upload \o <<"authority">> \o stage \o <<"commit">>
        BY <1>1, <2>2, <2>3
      <3>2. CASE upload = <<>> /\ stage = <<>>
        BY <1>3, <2>3, <3>1, <3>2, CourseSums DEF Creating
      <3>3. CASE upload = <<>> /\ stage = <<"stage">>
        BY <1>3, <2>3, <3>1, <3>3, CourseSums DEF Creating
      <3>4. CASE upload = <<"upload">> /\ stage = <<"stage">>
        BY <1>3, <2>3, <3>1, <3>4, CourseSums DEF Creating
      <3> QED BY <1>1, <2>1, <3>2, <3>3, <3>4
    <2>4. CASE EndpointsOf(req) = None
      <3>1. Course(req) = upload \o <<>> \o stage \o <<"commit">>
        BY <1>1, <2>2, <2>4
      <3>2. CASE upload = <<>> /\ stage = <<>>
        BY <1>3, <2>4, <3>1, <3>2, CourseSums DEF Creating
      <3>3. CASE upload = <<>> /\ stage = <<"stage">>
        BY <1>3, <2>4, <3>1, <3>3, CourseSums DEF Creating
      <3>4. CASE upload = <<"upload">> /\ stage = <<"stage">>
        BY <1>3, <2>4, <3>1, <3>4, CourseSums DEF Creating
      <3> QED BY <1>1, <2>1, <3>2, <3>3, <3>4
    <2> QED BY <2>3, <2>4
  <1>4. CASE req.kind = "duplicate"
    <2>1. Course(req) = authority \o <<"commit">>
      BY <1>4 DEF Course
    <2> HIDE DEF authority
    <2> QED BY <1>1, <1>4, <2>1, CourseSums DEF Creating
  <1>5. CASE req.kind \in {"relink", "rename", "delete"}
    BY <1>5 DEF Course, Creating
  <1>6. req.kind \in Creating \cup Selecting
    BY RequestFields
  <1> QED BY <1>2, <1>3, <1>4, <1>5, <1>6 DEF Selecting

-----------------------------------------------------------------------------
(* What is proved of PageStore, for the store of the service.              *)

StoreStepOK ==
    Repository!ManagedClaimsStay /\ Repository!ChangesAreMutations /\ Repository!VanishesAlone

(* The instances of the contract and of its proofs speak of the same pages. *)
LEMMA SamePages ==
    /\ Proved!Store = Store /\ Proved!PageAggregate = PageAggregate
    /\ Proved!EndpointSet = EndpointSet /\ Proved!Patch = Patch
    /\ Repository!PageAggregate = PageAggregate
    /\ Repository!EndpointSet = EndpointSet /\ Repository!Patch = Patch
    /\ \A e : Repository!bindings(e) = bindings(e) /\ Proved!bindings(e) = bindings(e)
    /\ \A page, stored : /\ Repository!ValidPage(page, stored) <=> ValidPage(page, stored)
                         /\ Proved!ValidPage(page, stored) <=> ValidPage(page, stored)
    /\ \A map : Proved!OnePagePerLocator(map) <=> OnePagePerLocator(map)
    /\ \A map, l : Repository!HolderIn(map, l) = Proved!HolderIn(map, l)
  BY DEF Proved!EndpointSet, Repository!EndpointSet, EndpointSet,
         Proved!PageAggregate, Repository!PageAggregate, PageAggregate,
         Proved!Patch, Repository!Patch, Patch, Proved!Store, Store,
         Proved!bindings, Repository!bindings, bindings,
         Proved!ValidPage, Repository!ValidPage, ValidPage,
         Proved!OnePagePerLocator, OnePagePerLocator, Proved!HolderIn, Repository!HolderIn

(* The store's invariant, read through this module's instance of           *)
(* PageStore, is the one PageStoreProofs proves.                           *)
LEMMA SameInvariant == StoreInv <=> Proved!Inv
  BY SamePages
  DEF StoreInv, Proved!Inv, Repository!TypeOK, Proved!TypeOK,
      Repository!EndpointIndexCoherent, Proved!EndpointIndexCoherent,
      Repository!StoredPagesValid, Proved!StoredPagesValid

(* The helpers of the repository contract mean the same through the        *)
(* instance the service uses and through the one the proofs are about.     *)
LEMMA SameHelpers ==
    /\ \A e : Repository!claimed_page_ids(e) = Proved!claimed_page_ids(e)
    /\ \A removed : Repository!ReleasedBy(removed) = Proved!ReleasedBy(removed)
    /\ \A removed, id, page : Repository!ReplacePages(removed, id, page)
                                 => Proved!ReplacePages(removed, id, page)
    /\ \A ids : Repository!OnlyTrials(ids) <=> Proved!OnlyTrials(ids)
    /\ \A id, owner, r : Repository!OwnedAt(id, owner, r) <=> Proved!OwnedAt(id, owner, r)
    /\ \A page : Repository!RevisionAvailable(page) <=> Proved!RevisionAvailable(page)
    /\ \A e, a, r : Repository!TrialPage(e, a, r) = Proved!TrialPage(e, a, r)
    /\ \A e, owner, access, a : Repository!ManagedPage(e, owner, access, a)
                                   = Proved!ManagedPage(e, owner, access, a)
    /\ \A page, patch : Repository!PatchedPage(page, patch) = Proved!PatchedPage(page, patch)
    /\ \A page, e : Repository!DuplicatePage(page, e) = Proved!DuplicatePage(page, e)
    /\ \A id, patch : Repository!Displaced(id, patch) = Proved!Displaced(id, patch)
  <1>1. \A e : Repository!claimed_page_ids(e) = Proved!claimed_page_ids(e)
    BY SamePages DEF Repository!claimed_page_ids, Proved!claimed_page_ids
  <1>2. \A removed : Repository!ReleasedBy(removed) = Proved!ReleasedBy(removed)
    BY SamePages DEF Repository!ReleasedBy, Proved!ReleasedBy
  <1>3. \A removed, id, page : Repository!ReplacePages(removed, id, page)
                                  => Proved!ReplacePages(removed, id, page)
    BY <1>2, SamePages DEF Repository!ReplacePages, Proved!ReplacePages
  <1>4. \A ids : Repository!OnlyTrials(ids) <=> Proved!OnlyTrials(ids)
    BY DEF Repository!OnlyTrials, Proved!OnlyTrials
  <1>5. \A id, owner, r : Repository!OwnedAt(id, owner, r) <=> Proved!OwnedAt(id, owner, r)
    BY DEF Repository!OwnedAt, Proved!OwnedAt
  <1>6. \A page : Repository!RevisionAvailable(page) <=> Proved!RevisionAvailable(page)
    BY DEF Repository!RevisionAvailable, Proved!RevisionAvailable
  <1>7. \A e, a, r : Repository!TrialPage(e, a, r) = Proved!TrialPage(e, a, r)
    BY DEF Repository!TrialPage, Proved!TrialPage
  <1>8. \A e, owner, access, a : Repository!ManagedPage(e, owner, access, a)
                                    = Proved!ManagedPage(e, owner, access, a)
    BY DEF Repository!ManagedPage, Proved!ManagedPage
  <1>9. \A page, patch : Repository!PatchedPage(page, patch) = Proved!PatchedPage(page, patch)
    BY DEF Repository!PatchedPage, Proved!PatchedPage, Repository!RevisionAfter,
           Proved!RevisionAfter, Repository!HealthAfter, Proved!HealthAfter,
           Repository!Or, Proved!Or
  <1>10. \A page, e : Repository!DuplicatePage(page, e) = Proved!DuplicatePage(page, e)
    BY DEF Repository!DuplicatePage, Proved!DuplicatePage
  <1>11. \A id, patch : Repository!Displaced(id, patch) = Proved!Displaced(id, patch)
    BY <1>1 DEF Repository!Displaced, Proved!Displaced
  <1> QED BY <1>1, <1>2, <1>3, <1>4, <1>5, <1>6, <1>7, <1>8, <1>9, <1>10, <1>11

(* An operation of the service's repository is one of the proved store.    *)
LEMMA SameOperations == Repository!Next => Proved!Next
  <1>1. ASSUME NEW a PROVE Repository!create_content_asset(a) => Proved!create_content_asset(a)
    BY DEF Repository!create_content_asset, Proved!create_content_asset
  <1>2. ASSUME NEW id, NEW e, NEW a
        PROVE  Repository!put_trial_page_aggregate(id, e, a)
                  => Proved!put_trial_page_aggregate(id, e, a)
    BY SameHelpers DEF Repository!put_trial_page_aggregate, Proved!put_trial_page_aggregate
  <1>3. ASSUME NEW id, NEW e, NEW owner, NEW access, NEW a
        PROVE  Repository!create_managed_page_aggregate(id, e, owner, access, a)
                  => Proved!create_managed_page_aggregate(id, e, owner, access, a)
    BY SameHelpers
    DEF Repository!create_managed_page_aggregate, Proved!create_managed_page_aggregate
  <1>4. ASSUME NEW id, NEW owner, NEW r, NEW patch
        PROVE  Repository!update_managed_page_aggregate(id, owner, r, patch)
                  => Proved!update_managed_page_aggregate(id, owner, r, patch)
    BY SameHelpers
    DEF Repository!update_managed_page_aggregate, Proved!update_managed_page_aggregate
  <1>5. ASSUME NEW from, NEW owner, NEW r, NEW id, NEW e
        PROVE  Repository!duplicate_managed_page_aggregate(from, owner, r, id, e)
                  => Proved!duplicate_managed_page_aggregate(from, owner, r, id, e)
    BY SameHelpers
    DEF Repository!duplicate_managed_page_aggregate, Proved!duplicate_managed_page_aggregate
  <1>6. ASSUME NEW id, NEW a, NEW missing
        PROVE  Repository!update_external_content_health(id, a, missing)
                  => Proved!update_external_content_health(id, a, missing)
    BY DEF Repository!update_external_content_health, Proved!update_external_content_health
  <1>7. ASSUME NEW id, NEW owner, NEW r
        PROVE  Repository!delete_managed_page_aggregate(id, owner, r)
                  => Proved!delete_managed_page_aggregate(id, owner, r)
    BY SameHelpers
    DEF Repository!delete_managed_page_aggregate, Proved!delete_managed_page_aggregate,
        Repository!RemovePage, Proved!RemovePage
  <1> QED BY <1>1, <1>2, <1>3, <1>4, <1>5, <1>6, <1>7, SamePages DEF Repository!Next, Proved!Next

(* The assumptions of the proofs are those of the service. *)
LEMMA SameAssumptions ==
    /\ MaxRevision \in Nat \ {0}
    /\ ExternalAssets \subseteq ContentAssets
    /\ None \notin PageIds \cup Owners \cup Proved!PageAggregate
    /\ \A s \in Seeds :
          /\ s \in Proved!Store
          /\ Proved!OnePagePerLocator(s.pages)
          /\ \A p \in PageIds : s.pages[p] # None => Proved!ValidPage(s.pages[p], s.assets)
  BY ConstantsAssumption, SeedsAssumption, SamePages

(* A repository starts in its invariant.                                   *)
LEMMA StoreInit == Repository!Init => StoreInv
  <1>1. Repository!Init => Proved!Init
    BY SamePages DEF Repository!Init, Proved!Init
  <1>2. Proved!Init => Proved!Inv
    BY Proved!InitInv, SameAssumptions DEF Proved!InitInv
  <1> QED BY <1>1, <1>2, SameInvariant

(* Every step of the repository, or none, keeps its invariant and has the  *)
(* effects the service relies on.                                          *)
LEMMA StoreStep ==
    ASSUME StoreInv, Repository!Next \/ UNCHANGED store
    PROVE  StoreInv' /\ StoreStepOK
  <1>1. CASE Repository!Next
    <2>1. Proved!Inv' /\ Proved!StepOK
      BY <1>1, SameOperations, SameInvariant, Proved!NextStep, SameAssumptions DEF Proved!NextStep
    <2>2. StoreInv'
      BY <2>1, SamePages
      DEF StoreInv, Proved!Inv, Repository!TypeOK, Proved!TypeOK,
          Repository!EndpointIndexCoherent, Proved!EndpointIndexCoherent,
          Repository!StoredPagesValid, Proved!StoredPagesValid
    <2>3. StoreStepOK
      BY <2>1
      DEF StoreStepOK, Proved!StepOK, Repository!ManagedClaimsStay, Proved!ManagedClaimsStay,
          Repository!ChangesAreMutations, Proved!ChangesAreMutations,
          Repository!VanishesAlone, Proved!VanishesAlone, Repository!Mutated, Proved!Mutated
    <2> QED BY <2>2, <2>3
  <1>2. CASE UNCHANGED store
    <2>1. StoreInv'
      BY <1>2, SamePages
      DEF store, StoreInv, Repository!TypeOK, Repository!EndpointIndexCoherent,
          Repository!StoredPagesValid, Repository!ValidPage
    <2>2. StoreStepOK
      BY <1>2
      DEF store, StoreStepOK, Repository!ManagedClaimsStay, Repository!ChangesAreMutations,
          Repository!VanishesAlone
    <2> QED BY <2>1, <2>2
  <1> QED BY <1>1, <1>2

-----------------------------------------------------------------------------
(* What a step of the world leaves true of the frames of other calls.      *)

(* Reservations, seen losses and drawn ids are for good. *)
WorldGrows ==
    /\ \A n \in Namespaces : reservations[n] # None => reservations'[n] = reservations[n]
    /\ \A a \in ExternalAssets : source[a] # "intact" => source'[a] # "intact"
    /\ drawn \subseteq drawn'
    /\ \A p \in drawn : pages[p] = None => pages'[p] = None

(* The namespaces of an endpoint set are namespaces.                       *)
LEMMA NamespacesType ==
    ASSUME NEW e \in EndpointSet
    PROVE  NamespacesOf(e) \subseteq Namespaces
  BY ServiceAssumption DEF NamespacesOf, EndpointSet, bindings, namespace

(* A namespace an actor owns remains the actor's: reservations are only    *)
(* added.                                                                  *)
LEMMA OwnershipStays ==
    ASSUME WorldGrows, NEW actor, actor # None, NEW N \in SUBSET Namespaces, OwnedBy(actor, N)
    PROVE  OwnedBy(actor, N)'
  BY DEF OwnedBy, WorldGrows

(* A page in namespaces of its owner remains one.                          *)
LEMMA OwnedStays ==
    ASSUME WorldGrows, NEW page \in PageAggregate, Owned(page)
    PROVE  Owned(page)'
  BY NamespacesType, OwnershipStays DEF Owned, PageAggregate

(* A page as it was read stays current, or the stored one has moved on.    *)
LEMMA CurrentStays ==
    ASSUME StoreInv, StoreStepOK, WorldInv, WorldGrows,
           NEW id \in drawn, NEW page \in PageAggregate, Current(id, page)
    PROVE  Current(id, page)'
  <1>1. id \in PageIds
    BY DEF WorldInv
  <1>2. CASE pages[id] = None
    BY <1>2 DEF WorldGrows, Current
  <1>3. CASE pages[id] # None /\ pages'[id] = None
    BY <1>3 DEF Current
  <1>4. CASE pages[id] # None /\ pages'[id] # None
    <2>1. pages[id] \in PageAggregate
      BY <1>1, <1>4, SamePages DEF StoreInv, Repository!TypeOK
    <2>2. \/ pages'[id] = pages[id]
          \/ pages'[id] = [pages[id] EXCEPT !.external_missing = ~@]
          \/ pages'[id].revision = pages[id].revision + 1
      BY <1>1, <1>4
      DEF StoreStepOK, Repository!ChangesAreMutations, Repository!Mutated
    <2>3. pages[id].revision \in Nat /\ page.revision \in Nat
      BY <2>1, ConstantsAssumption DEF PageAggregate
    <2>4. CASE pages'[id] = pages[id]
      BY <2>4 DEF Current
    <2>5. CASE pages'[id] = [pages[id] EXCEPT !.external_missing = ~@]
      <3>1. pages'[id].revision = pages[id].revision
        BY <2>1, <2>5 DEF PageAggregate
      <3>2. ASSUME pages[id] = [page EXCEPT !.external_missing = pages[id].external_missing]
            PROVE  pages'[id] = [page EXCEPT !.external_missing = pages'[id].external_missing]
        BY <2>1, <2>5, <3>2 DEF PageAggregate
      <3> QED BY <3>1, <3>2, <1>4 DEF Current
    <2>6. CASE pages'[id].revision = pages[id].revision + 1
      <3>1. pages[id] = [page EXCEPT !.external_missing = pages[id].external_missing]
               => pages[id].revision = page.revision
        BY DEF PageAggregate
      <3> QED BY <1>4, <2>3, <2>6, <3>1 DEF Current
    <2> QED BY <2>2, <2>4, <2>5, <2>6
  <1> QED BY <1>2, <1>3, <1>4

(* What a call knows at an await stays true through a step of another call *)
(* or of the store.                                                        *)
LEMMA FrameStays ==
    ASSUME StoreInv, StoreStepOK, WorldInv, WorldGrows, NEW f, FrameOK(f)
    PROVE  FrameOK(f)'
  <1> SUFFICES ASSUME f.at # "idle" PROVE FrameOK(f)'
    BY DEF FrameOK
  <1> USE ConstantsAssumption, ServiceAssumption
  <1>1. f \in Frame /\ f.req \in Asked
    BY DEF FrameOK
  <1>2. ASSUME PageRead(f) PROVE PageRead(f)'
    BY <1>2, CurrentStays, OwnedStays DEF PageRead, WorldGrows
  <1>3. EndpointsOf(f.req) # None =>
           NamespacesOf(EndpointsOf(f.req)) \ f.unread \in SUBSET Namespaces
    <2>1. EndpointsOf(f.req) \in EndpointSet \cup {None}
      BY <1>1, RequestFields DEF Creating, Selecting, FrameOK, OnCourse, EndpointsOf, Request, Asked
    <2> QED BY <2>1, NamespacesType
  <1>4. Cleared(f)'
    BY <1>3, OwnershipStays DEF FrameOK, Cleared
  <1>5. ASSUME f.req.kind \in Selecting PROVE CommandOK(f)'
    <2>1. f.req.actor # None
      BY <1>1, <1>5, RequestFields
    <2>2. f.copy # None => NamespacesOf(f.copy) \in SUBSET Namespaces
      BY <1>1, NamespacesType DEF Frame
    <2>3. f.copy # None => OwnedBy(f.req.actor, NamespacesOf(f.copy))'
      BY <1>5, <2>1, <2>2, OwnershipStays DEF FrameOK, CommandOK
    <2> QED BY <1>2, <1>5, <2>3 DEF FrameOK, CommandOK
  <1>6. ASSUME f.req.kind = "deliver" PROVE DeliveryOK(f)'
    <2>1. f.at = "record missing" => source[f.page.content_asset_id]' # "intact"
      BY <1>6 DEF FrameOK, DeliveryOK, WorldGrows
    <2> QED BY <1>2, <1>6, <2>1 DEF FrameOK, DeliveryOK
  <1> QED BY <1>4, <1>5, <1>6 DEF FrameOK, NamesOK

(* A call moves to a frame that is in order. *)
Moves(c) == \E g : FrameOK(g) /\ Become(c, g)

(* A step that moves at most one call, to a frame that is in order.        *)
LEMMA CallsStay ==
    ASSUME Inv, StoreStepOK, WorldGrows, requests' \subseteq requests,
           \/ UNCHANGED client
           \/ \E c \in Clients : Moves(c)
    PROVE  CallsInv'
  <1>1. \A f : FrameOK(f) => FrameOK(f)'
    BY FrameStays DEF Inv
  <1>2. CASE UNCHANGED client
    BY <1>1, <1>2 DEF Inv, CallsInv
  <1>3. ASSUME NEW c \in Clients, NEW g, FrameOK(g), Become(c, g) PROVE CallsInv'
    <2>1. client' = [client EXCEPT ![c] = g] /\ g \in Frame
      BY <1>3 DEF Become, FrameOK
    <2>2. client' \in [Clients -> Frame]
      BY <2>1 DEF Inv, CallsInv
    <2>3. ASSUME NEW d \in Clients PROVE FrameOK(client[d])'
      <3>1. client'[d] = IF d = c THEN g ELSE client[d]
        BY <2>1 DEF Inv, CallsInv
      <3>2. FrameOK(g)' /\ (FrameOK(client[d]) => \E f : f = client[d] /\ FrameOK(f)')
        BY <1>1, <1>3
      <3> QED BY <3>1, <3>2 DEF Inv, CallsInv, FrameOK
    <2> QED BY <2>2, <2>3 DEF Inv, CallsInv
  <1> QED BY <1>2, <1>3 DEF Moves

-----------------------------------------------------------------------------
(* The frames a call moves to. *)

(* A client between calls is in order.                                     *)
LEMMA IdleOK == FrameOK(Idle) /\ Idle.at = "idle"
  <1>1. NamesOK(Idle)
    BY ServiceAssumption, FS_EmptySet DEF NamesOK, Idle
  <1> QED BY <1>1, ConstantsAssumption, ServiceAssumption DEF FrameOK, Frame, Idle, Places

(* A call that returns leaves its client idle.                             *)
LEMMA ReturnMoves == ASSUME NEW c, Return(c) PROVE Moves(c)
  BY IdleOK DEF Return, Moves

(* A page of a selection done with: the next page is read, or the call is  *)
(* over.                                                                   *)
LEMMA ItemDoneMoves ==
    ASSUME NEW c, NEW f, f.req \in Asked, ~protection_requires_session(f.req),
           f.left \in Seq(PageIds \X (1 .. MaxRevision)),
           f.req.kind \notin Selecting => f.left = <<>>,
           ItemDone(c, f)
    PROVE  Moves(c)
  <1> DEFINE g == [Idle EXCEPT !.at = "page", !.req = f.req, !.left = Tail(f.left),
                               !.page_id = Head(f.left)[1], !.expected = Head(f.left)[2]]
  <1>1. CASE f.left = <<>>
    BY <1>1, ReturnMoves DEF ItemDone
  <1>2. CASE f.left # <<>>
    <2>1. Become(c, g)
      BY <1>2 DEF ItemDone
    <2>2. /\ Tail(f.left) \in Seq(PageIds \X (1 .. MaxRevision))
          /\ Head(f.left) \in PageIds \X (1 .. MaxRevision)
      BY <1>2
    <2>3. Head(f.left)[1] \in PageIds /\ Head(f.left)[2] \in 0 .. MaxRevision
      BY <2>2, ConstantsAssumption
    <2>4. /\ g.at = "page" /\ g.req = f.req /\ g.left = Tail(f.left)
          /\ g.page_id = Head(f.left)[1] /\ g.unread = {} /\ g.copy = None
          /\ g.names = Idle.names /\ Idle.copy = None
      BY DEF Idle
    <2>5. g \in Frame
      <3>1. "page" \in Places /\ Idle \in Frame
        BY IdleOK DEF Places, FrameOK
      <3> QED BY <2>2, <2>3, <3>1 DEF Frame
    <2> HIDE DEF g
    <2>6. NamesOK(g)
      BY <2>4, IdleOK DEF FrameOK, NamesOK
    <2>7. FrameOK(g)
      BY <1>2, <2>3, <2>4, <2>5, <2>6
      DEF FrameOK, OnCourse, Cleared, CommandOK, Working, Selecting
    <2> QED BY <2>1, <2>7 DEF Moves
  <1> QED BY <1>1, <1>2

(* The first await of each course, and what follows it.                    *)
LEMMA SuffixHeads ==
    /\ Head(<<"commit">>) = "commit" /\ Tail(<<"commit">>) = <<>>
    /\ Head(<<"stage", "commit">>) = "stage" /\ Tail(<<"stage", "commit">>) = <<"commit">>
    /\ Head(<<"authority", "commit">>) = "authority"
    /\ Tail(<<"authority", "commit">>) = <<"commit">>
    /\ Head(<<"authority", "stage", "commit">>) = "authority"
    /\ Tail(<<"authority", "stage", "commit">>) = <<"stage", "commit">>
    /\ Head(<<"upload", "stage", "commit">>) = "upload"
    /\ Tail(<<"upload", "stage", "commit">>) = <<"stage", "commit">>
    /\ Head(<<"fetch candidate", "stage", "commit">>) = "fetch candidate"
    /\ Tail(<<"fetch candidate", "stage", "commit">>) = <<"stage", "commit">>
    /\ Head(<<"authority", "upload", "stage", "commit">>) = "authority"
    /\ Tail(<<"authority", "upload", "stage", "commit">>) = <<"upload", "stage", "commit">>
    /\ Head(<<"upload", "authority", "stage", "commit">>) = "upload"
    /\ Tail(<<"upload", "authority", "stage", "commit">>) = <<"authority", "stage", "commit">>
    /\ <<"commit">> # <<>> /\ <<"stage", "commit">> # <<>> /\ <<"authority", "commit">> # <<>>
    /\ <<"authority", "upload", "stage", "commit">> # <<>>
    /\ <<"upload", "authority", "stage", "commit">> # <<>>
    /\ <<"fetch candidate", "stage", "commit">> # <<>>
    /\ <<"upload", "stage", "commit">> # <<>> /\ <<"authority", "stage", "commit">> # <<>>
  OBVIOUS

(* What can be left of a course, by the kind of request.                   *)
LEMMA SuffixesOf ==
    ASSUME NEW req
    PROVE  /\ req.kind \in Creating =>
                 Suffixes(req) = {<<"authority", "stage", "commit">>,
                                  <<"authority", "upload", "stage", "commit">>,
                                  <<"upload", "stage", "commit">>, <<"stage", "commit">>,
                                  <<"commit">>}
           /\ req.kind = "update" /\ EndpointsOf(req) # None =>
                 Suffixes(req) = {<<"authority", "commit">>, <<"authority", "stage", "commit">>,
                                  <<"upload", "authority", "stage", "commit">>,
                                  <<"stage", "commit">>, <<"commit">>}
           /\ req.kind = "update" /\ EndpointsOf(req) = None =>
                 Suffixes(req) = {<<"commit">>, <<"stage", "commit">>,
                                  <<"upload", "stage", "commit">>}
           /\ req.kind = "relink" =>
                 Suffixes(req) = {<<"fetch candidate", "stage", "commit">>,
                                  <<"stage", "commit">>, <<"commit">>}
           /\ req.kind = "duplicate" /\ EndpointsOf(req) # None =>
                 Suffixes(req) = {<<"authority", "commit">>, <<"commit">>}
           /\ req.kind = "duplicate" /\ EndpointsOf(req) = None =>
                 Suffixes(req) = {<<"commit">>}
           /\ req.kind \in {"rename", "delete"} => Suffixes(req) = {<<"commit">>}
  BY DEF Suffixes, Creating

(* Where a call can be follows from what it asks for. *)
LEMMA CoursePlaces ==
    ASSUME NEW f, f.req \in Asked, f.at \in Working, OnCourse(f)
    PROVE  /\ f.req.kind \in Creating \cup Selecting
           /\ f.at = "authority" =>
                 /\ EndpointsOf(f.req) \in EndpointSet
                 /\ f.req.kind \in Creating \cup {"update", "duplicate"}
                 /\ f.todo \in {<<"commit">>, <<"stage", "commit">>,
                                <<"upload", "stage", "commit">>}
           /\ f.at = "upload" => f.req.kind \in Creating \cup {"update"}
           /\ f.at = "fetch candidate" => f.req.kind = "relink"
           /\ f.at = "stage" => f.req.kind \in Creating \cup {"update", "relink"}
           /\ f.at = "stage" => f.todo = <<"commit">>
           /\ f.at = "fetch candidate" => f.todo = <<"stage", "commit">>
           /\ f.at = "commit" => f.todo = <<>>
           /\ f.at # "commit" => f.todo # <<>> /\ f.todo \in Suffixes(f.req)
           /\ f.at = "upload" =>
                 f.todo \in {<<"stage", "commit">>, <<"authority", "stage", "commit">>}
  <1>1. f.req.kind \in Creating \cup Selecting
    BY DEF OnCourse, Working, Delivering
  <1>2. PICK s \in Suffixes(f.req) : f.at = Head(s) /\ f.todo = Tail(s)
    BY DEF OnCourse, Working, Delivering
  <1>3. EndpointsOf(f.req) # None /\ f.req.kind \in Creating \cup {"update", "duplicate"}
           => EndpointsOf(f.req) \in EndpointSet
    BY RequestFields DEF Creating
  <1>4. f.req.kind \in Creating => EndpointsOf(f.req) \in EndpointSet
    BY RequestFields DEF Creating
  <1>5. CASE f.req.kind \in Creating
    <2>1. \/ f.at = "authority" /\ f.todo = <<"stage", "commit">>
          \/ f.at = "authority" /\ f.todo = <<"upload", "stage", "commit">>
          \/ f.at = "upload" /\ f.todo = <<"stage", "commit">>
          \/ f.at = "stage" /\ f.todo = <<"commit">>
          \/ f.at = "commit" /\ f.todo = <<>>
      <3>1. s \in {<<"authority", "stage", "commit">>,
                   <<"authority", "upload", "stage", "commit">>,
                   <<"upload", "stage", "commit">>, <<"stage", "commit">>, <<"commit">>}
        BY <1>2, <1>5, SuffixesOf
      <3> QED BY <1>2, <3>1, SuffixHeads
    <2> QED BY <1>1, <1>4, <1>5, <2>1, SuffixHeads, SuffixesOf DEF Creating
  <1>6. CASE f.req.kind = "update" /\ EndpointsOf(f.req) # None
    <2>1. \/ f.at = "authority" /\ f.todo = <<"commit">>
          \/ f.at = "authority" /\ f.todo = <<"stage", "commit">>
          \/ f.at = "upload" /\ f.todo = <<"authority", "stage", "commit">>
          \/ f.at = "stage" /\ f.todo = <<"commit">>
          \/ f.at = "commit" /\ f.todo = <<>>
      BY <1>2, <1>6, SuffixHeads, SuffixesOf
    <2> QED BY <1>1, <1>3, <1>6, <2>1, SuffixHeads, SuffixesOf DEF Creating
  <1>7. CASE f.req.kind = "update" /\ EndpointsOf(f.req) = None
    <2>1. \/ f.at = "upload" /\ f.todo = <<"stage", "commit">>
          \/ f.at = "stage" /\ f.todo = <<"commit">>
          \/ f.at = "commit" /\ f.todo = <<>>
      BY <1>2, <1>7, SuffixHeads, SuffixesOf
    <2> QED BY <1>1, <1>7, <2>1, SuffixHeads, SuffixesOf DEF Creating
  <1>8. CASE f.req.kind = "relink"
    <2>1. \/ f.at = "fetch candidate" /\ f.todo = <<"stage", "commit">>
          \/ f.at = "stage" /\ f.todo = <<"commit">>
          \/ f.at = "commit" /\ f.todo = <<>>
      BY <1>2, <1>8, SuffixHeads, SuffixesOf
    <2> QED BY <1>1, <1>8, <2>1, SuffixHeads, SuffixesOf DEF Creating
  <1>9. CASE f.req.kind \in {"duplicate", "rename", "delete"}
    <2>1. \/ /\ f.at = "authority" /\ f.todo = <<"commit">>
             /\ f.req.kind = "duplicate" /\ EndpointsOf(f.req) # None
          \/ f.at = "commit" /\ f.todo = <<>>
      BY <1>2, <1>9, SuffixHeads, SuffixesOf
    <2> QED BY <1>1, <1>3, <1>9, <2>1, SuffixHeads, SuffixesOf DEF Creating
  <1> QED BY <1>1, <1>5, <1>6, <1>7, <1>8, <1>9 DEF Selecting

(* The namespaces asked for are cleared, or will be on the way.            *)
ClearedOrAhead(f) ==
    \/ Head(f.todo) = "authority"
    \/ Tail(f.todo) = <<"authority", "stage", "commit">>
    \/ EndpointsOf(f.req) = None
    \/ f.req.actor = None
    \/ OwnedBy(f.req.actor, NamespacesOf(EndpointsOf(f.req)))

(* A command whose checks have passed so far.                              *)
CommandGoesOn(f) ==
    /\ f \in Frame /\ NamesOK(f) /\ f.req \in Asked /\ ~protection_requires_session(f.req)
    /\ f.req.kind # "deliver"
    /\ f.req.kind \notin Selecting => f.left = <<>>
    /\ f.req.kind \in Selecting =>
          /\ f.page_id \in PageIds
          /\ PageRead(f) /\ f.page.owner = f.req.actor
          /\ ~Refused(f)
          /\ f.copy # None => OwnedBy(f.req.actor, NamespacesOf(f.copy))

(* The next await of a course finds the frame in order.                    *)
LEMMA AdvanceMoves ==
    ASSUME NEW c, NEW f, CommandGoesOn(f), f.todo \in Suffixes(f.req), ClearedOrAhead(f),
           f.req.kind = "relink" /\ Head(f.todo) = "commit" =>
               f.asset \in ExternalAssets /\ digest[f.asset] = digest[f.page.content_asset_id],
           Advance(c, f)
    PROVE  Moves(c)
  <1> USE ConstantsAssumption, ServiceAssumption
  <1> DEFINE unread == IF Head(f.todo) = "authority" THEN NamespacesOf(EndpointsOf(f.req)) ELSE {}
             g == [f EXCEPT !.at = Head(f.todo), !.todo = Tail(@), !.unread = unread]
  <1>1. Become(c, g)
    BY DEF Advance
  <1>2. f \in Frame /\ f.req \in Asked
    BY DEF CommandGoesOn
  <1>3. /\ g.at = Head(f.todo) /\ g.todo = Tail(f.todo) /\ g.unread = unread
        /\ g.req = f.req /\ g.left = f.left /\ g.page_id = f.page_id
        /\ g.expected = f.expected /\ g.page = f.page /\ g.asset = f.asset
        /\ g.attempt = f.attempt /\ g.names = f.names /\ g.copy = f.copy
    BY <1>2 DEF Frame
  <1>4. f.req.kind \in Creating \cup Selecting
    BY <1>2, RequestFields DEF CommandGoesOn
  <1>5. g.at \in Places /\ g.at \in Working /\ g.todo \in Seq(Places)
    <2>1. /\ <<>> \in Seq(Places) /\ <<"commit">> \in Seq(Places)
          /\ <<"stage", "commit">> \in Seq(Places)
          /\ <<"upload", "stage", "commit">> \in Seq(Places)
          /\ <<"authority", "stage", "commit">> \in Seq(Places)
      BY DEF Places
    <2>2. /\ Head(f.todo) \in Working
          /\ Tail(f.todo) \in {<<>>, <<"commit">>, <<"stage", "commit">>,
                              <<"upload", "stage", "commit">>,
                              <<"authority", "stage", "commit">>}
      BY SuffixHeads DEF Suffixes, Working
    <2> QED BY <1>3, <2>1, <2>2 DEF Working, Places
  <1>6. Head(f.todo) = "authority" => EndpointsOf(f.req) \in EndpointSet
    BY <1>2, <1>4, RequestFields, SuffixHeads DEF Suffixes, Creating, Selecting
  <1>7. unread \in SUBSET Namespaces
    BY <1>6, NamespacesType
  <1>8. g.at # "authority" => g.unread = {}
    BY <1>3
  <1>9. OnCourse(g)
    BY <1>3, <1>4, <1>5 DEF OnCourse
  <1>10. Cleared(g)
    <2>1. CASE Head(f.todo) = "authority"
      BY <1>3, <2>1 DEF Cleared, OwnedBy
    <2>2. CASE Head(f.todo) # "authority"
      BY <1>3, <2>2 DEF Cleared, OwnedBy, ClearedOrAhead
    <2> QED BY <2>1, <2>2
  <1>11. g \in Frame
    BY <1>2, <1>3, <1>5, <1>7 DEF Frame
  <1> HIDE DEF g, unread
  <1>12. Refused(g) <=> Refused(f)
    BY <1>3 DEF Refused, api_write_blocked, revision_conflict, Renamed
  <1>13. PageRead(f) <=> PageRead(g)
    BY <1>3 DEF PageRead
  <1>14. f.req.kind \in Selecting => CommandOK(g)
    BY <1>3, <1>12, <1>13 DEF CommandOK, CommandGoesOn
  <1>15. FrameOK(g)
    <2>1. NamesOK(g)
      BY <1>3 DEF CommandGoesOn, NamesOK
    <2> QED BY <1>3, <1>8, <1>9, <1>10, <1>11, <1>14, <2>1 DEF FrameOK, CommandGoesOn
  <1> QED BY <1>1, <1>15 DEF Moves

-----------------------------------------------------------------------------
(* The steps of a call between its repository calls. *)

(* What is left of a course is a sequence of awaits.                       *)
LEMMA SuffixesTyped == ASSUME NEW req PROVE Suffixes(req) \subseteq Seq(Places)
  <1>1. /\ <<"authority", "stage", "commit">> \in Seq(Places)
        /\ <<"authority", "upload", "stage", "commit">> \in Seq(Places)
        /\ <<"upload", "authority", "stage", "commit">> \in Seq(Places)
        /\ <<"fetch candidate", "stage", "commit">> \in Seq(Places)
        /\ <<"upload", "stage", "commit">> \in Seq(Places)
        /\ <<"authority", "commit">> \in Seq(Places)
        /\ <<"stage", "commit">> \in Seq(Places) /\ <<"commit">> \in Seq(Places)
    BY DEF Places
  <1> QED BY <1>1 DEF Suffixes

(* A course starts as one of its suffixes, and no creation reaches its     *)
(* commit without the authority check its endpoints need.                  *)
LEMMA CourseBegins ==
    ASSUME NEW req \in Asked, req.kind \in Creating \cup Selecting
    PROVE  /\ Course(req) \in Suffixes(req)
           /\ \/ Head(Course(req)) = "authority"
              \/ Tail(Course(req)) = <<"authority", "stage", "commit">>
              \/ EndpointsOf(req) = None
           /\ req.kind = "relink" => Head(Course(req)) # "commit"
           /\ Course(req) \in Seq(Places)
  <1>1. req.kind # "deliver"
    BY DEF Creating, Selecting
  <1> DEFINE s == Course(req)
             goal == /\ s \in Suffixes(req)
                     /\ \/ Head(s) = "authority"
                        \/ Tail(s) = <<"authority", "stage", "commit">>
                        \/ EndpointsOf(req) = None
                     /\ req.kind = "relink" => Head(s) # "commit"
  <1>2. ASSUME req.kind \in Creating PROVE goal
    <2>1. s \in {<<"authority", "stage", "commit">>,
                 <<"authority", "upload", "stage", "commit">>}
      BY <1>1, <1>2, Courses
    <2> HIDE DEF s
    <2> QED BY <1>2, <2>1, SuffixesOf, SuffixHeads DEF Creating
  <1>3. ASSUME req.kind = "update" /\ EndpointsOf(req) # None PROVE goal
    <2>1. s \in {<<"authority", "commit">>, <<"authority", "stage", "commit">>,
                 <<"upload", "authority", "stage", "commit">>}
      BY <1>1, <1>3, Courses
    <2> HIDE DEF s
    <2> QED BY <1>3, <2>1, SuffixesOf, SuffixHeads
  <1>4. ASSUME req.kind = "update" /\ EndpointsOf(req) = None PROVE goal
    <2>1. s \in {<<"commit">>, <<"stage", "commit">>, <<"upload", "stage", "commit">>}
      BY <1>1, <1>4, Courses
    <2> HIDE DEF s
    <2> QED BY <1>4, <2>1, SuffixesOf, SuffixHeads
  <1>5. ASSUME req.kind = "relink" PROVE goal
    <2>1. s = <<"fetch candidate", "stage", "commit">> /\ EndpointsOf(req) = None
      BY <1>1, <1>5, Courses, RequestFields
    <2> HIDE DEF s
    <2> QED BY <1>5, <2>1, SuffixesOf, SuffixHeads
  <1>6. ASSUME req.kind = "duplicate" PROVE goal
    <2>1. s = IF EndpointsOf(req) = None THEN <<"commit">> ELSE <<"authority", "commit">>
      BY <1>1, <1>6, Courses
    <2> HIDE DEF s
    <2> QED BY <1>6, <2>1, SuffixesOf, SuffixHeads
  <1>7. ASSUME req.kind \in {"rename", "delete"} PROVE goal
    <2>1. s = <<"commit">> /\ EndpointsOf(req) = None
      BY <1>1, <1>7, Courses, RequestFields
    <2> HIDE DEF s
    <2> QED BY <1>7, <2>1, SuffixesOf, SuffixHeads
  <1>8. goal
    BY <1>2, <1>3, <1>4, <1>5, <1>6, <1>7 DEF Selecting
  <1> QED BY <1>8, SuffixesTyped

(* A request that begins: validation refuses it, or its first await is     *)
(* reached.                                                                *)
LEMMA CallMoves ==
    ASSUME Inv, NEW c \in Clients, NEW req \in requests, Call(c, req)
    PROVE  Moves(c) \/ UNCHANGED client
  <1> USE ConstantsAssumption, ServiceAssumption
  <1> DEFINE f == [Idle EXCEPT !.req = req, !.todo = Course(req)]
  <1>1. req \in Asked
    BY DEF Inv, CallsInv
  <1>2. /\ f.req = req /\ f.todo = Course(req) /\ f.left = <<>>
        /\ f.names = Idle.names /\ f.copy = None /\ Idle.copy = None
    BY DEF Idle
  <1>3. CASE req.kind \in {"publish_trial", "create_managed"} /\ Advance(c, f)
    <2>1. req.kind \in Creating /\ req.kind \notin Selecting /\ req.kind # "deliver"
      BY <1>3 DEF Creating, Selecting
    <2>2. f \in Frame
      BY <1>1, <2>1, CourseBegins, IdleOK DEF FrameOK, Frame
    <2>3. ~protection_requires_session(req)
      BY <1>3 DEF protection_requires_session
    <2> HIDE DEF f
    <2>4. CommandGoesOn(f)
      <3>1. NamesOK(f)
        BY <1>2, IdleOK DEF FrameOK, NamesOK
      <3> QED BY <1>1, <1>2, <2>1, <2>2, <2>3, <3>1 DEF CommandGoesOn
    <2>5. ClearedOrAhead(f)
      BY <1>1, <1>2, <2>1, CourseBegins DEF ClearedOrAhead
    <2> QED BY <1>1, <1>2, <1>3, <2>1, <2>4, <2>5, CourseBegins, AdvanceMoves
  <1>4. CASE req.kind = "deliver" /\ Become(c, [f EXCEPT !.at = "resolve"])
    <2> DEFINE g == [f EXCEPT !.at = "resolve"]
    <2>1. /\ g.at = "resolve" /\ g.req = req /\ g.left = <<>> /\ g.unread = {}
          /\ g.names = Idle.names /\ g.copy = None /\ g.todo = Course(req)
      BY DEF Idle
    <2>2. Course(req) = <<>>
      BY <1>4 DEF Course
    <2>3. g \in Frame
      <3>1. f \in Frame
        <4>1. <<>> \in Seq(Places) /\ Idle \in Frame
          BY IdleOK DEF FrameOK
        <4> QED BY <1>1, <2>2, <4>1 DEF Frame
      <3> HIDE DEF f
      <3> QED BY <3>1 DEF Frame, Places
    <2> HIDE DEF g
    <2>4. NamesOK(g)
      BY <1>2, <2>1, IdleOK DEF FrameOK, NamesOK
    <2>5. FrameOK(g)
      BY <1>1, <1>4, <2>1, <2>2, <2>3, <2>4
      DEF FrameOK, OnCourse, Cleared, Working, Selecting, Delivering, DeliveryOK,
          protection_requires_session
    <2> QED BY <1>4, <2>5 DEF Moves, g
  <1>5. CASE "selection" \in DOMAIN req /\ ~protection_requires_session(req)
             /\ ItemDone(c, [f EXCEPT !.left = req.selection])
    <2> DEFINE g == [f EXCEPT !.left = req.selection]
    <2>1. g.req = req /\ g.left = req.selection
      BY DEF Idle
    <2>2. req.kind \in Selecting /\ req.selection \in Seq(PageIds \X (1 .. MaxRevision))
      BY <1>1, <1>5, RequestFields
    <2> QED BY <1>1, <1>5, <2>1, <2>2, ItemDoneMoves
  <1> QED BY <1>3, <1>4, <1>5 DEF Call

(* The frame of a call that has something ahead.                           *)
LEMMA FrameOf ==
    ASSUME Inv, NEW c \in Clients, client[c].at # "idle"
    PROVE  /\ client[c] \in Frame /\ FrameOK(client[c])
           /\ client[c].req \in Asked /\ ~protection_requires_session(client[c].req)
           /\ client[c].req.kind \notin Selecting => client[c].left = <<>>
           /\ client[c].left \in Seq(PageIds \X (1 .. MaxRevision))
           /\ ItemDone(c, client[c]) => Moves(c)
           /\ client[c].at \in Working =>
                 /\ client[c].req.kind \in Creating \cup Selecting
                 /\ CommandGoesOn(client[c])
           /\ client[c].at \in {"page", "page authority"} => client[c].req.kind \in Selecting
           /\ client[c].at \in Delivering => client[c].req.kind = "deliver"
  <1> DEFINE f == client[c]
  <1>1. FrameOK(f)
    BY DEF Inv, CallsInv
  <1> HIDE DEF f
  <1>2. /\ f \in Frame /\ f.req \in Asked /\ ~protection_requires_session(f.req)
        /\ f.req.kind \notin Selecting => f.left = <<>>
        /\ f.left \in Seq(PageIds \X (1 .. MaxRevision))
    BY <1>1 DEF FrameOK, Frame, f
  <1>3. ItemDone(c, f) => Moves(c)
    BY <1>2, ItemDoneMoves
  <1>4. /\ f.at \in {"page", "page authority"} => f.req.kind \in Selecting
        /\ f.at \in Delivering => f.req.kind = "deliver"
        /\ f.at \in Working => f.req.kind \in Creating \cup Selecting
    BY <1>1 DEF FrameOK, OnCourse, Working, Delivering, f
  <1>5. f.at \in Working => CommandGoesOn(f)
    BY <1>1, <1>2, <1>4 DEF FrameOK, CommandGoesOn, CommandOK, Creating, Selecting, f
  <1> QED BY <1>1, <1>2, <1>3, <1>4, <1>5 DEF f

(* The read of the page a command is about.                                *)
LEMMA ReadPageMoves ==
    ASSUME Inv, NEW c \in Clients, ReadPage(c)
    PROVE  Moves(c)
  <1> USE ConstantsAssumption
  <1> DEFINE f == client[c]
             g == [f EXCEPT !.page = pages[f.page_id], !.at = "page authority"]
  <1>1. f.at = "page"
    BY DEF ReadPage
  <1>2. CASE ItemDone(c, f)
    BY <1>1, <1>2, FrameOf
  <1>3. CASE /\ pages[f.page_id] # None /\ pages[f.page_id].owner = f.req.actor
             /\ Become(c, g)
    <2>1. /\ f \in Frame /\ FrameOK(f) /\ f.req.kind \in Selecting /\ f.req \in Asked
          /\ ~protection_requires_session(f.req)
      BY <1>1, FrameOf
    <2>2. f.page_id \in PageIds /\ f.unread = {} /\ CommandOK(f)
      BY <1>1, <2>1 DEF FrameOK
    <2>3. pages[f.page_id] \in PageAggregate
      BY <1>3, <2>2, SamePages DEF Inv, StoreInv, Repository!TypeOK
    <2>4. /\ g.at = "page authority" /\ g.page = pages[f.page_id] /\ g.page_id = f.page_id
          /\ g.req = f.req /\ g.copy = f.copy /\ g.names = f.names /\ g.unread = f.unread
      BY <2>1 DEF Frame
    <2>5. g \in Frame
      BY <2>1, <2>3 DEF Frame, Places
    <2> HIDE DEF g
    <2>6. f.page_id \in drawn /\ Owned(g.page)
      BY <1>3, <2>2, <2>4 DEF Inv, WorldInv
    <2>7. Current(g.page_id, g.page)
      <3>1. g.page = [g.page EXCEPT !.external_missing = g.page.external_missing]
        BY <2>3, <2>4 DEF PageAggregate
      <3> QED BY <2>4, <3>1 DEF Current
    <2>8. PageRead(g) /\ g.page.owner = g.req.actor
      BY <1>3, <2>3, <2>4, <2>6, <2>7 DEF PageRead
    <2>9. CommandOK(g)
      BY <2>2, <2>4, <2>8 DEF CommandOK, Working
    <2>10. FrameOK(g)
      BY <2>1, <2>2, <2>4, <2>5, <2>9
      DEF FrameOK, OnCourse, Cleared, Working, Selecting, NamesOK
    <2> QED BY <1>3, <2>10 DEF Moves
  <1> QED BY <1>2, <1>3 DEF ReadPage

(* A reservation of the read page's namespaces, read.                      *)
LEMMA ReadPageAuthorityMoves ==
    ASSUME Inv, NEW c \in Clients, ReadPageAuthority(c)
    PROVE  Moves(c)
  <1> USE ConstantsAssumption
  <1> DEFINE f == client[c]
             g == [f EXCEPT !.todo = Course(f.req)]
  <1>1. f.at = "page authority"
    BY DEF ReadPageAuthority
  <1>2. CASE ItemDone(c, f)
    BY <1>1, <1>2, FrameOf
  <1>3. CASE ~Refused(f) /\ Advance(c, g)
    <2>1. /\ f \in Frame /\ FrameOK(f) /\ f.req.kind \in Selecting /\ f.req \in Asked
          /\ ~protection_requires_session(f.req)
      BY <1>1, FrameOf
    <2>2. f.page_id \in PageIds /\ CommandOK(f)
      BY <1>1, <2>1 DEF FrameOK
    <2>3. /\ Course(f.req) \in Suffixes(f.req) /\ Course(f.req) \in Seq(Places)
          /\ \/ Head(Course(f.req)) = "authority"
             \/ Tail(Course(f.req)) = <<"authority", "stage", "commit">>
             \/ EndpointsOf(f.req) = None
          /\ f.req.kind = "relink" => Head(Course(f.req)) # "commit"
      BY <2>1, CourseBegins
    <2>4. /\ g.todo = Course(f.req) /\ g.req = f.req /\ g.page_id = f.page_id
          /\ g.page = f.page /\ g.expected = f.expected /\ g.copy = f.copy /\ g.names = f.names
      BY <2>1 DEF Frame
    <2>5. g \in Frame
      BY <2>1, <2>3 DEF Frame
    <2> HIDE DEF g
    <2>6. ~Refused(g)
      BY <1>3, <2>4 DEF Refused, api_write_blocked, revision_conflict, Renamed
    <2>7. CommandGoesOn(g)
      BY <1>1, <2>1, <2>2, <2>4, <2>5, <2>6
      DEF FrameOK, NamesOK, CommandGoesOn, CommandOK, PageRead, Selecting
    <2>8. ClearedOrAhead(g)
      BY <2>3, <2>4 DEF ClearedOrAhead
    <2> QED BY <1>3, <2>3, <2>4, <2>7, <2>8, AdvanceMoves
  <1> QED BY <1>2, <1>3 DEF ReadPageAuthority

(* A reservation of the requested namespaces, read.                        *)
LEMMA ReadAuthorityMoves ==
    ASSUME Inv, NEW c \in Clients, ReadAuthority(c)
    PROVE  Moves(c)
  <1> USE ConstantsAssumption
  <1> DEFINE f == client[c]
  <1>1. f.at = "authority" /\ f.at \in Working
    BY DEF ReadAuthority, Working
  <1>2. /\ f \in Frame /\ FrameOK(f) /\ f.req \in Asked /\ CommandGoesOn(f)
        /\ f.req.kind \in Creating \cup Selecting
        /\ ItemDone(c, f) => Moves(c)
    BY <1>1, FrameOf
  <1>3. OnCourse(f) /\ Cleared(f)
    BY <1>1, <1>2 DEF FrameOK
  <1>4. /\ EndpointsOf(f.req) \in EndpointSet /\ EndpointsOf(f.req) # None
        /\ f.todo # <<>> /\ f.todo \in Suffixes(f.req)
    BY <1>1, <1>2, <1>3, CoursePlaces, ServiceAssumption
  <1>5. f.todo # <<"authority", "stage", "commit">> /\ f.req.kind # "relink"
    <2>1. /\ <<"commit">> # <<"authority", "stage", "commit">>
          /\ <<"stage", "commit">> # <<"authority", "stage", "commit">>
          /\ <<"upload", "stage", "commit">> # <<"authority", "stage", "commit">>
      OBVIOUS
    <2>2. /\ f.req.kind \in Creating \cup {"update", "duplicate"}
          /\ f.todo \in {<<"commit">>, <<"stage", "commit">>, <<"upload", "stage", "commit">>}
      BY <1>1, <1>2, <1>3, CoursePlaces
    <2> QED BY <2>1, <2>2 DEF Creating
  <1>6. f.req.actor # None => OwnedBy(f.req.actor, NamespacesOf(EndpointsOf(f.req)) \ f.unread)
    BY <1>1, <1>3, <1>4, <1>5 DEF Cleared
  <1>7. PICK n \in f.unread :
           \/ reservations[n] # f.req.actor /\ ItemDone(c, f)
           \/ /\ reservations[n] = f.req.actor
              /\ \/ f.unread # {n} /\ Become(c, [f EXCEPT !.unread = @ \ {n}])
                 \/ f.unread = {n} /\ NothingToChange(f) /\ ItemDone(c, f)
                 \/ f.unread = {n} /\ ~NothingToChange(f) /\ Advance(c, f)
    BY DEF ReadAuthority
  <1>8. CASE ItemDone(c, f)
    BY <1>2, <1>8
  <1>9. CASE reservations[n] = f.req.actor /\ f.unread = {n} /\ Advance(c, f)
    <2>1. f.req.actor # None => OwnedBy(f.req.actor, NamespacesOf(EndpointsOf(f.req)))
      BY <1>6, <1>9 DEF OwnedBy
    <2>2. ClearedOrAhead(f)
      BY <2>1 DEF ClearedOrAhead
    <2> HIDE DEF f
    <2> QED BY <1>2, <1>4, <1>5, <1>9, <2>2, AdvanceMoves
  <1>10. CASE reservations[n] = f.req.actor /\ Become(c, [f EXCEPT !.unread = @ \ {n}])
    <2> DEFINE g == [f EXCEPT !.unread = @ \ {n}]
    <2> HIDE DEF f
    <2>1. /\ g.at = f.at /\ g.todo = f.todo /\ g.unread = f.unread \ {n}
          /\ g.req = f.req /\ g.page_id = f.page_id /\ g.page = f.page /\ g.left = f.left
          /\ g.expected = f.expected /\ g.copy = f.copy /\ g.names = f.names /\ g.asset = f.asset
      BY <1>2 DEF Frame
    <2>2. g \in Frame
      BY <1>2 DEF Frame
    <2> HIDE DEF g
    <2>3. Cleared(g)
      BY <1>6, <1>10, <2>1 DEF Cleared, OwnedBy
    <2>4. OnCourse(g)
      BY <1>3, <2>1 DEF OnCourse
    <2>5. Refused(f) <=> Refused(g)
      BY <2>1 DEF Refused, api_write_blocked, revision_conflict, Renamed
    <2>6. CommandOK(f) => CommandOK(g)
      BY <1>1, <1>2, <2>1, <2>5 DEF CommandOK, PageRead
    <2>7. FrameOK(g)
      BY <1>1, <1>2, <2>1, <2>2, <2>3, <2>4, <2>6 DEF FrameOK, NamesOK, DeliveryOK
    <2> QED BY <1>10, <2>7 DEF Moves, g
  <1> QED BY <1>7, <1>8, <1>9, <1>10

(* After its authority is read, a command goes on to its end. *)
LEMMA GoesOn ==
    ASSUME Inv, NEW c \in Clients, client[c].at \in {"upload", "fetch candidate", "stage"}
    PROVE  /\ client[c].todo \in Suffixes(client[c].req)
           /\ ClearedOrAhead(client[c])
           /\ client[c].at = "stage" =>
                 Head(client[c].todo) = "commit" /\ client[c].todo = <<"commit">>
           /\ client[c].at # "stage" /\ client[c].req.kind = "relink" =>
                 Head(client[c].todo) # "commit"
  <1> DEFINE f == client[c]
  <1>1. f.at # "idle" /\ f.at \in Working
    BY DEF Working
  <1>2. FrameOK(f) /\ f.req \in Asked
    BY <1>1, FrameOf
  <1>3. OnCourse(f) /\ Cleared(f) /\ f.unread = {}
    BY <1>1, <1>2 DEF FrameOK
  <1>4. /\ f.todo \in Suffixes(f.req)
        /\ f.at = "upload" => f.todo \in {<<"stage", "commit">>, <<"authority", "stage", "commit">>}
        /\ f.at = "fetch candidate" => f.todo = <<"stage", "commit">>
        /\ f.at = "stage" => f.todo = <<"commit">>
    BY <1>1, <1>2, <1>3, CoursePlaces
  <1>5. <<"stage", "commit">> # <<"authority", "stage", "commit">>
        /\ <<"commit">> # <<"authority", "stage", "commit">>
    OBVIOUS
  <1> HIDE DEF f
  <1>6. ClearedOrAhead(f)
    <2>1. CASE f.todo = <<"authority", "stage", "commit">>
      BY <2>1, SuffixHeads DEF ClearedOrAhead
    <2>2. CASE f.todo # <<"authority", "stage", "commit">>
      <3>1. NamespacesOf(EndpointsOf(f.req)) \ f.unread = NamespacesOf(EndpointsOf(f.req))
        BY <1>3
      <3> QED BY <1>1, <1>3, <2>2, <3>1 DEF ClearedOrAhead, Cleared
    <2> QED BY <2>1, <2>2
  <1> QED BY <1>4, <1>6, SuffixHeads DEF f

(* The upload of the requested content.                                    *)
LEMMA UploadMoves ==
    ASSUME Inv, NEW c \in Clients, Upload(c)
    PROVE  Moves(c)
  <1> DEFINE f == client[c]
  <1>1. f.at = "upload" /\ f.at \in Working /\ (Advance(c, f) \/ ItemDone(c, f))
    BY DEF Upload, Working
  <1>2. CommandGoesOn(f) /\ (ItemDone(c, f) => Moves(c))
    BY <1>1, FrameOf
  <1>3. /\ f.todo \in Suffixes(f.req) /\ ClearedOrAhead(f)
        /\ f.req.kind = "relink" => Head(f.todo) # "commit"
    BY <1>1, GoesOn
  <1> HIDE DEF f
  <1> QED BY <1>1, <1>2, <1>3, AdvanceMoves

(* The fetch of the bytes a relink proposes: only equal bytes go on.       *)
LEMMA FetchCandidateMoves ==
    ASSUME Inv, NEW c \in Clients, FetchCandidate(c)
    PROVE  Moves(c)
  <1> DEFINE f == client[c]
  <1>1. f.at = "fetch candidate" /\ f.at \in Working /\ (Advance(c, f) \/ ItemDone(c, f))
    BY DEF FetchCandidate, Working
  <1>2. CommandGoesOn(f) /\ (ItemDone(c, f) => Moves(c))
    BY <1>1, FrameOf
  <1>3. /\ f.todo \in Suffixes(f.req) /\ ClearedOrAhead(f)
        /\ f.req.kind = "relink" => Head(f.todo) # "commit"
    BY <1>1, GoesOn
  <1> HIDE DEF f
  <1> QED BY <1>1, <1>2, <1>3, AdvanceMoves

(* The staging of an asset in the repository.                              *)
LEMMA StageMoves ==
    ASSUME Inv, NEW c \in Clients, Stage(c)
    PROVE  Moves(c)
  <1> USE ConstantsAssumption
  <1> DEFINE f == client[c]
  <1>1. f.at = "stage" /\ f.at \in Working
    BY DEF Stage, Working
  <1>2. CommandGoesOn(f)
    BY <1>1, FrameOf
  <1>3. PICK a \in ContentAssets :
           /\ f.req.kind = "relink" =>
                 a \in ExternalAssets /\ digest[a] = digest[f.page.content_asset_id]
           /\ Advance(c, [f EXCEPT !.asset = a])
    BY DEF Stage, Candidates
  <1> DEFINE g == [f EXCEPT !.asset = a]
  <1>4. /\ f.todo \in Suffixes(f.req) /\ ClearedOrAhead(f)
    BY <1>1, GoesOn
  <1> HIDE DEF f
  <1>5. /\ g.asset = a /\ g.todo = f.todo /\ g.req = f.req /\ g.page = f.page
        /\ g.page_id = f.page_id /\ g.expected = f.expected /\ g.left = f.left
        /\ g.copy = f.copy /\ g.names = f.names
    BY <1>2 DEF CommandGoesOn, Frame
  <1>6. g \in Frame
    BY <1>2 DEF CommandGoesOn, Frame
  <1>7. Advance(c, g)
    BY <1>3
  <1> HIDE DEF g
  <1>8. Refused(f) <=> Refused(g)
    BY <1>5 DEF Refused, api_write_blocked, revision_conflict, Renamed
  <1>9. CommandGoesOn(g) /\ ClearedOrAhead(g)
    BY <1>2, <1>4, <1>5, <1>6, <1>8 DEF CommandGoesOn, PageRead, ClearedOrAhead, NamesOK
  <1> QED BY <1>3, <1>4, <1>5, <1>7, <1>9, AdvanceMoves

(* The resolution of a locator.                                            *)
LEMMA ResolveMoves ==
    ASSUME Inv, NEW c \in Clients, Resolve(c)
    PROVE  Moves(c)
  <1> USE ConstantsAssumption
  <1> DEFINE f == client[c]
             id == endpoint_page_ids[f.req.locator]
             g == [f EXCEPT !.page_id = id, !.page = pages[id], !.at = "fetch"]
  <1>1. f.at = "resolve" /\ f.at \in Delivering
    BY DEF Resolve, Delivering
  <1>2. CASE Return(c)
    BY <1>2, ReturnMoves
  <1>3. CASE id # None /\ pages[id].content_asset_id \in ExternalAssets /\ Become(c, g)
    <2>1. /\ f \in Frame /\ FrameOK(f) /\ f.req \in Asked /\ f.req.kind = "deliver"
          /\ ~protection_requires_session(f.req)
      BY <1>1, FrameOf
    <2>2. f.req.locator \in Locators
      BY <2>1, RequestFields
    <2>3. id \in PageIds /\ pages[id] # None
      BY <1>3, <2>2 DEF Inv, StoreInv, Repository!TypeOK, Repository!EndpointIndexCoherent
    <2>4. pages[id] \in PageAggregate /\ id \in drawn /\ Owned(pages[id])
      BY <2>3, SamePages DEF Inv, StoreInv, Repository!TypeOK, WorldInv
    <2> HIDE DEF f, id
    <2>5. /\ g.at = "fetch" /\ g.page = pages[id] /\ g.page_id = id
          /\ g.req = f.req /\ g.unread = f.unread /\ g.left = f.left /\ g.todo = f.todo
          /\ g.copy = f.copy /\ g.names = f.names
      BY <2>1 DEF Frame
    <2>6. g \in Frame
      BY <2>1, <2>3, <2>4 DEF Frame, Places
    <2> HIDE DEF g
    <2>7. Current(g.page_id, g.page)
      <3>1. g.page = [g.page EXCEPT !.external_missing = g.page.external_missing]
        BY <2>4, <2>5 DEF PageAggregate
      <3> QED BY <2>5, <3>1 DEF Current
    <2>8. DeliveryOK(g)
      BY <1>3, <2>4, <2>5, <2>7 DEF DeliveryOK, PageRead
    <2>9. f.unread = {} /\ f.left = <<>> /\ f.todo = <<>>
      BY <1>1, <2>1 DEF FrameOK, Selecting, OnCourse, Working
    <2>10. FrameOK(g)
      BY <2>1, <2>5, <2>6, <2>8, <2>9
      DEF FrameOK, OnCourse, Cleared, Working, Selecting, Delivering, NamesOK
    <2> QED BY <1>3, <2>10 DEF Moves
  <1> QED BY <1>2, <1>3 DEF Resolve

(* The fetch of a page's external content.                                 *)
LEMMA FetchMoves ==
    ASSUME Inv, NEW c \in Clients, Fetch(c)
    PROVE  Moves(c)
  <1> DEFINE f == client[c]
             lost == source[f.page.content_asset_id] = "lost"
  <1>1. f.at = "fetch" /\ f.at \in Delivering
    BY DEF Fetch, Delivering
  <1>2. /\ f \in Frame /\ FrameOK(f) /\ f.req \in Asked /\ f.req.kind = "deliver"
        /\ ~protection_requires_session(f.req)
    BY <1>1, FrameOf
  <1>3. DeliveryOK(f) /\ f.unread = {} /\ f.left = <<>> /\ f.todo = <<>>
    BY <1>1, <1>2 DEF FrameOK, Selecting, OnCourse, Working
  <1>4. ASSUME NEW place \in {"record missing", "record found"},
               place = "record missing" => lost,
               Become(c, [f EXCEPT !.at = place])
        PROVE  Moves(c)
    <2> DEFINE g == [f EXCEPT !.at = place]
    <2> HIDE DEF f
    <2>1. /\ g.at = place /\ g.page = f.page /\ g.page_id = f.page_id
          /\ g.req = f.req /\ g.unread = f.unread /\ g.left = f.left /\ g.todo = f.todo
          /\ g.copy = f.copy /\ g.names = f.names
      BY <1>2 DEF Frame
    <2>2. g \in Frame
      BY <1>2 DEF Frame, Places
    <2> HIDE DEF g
    <2>3. DeliveryOK(g)
      BY <1>1, <1>3, <1>4, <2>1 DEF DeliveryOK, PageRead
    <2>4. FrameOK(g)
      BY <1>2, <1>3, <2>1, <2>2, <2>3
      DEF FrameOK, OnCourse, Cleared, Working, Selecting, Delivering, NamesOK
    <2> QED BY <1>4, <2>4 DEF Moves, g
  <1>5. \/ lost /\ Become(c, [f EXCEPT !.at = "record missing"])
        \/ Become(c, [f EXCEPT !.at = "record found"])
        \/ Return(c)
    BY DEF Fetch
  <1> QED BY <1>4, <1>5, ReturnMoves


-----------------------------------------------------------------------------
(* The repository calls: where they leave their call. *)

(* What is settled when a call reaches its repository operation: nothing   *)
(* left of its course, the namespaces of its endpoints checked, a relink's *)
(* bytes equal.                                                            *)
LEMMA CommitFrame ==
    ASSUME Inv, NEW c \in Clients, client[c].at = "commit"
    PROVE  /\ client[c].todo = <<>> /\ client[c].unread = {}
           /\ CommandGoesOn(client[c])
           /\ OnCourse(client[c]) /\ Cleared(client[c])
           /\ client[c].req.actor # None /\ EndpointsOf(client[c].req) # None =>
                 OwnedBy(client[c].req.actor, NamespacesOf(EndpointsOf(client[c].req)))
           /\ client[c].req.kind = "relink" =>
                 /\ client[c].asset \in ExternalAssets
                 /\ digest[client[c].asset] = digest[client[c].page.content_asset_id]
  <1> DEFINE f == client[c]
  <1>1. f.at # "idle" /\ f.at \in Working
    BY DEF Working
  <1>2. FrameOK(f) /\ f.req \in Asked /\ CommandGoesOn(f)
    BY <1>1, FrameOf
  <1>3. OnCourse(f) /\ Cleared(f) /\ f.unread = {}
    BY <1>1, <1>2 DEF FrameOK
  <1>4. f.todo = <<>>
    BY <1>1, <1>2, <1>3, CoursePlaces
  <1>5. <<>> # <<"authority", "stage", "commit">>
    OBVIOUS
  <1>6. f.req.kind = "relink" =>
           f.asset \in ExternalAssets /\ digest[f.asset] = digest[f.page.content_asset_id]
    BY <1>2 DEF FrameOK, CommandOK, Selecting
  <1> HIDE DEF f
  <1>7. ASSUME f.req.actor # None, EndpointsOf(f.req) # None
        PROVE  OwnedBy(f.req.actor, NamespacesOf(EndpointsOf(f.req)))
    <2>1. NamespacesOf(EndpointsOf(f.req)) \ f.unread = NamespacesOf(EndpointsOf(f.req))
      BY <1>3
    <2> QED BY <1>1, <1>3, <1>4, <1>5, <1>7, <2>1 DEF Cleared
  <1> QED BY <1>2, <1>3, <1>4, <1>6, <1>7 DEF f

(* A command that goes on and stands at its commit or its stage.           *)
LEMMA StandsMoves ==
    ASSUME NEW c, NEW g, CommandGoesOn(g), g.unread = {}, Become(c, g),
           \/ g.at = "commit" /\ g.todo = <<>>
           \/ g.at = "stage" /\ g.todo = <<"commit">> /\ g.req.kind \in Creating,
           g.req.kind \in Creating \cup {"duplicate"},
           g.req.actor # None /\ EndpointsOf(g.req) # None =>
               OwnedBy(g.req.actor, NamespacesOf(EndpointsOf(g.req)))
    PROVE  Moves(c)
  <1>1. OnCourse(g)
    <2>1. g.at \in Working /\ g.req.kind \in Creating \cup Selecting
      BY DEF Working, Selecting
    <2>2. g.at = "commit" => <<"commit">> \in Suffixes(g.req)
      BY SuffixesOf DEF Creating
    <2>3. g.at = "stage" => <<"stage", "commit">> \in Suffixes(g.req)
      BY SuffixesOf
    <2> QED BY <2>1, <2>2, <2>3, SuffixHeads DEF OnCourse
  <1>2. Cleared(g)
    BY DEF Cleared, OwnedBy
  <1>3. g.req.kind \in Selecting => CommandOK(g)
    BY DEF CommandOK, CommandGoesOn, Creating
  <1>4. FrameOK(g)
    BY <1>1, <1>2, <1>3 DEF FrameOK, CommandGoesOn, Creating
  <1> QED BY <1>4 DEF Moves

(* A generated id that is taken: another id is tried, or the call gives    *)
(* up.                                                                     *)
LEMMA NextIdMoves ==
    ASSUME NEW c, NEW f, CommandGoesOn(f), f.unread = {}, NEW place, NEW todo,
           \/ place = "commit" /\ todo = <<>>
           \/ place = "stage" /\ todo = <<"commit">> /\ f.req.kind \in Creating,
           f.req.kind \in Creating \cup {"duplicate"},
           f.req.actor # None /\ EndpointsOf(f.req) # None =>
               OwnedBy(f.req.actor, NamespacesOf(EndpointsOf(f.req))),
           NextId(c, f, place, todo)
    PROVE  Moves(c)
  <1> DEFINE g == [f EXCEPT !.attempt = @ + 1, !.at = place, !.todo = todo]
  <1>1. f \in Frame
    BY DEF CommandGoesOn
  <1>2. /\ g.at = place /\ g.todo = todo /\ g.attempt = f.attempt + 1
        /\ g.unread = f.unread /\ g.req = f.req /\ g.left = f.left /\ g.page = f.page
        /\ g.page_id = f.page_id /\ g.expected = f.expected /\ g.copy = f.copy /\ g.names = f.names
    BY <1>1 DEF Frame
  <1>3. CASE Return(c)
    BY <1>3, ReturnMoves
  <1>4. CASE g.attempt < max_page_id_attempts /\ Become(c, g)
    <2>1. g.attempt \in 0 .. max_page_id_attempts - 1
      BY <1>1, <1>2, <1>4, ServiceAssumption DEF Frame
    <2>2. todo \in Seq(Places) /\ place \in Places
      <3>1. <<>> \in Seq(Places) /\ <<"commit">> \in Seq(Places)
        BY DEF Places
      <3> QED BY <3>1 DEF Places
    <2>3. g \in Frame
      BY <1>1, <1>2, <2>1, <2>2 DEF Frame
    <2> HIDE DEF g
    <2>4. Refused(f) <=> Refused(g)
      BY <1>2 DEF Refused, api_write_blocked, revision_conflict, Renamed
    <2>5. CommandGoesOn(g)
      BY <1>2, <2>3, <2>4 DEF CommandGoesOn, PageRead, NamesOK
    <2> QED BY <1>2, <1>4, <2>5, StandsMoves
  <1> QED BY <1>3, <1>4 DEF NextId

(* A generated name that is taken: another name is tried, or the call      *)
(* gives up.                                                               *)
LEMMA NextNameMoves ==
    ASSUME NEW c, NEW f, CommandGoesOn(f), f.unread = {}, f.at = "commit", f.todo = <<>>,
           f.req.kind = "duplicate", NEW e \in EndpointSet, NextName(c, f, e)
    PROVE  Moves(c)
  <1> USE ConstantsAssumption, ServiceAssumption
  <1> DEFINE g == [f EXCEPT !.names = @ \cup {e.canonical[2]}, !.copy = None, !.attempt = 0]
  <1>1. f \in Frame
    BY DEF CommandGoesOn
  <1>2. /\ g.at = f.at /\ g.todo = f.todo /\ g.copy = None
        /\ g.unread = f.unread /\ g.req = f.req /\ g.left = f.left /\ g.page = f.page
        /\ g.page_id = f.page_id /\ g.expected = f.expected
    BY <1>1 DEF Frame
  <1>3. CASE Return(c)
    BY <1>3, ReturnMoves
  <1>4. CASE /\ EndpointsOf(f.req) = None /\ Cardinality(g.names) < max_page_name_attempts
             /\ Become(c, g)
    <2>1. e.canonical[2] \in PageNames
      BY DEF EndpointSet
    <2>2. g \in Frame
      <3>1. 0 \in 0 .. max_page_id_attempts - 1
        OBVIOUS
      <3>2. f.names \cup {e.canonical[2]} \in SUBSET PageNames
        BY <1>1, <2>1 DEF Frame
      <3> QED BY ONLY <1>1, <3>1, <3>2 DEF Frame
    <2> HIDE DEF g
    <2>3. Refused(f) <=> Refused(g)
      BY <1>2 DEF Refused, api_write_blocked, revision_conflict, Renamed
    <2>4. CommandGoesOn(g)
      <3>1. NamesOK(g)
        BY <1>2, <1>4 DEF NamesOK, g
      <3> QED BY <1>2, <2>2, <2>3, <3>1 DEF CommandGoesOn, PageRead
    <2> QED BY <1>2, <1>4, <2>4, StandsMoves
  <1> QED BY <1>3, <1>4 DEF NextName

(* A copy is made only in namespaces that are the actor's.                 *)
LEMMA CopiesOwned ==
    ASSUME Inv, NEW c \in Clients, client[c].at = "commit", client[c].req.kind = "duplicate",
           NEW e \in CopyEndpoints(client[c])
    PROVE  /\ e \in EndpointSet /\ OwnedBy(client[c].req.actor, NamespacesOf(e))
           /\ EndpointsOf(client[c].req) = None => e.canonical[2] \notin client[c].names
  <1> USE ConstantsAssumption, ServiceAssumption
  <1> SUFFICES ASSUME NEW f, f = client[c]
               PROVE  /\ e \in EndpointSet /\ OwnedBy(f.req.actor, NamespacesOf(e))
                      /\ EndpointsOf(f.req) = None => e.canonical[2] \notin f.names
    OBVIOUS
  <1>1. CommandGoesOn(f) /\ f.req.kind = "duplicate" /\ e \in CopyEndpoints(f)
    BY CommitFrame
  <1>2. EndpointsOf(f.req) # None => OwnedBy(f.req.actor, NamespacesOf(EndpointsOf(f.req)))
    BY <1>1, CommitFrame, RequestFields DEF CommandGoesOn, Selecting
  <1>3. /\ f \in Frame /\ f.req \in Asked /\ PageRead(f) /\ f.page.owner = f.req.actor
        /\ f.req.actor \in Owners
        /\ f.copy # None => OwnedBy(f.req.actor, NamespacesOf(f.copy))
    BY <1>1, RequestFields DEF CommandGoesOn, Selecting
  <1>4. CASE EndpointsOf(f.req) # None
    BY <1>1, <1>2, <1>3, <1>4, RequestFields DEF CopyEndpoints
  <1>5. CASE EndpointsOf(f.req) = None /\ f.copy # None
    BY <1>1, <1>3, <1>5 DEF CopyEndpoints, Frame, CommandGoesOn, NamesOK
  <1>6. CASE EndpointsOf(f.req) = None /\ f.copy = None
    <2> DEFINE canonical == f.page.endpoint_set.canonical
    <2>1. PICK name \in PageNames \ f.names :
             e = [canonical |-> <<namespace(canonical), name>>, alternates |-> {}]
      BY <1>1, <1>6 DEF CopyEndpoints
    <2>2. f.page \in PageAggregate /\ Owned(f.page)
      BY <1>3 DEF PageRead
    <2>3. canonical \in Locators /\ canonical \in bindings(f.page.endpoint_set)
      BY <2>2 DEF PageAggregate, EndpointSet, bindings
    <2>4. namespace(canonical) \in NamespacesOf(f.page.endpoint_set)
      BY <2>3 DEF NamespacesOf
    <2>5. reservations[namespace(canonical)] = f.req.actor
      BY <1>3, <2>2, <2>4 DEF Owned, OwnedBy
    <2>6. namespace(canonical) \in Namespaces
      BY <2>3 DEF namespace
    <2> HIDE DEF canonical
    <2>7. e \in EndpointSet
      BY <2>1, <2>6 DEF EndpointSet
    <2>8. NamespacesOf(e) = {namespace(canonical)}
      <3>1. bindings(e) = {<<namespace(canonical), name>>}
        BY <2>1 DEF bindings
      <3>2. namespace(<<namespace(canonical), name>>) = namespace(canonical)
        BY DEF namespace
      <3> QED BY <3>1, <3>2 DEF NamespacesOf
    <2>9. e.canonical[2] = name
      BY <2>1
    <2> QED BY <2>5, <2>7, <2>8, <2>9 DEF OwnedBy
  <1> QED BY <1>4, <1>5, <1>6

-----------------------------------------------------------------------------
(* What the steps do to the store and to the world. *)

GoodStep(c) ==
    /\ Repository!Next \/ UNCHANGED store
    /\ WorldInv' /\ WorldGrows
    /\ requests' \subseteq requests
    /\ Moves(c) \/ UNCHANGED client

(* A step that leaves store and world alone. *)
LEMMA Quiet ==
    ASSUME Inv, UNCHANGED <<store, world, drawn>>
    PROVE  WorldInv' /\ WorldGrows /\ (Repository!Next \/ UNCHANGED store)
  <1>1. WorldInv'
    BY DEF Inv, WorldInv, store, world, HealthIsOfThisContent, Owned, OwnedBy
  <1>2. WorldGrows
    BY DEF store, world, WorldGrows, Inv, WorldInv
  <1> QED BY <1>1, <1>2

(* The pages a step leaves, when reservations and sources stay.            *)
LEMMA PagesWorld ==
    ASSUME Inv, UNCHANGED world, drawn \subseteq drawn', drawn' \subseteq PageIds,
           \A p \in PageIds :
               pages'[p] # None =>
                   /\ p \in drawn' /\ Owned(pages'[p])
                   /\ pages'[p].external_missing =>
                         /\ pages'[p].content_asset_id \in ExternalAssets
                         /\ source[pages'[p].content_asset_id] # "intact",
           \A p \in drawn : pages[p] = None => pages'[p] = None
    PROVE  WorldInv' /\ WorldGrows
  <1>1. reservations' = reservations /\ source' = source
    BY DEF world
  <1>2. \A p \in PageIds : pages'[p] # None => Owned(pages[p])'
    BY <1>1 DEF Owned, OwnedBy
  <1>3. HealthIsOfThisContent'
    BY <1>1 DEF HealthIsOfThisContent
  <1>4. WorldInv'
    BY <1>1, <1>2, <1>3 DEF Inv, WorldInv
  <1>5. WorldGrows
    BY <1>1 DEF WorldGrows
  <1> QED BY <1>4, <1>5

(* A page in order is installed, under a fresh id or in the place of one.  *)
LEMMA InstallWorld ==
    ASSUME Inv, UNCHANGED world, NEW removed, NEW id \in PageIds, NEW page,
           Owned(page),
           page.external_missing => /\ page.content_asset_id \in ExternalAssets
                                    /\ source[page.content_asset_id] # "intact",
           pages[id] # None \/ id \notin drawn,
           Draw \/ (drawn' = drawn /\ id \in drawn),
           Repository!ReplacePages(removed, id, page)
    PROVE  WorldInv' /\ WorldGrows
  <1>1. \A p \in PageIds :
           pages'[p] = IF p = id THEN page ELSE IF p \in removed THEN None ELSE pages[p]
    BY DEF Repository!ReplacePages
  <1>2. drawn \subseteq PageIds
    BY DEF Inv, WorldInv
  <1>3. drawn \subseteq drawn' /\ drawn' \subseteq PageIds
    BY <1>2 DEF Draw
  <1>4. ASSUME NEW p \in PageIds, pages'[p] # None
        PROVE  /\ p \in drawn' /\ Owned(pages'[p])
               /\ pages'[p].external_missing =>
                     /\ pages'[p].content_asset_id \in ExternalAssets
                     /\ source[pages'[p].content_asset_id] # "intact"
    <2>1. CASE p = id
      <3>1. pages'[p] = page
        BY <1>1, <2>1
      <3>2. p \in drawn'
        BY <1>4, <2>1 DEF Draw
      <3> QED BY <3>1, <3>2
    <2>2. CASE p # id
      <3>1. pages'[p] = pages[p]
        BY <1>1, <1>4, <2>2
      <3> QED BY <1>3, <1>4, <3>1 DEF Inv, WorldInv, HealthIsOfThisContent
    <2> QED BY <2>1, <2>2
  <1>5. \A p \in drawn : pages[p] = None => pages'[p] = None
    BY <1>1, <1>2
  <1> QED BY <1>3, <1>4, <1>5, PagesWorld

(* A generated id is an id, of a stored page or never drawn before.        *)
LEMMA GeneratedIds ==
    ASSUME NEW id \in Generated
    PROVE  id \in PageIds /\ (pages[id] # None \/ id \notin drawn)
  BY DEF Generated

(* Locators are claimed by stored pages.                                   *)
LEMMA ClaimedStored ==
    ASSUME StoreInv, NEW e \in EndpointSet
    PROVE  \A p \in Repository!claimed_page_ids(e) : p \in PageIds /\ pages[p] # None
  <1> SUFFICES ASSUME NEW l \in bindings(e), endpoint_page_ids[l] # None
               PROVE  endpoint_page_ids[l] \in PageIds /\ pages[endpoint_page_ids[l]] # None
    BY SamePages DEF Repository!claimed_page_ids
  <1>1. l \in Locators
    BY DEF bindings, EndpointSet
  <1> QED BY <1>1 DEF StoreInv, Repository!TypeOK, Repository!EndpointIndexCoherent

(* A trial's publication keeps the invariant.                              *)
LEMMA PutTrialGood ==
    ASSUME Inv, NEW c \in Clients, client[c].at = "commit", client[c].req.kind = "publish_trial",
           NEW id \in Generated, UNCHANGED <<world, requests>>, PutTrial(c, client[c], id)
    PROVE  GoodStep(c)
  <1> USE ConstantsAssumption, ServiceAssumption
  <1> SUFFICES ASSUME NEW f, f = client[c] PROVE GoodStep(c)
    OBVIOUS
  <1> DEFINE e == f.req.endpoint_set
  <1>1. /\ CommandGoesOn(f) /\ f.unread = {} /\ f.req \in Asked /\ f.req.kind \in Creating
        /\ ItemDone(c, f) => Moves(c)
        /\ f.req.actor = None
    BY CommitFrame, FrameOf, RequestFields DEF CommandGoesOn, Creating
  <1>2. e \in EndpointSet
    BY <1>1, RequestFields
  <1>3. UNCHANGED world /\ requests' \subseteq requests
    OBVIOUS
  <1>4. CASE Repository!put_trial_page_aggregate(id, e, f.asset) /\ Return(c) /\ Draw
    <2>1. f.asset \in ContentAssets
      BY <1>4 DEF Repository!put_trial_page_aggregate, Inv, StoreInv, Repository!TypeOK
    <2>2. id \in PageIds /\ (pages[id] # None \/ id \notin drawn)
      BY GeneratedIds
    <2>3. Repository!Next
      BY <1>2, <1>4, <2>1, <2>2, SamePages DEF Repository!Next
    <2>4. ASSUME NEW r
          PROVE  /\ Owned(Repository!TrialPage(e, f.asset, r))
                 /\ ~Repository!TrialPage(e, f.asset, r).external_missing
      BY DEF Owned, Repository!TrialPage
    <2>5. CASE pages[id] = None
               /\ Repository!ReplacePages({}, id, Repository!TrialPage(e, f.asset, 1))
      <3>1. WorldInv' /\ WorldGrows
        BY <1>3, <1>4, <2>2, <2>4, <2>5, InstallWorld
      <3> QED BY <1>3, <1>4, <2>3, <3>1, ReturnMoves DEF GoodStep
    <2>6. ASSUME NEW old \in Repository!claimed_page_ids(e), NEW r,
                 Repository!ReplacePages({old}, old, Repository!TrialPage(e, f.asset, r))
          PROVE  GoodStep(c)
      <3>1. old \in PageIds /\ pages[old] # None
        BY <1>2, ClaimedStored DEF Inv
      <3>2. WorldInv' /\ WorldGrows
        BY <1>3, <1>4, <2>4, <2>6, <3>1, InstallWorld
      <3> QED BY <1>3, <1>4, <2>3, <3>2, ReturnMoves DEF GoodStep
    <2> QED BY <1>4, <2>5, <2>6 DEF Repository!put_trial_page_aggregate
  <1>5. CASE Refuse(c, f)
    BY <1>1, <1>3, <1>5, Quiet DEF Refuse, GoodStep
  <1>6. CASE NextId(c, f, "stage", <<"commit">>)
    <2>1. Moves(c)
      BY <1>1, <1>6, NextIdMoves
    <2>2. UNCHANGED <<store, drawn>>
      BY <1>6 DEF NextId
    <2> QED BY <1>3, <2>1, <2>2, Quiet DEF GoodStep
  <1>7. PutTrial(c, f, id)
    OBVIOUS
  <1> QED BY <1>4, <1>5, <1>6, <1>7 DEF PutTrial

(* A managed page's creation keeps the invariant.                          *)
LEMMA CreateManagedGood ==
    ASSUME Inv, NEW c \in Clients, client[c].at = "commit", client[c].req.kind = "create_managed",
           NEW id \in Generated, UNCHANGED <<world, requests>>, CreateManaged(c, client[c], id)
    PROVE  GoodStep(c)
  <1> USE ConstantsAssumption, ServiceAssumption
  <1> SUFFICES ASSUME NEW f, f = client[c] PROVE GoodStep(c)
    OBVIOUS
  <1> DEFINE e == f.req.endpoint_set
             page == Repository!ManagedPage(e, f.req.actor, f.req.access, f.asset)
  <1>1. /\ CommandGoesOn(f) /\ f.unread = {} /\ f.req \in Asked /\ f.req.kind \in Creating
        /\ ItemDone(c, f) => Moves(c)
        /\ f.req.actor \in Owners /\ f.req.access \in {"public", "private"}
    BY CommitFrame, FrameOf, RequestFields DEF CommandGoesOn, Creating
  <1>2. e \in EndpointSet /\ EndpointsOf(f.req) = e
    BY <1>1, RequestFields
  <1>3. UNCHANGED world /\ requests' \subseteq requests
    OBVIOUS
  <1>4. OwnedBy(f.req.actor, NamespacesOf(EndpointsOf(f.req)))
    BY <1>1, <1>2, CommitFrame
  <1>5. CASE /\ Repository!create_managed_page_aggregate(id, e, f.req.actor, f.req.access, f.asset)
             /\ Return(c) /\ Draw
    <2>1. f.asset \in ContentAssets
      BY <1>5 DEF Repository!create_managed_page_aggregate, Inv, StoreInv, Repository!TypeOK
    <2>2. id \in PageIds /\ (pages[id] # None \/ id \notin drawn)
      BY GeneratedIds
    <2>3. Repository!Next
      BY <1>1, <1>2, <1>5, <2>1, <2>2, SamePages DEF Repository!Next
    <2>4. Owned(page) /\ ~page.external_missing
      BY <1>2, <1>4 DEF Owned, Repository!ManagedPage
    <2>5. Repository!ReplacePages(Repository!claimed_page_ids(e), id, page)
      BY <1>5 DEF Repository!create_managed_page_aggregate
    <2> HIDE DEF page
    <2>6. WorldInv' /\ WorldGrows
      BY <1>3, <1>5, <2>2, <2>4, <2>5, InstallWorld
    <2> QED BY <1>3, <1>5, <2>3, <2>6, ReturnMoves DEF GoodStep
  <1>6. CASE Refuse(c, f)
    BY <1>1, <1>3, <1>6, Quiet DEF Refuse, GoodStep
  <1>7. CASE NextId(c, f, "stage", <<"commit">>)
    <2>1. Moves(c)
      BY <1>1, <1>4, <1>7, NextIdMoves
    <2>2. UNCHANGED <<store, drawn>>
      BY <1>7 DEF NextId
    <2> QED BY <1>3, <2>1, <2>2, Quiet DEF GoodStep
  <1>8. CreateManaged(c, f, id)
    OBVIOUS
  <1> QED BY <1>5, <1>6, <1>7, <1>8 DEF CreateManaged

(* A revision that is the stored page's is a possible one. *)
LEMMA OwnedPage ==
    ASSUME StoreInv, NEW id \in PageIds, NEW owner, NEW r, Repository!OwnedAt(id, owner, r)
    PROVE  /\ pages[id] # None /\ pages[id] \in PageAggregate
           /\ pages[id].owner = owner /\ owner # None
           /\ pages[id].revision = r /\ r \in 1 .. MaxRevision
  <1>1. /\ pages[id] # None /\ pages[id].owner = owner /\ owner # None
        /\ pages[id].revision = r
    BY DEF Repository!OwnedAt
  <1>2. pages[id] \in PageAggregate
    BY <1>1, SamePages DEF StoreInv, Repository!TypeOK
  <1> QED BY <1>1, <1>2 DEF PageAggregate

(* A duplication keeps the invariant: the copy's endpoints are in          *)
(* namespaces of its owner.                                                *)
LEMMA DuplicateGood ==
    ASSUME Inv, NEW c \in Clients, client[c].at = "commit", client[c].req.kind = "duplicate",
           NEW id \in Generated, UNCHANGED <<world, requests>>, Duplicate(c, client[c], id)
    PROVE  GoodStep(c)
  <1> USE ConstantsAssumption, ServiceAssumption
  <1> SUFFICES ASSUME NEW f, f = client[c] PROVE GoodStep(c)
    OBVIOUS
  <1>1. /\ CommandGoesOn(f) /\ f.unread = {} /\ f.req \in Asked
        /\ f.req.kind \in Selecting /\ f.todo = <<>>
        /\ ItemDone(c, f) => Moves(c)
        /\ f.req.actor \in Owners /\ f.page_id \in PageIds
    BY CommitFrame, FrameOf, RequestFields DEF CommandGoesOn, Selecting
  <1>2. EndpointsOf(f.req) # None => OwnedBy(f.req.actor, NamespacesOf(EndpointsOf(f.req)))
    BY <1>1, CommitFrame
  <1>3. UNCHANGED world /\ requests' \subseteq requests
    OBVIOUS
  <1>4. Duplicate(c, f, id)
    OBVIOUS
  <1>5. PICK e \in CopyEndpoints(f) :
           \/ /\ Repository!duplicate_managed_page_aggregate(f.page_id, f.req.actor,
                                                             f.expected, id, e)
              /\ Return(c) /\ Draw
           \/ Refuse(c, f)
           \/ NextName(c, f, e)
           \/ NextId(c, [f EXCEPT !.copy = e], "commit", <<>>)
    BY <1>4 DEF Duplicate
  <1>6. /\ e \in EndpointSet /\ OwnedBy(f.req.actor, NamespacesOf(e))
        /\ EndpointsOf(f.req) = None => e.canonical[2] \notin f.names
    BY CopiesOwned
  <1>7. CASE /\ Repository!duplicate_managed_page_aggregate(f.page_id, f.req.actor,
                                                            f.expected, id, e)
             /\ Return(c) /\ Draw
    <2> DEFINE page == Repository!DuplicatePage(pages[f.page_id], e)
    <2>1. /\ Repository!OwnedAt(f.page_id, f.req.actor, f.expected)
          /\ Repository!ReplacePages(Repository!claimed_page_ids(e), id, page)
      BY <1>7 DEF Repository!duplicate_managed_page_aggregate
    <2>2. pages[f.page_id].owner = f.req.actor /\ f.expected \in 1 .. MaxRevision
      BY <1>1, <2>1, OwnedPage DEF Inv
    <2>3. id \in PageIds /\ (pages[id] # None \/ id \notin drawn)
      BY GeneratedIds
    <2>4. Repository!Next
      BY <1>1, <1>6, <1>7, <2>2, <2>3, SamePages DEF Repository!Next
    <2>5. Owned(page) /\ ~page.external_missing
      BY <1>6, <2>2 DEF Owned, Repository!DuplicatePage
    <2> HIDE DEF page
    <2>6. WorldInv' /\ WorldGrows
      BY <1>3, <1>7, <2>1, <2>3, <2>5, InstallWorld
    <2> QED BY <1>3, <1>7, <2>4, <2>6, ReturnMoves DEF GoodStep
  <1>8. CASE Refuse(c, f)
    BY <1>1, <1>3, <1>8, Quiet DEF Refuse, GoodStep
  <1>9. CASE NextName(c, f, e)
    <2>1. Moves(c)
      BY <1>1, <1>6, <1>9, NextNameMoves
    <2>2. UNCHANGED <<store, drawn>>
      BY <1>9 DEF NextName
    <2> QED BY <1>3, <2>1, <2>2, Quiet DEF GoodStep
  <1>10. CASE NextId(c, [f EXCEPT !.copy = e], "commit", <<>>)
    <2> DEFINE g == [f EXCEPT !.copy = e]
    <2>1. /\ g.at = f.at /\ g.todo = f.todo /\ g.copy = e
          /\ g.unread = f.unread /\ g.names = f.names /\ g.req = f.req /\ g.left = f.left /\ g.page = f.page
          /\ g.page_id = f.page_id /\ g.expected = f.expected
      BY <1>1 DEF Frame, CommandGoesOn
    <2>2. g \in Frame
      BY <1>1, <1>6 DEF Frame, CommandGoesOn
    <2>3. NextId(c, g, "commit", <<>>)
      BY <1>10
    <2> HIDE DEF g
    <2>4. Refused(f) <=> Refused(g)
      BY <2>1 DEF Refused, api_write_blocked, revision_conflict, Renamed
    <2>5. CommandGoesOn(g)
      BY <1>1, <1>6, <2>1, <2>2, <2>4 DEF CommandGoesOn, PageRead, NamesOK
    <2>6. Moves(c)
      BY <1>1, <1>2, <2>1, <2>3, <2>5, NextIdMoves
    <2>7. UNCHANGED <<store, drawn>>
      BY <2>3 DEF NextId
    <2> QED BY <1>3, <2>6, <2>7, Quiet DEF GoodStep
  <1> QED BY <1>5, <1>7, <1>8, <1>9, <1>10

(* The patch of a command, at the commit. *)
LEMMA PatchType ==
    ASSUME NEW f, CommandGoesOn(f), f.req.kind \in {"update", "relink", "rename"},
           f.req.kind = "relink" => f.asset \in ExternalAssets
    PROVE  /\ PatchOf(f) \in Patch
           /\ PatchOf(f).endpoint_set # None =>
                 \/ f.req.kind = "update" /\ EndpointsOf(f.req) # None
                    /\ PatchOf(f).endpoint_set = EndpointsOf(f.req)
                 \/ f.req.kind = "rename"
                    /\ NamespacesOf(PatchOf(f).endpoint_set)
                          \subseteq NamespacesOf(f.page.endpoint_set)
  <1> USE ConstantsAssumption, ServiceAssumption
  <1>1. /\ f \in Frame /\ f.req \in Asked /\ f.page \in PageAggregate /\ ~Refused(f)
        /\ f.asset \in ContentAssets \cup {None}
    BY DEF CommandGoesOn, Selecting, PageRead, Frame
  <1>2. CASE f.req.kind = "update"
    <2>1. /\ f.req.endpoint_set \in EndpointSet \cup {None} /\ EndpointsOf(f.req) = f.req.endpoint_set
          /\ f.req.access \in {"public", "private", None}
          /\ f.req.block_api_write \in BOOLEAN \cup {None}
      BY <1>1, <1>2, RequestFields
    <2>2. Or(f.req.access, f.page.access) \in {"public", "private"}
      BY <1>1, <2>1 DEF Or, PageAggregate
    <2>3. PatchOf(f) = [endpoint_set |-> IF f.req.endpoint_set = f.page.endpoint_set
                                         THEN None ELSE f.req.endpoint_set,
                        content_asset_id |-> f.asset,
                        access |-> Or(f.req.access, f.page.access),
                        block_api_write |-> f.req.block_api_write]
      BY <1>2 DEF PatchOf
    <2>4. PatchOf(f).access # None
      BY <2>2, <2>3 DEF Access
    <2> QED BY <1>1, <1>2, <2>1, <2>2, <2>3, <2>4 DEF Patch
  <1>3. CASE f.req.kind = "relink"
    <2>1. PatchOf(f) = [NoPatch EXCEPT !.content_asset_id = f.asset]
      BY <1>3 DEF PatchOf
    <2>2. f.asset \in ContentAssets /\ f.asset # None
      BY <1>3
    <2> QED BY <2>1, <2>2 DEF NoPatch, Patch
  <1>4. CASE f.req.kind = "rename"
    <2> DEFINE old == f.page.endpoint_set
               new == [old EXCEPT !.canonical = Renamed(f)]
    <2>1. PatchOf(f) = [NoPatch EXCEPT !.endpoint_set = new]
      BY <1>4 DEF PatchOf
    <2>2. old \in EndpointSet /\ f.req.page_name \in PageNames
      BY <1>1, <1>4, RequestFields DEF PageAggregate
    <2>3. Renamed(f) \notin bindings(old)
      BY <1>1, <1>4 DEF Refused
    <2>4. Renamed(f) \in Locators /\ namespace(Renamed(f)) = namespace(old.canonical)
      BY <2>2 DEF Renamed, namespace, EndpointSet
    <2> HIDE DEF old
    <2>5. new \in EndpointSet /\ new.canonical = Renamed(f) /\ new.alternates = old.alternates
      BY <2>2, <2>3, <2>4 DEF EndpointSet, bindings
    <2> HIDE DEF new
    <2>6. NamespacesOf(new) \subseteq NamespacesOf(old)
      BY <2>4, <2>5 DEF NamespacesOf, bindings
    <2>7. PatchOf(f).endpoint_set = new /\ PatchOf(f) \in Patch
      BY <2>1, <2>5 DEF NoPatch, Patch
    <2> QED BY <1>4, <2>6, <2>7 DEF old
  <1> QED BY <1>2, <1>3, <1>4

(* An update, relink or rename keeps the invariant.                        *)
LEMMA UpdateGood ==
    ASSUME Inv, NEW c \in Clients, client[c].at = "commit",
           client[c].req.kind \in {"update", "relink", "rename"},
           UNCHANGED <<world, requests>>, Update(c, client[c])
    PROVE  GoodStep(c)
  <1> USE ConstantsAssumption, ServiceAssumption
  <1> SUFFICES ASSUME NEW f, f = client[c] PROVE GoodStep(c)
    OBVIOUS
  <1> DEFINE id == f.page_id
             patch == PatchOf(f)
             page == Repository!PatchedPage(pages[id], patch)
  <1>1. /\ CommandGoesOn(f) /\ f.req \in Asked /\ f.req.kind \in Selecting
        /\ ItemDone(c, f) => Moves(c)
        /\ f.req.actor \in Owners /\ id \in PageIds
        /\ PageRead(f) /\ f.page.owner = f.req.actor
        /\ f.req.kind = "relink" => f.asset \in ExternalAssets
    BY CommitFrame, FrameOf, RequestFields DEF CommandGoesOn, Selecting
  <1>2. EndpointsOf(f.req) # None => OwnedBy(f.req.actor, NamespacesOf(EndpointsOf(f.req)))
    BY <1>1, CommitFrame
  <1>3. UNCHANGED world /\ requests' \subseteq requests
    OBVIOUS
  <1>4. Update(c, f) /\ drawn' = drawn
    BY DEF Update
  <1>5. Moves(c)
    BY <1>1, <1>4 DEF Update
  <1>6. /\ patch \in Patch
        /\ patch.endpoint_set # None =>
              \/ EndpointsOf(f.req) # None /\ patch.endpoint_set = EndpointsOf(f.req)
              \/ NamespacesOf(patch.endpoint_set) \subseteq NamespacesOf(f.page.endpoint_set)
    BY <1>1, PatchType
  <1>7. CASE Repository!update_managed_page_aggregate(id, f.req.actor, f.expected, patch)
    <2>1. /\ Repository!OwnedAt(id, f.req.actor, f.expected)
          /\ \E removed : Repository!ReplacePages(removed, id, page)
      BY <1>7 DEF Repository!update_managed_page_aggregate
    <2>2. /\ pages[id] # None /\ pages[id] \in PageAggregate
          /\ pages[id].owner = f.req.actor /\ f.expected \in 1 .. MaxRevision
      BY <1>1, <2>1, OwnedPage DEF Inv
    <2>3. Repository!Next
      BY <1>1, <1>6, <1>7, <2>2, SamePages DEF Repository!Next
    <2>4. /\ page.owner = f.req.actor
          /\ page.endpoint_set = IF patch.endpoint_set = None THEN pages[id].endpoint_set
                                 ELSE patch.endpoint_set
      BY <2>2 DEF Repository!PatchedPage, Repository!Or
    <2>5. id \in drawn /\ Owned(pages[id])
      BY <1>1, <2>2 DEF Inv, WorldInv
    <2>6. OwnedBy(f.req.actor, NamespacesOf(page.endpoint_set))
      <3>1. CASE patch.endpoint_set = None
        BY <1>1, <2>2, <2>4, <2>5, <3>1 DEF Owned
      <3>2. CASE EndpointsOf(f.req) # None /\ page.endpoint_set = EndpointsOf(f.req)
        BY <1>2, <3>2
      <3>3. CASE NamespacesOf(page.endpoint_set) \subseteq NamespacesOf(f.page.endpoint_set)
        <4>1. OwnedBy(f.req.actor, NamespacesOf(f.page.endpoint_set))
          BY <1>1 DEF PageRead, Owned
        <4> QED BY <3>3, <4>1 DEF OwnedBy
      <3> HIDE DEF page, patch
      <3> QED BY <1>6, <2>4, <3>1, <3>2, <3>3
    <2>7. Owned(page)
      BY <2>4, <2>6 DEF Owned
    <2>8. page.external_missing => /\ page.content_asset_id \in ExternalAssets
                                   /\ source[page.content_asset_id] # "intact"
      <3>1. page.external_missing =>
               /\ pages[id].external_missing
               /\ page.content_asset_id = pages[id].content_asset_id
        BY DEF Repository!PatchedPage, Repository!HealthAfter, Repository!Or
      <3> QED BY <1>1, <2>2, <3>1 DEF Inv, WorldInv, HealthIsOfThisContent
    <2> HIDE DEF page, id
    <2>9. PICK removed : Repository!ReplacePages(removed, id, page)
      BY <2>1
    <2>10. WorldInv' /\ WorldGrows
      BY <1>1, <1>3, <1>4, <2>2, <2>5, <2>7, <2>8, <2>9, InstallWorld
    <2> QED BY <1>3, <1>5, <2>3, <2>10 DEF GoodStep
  <1>8. CASE UNCHANGED store
    BY <1>3, <1>4, <1>5, <1>8, Quiet DEF GoodStep
  <1> QED BY <1>4, <1>7, <1>8 DEF Update

(* A deletion keeps the invariant.                                         *)
LEMMA DeleteGood ==
    ASSUME Inv, NEW c \in Clients, client[c].at = "commit", client[c].req.kind = "delete",
           UNCHANGED <<world, requests>>, Delete(c, client[c])
    PROVE  GoodStep(c)
  <1> SUFFICES ASSUME NEW f, f = client[c] PROVE GoodStep(c)
    OBVIOUS
  <1>1. /\ f.req.actor \in Owners /\ f.page_id \in PageIds
        /\ ItemDone(c, f) => Moves(c)
    BY CommitFrame, FrameOf, RequestFields DEF CommandGoesOn, Selecting
  <1>2. UNCHANGED world /\ requests' \subseteq requests
    OBVIOUS
  <1>3. Delete(c, f) /\ drawn' = drawn /\ Moves(c)
    BY <1>1 DEF Delete
  <1>4. CASE Repository!delete_managed_page_aggregate(f.page_id, f.req.actor, f.expected)
    <2>1. f.expected \in 1 .. MaxRevision
      BY <1>1, <1>4, OwnedPage DEF Repository!delete_managed_page_aggregate, Inv
    <2>2. Repository!Next
      BY <1>1, <1>4, <2>1 DEF Repository!Next
    <2>3. pages' = [pages EXCEPT ![f.page_id] = None]
      BY <1>4 DEF Repository!delete_managed_page_aggregate, Repository!RemovePage
    <2>4. \A p \in PageIds : pages'[p] # None => pages'[p] = pages[p]
      BY <2>3 DEF Inv, StoreInv, Repository!TypeOK
    <2>5. \A p \in PageIds : pages[p] = None => pages'[p] = None
      BY <2>4
    <2>6. WorldInv' /\ WorldGrows
      <3>1. /\ drawn \subseteq drawn' /\ drawn' \subseteq PageIds
            /\ \A p \in drawn : pages[p] = None => pages'[p] = None
        BY <1>3, <2>5 DEF Inv, WorldInv
      <3>2. \A p \in PageIds :
               pages'[p] # None =>
                   /\ p \in drawn' /\ Owned(pages'[p])
                   /\ pages'[p].external_missing =>
                         /\ pages'[p].content_asset_id \in ExternalAssets
                         /\ source[pages'[p].content_asset_id] # "intact"
        BY <1>3, <2>4 DEF Inv, WorldInv, HealthIsOfThisContent
      <3> QED BY <1>2, <3>1, <3>2, PagesWorld
    <2> QED BY <1>2, <1>3, <2>2, <2>6 DEF GoodStep
  <1>5. CASE UNCHANGED store
    BY <1>2, <1>3, <1>5, Quiet DEF GoodStep
  <1> QED BY <1>3, <1>4, <1>5 DEF Delete

(* Every repository operation of a call keeps the invariant.               *)
LEMMA CommitGood ==
    ASSUME Inv, NEW c \in Clients, Commit(c)
    PROVE  GoodStep(c)
  <1>1. client[c].at = "commit" /\ UNCHANGED <<world, requests>>
    BY DEF Commit
  <1>2. ASSUME NEW id \in Generated, client[c].req.kind = "publish_trial",
               PutTrial(c, client[c], id)
        PROVE  GoodStep(c)
    BY <1>1, <1>2, PutTrialGood
  <1>3. ASSUME NEW id \in Generated, client[c].req.kind = "create_managed",
               CreateManaged(c, client[c], id)
        PROVE  GoodStep(c)
    BY <1>1, <1>3, CreateManagedGood
  <1>4. ASSUME NEW id \in Generated, client[c].req.kind = "duplicate",
               Duplicate(c, client[c], id)
        PROVE  GoodStep(c)
    BY <1>1, <1>4, DuplicateGood
  <1>5. CASE client[c].req.kind \in {"update", "relink", "rename"} /\ Update(c, client[c])
    BY <1>1, <1>5, UpdateGood
  <1>6. CASE client[c].req.kind = "delete" /\ Delete(c, client[c])
    BY <1>1, <1>6, DeleteGood
  <1> QED BY <1>2, <1>3, <1>4, <1>5, <1>6 DEF Commit

(* An observation of external content, sent to the repository, keeps the   *)
(* invariant.                                                              *)
LEMMA ObserveGood ==
    ASSUME Inv, NEW c \in Clients, Observe(c)
    PROVE  GoodStep(c)
  <1> SUFFICES ASSUME NEW f, f = client[c] PROVE GoodStep(c)
    OBVIOUS
  <1> DEFINE missing == f.at = "record missing"
             id == f.page_id
             asset == f.page.content_asset_id
  <1>1. f.at \in {"record missing", "record found"} /\ f.at \in Delivering
        /\ Return(c) /\ UNCHANGED <<world, drawn, requests>>
    BY DEF Observe, Delivering
  <1>2. Moves(c)
    BY <1>1, ReturnMoves
  <1>3. DeliveryOK(f)
    BY <1>1, FrameOf DEF FrameOK
  <1>4. /\ PageRead(f) /\ asset \in ExternalAssets
        /\ missing => source[asset] # "intact"
    BY <1>1, <1>3 DEF DeliveryOK
  <1>5. id \in PageIds /\ asset \in ContentAssets
    BY <1>4, ConstantsAssumption DEF PageRead, Inv, WorldInv
  <1>6. CASE Repository!update_external_content_health(id, asset, missing)
    <2>1. Repository!Next
      BY <1>5, <1>6 DEF Repository!Next
    <2>2. /\ pages[id] # None /\ pages[id].content_asset_id = asset
          /\ pages' = [pages EXCEPT ![id].external_missing = missing]
      BY <1>6 DEF Repository!update_external_content_health
    <2>3. pages[id] \in PageAggregate /\ Owned(pages[id])
      BY <1>5, <2>2, SamePages DEF Inv, StoreInv, Repository!TypeOK, WorldInv
    <2> DEFINE page == [pages[id] EXCEPT !.external_missing = missing]
    <2>4. \A p \in PageIds : pages'[p] = IF p = id THEN page ELSE pages[p]
      BY <2>2 DEF Inv, StoreInv, Repository!TypeOK
    <2>5. /\ page.owner = pages[id].owner /\ page.endpoint_set = pages[id].endpoint_set
          /\ page.content_asset_id = asset /\ (page.external_missing <=> missing)
      BY <2>2, <2>3 DEF PageAggregate
    <2> HIDE DEF page, missing, asset
    <2>6. Owned(page)
      BY <2>3, <2>5 DEF Owned
    <2>7. ASSUME NEW p \in PageIds, pages'[p] # None
          PROVE  /\ p \in drawn' /\ Owned(pages'[p])
                 /\ pages'[p].external_missing =>
                       /\ pages'[p].content_asset_id \in ExternalAssets
                       /\ source[pages'[p].content_asset_id] # "intact"
      <3>1. CASE p = id
        <4>1. pages'[p] = page /\ p \in drawn'
          BY <1>1, <1>4, <2>4, <3>1 DEF PageRead
        <4>2. page.external_missing => source[page.content_asset_id] # "intact"
          BY <1>4, <2>5
        <4> QED BY <1>4, <2>5, <2>6, <4>1, <4>2
      <3>2. CASE p # id
        BY <1>1, <2>4, <2>7, <3>2 DEF Inv, WorldInv, HealthIsOfThisContent
      <3> QED BY <3>1, <3>2
    <2>8. /\ drawn \subseteq drawn' /\ drawn' \subseteq PageIds
          /\ \A p \in drawn : pages[p] = None => pages'[p] = None
      BY <1>1, <2>2, <2>4 DEF Inv, WorldInv
    <2>9. WorldInv' /\ WorldGrows
      BY <1>1, <2>7, <2>8, PagesWorld
    <2> QED BY <1>1, <1>2, <2>1, <2>9 DEF GoodStep
  <1>7. CASE UNCHANGED store
    BY <1>1, <1>2, <1>7, Quiet DEF GoodStep
  <1> QED BY <1>6, <1>7 DEF Observe

(* Staging an asset keeps the invariant.                                   *)
LEMMA StageGood ==
    ASSUME Inv, NEW c \in Clients, Stage(c)
    PROVE  GoodStep(c)
  <1>1. PICK a \in ContentAssets : Repository!create_content_asset(a)
    BY ConstantsAssumption DEF Stage, Candidates
  <1>2. Repository!Next
    BY <1>1 DEF Repository!Next
  <1>3. UNCHANGED <<world, drawn, requests>> /\ pages' = pages
    BY <1>1 DEF Stage, Repository!create_content_asset
  <1>4. \A p \in PageIds :
           pages'[p] # None =>
               /\ p \in drawn' /\ Owned(pages'[p])
               /\ pages'[p].external_missing =>
                     /\ pages'[p].content_asset_id \in ExternalAssets
                     /\ source[pages'[p].content_asset_id] # "intact"
    BY <1>3 DEF Inv, WorldInv, HealthIsOfThisContent
  <1>5. WorldInv' /\ WorldGrows
    BY <1>3, <1>4, PagesWorld DEF Inv, WorldInv
  <1> QED BY <1>2, <1>3, <1>5, StageMoves DEF GoodStep

(* A request that begins keeps the invariant.                              *)
LEMMA CallGood ==
    ASSUME Inv, NEW c \in Clients, NEW req \in requests, Call(c, req)
    PROVE  GoodStep(c)
  <1>1. UNCHANGED <<store, world, drawn>> /\ requests' \subseteq requests
    BY DEF Call
  <1> QED BY <1>1, CallMoves, Quiet DEF GoodStep

(* Every step of a client, or its crash, keeps the invariant.              *)
LEMMA ClientGood ==
    ASSUME Inv, NEW c \in Clients, Step(c) \/ Crash(c)
    PROVE  GoodStep(c)
  <1>1. ASSUME UNCHANGED <<store, world, drawn, requests>>, Moves(c)
        PROVE  GoodStep(c)
    BY <1>1, Quiet DEF GoodStep
  <1>2. CASE ReadPage(c)
    BY <1>1, <1>2, ReadPageMoves DEF ReadPage
  <1>3. CASE ReadPageAuthority(c)
    BY <1>1, <1>3, ReadPageAuthorityMoves DEF ReadPageAuthority
  <1>4. CASE ReadAuthority(c)
    BY <1>1, <1>4, ReadAuthorityMoves DEF ReadAuthority
  <1>5. CASE Upload(c)
    BY <1>1, <1>5, UploadMoves DEF Upload
  <1>6. CASE FetchCandidate(c)
    BY <1>1, <1>6, FetchCandidateMoves DEF FetchCandidate
  <1>7. CASE Stage(c)
    BY <1>7, StageGood
  <1>8. CASE Commit(c)
    BY <1>8, CommitGood
  <1>9. CASE Resolve(c)
    BY <1>1, <1>9, ResolveMoves DEF Resolve
  <1>10. CASE Fetch(c)
    BY <1>1, <1>10, FetchMoves DEF Fetch
  <1>11. CASE Observe(c)
    BY <1>11, ObserveGood
  <1>12. CASE Crash(c)
    BY <1>1, <1>12, ReturnMoves DEF Crash
  <1> QED BY <1>2, <1>3, <1>4, <1>5, <1>6, <1>7, <1>8, <1>9, <1>10, <1>11, <1>12 DEF Step

(* Reservations only grow, and an external object is lost or restored.     *)
LEMMA WorldStep ==
    ASSUME Inv,
           \/ \E owner \in Owners, n \in Namespaces : Reserve(owner, n)
           \/ \E a \in ExternalAssets : LoseSource(a) \/ RestoreSource(a)
    PROVE  /\ UNCHANGED store /\ WorldInv' /\ WorldGrows
           /\ requests' \subseteq requests /\ UNCHANGED client
  <1> USE ConstantsAssumption
  <1>1. /\ UNCHANGED store /\ UNCHANGED <<drawn, requests, client>>
        /\ pages' = pages
    BY DEF Reserve, LoseSource, RestoreSource, store
  <1>2. WorldGrows
    <2>1. \A n \in Namespaces : reservations[n] # None => reservations'[n] = reservations[n]
      BY DEF Reserve, LoseSource, RestoreSource, Inv, WorldInv
    <2>2. \A a \in ExternalAssets : source[a] # "intact" => source'[a] # "intact"
      BY DEF Reserve, LoseSource, RestoreSource, Inv, WorldInv
    <2> QED BY <1>1, <2>1, <2>2 DEF WorldGrows, Inv, WorldInv
  <1>3. reservations' \in [Namespaces -> Owners \cup {None}]
    BY DEF Reserve, LoseSource, RestoreSource, Inv, WorldInv
  <1>4. source' \in [ExternalAssets -> {"intact", "lost", "restored"}]
    BY DEF Reserve, LoseSource, RestoreSource, Inv, WorldInv
  <1>5. ASSUME NEW p \in PageIds, pages[p] # None
        PROVE  p \in drawn' /\ Owned(pages[p])'
    <2>1. pages[p] \in PageAggregate /\ Owned(pages[p]) /\ p \in drawn
      BY <1>5, SamePages DEF Inv, StoreInv, Repository!TypeOK, WorldInv
    <2>2. \A page \in PageAggregate : Owned(page) => Owned(page)'
      BY <1>2, OwnedStays
    <2>3. \A page : page = pages[p] /\ Owned(page)' => Owned(pages[p])'
      BY <1>1 DEF Owned, OwnedBy
    <2> QED BY <1>1, <2>1, <2>2, <2>3
  <1>6. HealthIsOfThisContent'
    BY <1>1, <1>2 DEF Inv, WorldInv, HealthIsOfThisContent, WorldGrows
  <1>7. WorldInv'
    BY <1>1, <1>3, <1>4, <1>5, <1>6 DEF Inv, WorldInv
  <1> QED BY <1>1, <1>2, <1>7

-----------------------------------------------------------------------------
(* The invariant. *)

(* The stores a scenario starts from are in order, and no call is under    *)
(* way.                                                                    *)
LEMMA InitInv == Init => Inv
  <1> SUFFICES ASSUME Init PROVE Inv
    OBVIOUS
  <1> USE ConstantsAssumption, ServiceAssumption
  <1>1. StoreInv
    BY StoreInit DEF Init
  <1>2. PICK s \in Scenarios :
           /\ pages = s.store.pages /\ assets = s.store.assets
           /\ reservations = s.reservations /\ requests = s.requests
    BY DEF Init
  <1>3. ScenarioOK(s)
    OBVIOUS
  <1>4. /\ reservations \in [Namespaces -> Owners \cup {None}]
        /\ requests \subseteq Asked
        /\ \A p \in PageIds :
              pages[p] # None /\ pages[p].owner # None =>
                  \A l \in bindings(pages[p].endpoint_set) :
                      reservations[namespace(l)] = pages[p].owner
    BY <1>2, <1>3 DEF ScenarioOK, Asked
  <1>5. /\ source \in [ExternalAssets -> {"intact", "lost", "restored"}]
        /\ \A p \in PageIds :
              /\ pages[p] # None /\ pages[p].external_missing
              /\ pages[p].content_asset_id \in ExternalAssets
              => source[pages[p].content_asset_id] = "lost"
        /\ drawn = {p \in PageIds : pages[p] # None}
        /\ client = [c \in Clients |-> Idle]
    BY DEF Init
  <1>6. HealthIsOfThisContent
    <2>1. \A p \in PageIds :
             pages[p] # None /\ pages[p].external_missing =>
                 pages[p].content_asset_id \in ExternalAssets
      BY <1>1, SamePages DEF StoreInv, Repository!StoredPagesValid, ValidPage
    <2> QED BY <1>5, <2>1 DEF HealthIsOfThisContent
  <1>7. \A p \in PageIds : pages[p] # None => p \in drawn /\ Owned(pages[p])
    BY <1>4, <1>5 DEF Owned, OwnedBy, NamespacesOf
  <1>8. CallsInv
    <2>2. \A c \in Clients : client[c] = Idle
      BY <1>5
    <2>3. Idle \in Frame
      BY IdleOK DEF FrameOK
    <2>4. client \in [Clients -> Frame]
      BY <1>5, <2>3
    <2> QED BY <1>4, <2>2, <2>4, IdleOK DEF CallsInv
  <1> QED BY <1>1, <1>4, <1>5, <1>6, <1>7, <1>8 DEF Inv, WorldInv

(* Every step keeps the invariant, and is a step of the repository or      *)
(* leaves the store alone.                                                 *)
LEMMA NextInv ==
    ASSUME Inv, [Next]_vars
    PROVE  /\ Inv' /\ StoreStepOK /\ WorldGrows
           /\ Repository!Next \/ UNCHANGED store
  <1> DEFINE goal == /\ Inv' /\ StoreStepOK /\ WorldGrows
                     /\ Repository!Next \/ UNCHANGED store
  <1>1. ASSUME Repository!Next \/ UNCHANGED store, WorldInv', WorldGrows,
               requests' \subseteq requests,
               UNCHANGED client \/ \E c \in Clients : Moves(c)
        PROVE  goal
    <2>1. StoreInv' /\ StoreStepOK
      BY <1>1, StoreStep DEF Inv
    <2>2. CallsInv'
      BY <1>1, <2>1, CallsStay
    <2> QED BY <1>1, <2>1, <2>2 DEF Inv
  <1>2. ASSUME NEW c \in Clients, GoodStep(c) PROVE goal
    BY <1>1, <1>2 DEF GoodStep
  <1>3. ASSUME NEW c \in Clients, NEW req \in requests, Call(c, req) PROVE goal
    BY <1>2, <1>3, CallGood
  <1>4. ASSUME NEW c \in Clients, Step(c) \/ Crash(c) PROVE goal
    BY <1>2, <1>4, ClientGood
  <1>5. ASSUME \/ \E owner \in Owners, n \in Namespaces : Reserve(owner, n)
               \/ \E a \in ExternalAssets : LoseSource(a) \/ RestoreSource(a)
        PROVE  goal
    BY <1>1, <1>5, WorldStep
  <1>6. ASSUME UNCHANGED vars PROVE goal
    <2>1. UNCHANGED <<store, world, drawn>> /\ requests' \subseteq requests /\ UNCHANGED client
      BY <1>6 DEF vars
    <2> QED BY <1>1, <2>1, Quiet
  <1> HIDE DEF goal
  <1>7. ASSUME Next PROVE goal
    BY <1>3, <1>4, <1>5, <1>7 DEF Next
  <1>8. goal
    BY <1>6, <1>7
  <1> QED BY <1>8 DEF goal

(* Reads that are still good, reservations that are still held, losses     *)
(* that did happen: what every call knows at each await stays true, however *)
(* the other calls, the reservations and the external objects move.        *)
THEOREM ServiceInvariant == Spec => []Inv
  <1>1. Inv /\ [Next]_vars => Inv'
    BY NextInv
  <1> QED BY <1>1, InitInv, PTL DEF Spec

(* The use cases reach the store only through the operations the contract  *)
(* promises, with arguments it accepts: what is proved of PageStore holds  *)
(* of the store under the service.                                         *)
THEOREM ServiceUsesTheContract == Spec => Repository!Spec
  <1>1. Init => Repository!Init
    BY DEF Init
  <1>2. Inv /\ [Next]_vars => [Repository!Next]_(Repository!vars)
    BY NextInv DEF Repository!vars, store
  <1> QED BY <1>1, <1>2, ServiceInvariant, PTL DEF Spec, Repository!Spec

(* "A managed actor must own every referenced namespace"                   *)
(* (docs/specification/domain-and-addressing.md): every locator of every   *)
(* managed page is in a namespace of its owner, whoever reserved what      *)
(* while the page was being written.                                       *)
THEOREM PagesStayInOwnNamespaces == Spec => []ManagedPagesInOwnNamespaces
  <1>1. Inv => ManagedPagesInOwnNamespaces
    <2> SUFFICES ASSUME Inv PROVE ManagedPagesInOwnNamespaces
      OBVIOUS
    <2>1. \A c \in Clients : client[c] \in Frame
      BY DEF Inv, CallsInv, FrameOK
    <2>2. 0 .. max_page_id_attempts - 1 \subseteq 0 .. max_page_id_attempts
      BY ServiceAssumption
    <2>3. TypeOK
      BY <2>1, <2>2 DEF TypeOK, Inv, StoreInv, WorldInv, CallsInv, Frame, Asked
    <2>4. \A p \in PageIds :
             pages[p] # None /\ pages[p].owner # None =>
                 \A l \in bindings(pages[p].endpoint_set) :
                     reservations[namespace(l)] = pages[p].owner
      BY DEF Inv, WorldInv, Owned, OwnedBy, NamespacesOf
    <2> QED BY <2>3, <2>4 DEF ManagedPagesInOwnNamespaces
  <1> QED BY <1>1, ServiceInvariant, PTL

(* A page is reported missing only if the source of its present content    *)
(* was lost at some time: an observation is bound to the content it was    *)
(* made on, however late it is recorded.                                   *)
THEOREM ReportedMissingWasLost == Spec => []HealthIsOfThisContent
  <1>1. Inv => HealthIsOfThisContent
    BY DEF Inv, WorldInv
  <1> QED BY <1>1, ServiceInvariant, PTL

-----------------------------------------------------------------------------
(* What a command's commit does to the pages. *)

(* The step at which a call leaves its commit is that commit, or it does   *)
(* nothing to the pages.                                                   *)
LEMMA LeavesCommit ==
    ASSUME Inv, [Next]_vars, NEW c \in Clients,
           client[c].at = "commit", client'[c] # client[c]
    PROVE  Commit(c) \/ UNCHANGED pages
  <1>1. ASSUME NEW d \in Clients, GoodStep(d) PROVE d = c
    BY <1>1 DEF GoodStep, Moves, Become, Inv, CallsInv
  <1>2. ASSUME NEW d \in Clients, Commit(d) PROVE Commit(c)
    BY <1>1, <1>2, CommitGood
  <1>3. ASSUME NEW d \in Clients, Observe(d) PROVE FALSE
    <2>1. d = c
      BY <1>1, <1>3, ObserveGood
    <2> QED BY <1>3, <2>1 DEF Observe
  <1>4. ASSUME NEW d \in Clients, Step(d), ~Commit(d), ~Observe(d) PROVE UNCHANGED pages
    BY <1>4
    DEF Step, ReadPage, ReadPageAuthority, ReadAuthority, Upload, FetchCandidate, Stage,
        Resolve, Fetch, Repository!create_content_asset, store
  <1>5. ASSUME NEW d \in Clients, NEW req \in requests, Call(d, req) PROVE UNCHANGED pages
    BY <1>5 DEF Call, store
  <1>6. ASSUME NEW d \in Clients, Crash(d) PROVE UNCHANGED pages
    BY <1>6 DEF Crash, store
  <1>7. ASSUME \/ \E owner \in Owners, n \in Namespaces : Reserve(owner, n)
               \/ \E a \in ExternalAssets : LoseSource(a) \/ RestoreSource(a)
        PROVE  UNCHANGED pages
    BY <1>7 DEF Reserve, LoseSource, RestoreSource, store
  <1>8. UNCHANGED vars => UNCHANGED pages
    BY DEF vars, store
  <1> QED BY <1>2, <1>3, <1>4, <1>5, <1>6, <1>7, <1>8 DEF Next

(* A page at the revision a command was given is the page the command      *)
(* read, except for the health observed since: its decision still holds.   *)
LEMMA DecidedOnThisPage ==
    ASSUME Inv, NEW c \in Clients, client[c].at = "commit",
           client[c].req.kind \in Selecting \ {"delete"},
           Repository!OwnedAt(client[c].page_id, client[c].req.actor, client[c].expected)
    PROVE  /\ pages[client[c].page_id] # None
           /\ pages[client[c].page_id].content_asset_id = client[c].page.content_asset_id
           /\ pages[client[c].page_id].block_api_write = client[c].page.block_api_write
  <1> SUFFICES ASSUME NEW f, f = client[c]
               PROVE  /\ pages[f.page_id] # None
                      /\ pages[f.page_id].content_asset_id = f.page.content_asset_id
                      /\ pages[f.page_id].block_api_write = f.page.block_api_write
    OBVIOUS
  <1>1. CommandGoesOn(f) /\ f.req.kind \in Selecting
    BY CommitFrame
  <1>2. f.page_id \in PageIds /\ PageRead(f) /\ ~Refused(f)
    BY <1>1 DEF CommandGoesOn
  <1>3. f.page.revision = f.expected /\ f.page \in PageAggregate
    BY <1>2 DEF Refused, revision_conflict, PageRead
  <1>4. pages[f.page_id] # None /\ pages[f.page_id].revision = f.expected
    BY <1>2, OwnedPage DEF Inv
  <1>5. f.expected \in 1 .. MaxRevision
    BY <1>3 DEF PageAggregate
  <1>6. pages[f.page_id] = [f.page EXCEPT !.external_missing = pages[f.page_id].external_missing]
    BY <1>2, <1>3, <1>4, <1>5, ConstantsAssumption DEF PageRead, Current
  <1> QED BY <1>3, <1>4, <1>6 DEF PageAggregate

(* How the commit of a user's command can change a page.                   *)
Retired(p) == pages[p] # None /\ pages[p].owner = None /\ pages'[p] = None
Created(f, p) ==
    f.req.kind = "create_managed" /\ pages[p] = None /\ ~pages'[p].block_api_write
Copied(f, p) ==
    /\ f.req.kind = "duplicate" /\ pages[p] = None
    /\ pages'[p].block_api_write = f.page.block_api_write
Patched(f, p) ==
    /\ f.req.kind \in {"update", "relink", "rename"}
    /\ pages[p] # None
    /\ pages[p].content_asset_id = f.page.content_asset_id
    /\ pages[p].block_api_write = f.page.block_api_write
    /\ pages'[p] = Repository!PatchedPage(pages[p], PatchOf(f))

(* A replacement of pages touches, but for its own page, only trials it    *)
(* retires.                                                                *)
LEMMA ReplacedPages ==
    ASSUME NEW removed, NEW id, NEW page, Repository!ReplacePages(removed, id, page),
           Repository!OnlyTrials(removed \ {id}), NEW p \in PageIds, p # id,
           pages'[p] # pages[p]
    PROVE  Retired(p)
  BY DEF Repository!ReplacePages, Repository!OnlyTrials, Retired

(* What an authenticated operation does to a page: it retires a trial,     *)
(* creates the page, copies one, patches it or deletes it.                 *)
LEMMA CommitPages ==
    ASSUME Inv, NEW c \in Clients, Commit(c), client[c].req.actor # None,
           NEW p \in PageIds, pages'[p] # pages[p]
    PROVE  \/ Retired(p) \/ Created(client[c], p) \/ Copied(client[c], p)
           \/ Patched(client[c], p) \/ client[c].req.kind = "delete"
  <1> USE ConstantsAssumption
  <1> DEFINE f == client[c]
             goal == \/ Retired(p) \/ Created(f, p) \/ Copied(f, p) \/ Patched(f, p)
                     \/ f.req.kind = "delete"
  <1>1. f.at = "commit"
    BY DEF Commit
  <1>2. f.req \in Asked
    BY <1>1, CommitFrame DEF CommandGoesOn
  <1>3. UNCHANGED store => FALSE
    BY DEF store
  <1>4. f.req.kind # "publish_trial"
    BY <1>2, RequestFields
  <1>5. ASSUME NEW id \in Generated, f.req.kind = "create_managed", CreateManaged(c, f, id)
        PROVE  goal
    <2> DEFINE e == f.req.endpoint_set
               page == Repository!ManagedPage(e, f.req.actor, f.req.access, f.asset)
    <2>1. Repository!create_managed_page_aggregate(id, e, f.req.actor, f.req.access, f.asset)
      BY <1>3, <1>5 DEF CreateManaged, Refuse, NextId
    <2>2. /\ Repository!OnlyTrials(Repository!claimed_page_ids(e)) /\ pages[id] = None
          /\ Repository!ReplacePages(Repository!claimed_page_ids(e), id, page)
      BY <2>1 DEF Repository!create_managed_page_aggregate
    <2>3. CASE p = id
      <3>1. pages'[p] = page
        BY <2>2, <2>3 DEF Repository!ReplacePages
      <3>2. ~page.block_api_write
        BY DEF Repository!ManagedPage
      <3> QED BY <1>5, <2>2, <2>3, <3>1, <3>2 DEF Created
    <2>4. CASE p # id
      <3> HIDE DEF page
      <3>1. Repository!OnlyTrials(Repository!claimed_page_ids(e) \ {id})
        BY <2>2 DEF Repository!OnlyTrials
      <3> QED BY <2>2, <2>4, <3>1, ReplacedPages
    <2> QED BY <2>3, <2>4
  <1>6. ASSUME NEW id \in Generated, f.req.kind = "duplicate", Duplicate(c, f, id)
        PROVE  goal
    <2>1. PICK e \in CopyEndpoints(f) :
             Repository!duplicate_managed_page_aggregate(f.page_id, f.req.actor,
                                                         f.expected, id, e)
      BY <1>3, <1>6 DEF Duplicate, Refuse, NextId, NextName
    <2> DEFINE page == Repository!DuplicatePage(pages[f.page_id], e)
    <2>2. /\ Repository!OwnedAt(f.page_id, f.req.actor, f.expected)
          /\ Repository!OnlyTrials(Repository!claimed_page_ids(e)) /\ pages[id] = None
          /\ Repository!ReplacePages(Repository!claimed_page_ids(e), id, page)
      BY <2>1 DEF Repository!duplicate_managed_page_aggregate
    <2>3. CASE p = id
      <3>1. pages'[p] = page
        BY <2>2, <2>3 DEF Repository!ReplacePages
      <3>2. page.block_api_write = f.page.block_api_write
        BY <1>1, <1>6, <2>2, DecidedOnThisPage DEF Selecting, Repository!DuplicatePage
      <3> QED BY <1>6, <2>2, <2>3, <3>1, <3>2 DEF Copied
    <2>4. CASE p # id
      <3> HIDE DEF page
      <3>1. Repository!OnlyTrials(Repository!claimed_page_ids(e) \ {id})
        BY <2>2 DEF Repository!OnlyTrials
      <3> QED BY <2>2, <2>4, <3>1, ReplacedPages
    <2> QED BY <2>3, <2>4
  <1>7. ASSUME f.req.kind \in {"update", "relink", "rename"}, Update(c, f) PROVE goal
    <2> DEFINE id == f.page_id
               removed == {id} \cup Repository!Displaced(id, PatchOf(f))
               page == Repository!PatchedPage(pages[id], PatchOf(f))
    <2>1. Repository!update_managed_page_aggregate(id, f.req.actor, f.expected, PatchOf(f))
      BY <1>3, <1>7 DEF Update
    <2>2. /\ Repository!OwnedAt(id, f.req.actor, f.expected)
          /\ Repository!OnlyTrials(Repository!Displaced(id, PatchOf(f)))
          /\ Repository!ReplacePages(removed, id, page)
      BY <2>1 DEF Repository!update_managed_page_aggregate
    <2>3. CASE p = id
      <3>1. pages'[p] = page
        BY <2>2, <2>3 DEF Repository!ReplacePages
      <3>2. /\ pages[id] # None
            /\ pages[id].content_asset_id = f.page.content_asset_id
            /\ pages[id].block_api_write = f.page.block_api_write
        BY <1>1, <1>7, <2>2, DecidedOnThisPage DEF Selecting
      <3> QED BY <1>7, <2>3, <3>1, <3>2 DEF Patched
    <2>4. CASE p # id
      <3>1. Repository!OnlyTrials(removed \ {id})
        BY <2>2 DEF Repository!OnlyTrials
      <3> HIDE DEF page, removed
      <3> QED BY <2>2, <2>4, <3>1, ReplacedPages
    <2> QED BY <2>3, <2>4
  <1> HIDE DEF goal
  <1>8. goal
    <2>1. f.req.kind = "delete" => goal
      BY DEF goal
    <2> HIDE DEF f
    <2> QED BY <1>4, <1>5, <1>6, <1>7, <2>1 DEF Commit, f
  <1> QED BY <1>8 DEF goal

(* What relink compared its candidate with is still the content of the     *)
(* page when it commits: a page's bytes survive every relink.              *)
THEOREM RelinksKeepContent == Spec => RelinkKeepsContent
  <1> DEFINE Kept ==
          \A c \in Clients, p \in PageIds :
              /\ client[c].at = "commit" /\ client[c].req.kind = "relink" /\ client'[c] # client[c]
              /\ pages[p] # None /\ pages'[p] # None
              => digest[pages'[p].content_asset_id] = digest[pages[p].content_asset_id]
  <1>1. ASSUME Inv, [Next]_vars PROVE Kept
    <2> SUFFICES ASSUME NEW c \in Clients, NEW p \in PageIds,
                        client[c].at = "commit", client[c].req.kind = "relink",
                        client'[c] # client[c], pages[p] # None, pages'[p] # None,
                        pages'[p] # pages[p]
                 PROVE  digest[pages'[p].content_asset_id] = digest[pages[p].content_asset_id]
      OBVIOUS
    <2>1. Commit(c)
      BY <1>1, LeavesCommit
    <2>2. /\ client[c].asset \in ExternalAssets
          /\ digest[client[c].asset] = digest[client[c].page.content_asset_id]
          /\ client[c].req.actor # None
      BY <1>1, CommitFrame, RequestFields, ConstantsAssumption DEF CommandGoesOn, Selecting
    <2>3. Patched(client[c], p)
      BY <1>1, <2>1, <2>2, CommitPages DEF Retired, Created, Copied
    <2>4. PatchOf(client[c]).content_asset_id = client[c].asset
      BY DEF PatchOf, NoPatch
    <2>5. client[c].asset # None
      BY <2>2, ConstantsAssumption, ServiceAssumption
    <2>6. pages'[p].content_asset_id = client[c].asset
      BY <2>3, <2>4, <2>5 DEF Patched, Repository!PatchedPage, Repository!Or
    <2> QED BY <2>2, <2>3, <2>6 DEF Patched
  <1>2. Inv /\ [Next]_vars => [Kept]_vars
    BY <1>1
  <1> QED BY <1>2, ServiceInvariant, PTL DEF Spec, RelinkKeepsContent

(* No request by API key changes a page its owner has locked, nor locks or *)
(* unlocks one, whenever the lock was set -- as long as no key deletes:    *)
(* deletion alone does not compare the revision it was given with the page *)
(* whose lock it read, and MCPageService_delete shows the lock missed.     *)
THEOREM KeysRespectLockUnlessDeleting ==
    ASSUME \A s \in Scenarios : \A r \in s.requests : r.kind = "delete" => ~r.via_api_key
    PROVE  Spec => KeysRespectLock
  <1> USE ConstantsAssumption
  <1> DEFINE Respected == (\E c \in Clients : KeyCommits(c)) => LockRespected
  <1>1. ASSUME Inv, [Next]_vars PROVE Respected
    <2> SUFFICES ASSUME NEW c \in Clients, KeyCommits(c), NEW p \in PageIds, pages'[p] # pages[p]
                 PROVE  \/ pages[p] # None /\ ~pages[p].block_api_write
                           /\ (pages'[p] # None => ~pages'[p].block_api_write)
                        \/ pages[p] = None /\ ~pages'[p].block_api_write
      BY DEF LockRespected
    <2> DEFINE f == client[c]
    <2>1. /\ f.at = "commit" /\ client'[c] # f
          /\ f.req.actor # None /\ f.req.via_api_key
      BY DEF KeyCommits
    <2>2. Commit(c)
      BY <1>1, <2>1, LeavesCommit
    <2>3. CommandGoesOn(f)
      BY <1>1, <2>1, CommitFrame
    <2>4. f.req \in Asked /\ f.req.kind # "delete"
      BY <2>1, <2>3 DEF CommandGoesOn, Asked
    <2>5. Retired(p) \/ Created(f, p) \/ Copied(f, p) \/ Patched(f, p)
      BY <1>1, <2>1, <2>2, <2>4, CommitPages
    <2>6. f.req.kind \in Selecting => ~f.page.block_api_write
      BY <2>1, <2>3 DEF CommandGoesOn, Refused, api_write_blocked
    <2> HIDE DEF f
    <2>7. CASE Retired(p)
      <3>1. ValidPage(pages[p], assets)
        BY <1>1, <2>7, SamePages DEF Retired, Inv, StoreInv, Repository!StoredPagesValid
      <3> QED BY <2>7, <3>1 DEF Retired, ValidPage
    <2>8. CASE Created(f, p)
      BY <2>8 DEF Created
    <2>9. CASE Copied(f, p)
      BY <2>6, <2>9 DEF Copied, Selecting
    <2>10. CASE Patched(f, p)
      <3>1. ~f.page.block_api_write /\ ~pages[p].block_api_write /\ pages[p] # None
        BY <2>6, <2>10 DEF Patched, Selecting
      <3>2. PatchOf(f).block_api_write = None
        <4>1. ~protection_requires_session(f.req)
          BY <2>3 DEF CommandGoesOn
        <4>2. f.req.kind = "update" => f.req.block_api_write = None
          BY <2>1, <4>1 DEF protection_requires_session
        <4> QED BY <2>10, <4>2 DEF Patched, PatchOf, NoPatch
      <3>3. pages'[p].block_api_write = pages[p].block_api_write
        BY <2>10, <3>2 DEF Patched, Repository!PatchedPage, Repository!Or
      <3> QED BY <3>1, <3>3
    <2> QED BY <2>5, <2>7, <2>8, <2>9, <2>10
  <1>2. Inv /\ [Next]_vars => [Respected]_vars
    BY <1>1
  <1> QED BY <1>2, ServiceInvariant, PTL DEF Spec, KeysRespectLock

-----------------------------------------------------------------------------
(* Every call comes to an end: what it has ahead of it. *)

(* Pages of the selection, names to try and ids to try, in one number.     *)
Tries(f) ==
    (Len(f.left) * (max_page_name_attempts + 1) + (max_page_name_attempts - Cardinality(f.names)))
    * (max_page_id_attempts + 1) + (max_page_id_attempts - f.attempt)

each == 1 + Cardinality(Namespaces)

(* Two-digit numbers are ordered by their first digit, then by their       *)
(* second.                                                                 *)
LEMMA Digits ==
    ASSUME NEW a \in Nat, NEW b \in Nat, NEW x \in Nat, NEW y \in Nat, NEW k \in Nat
    PROVE  /\ a * k + x \in Nat
           /\ a < b /\ x < k => a * k + x < b * k + y
           /\ a = b /\ x < y => a * k + x < b * k + y
  <1>1. a * k \in Nat /\ b * k \in Nat
    OBVIOUS
  <1>2. ASSUME a < b PROVE a * k + k <= b * k
    <2> DEFINE d == b - a - 1
    <2>1. d \in Nat /\ b = a + 1 + d
      BY <1>2
    <2>2. d * k \in Nat
      BY <2>1
    <2>3. (a + 1 + d) * k = a * k + k + d * k
      BY <2>1
    <2> HIDE DEF d
    <2> QED BY <1>1, <2>1, <2>2, <2>3
  <1> QED BY <1>1, <1>2

(* Zero times a number.                                                    *)
LEMMA ZeroTimes == \A m, n \in Nat : m = 0 => m * n = 0
  OBVIOUS

(* The numbers the measure of a call is built from.                        *)
LEMMA Sizes ==
    /\ each \in Nat \ {0}
    /\ \A S \in SUBSET Namespaces : Cardinality(S) \in Nat /\ Cardinality(S) < each
    /\ \A S \in SUBSET PageNames : IsFiniteSet(S) /\ Cardinality(S) \in Nat
    /\ max_page_name_attempts \in Nat \ {0} /\ max_page_id_attempts \in Nat \ {0}
  <1>1. Cardinality(Namespaces) \in Nat /\ Cardinality(PageNames) \in Nat
    BY ServiceAssumption, FS_CardinalityType
  <1>2. ASSUME NEW S \in SUBSET Namespaces PROVE Cardinality(S) \in Nat /\ Cardinality(S) < each
    <2>1. IsFiniteSet(S) /\ Cardinality(S) <= Cardinality(Namespaces)
      BY ServiceAssumption, FS_Subset
    <2>2. Cardinality(S) \in Nat
      BY <2>1, FS_CardinalityType
    <2> QED BY <1>1, <2>1, <2>2 DEF each
  <1>3. ASSUME NEW S \in SUBSET PageNames PROVE IsFiniteSet(S) /\ Cardinality(S) \in Nat
    <2>1. IsFiniteSet(S)
      BY ServiceAssumption, FS_Subset
    <2> QED BY <2>1, FS_CardinalityType
  <1> QED BY <1>1, <1>2, <1>3, ServiceAssumption DEF each

(* The two digits of what a call has ahead.                                *)
LEMMA AheadType ==
    ASSUME NEW f, FrameOK(f), f.at # "idle"
    PROVE  /\ Tries(f) \in Nat
           /\ AwaitsAhead(f) \in Nat /\ AwaitsAhead(f) > 0 /\ AwaitsAhead(f) < 9 * each
           /\ Ahead(f) = Tries(f) * (9 * each) + AwaitsAhead(f)
  <1>1. f \in Frame /\ NamesOK(f) /\ OnCourse(f)
    BY DEF FrameOK
  <1>2. Len(f.left) \in Nat /\ Cardinality(f.names) \in Nat
        /\ max_page_name_attempts - Cardinality(f.names) \in Nat
        /\ max_page_id_attempts - f.attempt \in Nat
    BY <1>1, Sizes DEF Frame, NamesOK
  <1>3. Tries(f) \in Nat
    <2> DEFINE left == Len(f.left)
               names == max_page_name_attempts - Cardinality(f.names)
               ids == max_page_id_attempts - f.attempt
    <2>1. left \in Nat /\ names \in Nat /\ ids \in Nat
      BY <1>2
    <2>2. Tries(f) = (left * (max_page_name_attempts + 1) + names)
                     * (max_page_id_attempts + 1) + ids
      BY DEF Tries
    <2> HIDE DEF left, names, ids
    <2>3. left * (max_page_name_attempts + 1) + names \in Nat
      BY <2>1, Sizes, Digits
    <2> QED BY <2>1, <2>2, <2>3, Sizes, Digits
  <1>4. AwaitsAhead(f) \in Nat /\ AwaitsAhead(f) > 0 /\ AwaitsAhead(f) < 9 * each
    <2>1. each \in Nat \ {0}
      BY Sizes
    <2>2. CASE f.at \in {"page", "page authority", "resolve", "fetch"}
      <3>1. AwaitsAhead(f) \in {8 * each, 7 * each, 3, 2}
        BY <2>2 DEF AwaitsAhead, each
      <3> QED BY <2>1, <3>1
    <2>3. CASE f.at \notin {"page", "page authority", "resolve", "fetch"}
      <3>1. AwaitsAhead(f) = Len(f.todo) * each + Cardinality(f.unread) + 1
        BY <2>3 DEF AwaitsAhead, each
      <3>2. Cardinality(f.unread) \in Nat /\ Cardinality(f.unread) < each
        BY <1>1, Sizes DEF Frame
      <3>3. Len(f.todo) \in {0, 1, 2, 3}
        <4>1. /\ Len(<<>>) = 0 /\ Len(<<"commit">>) = 1 /\ Len(<<"stage", "commit">>) = 2
              /\ Len(<<"upload", "stage", "commit">>) = 3
              /\ Len(<<"authority", "stage", "commit">>) = 3
          OBVIOUS
        <4>2. CASE f.at \in Delivering
          BY <1>1, <4>1, <4>2 DEF OnCourse, Working, Delivering
        <4>3. CASE f.at \notin Delivering
          <5>1. f.at \in Working
            BY <1>1, <2>3, <4>3 DEF OnCourse
          <5>2. f.todo \in {<<>>, <<"commit">>, <<"stage", "commit">>,
                            <<"upload", "stage", "commit">>,
                            <<"authority", "stage", "commit">>}
            BY <1>1, <5>1, CoursePlaces DEF FrameOK, Working
          <5> QED BY <4>1, <5>2
        <4> QED BY <4>2, <4>3
      <3>4. Len(f.todo) * each \in {0, each, each + each, each + each + each}
        <4>1. 0 * each = 0 /\ 1 * each = each /\ 2 * each = each + each
              /\ 3 * each = each + each + each
          BY <2>1
        <4> QED BY <3>3, <4>1
      <3> QED BY <2>1, <3>1, <3>2, <3>4
    <2> QED BY <2>2, <2>3
  <1>5. Ahead(f) = Tries(f) * (9 * each) + AwaitsAhead(f)
    <2>1. Ahead(f) = Tries(f) * 9 * each + AwaitsAhead(f)
      BY DEF Ahead, Tries, each
    <2>2. Tries(f) * 9 * each = Tries(f) * (9 * each)
      BY <1>3, Sizes
    <2> QED BY <2>1, <2>2
  <1> QED BY <1>3, <1>4, <1>5

(* Fewer tries, or as many tries and fewer awaits.                         *)
LEMMA Descends ==
    ASSUME NEW f, FrameOK(f), f.at # "idle", NEW g, FrameOK(g),
           \/ g.at = "idle"
           \/ Tries(g) < Tries(f)
           \/ Tries(g) = Tries(f) /\ AwaitsAhead(g) < AwaitsAhead(f)
    PROVE  Ahead(g) < Ahead(f)
  <1>1. /\ Tries(f) \in Nat /\ AwaitsAhead(f) \in Nat /\ AwaitsAhead(f) > 0
        /\ Ahead(f) = Tries(f) * (9 * each) + AwaitsAhead(f)
        /\ 9 * each \in Nat
    BY AheadType, Sizes
  <1>2. CASE g.at = "idle"
    <2>1. Ahead(g) = 0
      BY <1>2 DEF Ahead
    <2>2. Tries(f) * (9 * each) \in Nat
      BY <1>1
    <2> QED BY <1>1, <2>1, <2>2
  <1>3. CASE g.at # "idle"
    <2>1. /\ Tries(g) \in Nat /\ AwaitsAhead(g) \in Nat /\ AwaitsAhead(g) < 9 * each
          /\ Ahead(g) = Tries(g) * (9 * each) + AwaitsAhead(g)
      BY <1>3, AheadType
    <2> QED BY <1>1, <1>3, <2>1, Digits
  <1> QED BY <1>2, <1>3

Down(f, g) ==
    \/ g.at = "idle"
    \/ Tries(g) < Tries(f)
    \/ Tries(g) = Tries(f) /\ AwaitsAhead(g) < AwaitsAhead(f)

(* A call that returns has nothing ahead.                                  *)
LEMMA ReturnDown == ASSUME Inv, NEW c \in Clients, NEW f, Return(c) PROVE Down(f, client'[c])
  <1>1. client'[c] = Idle
    BY DEF Return, Become, Inv, CallsInv
  <1> QED BY <1>1, IdleOK DEF Down

(* The numbers of a frame that count.                                      *)
LEMMA Counts ==
    ASSUME NEW f, FrameOK(f)
    PROVE  /\ Len(f.left) \in Nat /\ f.attempt \in 0 .. max_page_id_attempts - 1
           /\ IsFiniteSet(f.names) /\ Cardinality(f.names) \in 0 .. max_page_name_attempts - 1
           /\ IsFiniteSet(f.unread) /\ Cardinality(f.unread) \in Nat
           /\ Cardinality(f.unread) < each
           /\ max_page_name_attempts - Cardinality(f.names) \in 1 .. max_page_name_attempts
           /\ max_page_id_attempts - f.attempt \in 1 .. max_page_id_attempts
  <1>1. f \in Frame /\ NamesOK(f)
    BY DEF FrameOK
  <1>2. IsFiniteSet(f.unread)
    BY <1>1, ServiceAssumption, FS_Subset DEF Frame
  <1>3. /\ Len(f.left) \in Nat /\ f.attempt \in 0 .. max_page_id_attempts - 1
        /\ Cardinality(f.names) \in Nat /\ Cardinality(f.names) < max_page_name_attempts
        /\ IsFiniteSet(f.names)
        /\ Cardinality(f.unread) \in Nat /\ Cardinality(f.unread) < each
    BY <1>1, Sizes DEF Frame, NamesOK
  <1> QED BY <1>2, <1>3, Sizes

(* A page less of the selection is worth all names and ids of a page.      *)
LEMMA PageDown ==
    ASSUME NEW f, FrameOK(f), NEW g, FrameOK(g), Len(g.left) < Len(f.left)
    PROVE  Tries(g) < Tries(f)
  <1> DEFINE N == max_page_name_attempts + 1
             K == max_page_id_attempts + 1
             i == Len(g.left)
             j == Len(f.left)
             x == max_page_name_attempts - Cardinality(g.names)
             y == max_page_name_attempts - Cardinality(f.names)
             u == max_page_id_attempts - g.attempt
             v == max_page_id_attempts - f.attempt
  <1>1. /\ N \in Nat /\ K \in Nat /\ i \in Nat /\ j \in Nat /\ i < j
        /\ x \in Nat /\ y \in Nat /\ u \in Nat /\ v \in Nat /\ x < N /\ u < K
    <2>1. /\ x \in 1 .. max_page_name_attempts /\ y \in 1 .. max_page_name_attempts
          /\ u \in 1 .. max_page_id_attempts /\ v \in 1 .. max_page_id_attempts
          /\ i \in Nat /\ j \in Nat
      BY Counts
    <2> QED BY <2>1, Sizes
  <1>2. Tries(g) = (i * N + x) * K + u /\ Tries(f) = (j * N + y) * K + v
    BY DEF Tries
  <1> HIDE DEF N, K, i, j, x, y, u, v
  <1>3. i * N + x \in Nat /\ j * N + y \in Nat /\ i * N + x < j * N + y
    BY <1>1, Digits
  <1> QED BY <1>1, <1>2, <1>3, Digits

(* A name less is worth all ids of a name. *)
LEMMA NameDown ==
    ASSUME NEW f, FrameOK(f), NEW g, FrameOK(g), g.left = f.left,
           Cardinality(g.names) > Cardinality(f.names)
    PROVE  Tries(g) < Tries(f)
  <1> DEFINE N == max_page_name_attempts + 1
             K == max_page_id_attempts + 1
             i == Len(f.left)
             x == max_page_name_attempts - Cardinality(g.names)
             y == max_page_name_attempts - Cardinality(f.names)
             u == max_page_id_attempts - g.attempt
             v == max_page_id_attempts - f.attempt
  <1>1. /\ N \in Nat /\ K \in Nat /\ i \in Nat
        /\ x \in Nat /\ y \in Nat /\ u \in Nat /\ v \in Nat /\ x < y /\ u < K
    <2>1. /\ Cardinality(f.names) \in Nat /\ Cardinality(g.names) \in Nat
          /\ x \in 1 .. max_page_name_attempts /\ y \in 1 .. max_page_name_attempts
          /\ u \in 1 .. max_page_id_attempts /\ v \in 1 .. max_page_id_attempts
          /\ i \in Nat
      BY Counts
    <2> QED BY <2>1, Sizes
  <1>2. Tries(g) = (i * N + x) * K + u /\ Tries(f) = (i * N + y) * K + v
    BY DEF Tries
  <1> HIDE DEF N, K, i, x, y, u, v
  <1>3. i * N + x \in Nat /\ i * N + y \in Nat /\ i * N + x < i * N + y
    BY <1>1, Digits
  <1> QED BY <1>1, <1>2, <1>3, Digits

(* An id less of the same name.                                            *)
LEMMA IdDown ==
    ASSUME NEW f, FrameOK(f), NEW g, FrameOK(g), g.left = f.left, g.names = f.names,
           g.attempt = f.attempt + 1
    PROVE  Tries(g) < Tries(f)
  <1> DEFINE i == (Len(f.left) * (max_page_name_attempts + 1)
                   + (max_page_name_attempts - Cardinality(f.names)))
                  * (max_page_id_attempts + 1)
  <1>1. i \in Nat
    <2> DEFINE left == Len(f.left)
               names == max_page_name_attempts - Cardinality(f.names)
    <2>1. left \in Nat /\ names \in Nat
      BY Counts, Sizes
    <2> HIDE DEF left, names
    <2>2. left * (max_page_name_attempts + 1) + names \in Nat
      BY <2>1, Sizes, Digits
    <2>3. \A a \in Nat : a * (max_page_id_attempts + 1) \in Nat
      BY Sizes
    <2> QED BY <2>2, <2>3 DEF left, names
  <1>2. /\ Tries(g) = i + (max_page_id_attempts - g.attempt)
        /\ Tries(f) = i + (max_page_id_attempts - f.attempt)
    BY DEF Tries
  <1> HIDE DEF i
  <1>3. f.attempt \in 0 .. max_page_id_attempts - 1 /\ max_page_id_attempts \in Nat
    BY Counts, Sizes
  <1> QED BY <1>1, <1>2, <1>3

(* A page done with leaves less ahead.                                     *)
LEMMA ItemDoneDown ==
    ASSUME Inv, NEW c \in Clients, client[c].at # "idle", NEW f, f.left = client[c].left,
           ItemDone(c, f), FrameOK(client'[c])
    PROVE  Down(client[c], client'[c])
  <1>1. CASE Return(c)
    BY <1>1, ReturnDown
  <1>2. CASE ~Return(c)
    <2> DEFINE g == [Idle EXCEPT !.at = "page", !.req = f.req, !.left = Tail(f.left),
                                 !.page_id = Head(f.left)[1], !.expected = Head(f.left)[2]]
    <2>1. f.left # <<>> /\ client'[c] = g
      BY <1>2 DEF ItemDone, Become, Inv, CallsInv
    <2>2. g.left = Tail(f.left)
      BY DEF Idle
    <2>3. f.left \in Seq(PageIds \X (1 .. MaxRevision)) /\ FrameOK(client[c])
      BY FrameOf
    <2>4. Len(Tail(f.left)) < Len(f.left)
      BY <2>1, <2>3
    <2> HIDE DEF g
    <2> QED BY <2>1, <2>2, <2>3, <2>4, PageDown DEF Down
  <1> QED BY <1>1, <1>2

(* Frames that have the same page, name and id in hand.                    *)
LEMMA SameTries ==
    ASSUME NEW f, NEW g, g.left = f.left, g.names = f.names, g.attempt = f.attempt
    PROVE  Tries(g) = Tries(f)
  BY DEF Tries

(* The next await of a course leaves less ahead.                           *)
LEMMA AdvanceDown ==
    ASSUME Inv, NEW c \in Clients, NEW f, f \in Frame, f.todo \in Suffixes(f.req),
           f.left = client[c].left, f.names = client[c].names, f.attempt = client[c].attempt,
           Len(f.todo) * each < AwaitsAhead(client[c]), AwaitsAhead(client[c]) \in Nat,
           Advance(c, f), FrameOK(client'[c])
    PROVE  Down(client[c], client'[c])
  <1> DEFINE unread == IF Head(f.todo) = "authority" THEN NamespacesOf(EndpointsOf(f.req)) ELSE {}
             g == [f EXCEPT !.at = Head(f.todo), !.todo = Tail(@), !.unread = unread]
  <1>1. client'[c] = g
    BY DEF Advance, Become, Inv, CallsInv
  <1>2. /\ g.at = Head(f.todo) /\ g.todo = Tail(f.todo)
        /\ g.left = f.left /\ g.names = f.names /\ g.attempt = f.attempt
    BY DEF Frame
  <1> HIDE DEF g, unread
  <1>3. Tries(g) = Tries(client[c])
    BY <1>2, SameTries
  <1>4. Head(f.todo) \in Working /\ f.todo # <<>> /\ f.todo \in Seq(Places)
    <2>1. Head(f.todo) \in Working
      BY SuffixHeads DEF Suffixes, Working
    <2>2. f.todo \in Seq(Places)
      BY SuffixesTyped
    <2>3. f.todo # <<>>
      BY SuffixHeads DEF Suffixes
    <2> QED BY <2>1, <2>2, <2>3
  <1>5. AwaitsAhead(g) = Len(g.todo) * each + Cardinality(g.unread) + 1
    BY <1>2, <1>4 DEF AwaitsAhead, Working, each
  <1>6. Len(g.todo) = Len(f.todo) - 1 /\ Len(f.todo) \in Nat \ {0}
    BY <1>2, <1>4
  <1>7. Cardinality(g.unread) \in Nat /\ Cardinality(g.unread) < each /\ each \in Nat
    BY <1>1, Counts, Sizes
  <1>8. Len(f.todo) * each = (Len(f.todo) - 1) * each + each
    <2> DEFINE n == Len(f.todo)
    <2>1. n \in Nat
      BY <1>6
    <2> HIDE DEF n
    <2>2. n * each = (n - 1) * each + each
      BY <1>7, <2>1
    <2> QED BY <2>2 DEF n
  <1>9. (Len(f.todo) - 1) * each \in Nat
    BY <1>6, <1>7
  <1>10. AwaitsAhead(g) < AwaitsAhead(client[c])
    BY <1>5, <1>6, <1>7, <1>8, <1>9
  <1> QED BY <1>1, <1>3, <1>10 DEF Down

(* Another generated id is tried: an id less to try.                       *)
LEMMA NextIdDown ==
    ASSUME Inv, NEW c \in Clients, client[c].at = "commit", NEW f, f \in Frame,
           f.left = client[c].left, f.names = client[c].names, f.attempt = client[c].attempt,
           NEW place, NEW todo, NextId(c, f, place, todo), FrameOK(client'[c])
    PROVE  Down(client[c], client'[c])
  <1> DEFINE g == [f EXCEPT !.attempt = @ + 1, !.at = place, !.todo = todo]
  <1>1. CASE Return(c)
    BY <1>1, ReturnDown
  <1>2. CASE Become(c, g)
    <2>1. client'[c] = g
      BY <1>2 DEF Become, Inv, CallsInv
    <2>2. g.left = f.left /\ g.names = f.names /\ g.attempt = f.attempt + 1
      BY DEF Frame
    <2>3. FrameOK(client[c])
      BY FrameOf
    <2> HIDE DEF g
    <2> QED BY <2>1, <2>2, <2>3, IdDown DEF Down
  <1> QED BY <1>1, <1>2 DEF NextId

(* A name taken is a name less to try.                                     *)
LEMMA OneNameMore ==
    ASSUME NEW f, FrameOK(f), NEW g, FrameOK(g), NEW n, n \notin f.names,
           g.left = f.left, g.names = f.names \cup {n}
    PROVE  Tries(g) < Tries(f)
  <1>1. IsFiniteSet(f.names) /\ Cardinality(f.names) \in 0 .. max_page_name_attempts - 1
    BY Counts
  <1>2. Cardinality(f.names) \in Nat
    BY Sizes DEF FrameOK, Frame
  <1>3. Cardinality(g.names) = Cardinality(f.names) + 1
    BY <1>1, FS_AddElement
  <1>4. Cardinality(g.names) > Cardinality(f.names)
    BY <1>2, <1>3
  <1> QED BY <1>4, NameDown

(* Another generated name is taken.                                        *)
LEMMA NextNameDown ==
    ASSUME Inv, NEW c \in Clients, client[c].at = "commit", NEW f, f = client[c], NEW e,
           EndpointsOf(f.req) = None => e.canonical[2] \notin f.names,
           NextName(c, f, e), FrameOK(client'[c])
    PROVE  Down(f, client'[c])
  <1> DEFINE g == [f EXCEPT !.names = @ \cup {e.canonical[2]}, !.copy = None, !.attempt = 0]
  <1>1. CASE Return(c)
    BY <1>1, ReturnDown
  <1>2. CASE EndpointsOf(f.req) = None /\ Become(c, g)
    <2>1. client'[c] = g
      BY <1>2 DEF Become, Inv, CallsInv
    <2>2. FrameOK(f) /\ f \in Frame
      BY FrameOf
    <2>3. g.left = f.left /\ g.names = f.names \cup {e.canonical[2]}
      BY <2>2 DEF Frame
    <2>4. e.canonical[2] \notin f.names
      BY <1>2
    <2> HIDE DEF g
    <2>5. FrameOK(g)
      BY <2>1
    <2>6. Tries(g) < Tries(f)
      BY <2>2, <2>3, <2>4, <2>5, OneNameMore
    <2> QED BY <2>1, <2>6 DEF Down
  <1> QED BY <1>1, <1>2 DEF NextName

(* A repository operation leaves less ahead, whatever its outcome.         *)
LEMMA CommitDown ==
    ASSUME Inv, NEW c \in Clients, Commit(c), FrameOK(client'[c])
    PROVE  Down(client[c], client'[c])
  <1> SUFFICES ASSUME NEW f, f = client[c] PROVE Down(f, client'[c])
    OBVIOUS
  <1>1. f.at = "commit" /\ f.at # "idle" /\ f \in Frame
    BY FrameOf DEF Commit
  <1>2. ItemDone(c, f) => Down(f, client'[c])
    BY <1>1, ItemDoneDown
  <1>3. Return(c) => Down(f, client'[c])
    BY ReturnDown
  <1>4. ASSUME NEW place, NEW todo, NextId(c, f, place, todo) PROVE Down(f, client'[c])
    BY <1>1, <1>4, NextIdDown
  <1>5. ASSUME NEW id, PutTrial(c, f, id) \/ CreateManaged(c, f, id) PROVE Down(f, client'[c])
    BY <1>2, <1>3, <1>4, <1>5 DEF PutTrial, CreateManaged, Refuse
  <1>6. ASSUME NEW id, f.req.kind = "duplicate", Duplicate(c, f, id) PROVE Down(f, client'[c])
    <2>1. PICK e \in CopyEndpoints(f) :
             \/ Return(c)
             \/ Refuse(c, f)
             \/ NextName(c, f, e)
             \/ NextId(c, [f EXCEPT !.copy = e], "commit", <<>>)
      BY <1>6 DEF Duplicate
    <2>2. EndpointsOf(f.req) = None => e.canonical[2] \notin f.names
      BY <1>1, <1>6, CopiesOwned
    <2>3. NextName(c, f, e) => Down(f, client'[c])
      BY <1>1, <2>2, NextNameDown
    <2>4. CASE NextId(c, [f EXCEPT !.copy = e], "commit", <<>>)
      <3> DEFINE g == [f EXCEPT !.copy = e]
      <3>1. g.left = f.left /\ g.names = f.names /\ g.attempt = f.attempt
        BY <1>1 DEF Frame
      <3>2. g \in Frame
        BY <1>1, <1>6, CopiesOwned DEF Frame
      <3>3. NextId(c, g, "commit", <<>>)
        BY <2>4
      <3> HIDE DEF g
      <3> QED BY <1>1, <3>1, <3>2, <3>3, NextIdDown
    <2> QED BY <1>2, <1>3, <2>1, <2>3, <2>4 DEF Refuse
  <1>7. ASSUME Update(c, f) \/ Delete(c, f) PROVE Down(f, client'[c])
    BY <1>2, <1>7 DEF Update, Delete
  <1> QED BY <1>5, <1>6, <1>7 DEF Commit

(* After the fetch of a page's content only its answer is ahead.            *)
LEMMA LastAwait ==
    ASSUME NEW f, NEW g, f.at = "fetch", g.at \notin {"page", "page authority", "resolve", "fetch"},
           g.todo = <<>>, g.unread = {}
    PROVE  AwaitsAhead(g) < AwaitsAhead(f)
  <1>1. AwaitsAhead(f) = 2
    BY DEF AwaitsAhead
  <1>2. Len(g.todo) = 0 /\ Cardinality(g.unread) = 0
    <2>1. Len(<<>>) = 0 /\ Cardinality({}) = 0
      BY FS_EmptySet
    <2> QED BY <2>1
  <1> DEFINE m == Len(g.todo)
  <1>3. AwaitsAhead(g) = m * each + Cardinality(g.unread) + 1
    BY DEF AwaitsAhead, each
  <1>4. m = 0 /\ m \in Nat /\ each \in Nat
    BY <1>2, Sizes
  <1> HIDE DEF m
  <1>5. m * each = 0
    BY <1>4, ZeroTimes, Zenon
  <1>6. AwaitsAhead(g) = 0 + 0 + 1
    BY <1>2, <1>3, <1>5, Zenon
  <1>7. 0 + 0 + 1 = 1
    BY ONLY TRUE
  <1>8. AwaitsAhead(g) = 1
    BY <1>6, <1>7, Zenon
  <1>9. 1 < 2
    BY ONLY TRUE
  <1> QED BY <1>1, <1>8, <1>9, Zenon

(* Reading a page, resolving a locator and fetching content go ahead.      *)
LEMMA ReadsDown ==
    ASSUME Inv, NEW c \in Clients, FrameOK(client'[c]),
           ReadPage(c) \/ Resolve(c) \/ Fetch(c) \/ Observe(c)
    PROVE  Down(client[c], client'[c])
  <1> SUFFICES ASSUME NEW f, f = client[c] PROVE Down(f, client'[c])
    OBVIOUS
  <1>1. f.at \in {"page", "resolve", "fetch", "record missing", "record found"}
    BY DEF ReadPage, Resolve, Fetch, Observe
  <1>2. f \in Frame /\ FrameOK(f)
    BY <1>1, FrameOf
  <1>3. (ItemDone(c, f) => Down(f, client'[c])) /\ (Return(c) => Down(f, client'[c]))
    BY <1>1, ItemDoneDown, ReturnDown
  <1>4. ASSUME NEW g, Become(c, g), g.left = f.left, g.names = f.names, g.attempt = f.attempt,
               AwaitsAhead(g) < AwaitsAhead(f)
        PROVE  Down(f, client'[c])
    <2>1. client'[c] = g
      BY <1>4 DEF Become, Inv, CallsInv
    <2> QED BY <1>4, <2>1, SameTries DEF Down
  <1>5. CASE ReadPage(c)
    <2> DEFINE g == [f EXCEPT !.page = pages[f.page_id], !.at = "page authority"]
    <2>1. Become(c, g) \/ ItemDone(c, f)
      BY <1>5 DEF ReadPage
    <2>2. /\ g.at = "page authority" /\ g.left = f.left /\ g.names = f.names
          /\ g.attempt = f.attempt
      BY <1>2 DEF Frame
    <2> HIDE DEF g
    <2>3. AwaitsAhead(g) = 7 * each /\ AwaitsAhead(f) = 8 * each
      BY <1>5, <2>2 DEF AwaitsAhead, each, ReadPage
    <2>4. AwaitsAhead(g) < AwaitsAhead(f)
      BY <2>3, Sizes
    <2> QED BY <1>3, <1>4, <2>1, <2>2, <2>4
  <1>6. CASE Resolve(c)
    <2> DEFINE id == endpoint_page_ids[f.req.locator]
               g == [f EXCEPT !.page_id = id, !.page = pages[id], !.at = "fetch"]
    <2>1. Become(c, g) \/ Return(c)
      BY <1>6 DEF Resolve
    <2>2. g.at = "fetch" /\ g.left = f.left /\ g.names = f.names /\ g.attempt = f.attempt
      BY <1>2 DEF Frame
    <2> HIDE DEF g
    <2>3. AwaitsAhead(g) = 2 /\ AwaitsAhead(f) = 3
      BY <1>6, <2>2 DEF AwaitsAhead, Resolve
    <2> QED BY <1>3, <1>4, <2>1, <2>2, <2>3
  <1>7. CASE Fetch(c)
    <2>1. \/ Return(c)
          \/ \E place \in {"record missing", "record found"} : Become(c, [f EXCEPT !.at = place])
      BY <1>7 DEF Fetch
    <2>2. ASSUME NEW place \in {"record missing", "record found"},
                 Become(c, [f EXCEPT !.at = place])
          PROVE  Down(f, client'[c])
      <3> DEFINE g == [f EXCEPT !.at = place]
      <3>1. /\ g.at = place /\ g.left = f.left /\ g.names = f.names /\ g.attempt = f.attempt
            /\ g.todo = f.todo /\ g.unread = f.unread
        BY <1>2 DEF Frame
      <3>2. f.todo = <<>> /\ f.unread = {}
        BY <1>2, <1>7 DEF Fetch, FrameOK, OnCourse, Working
      <3>3. Become(c, g)
        BY <2>2
      <3> HIDE DEF g
      <3>4. f.at = "fetch"
        BY <1>7 DEF Fetch
      <3>5. AwaitsAhead(g) < AwaitsAhead(f)
        <4>1. g.at \notin {"page", "page authority", "resolve", "fetch"}
          BY <2>2, <3>1
        <4>2. g.todo = <<>> /\ g.unread = {}
          BY <3>1, <3>2
        <4> QED BY <3>4, <4>1, <4>2, LastAwait
      <3> QED BY <1>4, <3>1, <3>3, <3>5
    <2> QED BY <1>3, <2>1, <2>2
  <1>8. CASE Observe(c)
    BY <1>3, <1>8 DEF Observe
  <1> QED BY <1>5, <1>6, <1>7, <1>8

(* The checks, uploads, fetches and stagings leave less ahead.             *)
LEMMA WorkDown ==
    ASSUME Inv, NEW c \in Clients, FrameOK(client'[c]),
           \/ ReadPageAuthority(c) \/ ReadAuthority(c) \/ Upload(c)
           \/ FetchCandidate(c) \/ Stage(c)
    PROVE  Down(client[c], client'[c])
  <1> SUFFICES ASSUME NEW f, f = client[c] PROVE Down(f, client'[c])
    OBVIOUS
  <1>1. f.at \in {"page authority", "authority", "upload", "fetch candidate", "stage"}
    BY DEF ReadPageAuthority, ReadAuthority, Upload, FetchCandidate, Stage
  <1>2. f \in Frame /\ FrameOK(f) /\ f.req \in Asked
    BY <1>1, FrameOf
  <1>3. ItemDone(c, f) => Down(f, client'[c])
    BY <1>1, ItemDoneDown
  <1>4. AwaitsAhead(f) \in Nat
    BY <1>1, <1>2, AheadType
  <1>5. ASSUME f.at # "page authority"
        PROVE  /\ AwaitsAhead(f) = Len(f.todo) * each + Cardinality(f.unread) + 1
               /\ f.todo \in Suffixes(f.req)
               /\ Len(f.todo) * each \in Nat
               /\ Cardinality(f.unread) \in Nat
    <2>1. f.at \in Working /\ f.at # "commit"
      BY <1>1, <1>5 DEF Working
    <2>2. f.todo \in Suffixes(f.req)
      BY <1>2, <2>1, CoursePlaces DEF FrameOK, Working
    <2>3. Len(f.todo) \in Nat
      BY <1>2 DEF Frame
    <2>4. Len(f.todo) * each \in Nat
      BY <2>3, Sizes
    <2>5. AwaitsAhead(f) = Len(f.todo) * each + Cardinality(f.unread) + 1
      BY <1>1, <1>5 DEF AwaitsAhead, each
    <2> QED BY <1>2, <2>2, <2>4, <2>5, Counts
  <1>6. ASSUME f.at # "page authority", NEW g \in Frame, g.todo = f.todo, g.req = f.req,
               g.left = f.left, g.names = f.names, g.attempt = f.attempt, Advance(c, g)
        PROVE  Down(f, client'[c])
    <2>1. Len(g.todo) * each < AwaitsAhead(f)
      <3> DEFINE ahead == Len(f.todo) * each
      <3>1. ahead \in Nat /\ Cardinality(f.unread) \in Nat
            /\ AwaitsAhead(f) = ahead + Cardinality(f.unread) + 1
        BY <1>5, <1>6
      <3>2. Len(g.todo) * each = ahead
        BY <1>6
      <3> HIDE DEF ahead
      <3> QED BY <3>1, <3>2
    <2> QED BY <1>4, <1>5, <1>6, <2>1, AdvanceDown
  <1>7. CASE ReadPageAuthority(c)
    <2> DEFINE g == [f EXCEPT !.todo = Course(f.req)]
    <2>1. f.at = "page authority" /\ (ItemDone(c, f) \/ Advance(c, g))
      BY <1>7 DEF ReadPageAuthority
    <2>2. f.req.kind \in Selecting
      BY <2>1, FrameOf
    <2>3. Course(f.req) \in Suffixes(f.req) /\ Course(f.req) \in Seq(Places)
      BY <1>2, <2>2, CourseBegins
    <2>4. /\ g.todo = Course(f.req) /\ g.req = f.req /\ g.left = f.left
          /\ g.names = f.names /\ g.attempt = f.attempt /\ g \in Frame
      BY <1>2, <2>3 DEF Frame
    <2> HIDE DEF g
    <2>5. AwaitsAhead(f) = 7 * each
      BY <2>1 DEF AwaitsAhead, each
    <2>6. Len(g.todo) \in {1, 2, 3, 4}
      <3>1. /\ Len(<<"commit">>) = 1 /\ Len(<<"stage", "commit">>) = 2
            /\ Len(<<"authority", "commit">>) = 2
            /\ Len(<<"upload", "stage", "commit">>) = 3
            /\ Len(<<"authority", "stage", "commit">>) = 3
            /\ Len(<<"fetch candidate", "stage", "commit">>) = 3
            /\ Len(<<"upload", "authority", "stage", "commit">>) = 4
            /\ Len(<<"authority", "upload", "stage", "commit">>) = 4
        OBVIOUS
      <3> QED BY <2>3, <2>4, <3>1 DEF Suffixes
    <2>7. Len(g.todo) * each < AwaitsAhead(f)
      <3>1. 1 * each < 7 * each /\ 2 * each < 7 * each /\ 3 * each < 7 * each
            /\ 4 * each < 7 * each
        BY Sizes
      <3> QED BY <2>5, <2>6, <3>1
    <2>8. Advance(c, g) => Down(f, client'[c])
      BY <1>4, <2>3, <2>4, <2>7, AdvanceDown
    <2> QED BY <1>3, <2>1, <2>8
  <1>8. CASE ReadAuthority(c)
    <2>1. PICK n \in f.unread :
             ItemDone(c, f) \/ Advance(c, f) \/ Become(c, [f EXCEPT !.unread = @ \ {n}])
      BY <1>8 DEF ReadAuthority
    <2>2. f.at = "authority"
      BY <1>8 DEF ReadAuthority
    <2>3. CASE Become(c, [f EXCEPT !.unread = @ \ {n}])
      <3> DEFINE g == [f EXCEPT !.unread = @ \ {n}]
      <3>1. /\ g.at = f.at /\ g.todo = f.todo /\ g.unread = f.unread \ {n}
            /\ g.left = f.left /\ g.names = f.names /\ g.attempt = f.attempt
        BY <1>2 DEF Frame
      <3>2. client'[c] = g
        BY <2>3 DEF Become, Inv, CallsInv
      <3> HIDE DEF g
      <3>3. Cardinality(g.unread) = Cardinality(f.unread) - 1
        BY <1>2, <3>1, Counts, FS_RemoveElement
      <3>4. AwaitsAhead(g) = Len(f.todo) * each + Cardinality(g.unread) + 1
        BY <2>2, <3>1 DEF AwaitsAhead, each
      <3>5. AwaitsAhead(g) < AwaitsAhead(f)
        BY <1>5, <2>2, <3>3, <3>4
      <3> QED BY <3>1, <3>2, <3>5, SameTries DEF Down
    <2> QED BY <1>2, <1>3, <1>6, <2>1, <2>2, <2>3
  <1>9. CASE Upload(c) \/ FetchCandidate(c)
    BY <1>2, <1>3, <1>6, <1>9 DEF Upload, FetchCandidate
  <1>10. CASE Stage(c)
    <2>1. PICK a \in ContentAssets : Advance(c, [f EXCEPT !.asset = a])
      BY <1>10, ConstantsAssumption DEF Stage, Candidates
    <2> DEFINE g == [f EXCEPT !.asset = a]
    <2>2. /\ g.todo = f.todo /\ g.req = f.req /\ g.left = f.left
          /\ g.names = f.names /\ g.attempt = f.attempt /\ g \in Frame
      BY <1>2 DEF Frame
    <2>3. Advance(c, g)
      BY <2>1
    <2>4. f.at = "stage"
      BY <1>10 DEF Stage
    <2> HIDE DEF g
    <2> QED BY <1>6, <2>2, <2>3, <2>4
  <1> QED BY <1>7, <1>8, <1>9, <1>10

(* Every await of a call, whatever the other calls did meanwhile, leaves   *)
(* the call less ahead of it: the loops over a selection, over names that  *)
(* are taken and over ids that are taken all end, for any limits.          *)
THEOREM CallsProgress == Spec => EveryStepIsProgress
  <1> DEFINE Progress == \A c \in Clients :
                             client[c].at # "idle" /\ client'[c] # client[c]
                             => Ahead(client'[c]) < Ahead(client[c])
  <1>1. ASSUME Inv, [Next]_vars PROVE Progress
    <2> SUFFICES ASSUME NEW c \in Clients, client[c].at # "idle", client'[c] # client[c]
                 PROVE  Ahead(client'[c]) < Ahead(client[c])
      OBVIOUS
    <2>1. ASSUME NEW d \in Clients, GoodStep(d) PROVE d = c /\ FrameOK(client'[c])
      BY <1>1, <2>1 DEF GoodStep, Moves, Become, Inv, CallsInv
    <2>2. Step(c) \/ Crash(c)
      <3>1. ASSUME NEW d \in Clients, Step(d) \/ Crash(d) PROVE d = c
        BY <1>1, <2>1, <3>1, ClientGood
      <3>2. ASSUME NEW d \in Clients, NEW req \in requests, Call(d, req) PROVE FALSE
        <4>1. d = c
          BY <1>1, <2>1, <3>2, CallGood
        <4> QED BY <3>2, <4>1 DEF Call
      <3>3. ~UNCHANGED client
        OBVIOUS
      <3> QED BY <1>1, <3>1, <3>2, <3>3 DEF Next, Reserve, LoseSource, RestoreSource, vars
    <2>3. FrameOK(client'[c])
      BY <1>1, <2>1, <2>2, ClientGood
    <2>4. Down(client[c], client'[c])
      BY <1>1, <2>2, <2>3, ReadsDown, WorkDown, CommitDown, ReturnDown DEF Step, Crash
    <2>5. FrameOK(client[c])
      BY <1>1, FrameOf
    <2> QED BY <2>3, <2>4, <2>5, Descends DEF Down
  <1>2. Inv /\ [Next]_vars => [Progress]_vars
    BY <1>1
  <1> QED BY <1>2, ServiceInvariant, PTL DEF Spec, EveryStepIsProgress
=============================================================================
