------------------------- MODULE KvPageAggregateProofs -------------------------
(***************************************************************************)
(* The KV page repository keeps its rows in step with its pages and        *)
(* implements PageStore, for any stores, calls, clients and crashes.  The  *)
(* argument: an entry that still has the versionstamp it was read with is  *)
(* the entry read, so that a commit whose checks pass acts on the store as *)
(* it is; what it checks covers every page that holds a wanted locator;    *)
(* and it removes all the rows of the pages it replaces.                   *)
(***************************************************************************)
EXTENDS KvPageAggregate, FiniteSetTheorems, FunctionTheorems, TLAPS

-----------------------------------------------------------------------------
(* The inductive invariant.                                                *)
(* What is stored under a key, if anything. *)
TypeOf(k) == IF k \in PageKeys THEN PageAggregate
             ELSE IF k \in ManifestKeys THEN {k[2]} ELSE Pointer

Page(id) == StoredPages[id]
Stored(id) == present(get(page_aggregate_storage_key(id)))

(* The store: stamps given out, values of their key's type, pages with     *)
(* stored content, all the rows of every page, and no other row.           *)
EntriesTyped ==
    /\ clock \in Nat \ {0}
    /\ \A k \in DOMAIN kv : kv[k].vs \in 1 .. clock /\ kv[k].val \in TypeOf(k)
                           /\ kv[k] = [vs |-> kv[k].vs, val |-> kv[k].val]

ContentHeld ==
    \A id \in PageIds : Stored(id) => Page(id).content_asset_id \in StoredAssets

RowsHeld ==
    \A id \in PageIds : Stored(id) =>
        \A k \in visibility_keys(id, Page(id)) :
            present(get(k)) /\ get(k).val = page_pointer(id, Page(id))

NoOtherRows ==
    \A k \in DOMAIN kv \ (PageKeys \cup ManifestKeys) :
        \E id \in PageIds : Stored(id) /\ k \in visibility_keys(id, Page(id))

StoreOK == EntriesTyped /\ ContentHeld /\ RowsHeld /\ NoOtherRows

-----------------------------------------------------------------------------
(* What a call knows at each await. *)

(* An entry read earlier: it is the one stored now if the stamps agree.    *)
Seen(k, entry) ==
    /\ entry.vs \in 0 .. clock
    /\ IF present(entry) THEN entry.val \in TypeOf(k) ELSE entry = Absent
    /\ get(k).vs = entry.vs => get(k) = entry

SeenAll(entries) == \A k \in DOMAIN entries : Seen(k, entries[k])

SeenPage(s) == Seen(page_aggregate_storage_key(s.id), s.entry)

Snapshotting == {"snapshot entry", "snapshot indexes", "snapshot again"}

(* Everything the frame holds was read. *)
Remembers(f) ==
    /\ SeenAll(f.targets) /\ SeenAll(f.probed) /\ SeenAll(f.rows)
    /\ \A s \in f.snapshots : SeenPage(s)
    /\ f.existing # None => SeenPage(f.existing)

RemembersEntry(f) ==
    present(f.entry) /\ Seen(page_aggregate_storage_key(f.reading), f.entry)

RemembersRow(f) == present(f.row[2]) /\ Seen(f.row[1], f.row[2])

Recalled(f) ==
    /\ SeenAll(f.got) /\ Remembers(f)
    /\ f.at \in {"snapshot indexes", "snapshot again"} => RemembersEntry(f)
    /\ f.req.kind = "list" /\ f.at \in Snapshotting \cup {"row again"} => RemembersRow(f)

(* The rest is about the frame alone. *)
Snapped(s) ==
    /\ s.id \in PageIds
    /\ present(s.entry) /\ s.page = s.entry.val /\ s.page \in PageAggregate
    /\ DOMAIN s.index = visibility_keys(s.id, s.page)

WantedKeys(req) ==
    IF req.kind = "resolve" THEN {page_endpoint_claim_key(req.locator)}
    ELSE IF req.kind = "update" THEN ClaimKeysOf(req.patch.endpoint_set)
    ELSE ClaimKeysOf(req.endpoint_set)

TargetIds(f) == {f.targets[k].val.page_id : k \in {k \in DOMAIN f.targets : present(f.targets[k])}}

(* The page that an update, duplicate, delete or health report is about,   *)
(* and what it will write.                                                 *)
Editing == {"update", "duplicate", "delete"}

ExistingOK(f) ==
    /\ f.req.kind \in Editing \cup {"health"}
    /\ f.existing # None /\ Snapped(f.existing) /\ f.existing.id = f.req.id
    /\ f.req.kind \in Editing =>
          f.existing.page.owner = f.req.owner /\ f.existing.page.revision = f.req.expected_revision
    /\ f.req.kind = "update" =>
          /\ RevisionAvailable(f.existing.page)
          /\ f.id = f.req.id /\ f.page = PatchedPage(f.existing.page, f.req.patch)
    /\ f.req.kind = "duplicate" =>
          f.id = f.req.new_id /\ f.page = DuplicatePage(f.existing.page, f.req.endpoint_set)
    /\ f.req.kind = "health" =>
          /\ f.existing.page.content_asset_id = f.req.content_asset_id
          /\ f.existing.page.external_missing # f.req.missing
          /\ f.id = f.req.id
          /\ f.page = [f.existing.page EXCEPT !.external_missing = f.req.missing]

(* The new page of a trial publication or creation, by the claims it read. *)
NewOK(f) ==
    \/ /\ f.req.kind = "put_trial" /\ f.snapshots = {}
       /\ f.id = f.req.new_id
       /\ f.page = TrialPage(f.req.endpoint_set, f.req.content_asset_id, 1)
    \/ /\ f.req.kind = "put_trial"
       /\ \E s \in f.snapshots :
             /\ f.snapshots = {s} /\ RevisionAvailable(s.page) /\ f.id = s.id
             /\ f.page = TrialPage(f.req.endpoint_set, f.req.content_asset_id, s.page.revision + 1)
    \/ /\ f.req.kind = "create"
       /\ f.id = f.req.new_id
       /\ f.page = ManagedPage(f.req.endpoint_set, f.req.owner, f.req.access, f.req.content_asset_id)

(* The claims: none read; snapshots being read; read and coherent.         *)
NoClaims(f) == f.targets = NoEntries /\ f.snapshots = {}

Targeted(f) == \A s \in f.snapshots : Snapped(s) /\ s.id \in TargetIds(f)

ClaimsOK(f) ==
    /\ DOMAIN f.targets = WantedKeys(f.req)
    /\ Targeted(f) /\ ClaimsCoherent(f)
    /\ \A s \in Displaced(f) : s.page.owner = None

New(f) == f.req.kind \in {"create", "duplicate"} \/ (f.req.kind = "put_trial" /\ f.snapshots = {})

ProbeKeys(f) ==
    {content_asset_manifest_key(f.page.content_asset_id)} \cup
    (IF New(f) THEN {page_aggregate_storage_key(f.req.new_id)} ELSE {})

ProbedOK(f) ==
    /\ DOMAIN f.probed = ProbeKeys(f)
    /\ \A k \in ProbeKeys(f) : present(f.probed[k]) <=> k \in ManifestKeys

(* May an attempt read claims now, and the claims it is reading.           *)
Asking(f) ==
    \/ f.req.kind \in {"put_trial", "create", "resolve"}
    \/ f.req.kind = "duplicate" /\ ExistingOK(f)
    \/ f.req.kind = "update" /\ f.req.patch.endpoint_set # None /\ ExistingOK(f) /\ ProbedOK(f)

Claiming(f) ==
    /\ Asking(f)
    /\ DOMAIN f.targets = WantedKeys(f.req)
    /\ f.queue \subseteq TargetIds(f) /\ Targeted(f)

(* A listing that has rows to go, and one that is reading a row's page.    *)
Listing(f) ==
    /\ f.req.kind = "list" /\ f.targets = NoEntries
    /\ \A k \in DOMAIN f.rows : present(f.rows[k]) /\ Lists(f.req, k)

Fetching(f) ==
    /\ f.reading \in PageIds
    /\ \/ Listing(f) /\ Lists(f.req, f.row[1])
       \/ /\ f.req.kind \in Editing \cup {"find", "health"} /\ f.reading = f.req.id
          /\ NoClaims(f)
       \/ Claiming(f) /\ f.reading \in TargetIds(f)

(* What the attempt has found out before its probe, and after it.          *)
Planned(f) ==
    \/ f.req.kind \in {"put_trial", "create"} /\ ClaimsOK(f) /\ NewOK(f)
    \/ f.req.kind = "duplicate" /\ ClaimsOK(f) /\ ExistingOK(f)
    \/ f.req.kind = "update" /\ NoClaims(f) /\ ExistingOK(f)

Settled(f) ==
    \/ f.req.kind \in {"put_trial", "create", "duplicate"} /\ Planned(f) /\ ProbedOK(f)
    \/ /\ f.req.kind = "update" /\ ExistingOK(f) /\ ProbedOK(f)
       /\ IF f.req.patch.endpoint_set = None THEN NoClaims(f) ELSE ClaimsOK(f)

(* What holds at each await, for the keys read or still to be read there.  *)
Waits(f, at, keys) ==
    \/ at = "snapshot entry" /\ Fetching(f) /\ keys = {page_aggregate_storage_key(f.reading)}
    \/ at = "snapshot indexes" /\ Fetching(f) /\ keys = visibility_keys(f.reading, f.entry.val)
    \/ /\ at = "snapshot again" /\ Fetching(f)
       /\ keys = visibility_keys(f.reading, f.entry.val) \cup
                 {page_aggregate_storage_key(f.reading)}
    \/ at = "claims" /\ Asking(f) /\ NoClaims(f) /\ keys = WantedKeys(f.req)
    \/ at = "claims again" /\ Claiming(f) /\ keys = WantedKeys(f.req)
    \/ at = "probe" /\ Planned(f) /\ keys = ProbeKeys(f)
    \/ at \in {"destination", "authority"} /\ Settled(f)
    \/ at = "list" /\ Listing(f)
    \/ at = "row again" /\ Listing(f) /\ Lists(f.req, f.row[1]) /\ keys = {f.row[1]}
    \/ at = "commit" /\ Settled(f)
    \/ at = "commit" /\ f.req.kind \in {"delete", "health"} /\ ExistingOK(f) /\ NoClaims(f)

AtOK(f) == Waits(f, f.at, f.pending \cup DOMAIN f.got)

Ended == {"idle", "invariant violated", "contention exhausted"}

FrameOK(f) ==
    \/ f.at \in Ended
    \/ /\ DOMAIN f = DOMAIN Idle
       /\ f.req \in Request
       /\ Recalled(f) /\ AtOK(f)

IInv ==
    /\ StoreOK
    /\ requests \subseteq UNION {s.requests : s \in Scenarios}
    /\ DOMAIN client = Clients
    /\ \A c \in Clients : FrameOK(client[c])
-----------------------------------------------------------------------------
(* Keys. *)

(* Keys of different families, or of different data, are different keys.   *)
LEMMA KeysDiffer ==
    /\ \A i, j : page_aggregate_storage_key(i) = page_aggregate_storage_key(j) => i = j
    /\ \A i, j : page_endpoint_claim_key(i) = page_endpoint_claim_key(j) => i = j
    /\ \A i, j : content_asset_manifest_key(i) = content_asset_manifest_key(j) => i = j
    /\ \A i, j, l, m : page_aggregate_public_key(l, i) = page_aggregate_public_key(m, j)
                          => i = j /\ l = m
    /\ \A i, j, l, m, o, p : page_aggregate_owner_key(o, l, i) = page_aggregate_owner_key(p, m, j)
                                => i = j /\ l = m /\ o = p
    /\ \A i, j : /\ page_aggregate_storage_key(i) # page_endpoint_claim_key(j)
                 /\ page_aggregate_storage_key(i) # content_asset_manifest_key(j)
                 /\ page_endpoint_claim_key(i) # content_asset_manifest_key(j)
    /\ \A i, j, l : /\ page_aggregate_public_key(l, i) # page_aggregate_storage_key(j)
                    /\ page_aggregate_public_key(l, i) # page_endpoint_claim_key(j)
                    /\ page_aggregate_public_key(l, i) # content_asset_manifest_key(j)
    /\ \A i, j, l, o : /\ page_aggregate_owner_key(o, l, i) # page_aggregate_storage_key(j)
                       /\ page_aggregate_owner_key(o, l, i) # page_endpoint_claim_key(j)
                       /\ page_aggregate_owner_key(o, l, i) # content_asset_manifest_key(j)
    /\ \A i, j, l, m, o : page_aggregate_owner_key(o, l, i) # page_aggregate_public_key(m, j)
  <1>1. \A a, b, u, v, w : <<a, b>> # <<u, v, w>>
    OBVIOUS
  <1>2. \A a, b, u, v, w, x : <<a, b>> # <<u, v, w, x>>
    OBVIOUS
  <1>3. \A a, b, c, u, v, w, x : <<a, b, c>> # <<u, v, w, x>>
    OBVIOUS
  <1>4. /\ \A i, j : page_aggregate_storage_key(i) = page_aggregate_storage_key(j) => i = j
        /\ \A i, j : page_endpoint_claim_key(i) = page_endpoint_claim_key(j) => i = j
        /\ \A i, j : content_asset_manifest_key(i) = content_asset_manifest_key(j) => i = j
    BY DEF page_aggregate_storage_key, page_endpoint_claim_key, content_asset_manifest_key
  <1>5. \A i, j, l, m : page_aggregate_public_key(l, i) = page_aggregate_public_key(m, j)
                          => i = j /\ l = m
    BY DEF page_aggregate_public_key
  <1>6. \A i, j, l, m, o, p : page_aggregate_owner_key(o, l, i) = page_aggregate_owner_key(p, m, j)
                                => i = j /\ l = m /\ o = p
    BY DEF page_aggregate_owner_key
  <1>7. \A i, j : /\ page_aggregate_storage_key(i) # page_endpoint_claim_key(j)
                  /\ page_aggregate_storage_key(i) # content_asset_manifest_key(j)
                  /\ page_endpoint_claim_key(i) # content_asset_manifest_key(j)
    BY DEF page_aggregate_storage_key, page_endpoint_claim_key, content_asset_manifest_key
  <1>8. \A i, j, l : /\ page_aggregate_public_key(l, i) # page_aggregate_storage_key(j)
                     /\ page_aggregate_public_key(l, i) # page_endpoint_claim_key(j)
                     /\ page_aggregate_public_key(l, i) # content_asset_manifest_key(j)
    BY <1>1 DEF page_aggregate_storage_key, page_endpoint_claim_key, content_asset_manifest_key,
                page_aggregate_public_key
  <1>9. \A i, j, l, o : /\ page_aggregate_owner_key(o, l, i) # page_aggregate_storage_key(j)
                        /\ page_aggregate_owner_key(o, l, i) # page_endpoint_claim_key(j)
                        /\ page_aggregate_owner_key(o, l, i) # content_asset_manifest_key(j)
    BY <1>2 DEF page_aggregate_storage_key, page_endpoint_claim_key, content_asset_manifest_key,
                page_aggregate_owner_key
  <1>10. \A i, j, l, m, o : page_aggregate_owner_key(o, l, i) # page_aggregate_public_key(m, j)
    BY <1>3 DEF page_aggregate_owner_key, page_aggregate_public_key
  <1> QED BY <1>4, <1>5, <1>6, <1>7, <1>8, <1>9, <1>10

RowKey(k) == k \notin PageKeys \cup ManifestKeys

(* What is a row of a page: its claims, and two rows that name the page.   *)
LEMMA RowsOf ==
    ASSUME NEW id, NEW page
    PROVE  /\ \A l : page_endpoint_claim_key(l) \in visibility_keys(id, page)
                        <=> l \in bindings(page.endpoint_set)
           /\ \A k \in visibility_keys(id, page) : RowKey(k)
           /\ \A k \in visibility_keys(id, page) :
                 \/ \E l \in bindings(page.endpoint_set) : k = page_endpoint_claim_key(l)
                 \/ /\ k \in projection_keys(id, page)
                    /\ \A other, p : k \in visibility_keys(other, p) => other = id
  <1>1. \A other, p, k : k \in projection_keys(other, p) =>
            \/ k = page_aggregate_owner_key(p.owner, p.endpoint_set.canonical, other)
            \/ k = page_aggregate_public_key(p.endpoint_set.canonical, other)
    BY DEF projection_keys
  <1>2. \A p, k : k \in endpoint_keys(p) <=>
            \E l \in bindings(p.endpoint_set) : k = page_endpoint_claim_key(l)
    BY DEF endpoint_keys
  <1>3. \A l : page_endpoint_claim_key(l) \in visibility_keys(id, page)
                  <=> l \in bindings(page.endpoint_set)
    BY <1>1, <1>2, KeysDiffer DEF visibility_keys
  <1>4. \A l : RowKey(page_endpoint_claim_key(l))
    BY KeysDiffer DEF RowKey, PageKeys, ManifestKeys
  <1>5. \A o, l, i : /\ RowKey(page_aggregate_owner_key(o, l, i))
                     /\ RowKey(page_aggregate_public_key(l, i))
    BY KeysDiffer DEF RowKey, PageKeys, ManifestKeys
  <1>6. \A k \in visibility_keys(id, page) : RowKey(k)
    BY <1>1, <1>2, <1>4, <1>5 DEF visibility_keys
  <1>7. ASSUME NEW k \in projection_keys(id, page), NEW other, NEW p,
               k \in visibility_keys(other, p)
        PROVE  other = id
    <2>1. k \notin endpoint_keys(p)
      BY <1>1, <1>2, <1>7, KeysDiffer
    <2>2. k \in projection_keys(other, p)
      BY <2>1, <1>7 DEF visibility_keys
    <2> QED BY <1>1, <1>7, <2>2, KeysDiffer
  <1>8. \A k \in visibility_keys(id, page) :
                 \/ \E l \in bindings(page.endpoint_set) : k = page_endpoint_claim_key(l)
                 \/ /\ k \in projection_keys(id, page)
                    /\ \A other, p : k \in visibility_keys(other, p) => other = id
    BY <1>2, <1>7 DEF visibility_keys
  <1> QED BY <1>3, <1>6, <1>8

(* Claim keys are row keys. *)
LEMMA ClaimsAreRows == \A l : RowKey(page_endpoint_claim_key(l))
  BY KeysDiffer DEF RowKey, PageKeys, ManifestKeys

(* The types of the values under a key. *)
LEMMA TypesOfKeys ==
    /\ \A id \in PageIds : TypeOf(page_aggregate_storage_key(id)) = PageAggregate
    /\ \A a \in ContentAssets : TypeOf(content_asset_manifest_key(a)) = {a}
    /\ \A k : RowKey(k) => TypeOf(k) = Pointer
  <1>1. \A a : content_asset_manifest_key(a)[2] = a
    BY DEF content_asset_manifest_key
  <1>2. \A a \in ContentAssets : /\ content_asset_manifest_key(a) \notin PageKeys
                                 /\ content_asset_manifest_key(a) \in ManifestKeys
    BY KeysDiffer DEF PageKeys, ManifestKeys
  <1>3. \A id \in PageIds : page_aggregate_storage_key(id) \in PageKeys
    BY DEF PageKeys
  <1> QED BY <1>1, <1>2, <1>3 DEF TypeOf, RowKey

(* Reading back a snapshot-sized fact: a pointer names its page.           *)
LEMMA PointersTyped ==
    /\ \A p \in Pointer : p.page_id \in PageIds
    /\ \A id \in PageIds, page \in PageAggregate :
          /\ page_pointer(id, page) \in Pointer
          /\ page_pointer(id, page).page_id = id
          /\ page_pointer(id, page).revision = page.revision
  BY DEF Pointer, page_pointer, PageAggregate
-----------------------------------------------------------------------------
(* Reads and writes. *)

(* What get returns: the stored entry, or the absent one with stamp 0. *)
LEMMA EntriesOfGet ==
    /\ \A k : k \in DOMAIN kv => get(k) = kv[k]
    /\ \A k : k \notin DOMAIN kv => get(k) = Absent /\ ~present(get(k))
    /\ Absent.vs = 0 /\ Absent.val = None /\ ~present(Absent)
    /\ EntriesTyped => \A k : /\ present(get(k)) <=> k \in DOMAIN kv
                              /\ get(k).vs \in 0 .. clock
                              /\ present(get(k)) => get(k).vs # 0 /\ get(k).val \in TypeOf(k)
                              /\ get(k).vs = 0 => get(k) = Absent
  <1>1. /\ \A k : k \in DOMAIN kv => get(k) = kv[k]
        /\ \A k : k \notin DOMAIN kv => get(k) = Absent
    BY DEF get
  <1>2. Absent.vs = 0 /\ Absent.val = None /\ ~present(Absent)
    BY DEF Absent, present
  <1>3. ASSUME EntriesTyped, NEW k
        PROVE  /\ present(get(k)) <=> k \in DOMAIN kv
               /\ get(k).vs \in 0 .. clock
               /\ present(get(k)) => get(k).vs # 0 /\ get(k).val \in TypeOf(k)
               /\ get(k).vs = 0 => get(k) = Absent
    <2>1. CASE k \in DOMAIN kv
      <3>1. kv[k].vs \in 1 .. clock /\ kv[k].val \in TypeOf(k) /\ clock \in Nat
        BY <1>3, <2>1 DEF EntriesTyped
      <3>2. kv[k].vs # 0 /\ kv[k].vs \in 0 .. clock
        BY <3>1
      <3> QED BY <1>1, <2>1, <3>1, <3>2 DEF present
    <2>2. CASE k \notin DOMAIN kv
      <3>1. clock \in Nat
        BY <1>3 DEF EntriesTyped
      <3>2. 0 \in 0 .. clock
        BY <3>1
      <3> QED BY <1>1, <1>2, <2>2, <3>2
    <2> QED BY <2>1, <2>2
  <1> QED BY <1>1, <1>2, <1>3

(* What is read now is what is stored now. *)
LEMMA ReadNow == ASSUME EntriesTyped PROVE \A k : Seen(k, get(k))
  BY EntriesOfGet DEF Seen

(* What a committed atomic operation leaves at each key.                   *)
LEMMA WriteGets ==
    ASSUME NEW written, NEW removed, Write(written, removed)
    PROVE  /\ \A key : get(key)' = IF key \in DOMAIN written
                                   THEN [vs |-> clock + 1, val |-> written[key]]
                                   ELSE IF key \in removed THEN Absent ELSE get(key)
           /\ DOMAIN kv' = DOMAIN written \cup (DOMAIN kv \ removed)
  <1> DEFINE kept == [k \in DOMAIN kv \ removed |-> kv[k]]
             fresh == [k \in DOMAIN written |-> [vs |-> clock + 1, val |-> written[k]]]
  <1>1. kv' = Overlay(fresh, kept)
    BY DEF Write, Stamped
  <1>2. kv' = [k \in DOMAIN fresh \cup DOMAIN kept |->
                  IF k \in DOMAIN fresh THEN fresh[k] ELSE kept[k]]
    BY <1>1 DEF Overlay
  <1>3. \A key : get(key)' = IF key \in DOMAIN kv' THEN kv'[key] ELSE Absent
    BY DEF get, Absent
  <1>4. DOMAIN kv' = DOMAIN written \cup (DOMAIN kv \ removed)
    BY <1>2
  <1> QED BY <1>2, <1>3, <1>4 DEF get

(* The values of a write have their keys' types. *)
Typed(written) == \A k \in DOMAIN written : written[k] \in TypeOf(k)

(* The store stays typed, and what was seen stays seen: a new stamp is     *)
(* larger than any that was read, and an absent entry is absent.           *)
LEMMA WriteTyped ==
    ASSUME EntriesTyped, NEW written, NEW removed, Write(written, removed), Typed(written)
    PROVE  EntriesTyped'
  <1>1. clock \in Nat /\ clock' = clock + 1 /\ clock' \in Nat \ {0}
    BY DEF EntriesTyped, Write
  <1>0. DOMAIN kv' = DOMAIN written \cup (DOMAIN kv \ removed)
    BY WriteGets
  <1>2. ASSUME NEW k \in DOMAIN kv'
        PROVE  /\ kv'[k].vs \in 1 .. clock' /\ kv'[k].val \in TypeOf(k)
               /\ kv'[k] = [vs |-> kv'[k].vs, val |-> kv'[k].val]
    <2>1. get(k)' = kv'[k]
      BY DEF get
    <2>2. CASE k \in DOMAIN written
      <3>1. kv'[k] = [vs |-> clock + 1, val |-> written[k]]
        BY <2>1, <2>2, WriteGets
      <3>2. kv'[k].vs = clock + 1 /\ kv'[k].val = written[k]
        BY <3>1
      <3>3. clock + 1 \in 1 .. clock'
        BY <1>1
      <3> QED BY <3>1, <3>2, <3>3, <2>2 DEF Typed
    <2>3. CASE k \notin DOMAIN written
      <3>1. k \in DOMAIN kv \ removed
        BY <2>3, <1>0
      <3>2. kv'[k] = kv[k]
        BY <2>1, <2>3, <3>1, WriteGets, EntriesOfGet
      <3>3. /\ kv[k].vs \in 1 .. clock /\ kv[k].val \in TypeOf(k)
            /\ kv[k] = [vs |-> kv[k].vs, val |-> kv[k].val]
        BY <3>1 DEF EntriesTyped
      <3>4. kv[k].vs \in 1 .. clock'
        BY <3>3, <1>1
      <3> QED BY <3>2, <3>3, <3>4
    <2> QED BY <2>2, <2>3
  <1>3. \A k : TypeOf(k)' = TypeOf(k)
    BY DEF TypeOf
  <1> QED BY <1>1, <1>2, <1>3 DEF EntriesTyped

(* A write gives new stamps, so an entry seen earlier stays seen. *)
LEMMA SeenStays ==
    ASSUME EntriesTyped, NEW written, NEW removed, Write(written, removed),
           NEW k, NEW entry, Seen(k, entry)
    PROVE  Seen(k, entry)'
  <1>1. clock \in Nat /\ clock' = clock + 1
    BY DEF EntriesTyped, Write
  <1>2. entry.vs \in 0 .. clock' /\ entry.vs # clock + 1
    BY <1>1 DEF Seen
  <1>3. IF present(entry) THEN entry.val \in TypeOf(k) ELSE entry = Absent
    BY DEF Seen
  <1>4. ASSUME get(k)'.vs = entry.vs PROVE get(k)' = entry
    <2>1. CASE k \in DOMAIN written
      <3>1. get(k)' = [vs |-> clock + 1, val |-> written[k]]
        BY <2>1, WriteGets
      <3>2. get(k)'.vs = clock + 1
        BY <3>1
      <3> QED BY <3>2, <1>2, <1>4
    <2>2. CASE k \notin DOMAIN written /\ k \in removed
      <3>1. get(k)' = Absent
        BY <2>2, WriteGets
      <3>2. entry.vs = 0
        BY <1>4, <3>1, EntriesOfGet
      <3> QED BY <3>1, <3>2, <1>3 DEF present
    <2>3. CASE k \notin DOMAIN written /\ k \notin removed
      <3>1. get(k)' = get(k)
        BY <2>3, WriteGets
      <3> QED BY <3>1, <1>4 DEF Seen
    <2> QED BY <2>1, <2>2, <2>3
  <1>5. present(entry)' = present(entry) /\ TypeOf(k)' = TypeOf(k) /\ Absent' = Absent
    BY DEF present, TypeOf, Absent
  <1> QED BY <1>2, <1>3, <1>4, <1>5 DEF Seen

(* Nor does a step that leaves the store alone change what was seen. *)
LEMMA SeenUnchanged ==
    ASSUME UNCHANGED <<kv, clock>>, NEW k, NEW entry
    PROVE  Seen(k, entry)' <=> Seen(k, entry)
  BY DEF Seen, get, present, TypeOf, Absent

(* What a frame remembers survives every step that keeps what was seen.    *)
LEMMA FrameStays ==
    ASSUME NEW f, FrameOK(f), \A k, entry : Seen(k, entry) => Seen(k, entry)'
    PROVE  FrameOK(f)'
  <1>1. CASE f.at \in Ended
    BY <1>1 DEF FrameOK
  <1>2. CASE f.at \notin Ended
    <2>1. DOMAIN f = DOMAIN Idle /\ f.req \in Request /\ Recalled(f) /\ AtOK(f)
      BY <1>2 DEF FrameOK
    <2>2. \A entries : SeenAll(entries) => SeenAll(entries)'
      BY DEF SeenAll
    <2>3. \A s : SeenPage(s) => SeenPage(s)'
      BY DEF SeenPage
    <2>4. Remembers(f)'
      BY <2>1, <2>2, <2>3 DEF Recalled, Remembers
    <2>5. (RemembersEntry(f) => RemembersEntry(f)') /\ (RemembersRow(f) => RemembersRow(f)')
      BY DEF RemembersEntry, RemembersRow, present
    <2>6. Recalled(f)'
      BY <2>1, <2>2, <2>4, <2>5 DEF Recalled
    <2>7. AtOK(f)' = AtOK(f)
      OBVIOUS
    <2> QED BY <2>1, <2>6, <2>7 DEF FrameOK
  <1> QED BY <1>1, <1>2

-----------------------------------------------------------------------------
(* Frames: what an operator that ends in an await, a reply or an exception *)
(* leaves.                                                                 *)

(* Two frames with the same findings. *)
Same(f, g) ==
    /\ f.req = g.req /\ f.existing = g.existing /\ f.probed = g.probed
    /\ f.targets = g.targets /\ f.queue = g.queue /\ f.snapshots = g.snapshots
    /\ f.id = g.id /\ f.page = g.page /\ f.reading = g.reading /\ f.entry = g.entry
    /\ f.rows = g.rows /\ f.row = g.row

(* What an await needs does not depend on the reads in progress. *)
LEMMA SameWaits ==
    ASSUME NEW f, NEW g, Same(f, g), NEW at, NEW keys
    PROVE  Waits(f, at, keys) => Waits(g, at, keys)
  <1> USE DEF Same
  <1>1. ExistingOK(f) <=> ExistingOK(g)
    BY DEF ExistingOK
  <1>2. NewOK(f) <=> NewOK(g)
    BY DEF NewOK
  <1>3. (NoClaims(f) <=> NoClaims(g)) /\ (Targeted(f) <=> Targeted(g))
    BY DEF NoClaims, Targeted, TargetIds
  <1>4. ClaimsOK(f) <=> ClaimsOK(g)
    BY <1>3 DEF ClaimsOK, ClaimsCoherent, Displaced
  <1>5. ProbeKeys(f) = ProbeKeys(g)
    BY DEF ProbeKeys, New
  <1>6. ProbedOK(f) <=> ProbedOK(g)
    BY <1>5 DEF ProbedOK
  <1>7. Asking(f) <=> Asking(g)
    BY <1>1, <1>6 DEF Asking
  <1>8. Claiming(f) <=> Claiming(g)
    BY <1>3, <1>7 DEF Claiming, TargetIds
  <1>9. Listing(f) <=> Listing(g)
    BY DEF Listing
  <1>10. Fetching(f) <=> Fetching(g)
    BY <1>3, <1>8, <1>9 DEF Fetching, TargetIds
  <1>11. Planned(f) <=> Planned(g)
    BY <1>1, <1>2, <1>3, <1>4 DEF Planned
  <1>12. Settled(f) <=> Settled(g)
    BY <1>1, <1>3, <1>4, <1>6, <1>11 DEF Settled
  <1> QED BY <1>1, <1>3, <1>5, <1>7, <1>8, <1>9, <1>10, <1>11, <1>12 DEF Waits

(* A frame that may go on. *)
Steady(f) == DOMAIN f = DOMAIN Idle /\ f.req \in Request /\ Remembers(f)

(* The call of client c goes on or ends in a frame that is as it should be. *)
Lands(c) == \E g : Become(c, g) /\ FrameOK(g)

(* The fields of an idle frame. *)
LEMMA IdleFields ==
    /\ DOMAIN Idle = {"at", "req", "attempt", "reply", "pending", "got", "reading", "entry",
                      "snapshot_attempt", "targets", "queue", "snapshots", "claim_attempt",
                      "existing", "probed", "destination", "id", "page", "rows", "row"}
    /\ Idle.at = "idle" /\ Idle.req = None /\ Idle.targets = NoEntries /\ Idle.snapshots = {}
    /\ Idle.existing = None /\ Idle.probed = NoEntries /\ Idle.rows = NoEntries
    /\ Idle.queue = {}
  BY DEF Idle

(* A frame that has read nothing remembers nothing wrong. *)
LEMMA NothingSeen == DOMAIN NoEntries = {} /\ SeenAll(NoEntries)
  BY DEF NoEntries, SeenAll

(* A call that ends leaves a frame about which nothing is claimed. *)
LEMMA EndsLand ==
    ASSUME NEW c, NEW f, DOMAIN f = DOMAIN Idle, NEW reply, NEW shots,
           NEW error \in {"invariant violated", "contention exhausted"}
    PROVE  /\ Return(c, reply) => Lands(c)
           /\ Found(c, shots) => Lands(c)
           /\ Throw(c, f, error) => Lands(c)
           /\ FrameOK(Idle)
  <1>1. \A g : g.at \in Ended => FrameOK(g)
    BY DEF FrameOK
  <1>2. [Idle EXCEPT !.reply = reply].at = "idle"
    BY DEF Idle
  <1>3. [Idle EXCEPT !.reply = "found", !.snapshots = shots].at = "idle"
    BY DEF Idle
  <1>4. [f EXCEPT !.at = error, !.pending = {}, !.got = NoEntries].at = error
    BY IdleFields
  <1>5. \A g : g.at \in Ended /\ Become(c, g) => Lands(c)
    BY <1>1 DEF Lands
  <1>6. Return(c, reply) => Lands(c)
    BY <1>2, <1>5 DEF Return, Ended
  <1>7. Found(c, shots) => Lands(c)
    BY <1>3, <1>5 DEF Found, Ended
  <1>8. Throw(c, f, error) => Lands(c)
    BY <1>4, <1>5 DEF Throw, Ended
  <1>9. FrameOK(Idle)
    BY IdleFields DEF Ended, FrameOK
  <1> QED BY <1>6, <1>7, <1>8, <1>9

(* The page entry and the listed row that are remembered at some awaits.   *)
EntryAndRow(f, at) ==
    /\ at \in {"snapshot indexes", "snapshot again"} => RemembersEntry(f)
    /\ f.req.kind = "list" /\ at \in Snapshotting \cup {"row again"} => RemembersRow(f)

(* A call that reaches an await with what the await needs lands there. *)
LEMMA AwaitsLand ==
    ASSUME NEW c, NEW f, NEW at, NEW keys, Steady(f), Await(c, f, at, keys),
           Waits(f, at, keys), EntryAndRow(f, at)
    PROVE  Lands(c)
  <1>1. PICK g : g = [f EXCEPT !.at = at, !.pending = keys, !.got = NoEntries]
    OBVIOUS
  <1>2. /\ DOMAIN g = DOMAIN Idle /\ g.at = at /\ g.pending = keys /\ g.got = NoEntries
        /\ Same(f, g)
    BY <1>1, IdleFields DEF Steady, Same
  <1>3. Waits(g, at, keys)
    BY <1>2, SameWaits
  <1>4. g.pending \cup DOMAIN g.got = keys
    BY <1>2, NothingSeen
  <1>5. AtOK(g)
    BY <1>2, <1>3, <1>4 DEF AtOK
  <1>6. Remembers(g)
    BY <1>2 DEF Steady, Remembers, Same
  <1>7. (RemembersEntry(f) => RemembersEntry(g)) /\ (RemembersRow(f) => RemembersRow(g))
    BY <1>2 DEF RemembersEntry, RemembersRow, Same
  <1>8. Recalled(g)
    BY <1>2, <1>6, <1>7, NothingSeen DEF Recalled, Same, EntryAndRow
  <1>9. FrameOK(g)
    BY <1>2, <1>5, <1>8 DEF FrameOK, Steady, Same
  <1> QED BY <1>1, <1>9 DEF Lands, Await

(* The awaits outside a snapshot need nothing of the entry and the row. *)
LEMMA OtherAwaitsLand ==
    ASSUME NEW c, NEW f, NEW keys, Steady(f),
           NEW at \in {"claims", "claims again", "probe", "destination", "authority", "list",
                       "commit"},
           Waits(f, at, keys), Await(c, f, at, keys)
    PROVE  Lands(c)
  <1>1. EntryAndRow(f, at)
    BY DEF EntryAndRow, Snapshotting
  <1> QED BY <1>1, AwaitsLand

(* One of the pending reads returns. *)
Reads(f, g, k) == g = [f EXCEPT !.pending = @ \ {k}, !.got = Overlay(Single(k, get(k)), @)]

(* A read that returns adds what is stored now and changes nothing else. *)
LEMMA ReadingStays ==
    ASSUME EntriesTyped, NEW f, FrameOK(f), f.at \notin Ended, NEW k \in f.pending, NEW g,
           Reads(f, g, k)
    PROVE  /\ FrameOK(g) /\ g.at = f.at /\ Same(f, g)
           /\ DOMAIN g.got = DOMAIN f.got \cup {k}
           /\ g.got[k] = get(k) /\ \A j \in DOMAIN f.got \ {k} : g.got[j] = f.got[j]
  <1>1. DOMAIN f = DOMAIN Idle /\ f.req \in Request /\ Recalled(f) /\ AtOK(f)
    BY DEF FrameOK
  <1>2. /\ DOMAIN g = DOMAIN Idle /\ g.at = f.at /\ g.pending = f.pending \ {k}
        /\ g.got = Overlay(Single(k, get(k)), f.got)
        /\ Same(f, g)
    BY <1>1, IdleFields DEF Same, Reads
  <1>3. g.got = [j \in {k} \cup DOMAIN f.got |-> IF j \in {k} THEN get(k) ELSE f.got[j]]
    BY <1>2 DEF Overlay, Single
  <1>4. g.pending \cup DOMAIN g.got = f.pending \cup DOMAIN f.got
    BY <1>2, <1>3
  <1>5. AtOK(g)
    BY <1>1, <1>2, <1>4, SameWaits DEF AtOK
  <1>6. SeenAll(g.got)
    BY <1>1, <1>3, ReadNow DEF Recalled, SeenAll
  <1>7. Remembers(g)
    BY <1>1, <1>2 DEF Recalled, Remembers, Same
  <1>8. (RemembersEntry(f) => RemembersEntry(g)) /\ (RemembersRow(f) => RemembersRow(g))
    BY <1>2 DEF RemembersEntry, RemembersRow, Same
  <1>9. Recalled(g)
    BY <1>1, <1>2, <1>6, <1>7, <1>8 DEF Recalled, Same
  <1>10. FrameOK(g)
    BY <1>1, <1>2, <1>5, <1>9 DEF FrameOK, Same
  <1> QED BY <1>2, <1>3, <1>10

-----------------------------------------------------------------------------
(* The first reads of an attempt. *)

(* What a request of each kind holds. *)
LEMMA RequestFields ==
    ASSUME NEW req \in Request
    PROVE  /\ req.kind \in {"put_trial", "create", "duplicate"} =>
                 req.new_id \in PageIds /\ req.endpoint_set \in EndpointSet
           /\ req.kind \in {"put_trial", "create"} => req.content_asset_id \in ContentAssets
           /\ req.kind = "create" => req.owner \in Owners /\ req.access \in {"public", "private"}
           /\ req.kind \in Editing => /\ req.id \in PageIds /\ req.owner \in Owners
                                      /\ req.expected_revision \in 1 .. MaxRevision
           /\ req.kind = "update" => req.patch \in Patch
           /\ req.kind = "health" => /\ req.id \in PageIds
                                     /\ req.content_asset_id \in ExternalAssets
                                     /\ req.missing \in BOOLEAN
           /\ req.kind = "find" => req.id \in PageIds
           /\ req.kind = "resolve" => req.locator \in Locators
           /\ req.kind = "create_content_asset" => req.content_asset_id \in ContentAssets
  BY DEF Request, Editing

(* A snapshot of page id begins. *)
LEMMA SnapshotLands ==
    ASSUME NEW c, NEW f, Steady(f), NEW id, NEW h,
           h = [f EXCEPT !.reading = id, !.snapshot_attempt = 0], Fetching(h),
           read_snapshot(c, f, id), f.req.kind = "list" => RemembersRow(f)
    PROVE  Lands(c)
  <1>1. /\ DOMAIN h = DOMAIN Idle /\ h.reading = id /\ h.req = f.req /\ h.targets = f.targets
        /\ h.probed = f.probed /\ h.rows = f.rows /\ h.snapshots = f.snapshots
        /\ h.existing = f.existing /\ h.row = f.row
    BY IdleFields DEF Steady
  <1>2. Steady(h)
    BY <1>1 DEF Steady, Remembers
  <1>3. Waits(h, "snapshot entry", {page_aggregate_storage_key(h.reading)})
    BY DEF Waits
  <1>4. Await(c, h, "snapshot entry", {page_aggregate_storage_key(h.reading)})
    BY <1>1 DEF read_snapshot
  <1>5. EntryAndRow(h, "snapshot entry")
    BY <1>1 DEF RemembersRow, EntryAndRow
  <1> QED BY <1>2, <1>3, <1>4, <1>5, AwaitsLand

(* The claims of the wanted endpoints begin to be read. *)
LEMMA ClaimsLand ==
    ASSUME NEW c, NEW f, Steady(f), Asking(f), f.targets = NoEntries, NEW keys,
           keys = WantedKeys(f.req), read_claimed_endpoint_state(c, f, keys)
    PROVE  Lands(c)
  <1>1. PICK h : h = [f EXCEPT !.claim_attempt = 0, !.snapshots = {}]
    OBVIOUS
  <1>2. /\ DOMAIN h = DOMAIN Idle /\ h.reading = f.reading /\ h.req = f.req
        /\ h.targets = f.targets /\ h.probed = f.probed /\ h.rows = f.rows /\ h.snapshots = {}
        /\ h.existing = f.existing /\ h.id = f.id /\ h.page = f.page
    BY <1>1, IdleFields DEF Steady
  <1>3. Steady(h)
    BY <1>2 DEF Steady, Remembers
  <1>4. ExistingOK(f) => ExistingOK(h)
    BY <1>2 DEF ExistingOK
  <1>5. f.req.kind = "update" => ProbeKeys(h) = ProbeKeys(f)
    BY <1>2 DEF ProbeKeys, New
  <1>6. f.req.kind = "update" /\ ProbedOK(f) => ProbedOK(h)
    BY <1>2, <1>5 DEF ProbedOK
  <1>7. Asking(h)
    BY <1>2, <1>4, <1>6 DEF Asking
  <1>8. Waits(h, "claims", keys)
    BY <1>2, <1>7 DEF Waits, NoClaims
  <1>9. Await(c, h, "claims", keys)
    BY <1>1 DEF read_claimed_endpoint_state
  <1> QED BY <1>3, <1>8, <1>9, OtherAwaitsLand

(* The frame of an attempt that has read nothing. *)
Fresh(f) ==
    /\ DOMAIN f = DOMAIN Idle /\ f.req \in Request
    /\ NoClaims(f) /\ f.existing = None /\ f.probed = NoEntries /\ f.rows = NoEntries

(* An attempt starts with nothing read, whatever the call. *)
LEMMA AttemptLands ==
    ASSUME NEW c, NEW f, Fresh(f), Attempt(c, f)
    PROVE  Lands(c)
  <1>1. Steady(f)
    BY NothingSeen DEF Fresh, Steady, Remembers, NoClaims
  <1>2. CASE f.req.kind \in {"put_trial", "create"}
    <2>1. read_claimed_endpoint_state(c, f, ClaimKeysOf(f.req.endpoint_set))
      BY <1>2 DEF Attempt
    <2>2. WantedKeys(f.req) = ClaimKeysOf(f.req.endpoint_set)
      BY <1>2 DEF WantedKeys
    <2> QED BY <1>1, <1>2, <2>1, <2>2, ClaimsLand DEF Fresh, NoClaims, Asking
  <1>3. CASE f.req.kind \in {"find", "update", "duplicate", "health", "delete"}
    <2>1. read_snapshot(c, f, f.req.id)
      BY <1>3 DEF Attempt
    <2>2. PICK h : h = [f EXCEPT !.reading = f.req.id, !.snapshot_attempt = 0]
      OBVIOUS
    <2>3. /\ h.reading = f.req.id /\ h.req = f.req /\ h.targets = f.targets
          /\ h.snapshots = f.snapshots
      BY <2>2, IdleFields DEF Fresh
    <2>4. f.req.id \in PageIds
      BY <1>3, RequestFields DEF Fresh, Editing
    <2>5. Fetching(h)
      BY <1>3, <2>3, <2>4 DEF Fetching, Fresh, NoClaims, Editing
    <2> QED BY <1>1, <1>3, <2>1, <2>2, <2>5, SnapshotLands
  <1>4. CASE f.req.kind = "resolve"
    <2>1. read_claimed_endpoint_state(c, f, {page_endpoint_claim_key(f.req.locator)})
      BY <1>4 DEF Attempt
    <2>2. WantedKeys(f.req) = {page_endpoint_claim_key(f.req.locator)}
      BY <1>4 DEF WantedKeys
    <2> QED BY <1>1, <1>4, <2>1, <2>2, ClaimsLand DEF Fresh, NoClaims, Asking
  <1>5. CASE f.req.kind = "list"
    <2>1. Await(c, f, "list", {})
      BY <1>5 DEF Attempt
    <2>2. Listing(f)
      BY <1>5, NothingSeen DEF Fresh, Listing, NoClaims
    <2>3. Waits(f, "list", {})
      BY <2>2 DEF Waits
    <2> QED BY <1>1, <2>1, <2>3, OtherAwaitsLand
  <1> QED BY <1>2, <1>3, <1>4, <1>5 DEF Attempt

(* A retry starts over, or gives up. *)
LEMMA RetryLands ==
    ASSUME NEW c, NEW f, f.req \in Request, Retry(c, f)
    PROVE  Lands(c)
  <1>1. PICK again : again = [Idle EXCEPT !.req = f.req, !.attempt = f.attempt + 1]
    OBVIOUS
  <1>2. Fresh(again)
    BY <1>1, IdleFields DEF Fresh, NoClaims
  <1>3. CASE Attempt(c, again)
    BY <1>2, <1>3, AttemptLands
  <1>4. CASE contention_exhausted(c, again)
    BY <1>2, <1>4, EndsLand DEF contention_exhausted, Fresh
  <1> QED BY <1>1, <1>3, <1>4 DEF Retry

-----------------------------------------------------------------------------
(* What follows a snapshot. *)

(* A snapshot that was taken, of the page that was asked for. *)
Taken(s, id) == s # None /\ Snapped(s) /\ SeenPage(s) /\ s.id = id

(* The page of an edit or of a health report was read. *)
LEMMA ExistingLands ==
    ASSUME NEW c, NEW f, Steady(f), f.req.kind \in Editing \cup {"find", "health"},
           NoClaims(f), NEW snapshot, snapshot = None \/ Taken(snapshot, f.req.id),
           ExistingRead(c, f, snapshot)
    PROVE  Lands(c)
  <1>1. PICK req : req = f.req
    OBVIOUS
  <1>2. PICK next : next = [f EXCEPT !.existing = snapshot]
    OBVIOUS
  <1>3. /\ DOMAIN next = DOMAIN Idle /\ next.req = req /\ next.existing = snapshot
        /\ next.targets = f.targets /\ next.snapshots = f.snapshots /\ next.probed = f.probed
        /\ next.rows = f.rows
    BY <1>1, <1>2, IdleFields DEF Steady
  <1>4. Steady(next)
    BY <1>1, <1>3 DEF Steady, Remembers, Taken
  <1>5. ASSUME NEW id, NEW page, NEW h, h = Plan(next, id, page)
        PROVE  /\ Steady(h) /\ h.req = req /\ h.existing = snapshot /\ NoClaims(h)
               /\ h.id = id /\ h.page = page
    <2>1. /\ DOMAIN h = DOMAIN Idle /\ h.req = req /\ h.existing = snapshot
          /\ h.targets = f.targets /\ h.snapshots = f.snapshots /\ h.probed = f.probed
          /\ h.rows = f.rows /\ h.id = id /\ h.page = page
      BY <1>3, <1>5, IdleFields DEF Plan
    <2> QED BY <1>3, <1>4, <2>1 DEF Steady, Remembers, NoClaims
  <1>6. CASE req.kind = "find"
    BY <1>1, <1>6, EndsLand DEF ExistingRead, Editing, Steady
  <1>7. CASE req.kind = "health"
    <2>1. CASE Return(c, "stale") \/ Return(c, "unchanged")
      BY <2>1, EndsLand DEF Steady
    <2>2. CASE /\ ~Stale(snapshot, req)
               /\ snapshot.page.external_missing # req.missing
               /\ Ready(c, Plan(next, req.id, [snapshot.page EXCEPT !.external_missing = req.missing]))
      <3>1. PICK h : h = Plan(next, req.id, [snapshot.page EXCEPT !.external_missing = req.missing])
        OBVIOUS
      <3>2. /\ Steady(h) /\ h.req = req /\ h.existing = snapshot /\ NoClaims(h)
            /\ h.id = req.id /\ h.page = [snapshot.page EXCEPT !.external_missing = req.missing]
        BY <1>5, <3>1
      <3>3. ExistingOK(h)
        BY <1>1, <1>7, <2>2, <3>2 DEF ExistingOK, Stale, Taken, Editing
      <3>4. Waits(h, "commit", {})
        BY <1>7, <3>2, <3>3 DEF Waits
      <3>5. Await(c, h, "commit", {})
        BY <2>2, <3>1 DEF Ready
      <3> QED BY <3>2, <3>4, <3>5, OtherAwaitsLand
    <2> QED BY <1>1, <1>2, <1>7, <2>1, <2>2 DEF ExistingRead, Editing
  <1>8. CASE req.kind \in Editing
    <2>1. CASE Refused(c, f, snapshot)
      BY <2>1, EndsLand DEF Refused, Steady
    <2>2. ASSUME Allowed(f, snapshot)
          PROVE  /\ Taken(snapshot, req.id)
                 /\ snapshot.page.owner = req.owner
                 /\ snapshot.page.revision = req.expected_revision
      BY <1>1, <2>2 DEF Allowed, NotOwned
    <2>3. CASE req.kind = "delete" /\ Allowed(f, snapshot) /\ Ready(c, next)
      <3>1. ExistingOK(next)
        BY <1>3, <2>2, <2>3 DEF ExistingOK, Taken, Editing
      <3>2. Waits(next, "commit", {})
        BY <1>3, <2>3, <3>1 DEF Waits, NoClaims
      <3>3. Await(c, next, "commit", {})
        BY <2>3 DEF Ready
      <3> QED BY <1>4, <3>2, <3>3, OtherAwaitsLand
    <2>4. ASSUME req.kind = "update", Allowed(f, snapshot), RevisionAvailable(snapshot.page),
                 NEW page, page = PatchedPage(snapshot.page, req.patch),
                 Probe(c, Plan(next, req.id, page), page.content_asset_id, FALSE)
          PROVE  Lands(c)
      <3>1. PICK h : h = Plan(next, req.id, page)
        OBVIOUS
      <3>2. /\ Steady(h) /\ h.req = req /\ h.existing = snapshot /\ NoClaims(h)
            /\ h.id = req.id /\ h.page = page
        BY <1>5, <3>1
      <3>3. ExistingOK(h)
        BY <2>2, <2>4, <3>2 DEF ExistingOK, Taken, Editing
      <3>4. ProbeKeys(h) = {content_asset_manifest_key(page.content_asset_id)}
        BY <2>4, <3>2 DEF ProbeKeys, New
      <3>5. Waits(h, "probe", ProbeKeys(h))
        BY <2>4, <3>2, <3>3 DEF Waits, Planned
      <3>6. Await(c, h, "probe", ProbeKeys(h))
        BY <2>4, <3>1, <3>4 DEF Probe
      <3> QED BY <3>2, <3>5, <3>6, OtherAwaitsLand
    <2>5. ASSUME req.kind = "duplicate", Allowed(f, snapshot),
                 read_claimed_endpoint_state(c,
                    Plan(next, req.new_id, DuplicatePage(snapshot.page, req.endpoint_set)),
                    ClaimKeysOf(req.endpoint_set))
          PROVE  Lands(c)
      <3>1. PICK h : h = Plan(next, req.new_id, DuplicatePage(snapshot.page, req.endpoint_set))
        OBVIOUS
      <3>2. /\ Steady(h) /\ h.req = req /\ h.existing = snapshot /\ NoClaims(h)
            /\ h.id = req.new_id /\ h.page = DuplicatePage(snapshot.page, req.endpoint_set)
        BY <1>5, <3>1
      <3>3. ExistingOK(h)
        BY <2>2, <2>5, <3>2 DEF ExistingOK, Taken, Editing
      <3>4. WantedKeys(h.req) = ClaimKeysOf(req.endpoint_set)
        BY <2>5, <3>2 DEF WantedKeys
      <3>5. Asking(h)
        BY <2>5, <3>2, <3>3 DEF Asking
      <3> QED BY <2>5, <3>1, <3>2, <3>4, <3>5, ClaimsLand DEF NoClaims
    <2>6. CASE Return(c, "revision_exhausted")
      BY <2>6, EndsLand DEF Steady
    <2> QED BY <1>1, <1>2, <1>8, <2>1, <2>3, <2>4, <2>5, <2>6 DEF ExistingRead, Editing
  <1> QED BY <1>1, <1>6, <1>7, <1>8

(* The claims a call wants are row keys. *)
LEMMA WantedAreRows == \A req : \A k \in WantedKeys(req) : RowKey(k)
  BY ClaimsAreRows DEF WantedKeys, ClaimKeysOf

(* There is at least one: the canonical locator. *)
LEMMA WantedNotEmpty == \A req : WantedKeys(req) # {}
  BY DEF WantedKeys, ClaimKeysOf, bindings

(* So are the rows a listing goes through. *)
LEMMA ListedAreRows == \A req, k : Lists(req, k) => RowKey(k)
  <1>1. \A id : page_aggregate_storage_key(id)[1] = "by-id"
    BY DEF page_aggregate_storage_key
  <1>2. \A a : content_asset_manifest_key(a)[1] = "content-asset"
    BY DEF content_asset_manifest_key
  <1> QED BY <1>1, <1>2 DEF Lists, RowKey, PageKeys, ManifestKeys

(* A row that was seen points to a page id. *)
LEMMA PointerSeen ==
    ASSUME NEW k, RowKey(k), NEW entry, Seen(k, entry), present(entry)
    PROVE  entry.val \in Pointer /\ entry.val.page_id \in PageIds
  BY TypesOfKeys, PointersTyped DEF Seen

(* The pages a call's claims point to are pages. *)
LEMMA TargetIdsTyped ==
    ASSUME NEW f, SeenAll(f.targets), DOMAIN f.targets = WantedKeys(f.req)
    PROVE  TargetIds(f) \subseteq PageIds
  <1>1. ASSUME NEW k \in DOMAIN f.targets, present(f.targets[k])
        PROVE  f.targets[k].val.page_id \in PageIds
    BY <1>1, WantedAreRows, PointerSeen DEF SeenAll
  <1> QED BY <1>1 DEF TargetIds

(* The next claimed page, or the second reading of the claims. *)
LEMMA NextClaimedLands ==
    ASSUME NEW c, NEW f, Steady(f), Claiming(f), NextClaimed(c, f)
    PROVE  Lands(c)
  <1>1. CASE f.queue = {}
    <2>1. Await(c, f, "claims again", WantedKeys(f.req))
      BY <1>1 DEF NextClaimed, Claiming
    <2>2. Waits(f, "claims again", WantedKeys(f.req))
      BY DEF Waits
    <2> QED BY <2>1, <2>2, OtherAwaitsLand
  <1>2. CASE f.queue # {}
    <2>1. PICK id \in f.queue : read_snapshot(c, [f EXCEPT !.queue = @ \ {id}], id)
      BY <1>2 DEF NextClaimed
    <2>2. PICK g : g = [f EXCEPT !.queue = @ \ {id}]
      OBVIOUS
    <2>3. PICK h : h = [g EXCEPT !.reading = id, !.snapshot_attempt = 0]
      OBVIOUS
    <2>4. /\ DOMAIN g = DOMAIN Idle /\ g.queue = f.queue \ {id} /\ g.req = f.req
          /\ g.targets = f.targets /\ g.snapshots = f.snapshots /\ g.existing = f.existing
          /\ g.probed = f.probed /\ g.rows = f.rows /\ g.id = f.id /\ g.page = f.page
      BY <2>2, IdleFields DEF Steady
    <2>5. /\ h.queue = f.queue \ {id} /\ h.req = f.req /\ h.reading = id
          /\ h.targets = f.targets /\ h.snapshots = f.snapshots /\ h.existing = f.existing
          /\ h.probed = f.probed /\ h.id = f.id /\ h.page = f.page
      BY <2>3, <2>4, IdleFields
    <2>6. Steady(g)
      BY <2>4 DEF Steady, Remembers
    <2>7. ExistingOK(f) => ExistingOK(h)
      BY <2>5 DEF ExistingOK
    <2>8. ProbedOK(f) => ProbedOK(h)
      BY <2>5 DEF ProbedOK, ProbeKeys, New
    <2>9. Asking(h)
      BY <2>5, <2>7, <2>8 DEF Asking, Claiming
    <2>10. TargetIds(h) = TargetIds(f)
      BY <2>5 DEF TargetIds
    <2>11. Targeted(h) /\ h.queue \subseteq TargetIds(h)
      BY <2>5, <2>10 DEF Targeted, Claiming
    <2>12. Claiming(h)
      BY <2>5, <2>9, <2>11 DEF Claiming
    <2>13. id \in PageIds /\ id \in TargetIds(h)
      BY <2>10, TargetIdsTyped DEF Claiming, Steady, Remembers
    <2>14. Fetching(h)
      BY <2>5, <2>12, <2>13 DEF Fetching
    <2>15. g.req.kind # "list"
      BY <2>4, <2>9, <2>5 DEF Asking
    <2> QED BY <2>1, <2>2, <2>3, <2>6, <2>14, <2>15, SnapshotLands
  <1> QED BY <1>1, <1>2

(* Listings. *)
LEMMA NextRowLands ==
    ASSUME NEW c, NEW f, Steady(f), Listing(f), NextRow(c, f)
    PROVE  Lands(c)
  <1>1. CASE DOMAIN f.rows = {}
    BY <1>1, EndsLand DEF NextRow, Steady
  <1>2. CASE DOMAIN f.rows # {}
    <2>1. PICK row \in DOMAIN f.rows :
            read_snapshot(c, [f EXCEPT !.row = <<row, f.rows[row]>>,
                                       !.rows = [k \in DOMAIN f.rows \ {row} |-> f.rows[k]]],
                          f.rows[row].val.page_id)
      BY <1>2 DEF NextRow
    <2>2. PICK entry : entry = f.rows[row]
      OBVIOUS
    <2>3. PICK g : g = [f EXCEPT !.row = <<row, entry>>,
                                 !.rows = [k \in DOMAIN f.rows \ {row} |-> f.rows[k]]]
      OBVIOUS
    <2>4. PICK h : h = [g EXCEPT !.reading = entry.val.page_id, !.snapshot_attempt = 0]
      OBVIOUS
    <2>5. /\ DOMAIN g = DOMAIN Idle /\ g.req = f.req /\ g.row = <<row, entry>>
          /\ g.rows = [k \in DOMAIN f.rows \ {row} |-> f.rows[k]]
          /\ g.targets = f.targets /\ g.snapshots = f.snapshots /\ g.existing = f.existing
          /\ g.probed = f.probed
      BY <2>3, IdleFields DEF Steady
    <2>6. /\ h.req = f.req /\ h.reading = entry.val.page_id /\ h.row = <<row, entry>>
          /\ h.targets = f.targets /\ h.rows = [k \in DOMAIN f.rows \ {row} |-> f.rows[k]]
      BY <2>4, <2>5, IdleFields
    <2>7. present(entry) /\ Lists(f.req, row) /\ Seen(row, entry)
      BY <2>1, <2>2 DEF Listing, Steady, Remembers, SeenAll
    <2>8. entry.val.page_id \in PageIds
      BY <2>7, ListedAreRows, PointerSeen
    <2>9. SeenAll(g.rows)
      BY <2>5 DEF Steady, Remembers, SeenAll
    <2>10. Steady(g)
      BY <2>5, <2>9 DEF Steady, Remembers
    <2>11. Listing(h)
      BY <2>6 DEF Listing
    <2>12. h.row[1] = row /\ g.row[1] = row /\ g.row[2] = entry
      BY <2>5, <2>6
    <2>13. Fetching(h)
      BY <2>6, <2>7, <2>8, <2>11, <2>12 DEF Fetching
    <2>14. RemembersRow(g)
      BY <2>7, <2>12 DEF RemembersRow
    <2> QED BY <2>1, <2>2, <2>3, <2>4, <2>10, <2>13, <2>14, SnapshotLands
  <1> QED BY <1>1, <1>2

(* A row whose page has been read, or has to be read again. *)
LEMMA RowReadLands ==
    ASSUME NEW c, NEW f, Steady(f), Listing(f), Lists(f.req, f.row[1]), RemembersRow(f),
           NEW snapshot, snapshot = None \/ Taken(snapshot, f.reading), RowRead(c, f, snapshot)
    PROVE  Lands(c)
  <1>1. CASE RowMatches(f, snapshot) /\ NextRow(c, [f EXCEPT !.snapshots = @ \cup {snapshot}])
    <2>1. PICK g : g = [f EXCEPT !.snapshots = @ \cup {snapshot}]
      OBVIOUS
    <2>2. /\ DOMAIN g = DOMAIN Idle /\ g.req = f.req /\ g.snapshots = f.snapshots \cup {snapshot}
          /\ g.rows = f.rows /\ g.targets = f.targets /\ g.existing = f.existing
          /\ g.probed = f.probed
      BY <2>1, IdleFields DEF Steady
    <2>3. SeenPage(snapshot)
      BY <1>1 DEF RowMatches, Taken
    <2>4. Steady(g) /\ Listing(g)
      BY <2>2, <2>3 DEF Steady, Remembers, Listing
    <2> QED BY <1>1, <2>1, <2>4, NextRowLands
  <1>2. CASE Await(c, f, "row again", {f.row[1]})
    <2>1. Waits(f, "row again", {f.row[1]})
      BY DEF Waits
    <2>2. EntryAndRow(f, "row again")
      BY DEF EntryAndRow
    <2> QED BY <1>2, <2>1, <2>2, AwaitsLand
  <1> QED BY <1>1, <1>2 DEF RowRead

(* The page that was being read is known, or known to be absent.           *)
LEMMA SnapshotReadLands ==
    ASSUME NEW c, NEW f, Steady(f), Fetching(f), f.req.kind = "list" => RemembersRow(f),
           NEW snapshot, snapshot = None \/ Taken(snapshot, f.reading),
           SnapshotRead(c, f, snapshot)
    PROVE  Lands(c)
  <1>1. Claiming(f) => f.req.kind \notin {"list", "find", "health", "delete"}
    BY DEF Claiming, Asking, ExistingOK, Editing
  <1>2. CASE f.req.kind = "list"
    <2>1. Listing(f) /\ Lists(f.req, f.row[1])
      BY <1>1, <1>2 DEF Fetching, Editing
    <2>2. RowRead(c, f, snapshot)
      BY <1>2, <2>1 DEF SnapshotRead, Listing
    <2> QED BY <1>2, <2>1, <2>2, RowReadLands
  <1>3. CASE f.targets # NoEntries /\ f.req.kind # "list"
    <2>1. Claiming(f) /\ f.reading \in TargetIds(f)
      BY <1>3 DEF Fetching, NoClaims, Listing
    <2>2. NextClaimed(c, [f EXCEPT !.snapshots = @ \cup ({snapshot} \ {None})])
      BY <1>3 DEF SnapshotRead
    <2>3. PICK g : g = [f EXCEPT !.snapshots = @ \cup ({snapshot} \ {None})]
      OBVIOUS
    <2>4. /\ DOMAIN g = DOMAIN Idle /\ g.req = f.req
          /\ g.snapshots = f.snapshots \cup ({snapshot} \ {None}) /\ g.queue = f.queue
          /\ g.rows = f.rows /\ g.targets = f.targets /\ g.existing = f.existing
          /\ g.probed = f.probed /\ g.id = f.id /\ g.page = f.page
      BY <2>3, IdleFields DEF Steady
    <2>5. Steady(g)
      BY <2>4 DEF Steady, Remembers, Taken
    <2>6. ExistingOK(f) => ExistingOK(g)
      BY <2>4 DEF ExistingOK
    <2>7. f.req.kind = "update" => ProbeKeys(g) = ProbeKeys(f)
      BY <2>4 DEF ProbeKeys, New
    <2>8. f.req.kind = "update" /\ ProbedOK(f) => ProbedOK(g)
      BY <2>4, <2>7 DEF ProbedOK
    <2>9. Asking(g)
      BY <2>1, <2>4, <2>6, <2>8 DEF Asking, Claiming
    <2>10. TargetIds(g) = TargetIds(f)
      BY <2>4 DEF TargetIds
    <2>11. Targeted(g)
      BY <2>1, <2>4, <2>10 DEF Targeted, Claiming, Taken
    <2>12. Claiming(g)
      BY <2>1, <2>4, <2>9, <2>10, <2>11 DEF Claiming
    <2> QED BY <2>2, <2>3, <2>5, <2>12, NextClaimedLands
  <1>4. CASE f.targets = NoEntries /\ f.req.kind # "list"
    <2>1. ~Claiming(f)
      BY <1>4, WantedNotEmpty, NothingSeen DEF Claiming
    <2>2. /\ f.req.kind \in Editing \cup {"find", "health"} /\ f.reading = f.req.id
          /\ NoClaims(f)
      BY <1>4, <2>1 DEF Fetching, Listing
    <2>3. ExistingRead(c, f, snapshot)
      BY <1>4 DEF SnapshotRead
    <2> QED BY <2>2, <2>3, ExistingLands
  <1> QED BY <1>2, <1>3, <1>4

-----------------------------------------------------------------------------
(* #read_snapshot. *)

(* A frame whose batch of reads is complete. *)
Complete(f, at) == FrameOK(f) /\ f.at = at /\ f.at \notin Ended /\ f.pending = {}

(* What a frame with all its reads back knows. *)
LEMMA CompleteFacts ==
    ASSUME NEW f, NEW at, Complete(f, at)
    PROVE  /\ Steady(f) /\ SeenAll(f.got) /\ Waits(f, at, DOMAIN f.got)
           /\ EntryAndRow(f, at)
  BY DEF Complete, FrameOK, Recalled, Steady, AtOK, EntryAndRow

(* What each await needs, by its name. *)
LEMMA AtPlaces ==
    ASSUME NEW f, NEW keys
    PROVE  /\ Waits(f, "snapshot entry", keys) <=>
                 Fetching(f) /\ keys = {page_aggregate_storage_key(f.reading)}
           /\ Waits(f, "snapshot indexes", keys) <=>
                 Fetching(f) /\ keys = visibility_keys(f.reading, f.entry.val)
           /\ Waits(f, "snapshot again", keys) <=>
                 /\ Fetching(f)
                 /\ keys = visibility_keys(f.reading, f.entry.val) \cup
                           {page_aggregate_storage_key(f.reading)}
           /\ Waits(f, "claims", keys) <=>
                 Asking(f) /\ NoClaims(f) /\ keys = WantedKeys(f.req)
           /\ Waits(f, "claims again", keys) <=> Claiming(f) /\ keys = WantedKeys(f.req)
           /\ Waits(f, "probe", keys) <=> Planned(f) /\ keys = ProbeKeys(f)
           /\ Waits(f, "destination", keys) <=> Settled(f)
           /\ Waits(f, "authority", keys) <=> Settled(f)
           /\ Waits(f, "list", keys) <=> Listing(f)
           /\ Waits(f, "row again", keys) <=>
                 Listing(f) /\ Lists(f.req, f.row[1]) /\ keys = {f.row[1]}
           /\ Waits(f, "commit", keys) <=>
                 \/ Settled(f)
                 \/ f.req.kind \in {"delete", "health"} /\ ExistingOK(f) /\ NoClaims(f)
  BY DEF Waits

(* What is remembered of the entry and of the row, by the await. *)
LEMMA EntryAndRowAt ==
    ASSUME NEW f
    PROVE  /\ EntryAndRow(f, "snapshot entry") => (f.req.kind = "list" => RemembersRow(f))
           /\ \A at \in {"snapshot indexes", "snapshot again"} :
                 EntryAndRow(f, at) => RemembersEntry(f) /\ (f.req.kind = "list" => RemembersRow(f))
           /\ EntryAndRow(f, "row again") /\ f.req.kind = "list" => RemembersRow(f)
  BY DEF EntryAndRow, Snapshotting

(* The entry of the page has been read. *)
LEMMA EntryReadLands ==
    ASSUME NEW c, NEW f, Complete(f, "snapshot entry"), EntryRead(c, f)
    PROVE  Lands(c)
  <1>1. PICK key : key = page_aggregate_storage_key(f.reading)
    OBVIOUS
  <1>2. Steady(f) /\ Fetching(f) /\ SeenAll(f.got) /\ DOMAIN f.got = {key}
    BY <1>1, CompleteFacts, AtPlaces
  <1>3. f.req.kind = "list" => RemembersRow(f)
    BY CompleteFacts, EntryAndRowAt
  <1>4. PICK entry : entry = f.got[key]
    OBVIOUS
  <1>5. Seen(key, entry)
    BY <1>2, <1>4 DEF SeenAll
  <1>6. CASE SnapshotRead(c, f, None)
    BY <1>2, <1>3, <1>6, SnapshotReadLands
  <1>7. CASE /\ present(entry)
             /\ Await(c, [f EXCEPT !.entry = entry], "snapshot indexes",
                      visibility_keys(f.reading, entry.val))
    <2>1. PICK h : h = [f EXCEPT !.entry = entry]
      OBVIOUS
    <2>2. /\ DOMAIN h = DOMAIN Idle /\ h.entry = entry /\ h.reading = f.reading
          /\ h.req = f.req /\ h.existing = f.existing /\ h.probed = f.probed
          /\ h.targets = f.targets /\ h.queue = f.queue /\ h.snapshots = f.snapshots
          /\ h.id = f.id /\ h.page = f.page /\ h.rows = f.rows /\ h.row = f.row
      BY <1>2, <2>1, IdleFields DEF Steady
    <2>3. Steady(h)
      BY <1>2, <2>2 DEF Steady, Remembers
    <2>4. Fetching(h)
      <3>1. ExistingOK(f) => ExistingOK(h)
        BY <2>2 DEF ExistingOK
      <3>2. ProbedOK(f) => ProbedOK(h)
        BY <2>2 DEF ProbedOK, ProbeKeys, New
      <3>3. Claiming(f) => Claiming(h)
        BY <2>2, <3>1, <3>2 DEF Claiming, Asking, TargetIds, Targeted
      <3>4. Listing(f) => Listing(h)
        BY <2>2 DEF Listing
      <3> QED BY <1>2, <2>2, <3>3, <3>4 DEF Fetching, TargetIds, NoClaims
    <2>5. Waits(h, "snapshot indexes", visibility_keys(f.reading, entry.val))
      BY <2>2, <2>4 DEF Waits
    <2>6. EntryAndRow(h, "snapshot indexes")
      BY <1>1, <1>3, <1>5, <1>7, <2>2 DEF EntryAndRow, RemembersEntry, RemembersRow
    <2> QED BY <1>7, <2>1, <2>3, <2>5, <2>6, AwaitsLand
  <1> QED BY <1>1, <1>4, <1>6, <1>7 DEF EntryRead

(* The rows of the page have been read. *)
LEMMA IndexesReadLands ==
    ASSUME NEW c, NEW f, Complete(f, "snapshot indexes"), IndexesRead(c, f)
    PROVE  Lands(c)
  <1>1. PICK key : key = page_aggregate_storage_key(f.reading)
    OBVIOUS
  <1>2. /\ Steady(f) /\ Fetching(f) /\ SeenAll(f.got)
        /\ DOMAIN f.got = visibility_keys(f.reading, f.entry.val)
    BY CompleteFacts, AtPlaces
  <1>3. RemembersEntry(f) /\ (f.req.kind = "list" => RemembersRow(f))
    BY CompleteFacts, EntryAndRowAt
  <1>4. PICK g : g = [f EXCEPT !.at = "snapshot again", !.pending = {key}]
    OBVIOUS
  <1>5. /\ DOMAIN g = DOMAIN Idle /\ g.at = "snapshot again" /\ g.pending = {key}
        /\ g.got = f.got /\ Same(f, g)
    BY <1>2, <1>4, IdleFields DEF Steady, Same
  <1>6. Waits(f, "snapshot again", DOMAIN f.got \cup {key})
    BY <1>1, <1>2 DEF Waits
  <1>7. g.pending \cup DOMAIN g.got = DOMAIN f.got \cup {key}
    BY <1>5
  <1>8. AtOK(g)
    <2>1. PICK keys : keys = DOMAIN f.got \cup {key}
      OBVIOUS
    <2>2. Waits(g, "snapshot again", keys)
      BY <1>5, <1>6, <2>1, SameWaits
    <2> QED BY <1>5, <1>7, <2>1, <2>2 DEF AtOK
  <1>9. Remembers(g)
    BY <1>2, <1>5 DEF Steady, Remembers, Same
  <1>10. RemembersEntry(g) /\ (g.req.kind = "list" => RemembersRow(g))
    BY <1>3, <1>5 DEF RemembersEntry, RemembersRow, Same
  <1>11. Recalled(g)
    BY <1>2, <1>5, <1>9, <1>10 DEF Recalled
  <1>12. FrameOK(g)
    BY <1>2, <1>5, <1>8, <1>11 DEF FrameOK, Steady, Same
  <1> QED BY <1>1, <1>4, <1>12 DEF IndexesRead, Lands

(* The entry has been read again. *)
LEMMA AgainReadLands ==
    ASSUME NEW c, NEW f, Complete(f, "snapshot again"), AgainRead(c, f)
    PROVE  Lands(c)
  <1>1. PICK key, keys : /\ key = page_aggregate_storage_key(f.reading)
                         /\ keys = visibility_keys(f.reading, f.entry.val)
    OBVIOUS
  <1>2. Steady(f) /\ Fetching(f)
    BY CompleteFacts, AtPlaces
  <1>3. RemembersEntry(f) /\ (f.req.kind = "list" => RemembersRow(f))
    BY CompleteFacts, EntryAndRowAt
  <1>4. PICK h : h = [f EXCEPT !.snapshot_attempt = @ + 1]
    OBVIOUS
  <1>5. DOMAIN h = DOMAIN Idle /\ Same(f, h)
    BY <1>2, <1>4, IdleFields DEF Steady, Same
  <1>6. CASE contention_exhausted(c, h)
    BY <1>5, <1>6, EndsLand DEF contention_exhausted
  <1>7. CASE invariant_violation(c, f)
    BY <1>2, <1>7, EndsLand DEF invariant_violation, Steady
  <1>8. CASE Await(c, h, "snapshot entry", {key})
    <2>1. Waits(f, "snapshot entry", {key})
      BY <1>1, <1>2 DEF Waits
    <2>2. Waits(h, "snapshot entry", {key})
      BY <1>5, <2>1, SameWaits
    <2>3. Steady(h)
      BY <1>2, <1>5 DEF Steady, Remembers, Same
    <2>4. EntryAndRow(h, "snapshot entry")
      BY <1>3, <1>5 DEF EntryAndRow, RemembersRow, Same
    <2> QED BY <1>8, <2>2, <2>3, <2>4, AwaitsLand
  <1>0. PICK index : index = [k \in keys |-> f.got[k]]
    OBVIOUS
  <1>9. ASSUME SnapshotRead(c, f, Snapshot(f.reading, f.entry, index))
        PROVE  Lands(c)
    <2>0. DOMAIN index = keys
      BY <1>0
    <2>1. PICK s : s = Snapshot(f.reading, f.entry, index)
      OBVIOUS
    <2>2. s.id = f.reading /\ s.entry = f.entry /\ s.index = index /\ s.page = f.entry.val
      BY <2>1 DEF Snapshot
    <2>3. f.reading \in PageIds
      BY <1>2 DEF Fetching
    <2>4. f.entry.val \in PageAggregate
      BY <1>3, <2>3, TypesOfKeys DEF RemembersEntry, Seen
    <2>5. Snapped(s) /\ SeenPage(s)
      BY <1>1, <1>3, <2>0, <2>2, <2>3, <2>4 DEF Snapped, SeenPage, RemembersEntry
    <2>6. s = None \/ Taken(s, f.reading)
      BY <2>2, <2>5 DEF Taken
    <2> QED BY <1>2, <1>3, <1>9, <2>1, <2>6, SnapshotReadLands
  <1>10. \/ contention_exhausted(c, h) \/ invariant_violation(c, f)
         \/ Await(c, h, "snapshot entry", {key})
         \/ SnapshotRead(c, f, Snapshot(f.reading, f.entry, index))
    BY <1>0, <1>1, <1>4 DEF AgainRead
  <1> QED BY <1>6, <1>7, <1>8, <1>9, <1>10

-----------------------------------------------------------------------------
(* #read_claimed_endpoint_state. *)

(* The claims have been read. *)
LEMMA TargetsReadLands ==
    ASSUME NEW c, NEW f, Complete(f, "claims"), TargetsRead(c, f)
    PROVE  Lands(c)
  <1>1. /\ Steady(f) /\ Asking(f) /\ NoClaims(f) /\ SeenAll(f.got)
        /\ DOMAIN f.got = WantedKeys(f.req)
    BY CompleteFacts, AtPlaces
  <1>2. CASE Found(c, {})
    BY <1>1, <1>2, EndsLand DEF Steady
  <1>3. CASE NextClaimed(c, [f EXCEPT !.targets = f.got,
                                      !.queue = {f.got[k].val.page_id :
                                                 k \in {k \in DOMAIN f.got : present(f.got[k])}}])
    <2>1. PICK g : g = [f EXCEPT !.targets = f.got,
                                 !.queue = {f.got[k].val.page_id :
                                            k \in {k \in DOMAIN f.got : present(f.got[k])}}]
      OBVIOUS
    <2>2. /\ DOMAIN g = DOMAIN Idle /\ g.req = f.req /\ g.snapshots = f.snapshots
          /\ g.rows = f.rows /\ g.targets = f.got /\ g.existing = f.existing
          /\ g.probed = f.probed /\ g.id = f.id /\ g.page = f.page
          /\ g.queue = TargetIds(g)
      BY <1>1, <2>1, IdleFields DEF Steady, TargetIds
    <2>3. Steady(g)
      BY <1>1, <2>2 DEF Steady, Remembers
    <2>4. ExistingOK(f) => ExistingOK(g)
      BY <2>2 DEF ExistingOK
    <2>5. ProbedOK(f) => ProbedOK(g)
      BY <2>2 DEF ProbedOK, ProbeKeys, New
    <2>6. Claiming(g)
      BY <1>1, <2>2, <2>4, <2>5 DEF Asking, Claiming, Targeted, NoClaims
    <2> QED BY <1>3, <2>1, <2>3, <2>6, NextClaimedLands
  <1> QED BY <1>2, <1>3 DEF TargetsRead

(* The claims are those of the pages that were read; the attempt goes on.  *)
LEMMA ClaimsReadLands ==
    ASSUME NEW c, NEW f, Steady(f), Claiming(f), ClaimsCoherent(f), ClaimsRead(c, f)
    PROVE  Lands(c)
  <1>1. PICK req : req = f.req
    OBVIOUS
  <1>2. ASSUME NEW id, NEW page, NEW h, h = Plan(f, id, page)
        PROVE  /\ Steady(h) /\ h.req = req /\ h.snapshots = f.snapshots /\ h.targets = f.targets
               /\ h.existing = f.existing /\ h.id = id /\ h.page = page
    <2>1. /\ DOMAIN h = DOMAIN Idle /\ h.req = req /\ h.existing = f.existing
          /\ h.targets = f.targets /\ h.snapshots = f.snapshots /\ h.probed = f.probed
          /\ h.rows = f.rows /\ h.id = id /\ h.page = page
      BY <1>1, <1>2, IdleFields DEF Plan, Steady
    <2> QED BY <1>1, <2>1 DEF Steady, Remembers
  <1>3. CASE Found(c, f.snapshots)
    BY <1>3, EndsLand DEF Steady
  <1>4. CASE \/ Return(c, "managed or endpoint conflict") \/ Return(c, "endpoint_conflict")
             \/ Return(c, "revision_exhausted")
    BY <1>4, EndsLand DEF Steady
  <1>5. ASSUME \A s \in Displaced(f) : s.page.owner = None
        PROVE  /\ ClaimsOK(f)
               /\ \A h : /\ h.req = req /\ h.snapshots = f.snapshots /\ h.targets = f.targets
                         => ClaimsOK(h)
    BY <1>1, <1>5 DEF Claiming, ClaimsOK, Targeted, TargetIds, ClaimsCoherent, Displaced
  <1>6. ASSUME \A s \in Displaced(f) : s.page.owner = None,
               req.kind \in {"put_trial", "create"}, NEW id, NEW page, NEW new \in BOOLEAN,
               NEW h, h = Plan(f, id, page), NewOK(h), New(h) <=> new,
               Probe(c, h, req.content_asset_id, new)
        PROVE  Lands(c)
    <2>1. /\ Steady(h) /\ h.req = req /\ h.snapshots = f.snapshots /\ h.targets = f.targets
          /\ h.page = page
      BY <1>2, <1>6
    <2>2. ClaimsOK(h)
      BY <1>5, <1>6, <2>1
    <2>3. h.page.content_asset_id = req.content_asset_id
      BY <1>6, <2>1 DEF NewOK, TrialPage, ManagedPage
    <2>4. ProbeKeys(h) = {content_asset_manifest_key(req.content_asset_id)} \cup
                         (IF new THEN {page_aggregate_storage_key(req.new_id)} ELSE {})
      BY <1>6, <2>1, <2>3 DEF ProbeKeys
    <2>5. Waits(h, "probe", ProbeKeys(h))
      BY <1>6, <2>1, <2>2, AtPlaces DEF Planned
    <2>6. Await(c, h, "probe", ProbeKeys(h))
      BY <1>6, <2>1, <2>4 DEF Probe
    <2> QED BY <2>1, <2>5, <2>6, OtherAwaitsLand
  <1>7. ASSUME \A s \in Displaced(f) : s.page.owner = None, req.kind = "put_trial"
        PROVE  Lands(c)
    <2>1. ASSUME NEW s \in f.snapshots, f.snapshots = {s}, RevisionAvailable(s.page), NEW h,
                 h = Plan(f, s.id, TrialPage(req.endpoint_set, req.content_asset_id,
                                             s.page.revision + 1)),
                 Probe(c, h, req.content_asset_id, FALSE)
          PROVE  Lands(c)
      <3>1. PICK page : page = TrialPage(req.endpoint_set, req.content_asset_id,
                                         s.page.revision + 1)
        OBVIOUS
      <3>2. h.req = req /\ h.snapshots = f.snapshots /\ h.id = s.id /\ h.page = page
        BY <1>2, <2>1, <3>1
      <3>3. NewOK(h)
        BY <1>7, <2>1, <3>1, <3>2 DEF NewOK
      <3>4. New(h) <=> FALSE
        BY <1>7, <2>1, <3>2 DEF New
      <3> QED BY <1>6, <1>7, <2>1, <3>1, <3>3, <3>4
    <2>2. ASSUME f.snapshots = {}, NEW h,
                 h = Plan(f, req.new_id, TrialPage(req.endpoint_set, req.content_asset_id, 1)),
                 Probe(c, h, req.content_asset_id, TRUE)
          PROVE  Lands(c)
      <3>1. PICK page : page = TrialPage(req.endpoint_set, req.content_asset_id, 1)
        OBVIOUS
      <3>2. h.req = req /\ h.snapshots = f.snapshots /\ h.id = req.new_id /\ h.page = page
        BY <1>2, <2>2, <3>1
      <3>3. NewOK(h)
        BY <1>7, <2>2, <3>1, <3>2 DEF NewOK
      <3>4. New(h) <=> TRUE
        BY <1>7, <2>2, <3>2 DEF New
      <3> QED BY <1>6, <1>7, <2>2, <3>1, <3>3, <3>4
    <2>3. \/ Return(c, "managed or endpoint conflict") \/ Return(c, "endpoint_conflict")
          \/ Return(c, "revision_exhausted")
          \/ \E s \in f.snapshots :
                /\ f.snapshots = {s} /\ RevisionAvailable(s.page)
                /\ Probe(c, Plan(f, s.id, TrialPage(req.endpoint_set, req.content_asset_id,
                                                    s.page.revision + 1)),
                         req.content_asset_id, FALSE)
          \/ /\ f.snapshots = {}
             /\ Probe(c, Plan(f, req.new_id, TrialPage(req.endpoint_set, req.content_asset_id, 1)),
                      req.content_asset_id, TRUE)
      BY <1>1, <1>7 DEF ClaimsRead
    <2> QED BY <1>4, <2>1, <2>2, <2>3
  <1>8. ASSUME \A s \in Displaced(f) : s.page.owner = None, req.kind = "create"
        PROVE  Lands(c)
    <2>1. PICK page : page = ManagedPage(req.endpoint_set, req.owner, req.access,
                                         req.content_asset_id)
      OBVIOUS
    <2>2. PICK h : h = Plan(f, req.new_id, page)
      OBVIOUS
    <2>3. Return(c, "managed or endpoint conflict") \/ Probe(c, h, req.content_asset_id, TRUE)
      BY <1>1, <1>8, <2>1, <2>2 DEF ClaimsRead
    <2>4. h.req = req /\ h.id = req.new_id /\ h.page = page
      BY <1>2, <2>2
    <2>5. NewOK(h)
      BY <1>8, <2>1, <2>4 DEF NewOK
    <2>6. New(h) <=> TRUE
      BY <1>8, <2>4 DEF New
    <2> QED BY <1>4, <1>6, <1>8, <2>2, <2>3, <2>5, <2>6
  <1>9. ASSUME \A s \in Displaced(f) : s.page.owner = None, req.kind = "duplicate"
        PROVE  Lands(c)
    <2>1. ExistingOK(f) /\ ClaimsOK(f)
      BY <1>1, <1>5, <1>9 DEF Claiming, Asking
    <2>2. Return(c, "managed or endpoint conflict") \/ Probe(c, f, f.page.content_asset_id, TRUE)
      BY <1>1, <1>9 DEF ClaimsRead
    <2>3. ProbeKeys(f) = {content_asset_manifest_key(f.page.content_asset_id)} \cup
                         {page_aggregate_storage_key(req.new_id)}
      BY <1>1, <1>9 DEF ProbeKeys, New
    <2>4. Probe(c, f, f.page.content_asset_id, TRUE) => Await(c, f, "probe", ProbeKeys(f))
      BY <1>1, <2>3 DEF Probe
    <2>5. Waits(f, "probe", ProbeKeys(f))
      BY <1>1, <1>9, <2>1, AtPlaces DEF Planned
    <2> QED BY <1>4, <2>2, <2>4, <2>5, OtherAwaitsLand
  <1>10. ASSUME \A s \in Displaced(f) : s.page.owner = None, req.kind = "update"
         PROVE  Lands(c)
    <2>1. ExistingOK(f) /\ ClaimsOK(f) /\ ProbedOK(f) /\ req.patch.endpoint_set # None
      BY <1>1, <1>5, <1>10 DEF Claiming, Asking
    <2>2. Return(c, "managed or endpoint conflict") \/ read_destination_projections(c, f)
      BY <1>1, <1>10 DEF ClaimsRead
    <2>3. Settled(f)
      BY <1>1, <1>10, <2>1 DEF Settled
    <2>4. Waits(f, "destination", projection_keys(f.id, f.page))
      BY <2>3, AtPlaces
    <2> QED BY <1>4, <2>2, <2>4, OtherAwaitsLand DEF read_destination_projections
  <1>11. CASE req.kind # "resolve" /\ ~(\A s \in Displaced(f) : s.page.owner = None)
    BY <1>1, <1>4, <1>11 DEF ClaimsRead
  <1>12. req.kind \in {"put_trial", "create", "resolve", "duplicate", "update"}
    BY <1>1 DEF Claiming, Asking
  <1>13. CASE req.kind = "resolve"
    BY <1>1, <1>3, <1>13 DEF ClaimsRead
  <1> QED BY <1>7, <1>8, <1>9, <1>10, <1>11, <1>12, <1>13

(* The claims have been read again. *)
LEMMA ClaimsAgainReadLands ==
    ASSUME NEW c, NEW f, Complete(f, "claims again"), ClaimsAgainRead(c, f)
    PROVE  Lands(c)
  <1>1. /\ Steady(f) /\ Claiming(f) /\ SeenAll(f.got)
        /\ DOMAIN f.got = WantedKeys(f.req)
    BY CompleteFacts, AtPlaces
  <1>2. PICK h : h = [f EXCEPT !.claim_attempt = @ + 1, !.snapshot_attempt = 0,
                               !.targets = NoEntries, !.snapshots = {}]
    OBVIOUS
  <1>3. /\ DOMAIN h = DOMAIN Idle /\ h.req = f.req /\ h.snapshots = {}
        /\ h.rows = f.rows /\ h.targets = NoEntries /\ h.existing = f.existing
        /\ h.probed = f.probed /\ h.id = f.id /\ h.page = f.page
    BY <1>1, <1>2, IdleFields DEF Steady
  <1>4. CASE contention_exhausted(c, h)
    BY <1>3, <1>4, EndsLand DEF contention_exhausted
  <1>5. CASE invariant_violation(c, f)
    BY <1>1, <1>5, EndsLand DEF invariant_violation, Steady
  <1>6. CASE Await(c, h, "claims", DOMAIN f.targets)
    <2>1. Steady(h)
      BY <1>1, <1>3, NothingSeen DEF Steady, Remembers
    <2>2. ExistingOK(f) => ExistingOK(h)
      BY <1>3 DEF ExistingOK
    <2>3. f.req.kind = "update" /\ ProbedOK(f) => ProbedOK(h)
      BY <1>3 DEF ProbedOK, ProbeKeys, New
    <2>4. Asking(h) /\ DOMAIN f.targets = WantedKeys(h.req)
      BY <1>1, <1>3, <2>2, <2>3 DEF Asking, Claiming
    <2>5. Waits(h, "claims", DOMAIN f.targets)
      BY <1>3, <2>4, AtPlaces DEF NoClaims
    <2> QED BY <1>6, <2>1, <2>5, OtherAwaitsLand
  <1>7. CASE ClaimsCoherent(f) /\ ClaimsRead(c, f)
    BY <1>1, <1>7, ClaimsReadLands
  <1> QED BY <1>2, <1>4, <1>5, <1>6, <1>7 DEF ClaimsAgainRead

-----------------------------------------------------------------------------
(* Probes, destinations and rows. *)

(* The page an attempt will write is one. *)
LEMMA WrittenPageTyped ==
    ASSUME NEW f, f.req \in Request,
           \/ NewOK(f) /\ Targeted(f)
           \/ ExistingOK(f) /\ f.req.kind \in {"update", "duplicate", "health"}
    PROVE  f.page \in PageAggregate /\ f.id \in PageIds
  <1>1. CASE f.req.kind = "put_trial"
    <2>1. f.req.new_id \in PageIds /\ f.req.endpoint_set \in EndpointSet
          /\ f.req.content_asset_id \in ContentAssets
      BY <1>1, RequestFields
    <2>2. \A r \in 1 .. MaxRevision :
             TrialPage(f.req.endpoint_set, f.req.content_asset_id, r) \in PageAggregate
      BY <2>1 DEF TrialPage, PageAggregate
    <2>3. CASE f.snapshots = {}
      <3>1. 1 \in 1 .. MaxRevision
        BY ConstantsAssumption
      <3> QED BY <1>1, <2>1, <2>2, <2>3, <3>1 DEF NewOK, ExistingOK, Editing
    <2>4. CASE f.snapshots # {}
      <3>1. PICK s \in f.snapshots :
               /\ RevisionAvailable(s.page) /\ f.id = s.id
               /\ f.page = TrialPage(f.req.endpoint_set, f.req.content_asset_id,
                                     s.page.revision + 1)
        BY <1>1, <2>4 DEF NewOK, ExistingOK, Editing
      <3>2. s.id \in PageIds /\ s.page \in PageAggregate
        BY <1>1 DEF Targeted, Snapped, ExistingOK, Editing
      <3>3. s.page.revision + 1 \in 1 .. MaxRevision
        BY <3>1, <3>2, ConstantsAssumption DEF RevisionAvailable, PageAggregate
      <3> QED BY <2>2, <3>1, <3>2, <3>3
    <2> QED BY <2>3, <2>4
  <1>2. CASE f.req.kind = "create"
    <2>1. /\ f.req.new_id \in PageIds /\ f.req.endpoint_set \in EndpointSet
          /\ f.req.content_asset_id \in ContentAssets
          /\ f.req.owner \in Owners /\ f.req.access \in {"public", "private"}
      BY <1>2, RequestFields
    <2>2. 1 \in 1 .. MaxRevision
      BY ConstantsAssumption
    <2>3. ManagedPage(f.req.endpoint_set, f.req.owner, f.req.access, f.req.content_asset_id)
             \in PageAggregate
      BY <2>1, <2>2 DEF ManagedPage, PageAggregate
    <2> QED BY <1>2, <2>1, <2>3 DEF NewOK, ExistingOK, Editing
  <1>3. ASSUME ExistingOK(f) PROVE f.existing.page \in PageAggregate
    BY <1>3 DEF ExistingOK, Snapped
  <1>4. CASE f.req.kind = "update" /\ ExistingOK(f)
    <2>1. f.req.patch \in Patch /\ f.req.id \in PageIds
      BY <1>4, RequestFields DEF Editing
    <2>2. PICK page, patch : page = f.existing.page /\ patch = f.req.patch
      OBVIOUS
    <2>3. page \in PageAggregate /\ RevisionAvailable(page) /\ patch \in Patch
      BY <1>3, <1>4, <2>1, <2>2 DEF ExistingOK
    <2>4. /\ page.endpoint_set \in EndpointSet /\ page.owner \in Owners \cup {None}
          /\ page.access \in {"public", "private"} /\ page.block_api_write \in BOOLEAN
          /\ page.revision \in 1 .. MaxRevision /\ page.content_asset_id \in ContentAssets
          /\ page.external_missing \in BOOLEAN
      BY <2>3 DEF PageAggregate
    <2>5. /\ patch.endpoint_set \in EndpointSet \cup {None}
          /\ patch.content_asset_id \in ContentAssets \cup {None}
          /\ patch.access \in {"public", "private", None}
          /\ patch.block_api_write \in BOOLEAN \cup {None}
      BY <2>3 DEF Patch
    <2>6. page.revision + 1 \in 1 .. MaxRevision
      BY <2>3, <2>4, ConstantsAssumption DEF RevisionAvailable
    <2>7. /\ Or(patch.endpoint_set, page.endpoint_set) \in EndpointSet
          /\ Or(patch.content_asset_id, page.content_asset_id) \in ContentAssets
          /\ Or(patch.access, page.access) \in {"public", "private"}
      BY <2>4, <2>5 DEF Or
    <2>8. Or(patch.block_api_write, page.block_api_write) \in BOOLEAN
      BY <2>4, <2>5 DEF Or
    <2>9. HealthAfter(page, patch) \in BOOLEAN
      BY <2>4 DEF HealthAfter
    <2>10. PatchedPage(page, patch) \in PageAggregate
      BY <2>4, <2>6, <2>7, <2>8, <2>9 DEF PatchedPage, PageAggregate, RevisionAfter
    <2> QED BY <1>4, <2>1, <2>2, <2>10 DEF ExistingOK
  <1>5. CASE f.req.kind = "duplicate" /\ ExistingOK(f)
    <2>1. f.req.new_id \in PageIds /\ f.req.endpoint_set \in EndpointSet
      BY <1>5, RequestFields
    <2>2. PICK page : page = f.existing.page
      OBVIOUS
    <2>3. page \in PageAggregate
      BY <1>3, <1>5, <2>2
    <2>4. 1 \in 1 .. MaxRevision
      BY ConstantsAssumption
    <2>5. DuplicatePage(page, f.req.endpoint_set) \in PageAggregate
      BY <2>1, <2>3, <2>4 DEF DuplicatePage, PageAggregate
    <2> QED BY <1>5, <2>1, <2>2, <2>5 DEF ExistingOK
  <1>6. CASE f.req.kind = "health" /\ ExistingOK(f)
    <2>1. f.req.id \in PageIds /\ f.req.missing \in BOOLEAN
      BY <1>6, RequestFields
    <2>2. PICK page : page = f.existing.page
      OBVIOUS
    <2>3. page \in PageAggregate
      BY <1>3, <1>6, <2>2
    <2>4. [page EXCEPT !.external_missing = f.req.missing] \in PageAggregate
      BY <2>1, <2>3 DEF PageAggregate
    <2> QED BY <1>6, <2>1, <2>2, <2>4 DEF ExistingOK
  <1> QED BY <1>1, <1>2, <1>4, <1>5, <1>6 DEF NewOK

(* What a plan writes is a page. *)
LEMMA PlannedPageTyped ==
    ASSUME NEW f, f.req \in Request, Planned(f)
    PROVE  f.page \in PageAggregate /\ f.id \in PageIds
  BY WrittenPageTyped DEF Planned, ClaimsOK

(* A page's content is a content asset. *)
LEMMA AssetOfPage == \A page \in PageAggregate : page.content_asset_id \in ContentAssets
  BY DEF PageAggregate

(* The probe has been read. *)
LEMMA ProbeReadLands ==
    ASSUME NEW c, NEW f, Complete(f, "probe"), ProbeRead(c, f)
    PROVE  Lands(c)
  <1>1. Steady(f) /\ Planned(f) /\ SeenAll(f.got) /\ DOMAIN f.got = ProbeKeys(f)
    BY CompleteFacts, AtPlaces
  <1>2. PICK req : req = f.req
    OBVIOUS
  <1>3. PICK h : h = [f EXCEPT !.probed = f.got]
    OBVIOUS
  <1>4. /\ DOMAIN h = DOMAIN Idle /\ h.req = f.req /\ h.snapshots = f.snapshots
        /\ h.rows = f.rows /\ h.targets = f.targets /\ h.existing = f.existing
        /\ h.probed = f.got /\ h.id = f.id /\ h.page = f.page
    BY <1>1, <1>3, IdleFields DEF Steady
  <1>5. Steady(h)
    BY <1>1, <1>4 DEF Steady, Remembers
  <1>6. ASSUME \A k \in DOMAIN f.got : k \in PageKeys => ~present(f.got[k]),
               \A k \in DOMAIN f.got : k \in ManifestKeys => present(f.got[k])
        PROVE  ProbedOK(h)
    <2>1. ProbeKeys(h) = ProbeKeys(f)
      BY <1>4 DEF ProbeKeys, New
    <2>2. content_asset_manifest_key(f.page.content_asset_id) \in ManifestKeys
      BY <1>1, PlannedPageTyped, AssetOfPage DEF ManifestKeys, Steady
    <2>3. New(f) => page_aggregate_storage_key(f.req.new_id) \in PageKeys
      BY <1>1, RequestFields DEF New, Steady, PageKeys
    <2>4. PageKeys \cap ManifestKeys = {}
      BY KeysDiffer DEF PageKeys, ManifestKeys
    <2>5. ProbeKeys(f) \subseteq PageKeys \cup ManifestKeys
      BY <2>2, <2>3 DEF ProbeKeys
    <2> QED BY <1>1, <1>4, <1>6, <2>1, <2>4, <2>5 DEF ProbedOK
  <1>7. /\ ExistingOK(f) => ExistingOK(h)
        /\ NewOK(f) => NewOK(h)
        /\ ClaimsOK(f) => ClaimsOK(h)
        /\ NoClaims(f) => NoClaims(h)
    <2>1. ExistingOK(f) => ExistingOK(h)
      BY <1>4 DEF ExistingOK
    <2>2. NewOK(f) => NewOK(h)
      BY <1>4 DEF NewOK
    <2>3. ClaimsOK(f) => ClaimsOK(h)
      BY <1>4 DEF ClaimsOK, Targeted, TargetIds, ClaimsCoherent, Displaced
    <2>4. NoClaims(f) => NoClaims(h)
      BY <1>4 DEF NoClaims
    <2> QED BY <2>1, <2>2, <2>3, <2>4
  <1>8. Planned(h)
    BY <1>1, <1>4, <1>7 DEF Planned
  <1>9. CASE \/ Return(c, "page_id_conflict") \/ Return(c, "content_asset_not_found")
             \/ invariant_violation(c, f)
    BY <1>1, <1>9, EndsLand DEF Steady, invariant_violation
  <1>10. CASE ProbedOK(h) /\ req.kind = "put_trial" /\ Ready(c, h)
    <2>1. Settled(h)
      BY <1>2, <1>4, <1>8, <1>10 DEF Settled
    <2>2. Waits(h, "commit", {})
      BY <2>1, AtPlaces
    <2> QED BY <1>5, <1>10, <2>2, OtherAwaitsLand DEF Ready
  <1>11. CASE /\ ProbedOK(h) /\ req.kind = "update" /\ req.patch.endpoint_set # None
              /\ read_claimed_endpoint_state(c, h, ClaimKeysOf(req.patch.endpoint_set))
    <2>1. ExistingOK(h) /\ NoClaims(h)
      BY <1>2, <1>4, <1>8, <1>11 DEF Planned
    <2>2. Asking(h)
      BY <1>2, <1>4, <1>11, <2>1 DEF Asking
    <2>3. WantedKeys(h.req) = ClaimKeysOf(req.patch.endpoint_set)
      BY <1>2, <1>4, <1>11 DEF WantedKeys
    <2> QED BY <1>5, <1>11, <2>1, <2>2, <2>3, ClaimsLand DEF NoClaims
  <1>12. CASE /\ ProbedOK(h)
              /\ \/ req.kind \in {"create", "duplicate"}
                 \/ req.kind = "update" /\ req.patch.endpoint_set = None
              /\ read_destination_projections(c, h)
    <2>1. Settled(h)
      BY <1>2, <1>4, <1>8, <1>12 DEF Settled, Planned
    <2>2. Waits(h, "destination", projection_keys(h.id, h.page))
      BY <2>1, AtPlaces
    <2> QED BY <1>5, <1>12, <2>2, OtherAwaitsLand DEF read_destination_projections
  <1> QED BY <1>2, <1>3, <1>6, <1>9, <1>10, <1>11, <1>12 DEF ProbeRead

(* The destination rows have been read. *)
LEMMA DestinationReadLands ==
    ASSUME NEW c, NEW f, Complete(f, "destination"), DestinationRead(c, f)
    PROVE  Lands(c)
  <1>1. Steady(f) /\ Settled(f)
    BY CompleteFacts, AtPlaces
  <1>2. PICK h : h = [f EXCEPT !.destination = f.got]
    OBVIOUS
  <1>3. DOMAIN h = DOMAIN Idle /\ Same(f, h)
    BY <1>1, <1>2, IdleFields DEF Steady, Same
  <1>4. Steady(h)
    BY <1>1, <1>3 DEF Steady, Remembers, Same
  <1>5. \A keys : Waits(h, "authority", keys) /\ Waits(h, "commit", keys)
    BY <1>1, <1>3, SameWaits, AtPlaces
  <1>6. CASE Retry(c, f)
    BY <1>1, <1>6, RetryLands DEF Steady
  <1>7. CASE Await(c, h, "authority", {page_aggregate_storage_key(f.id)})
    BY <1>4, <1>5, <1>7, OtherAwaitsLand
  <1>8. CASE Ready(c, h)
    BY <1>4, <1>5, <1>8, OtherAwaitsLand DEF Ready
  <1> QED BY <1>2, <1>6, <1>7, <1>8 DEF DestinationRead

(* The authority for an occupied row has been read. *)
LEMMA AuthorityReadLands ==
    ASSUME NEW c, NEW f, Complete(f, "authority"), AuthorityRead(c, f)
    PROVE  Lands(c)
  BY CompleteFacts, RetryLands, EndsLand DEF AuthorityRead, invariant_violation, Steady

(* A row has been read again after its page. *)
LEMMA RowAgainReadLands ==
    ASSUME NEW c, NEW f, Complete(f, "row again"), RowAgainRead(c, f)
    PROVE  Lands(c)
  <1>1. Steady(f) /\ Listing(f)
    BY CompleteFacts, AtPlaces
  <1> QED BY <1>1, NextRowLands, EndsLand DEF RowAgainRead, invariant_violation, Steady

-----------------------------------------------------------------------------
(* What a commit does to pages, claims and rows. *)

(* The page and its rows, of every page of a set. *)
Gone(R) == UNION {{page_aggregate_storage_key(r)} \cup visibility_keys(r, Page(r)) : r \in R}

(* The pages R give way to the pages new, with their rows; the stamps of   *)
(* what stays are left open.                                               *)
Fixed(new) ==
    {page_aggregate_storage_key(d) : d \in DOMAIN new} \cup
    UNION {visibility_keys(d, new[d]) : d \in DOMAIN new}

Exchange(R, new) ==
    /\ \A d \in DOMAIN new : /\ present(get(page_aggregate_storage_key(d)))'
                             /\ get(page_aggregate_storage_key(d))'.val = new[d]
    /\ \A d \in DOMAIN new : \A k \in visibility_keys(d, new[d]) :
          present(get(k))' /\ get(k)'.val = page_pointer(d, new[d])
    /\ \A k : k \notin Fixed(new) /\ k \in Gone(R) => ~present(get(k))'
    /\ \A k : k \notin Fixed(new) /\ k \notin Gone(R) =>
          (present(get(k))' <=> present(get(k))) /\ get(k)'.val = get(k).val

(* The new page, if there is one, takes its own key and its claims from    *)
(* pages in R only.                                                        *)
Fits(R, new) ==
    /\ R \subseteq PageIds /\ \A r \in R : Stored(r)
    /\ DOMAIN new \subseteq PageIds /\ \A d, e \in DOMAIN new : d = e
    /\ \A d \in DOMAIN new :
          /\ new[d] \in PageAggregate
          /\ new[d].content_asset_id \in StoredAssets
          /\ Stored(d) => d \in R
          /\ \A l \in bindings(new[d].endpoint_set) :
                present(get(page_endpoint_claim_key(l))) =>
                    get(page_endpoint_claim_key(l)).val.page_id \in R

(* A stored page is a page. *)
LEMMA StoredTyped ==
    ASSUME EntriesTyped, NEW id \in PageIds
    PROVE  /\ Page(id) = get(page_aggregate_storage_key(id)).val
           /\ Stored(id) => Page(id) \in PageAggregate /\ Page(id) # None
           /\ ~Stored(id) => Page(id) = None
           /\ Stored(id) <=> Page(id) # None
  <1>1. Page(id) = get(page_aggregate_storage_key(id)).val
    BY DEF Page, StoredPages
  <1>2. Stored(id) => Page(id) \in PageAggregate
    BY <1>1, EntriesOfGet, TypesOfKeys DEF Stored
  <1>3. ~Stored(id) => Page(id) = None
    BY <1>1, EntriesOfGet DEF Stored
  <1> QED BY <1>1, <1>2, <1>3, ConstantsAssumption

(* A row that is there is the row of the page it points to. *)
LEMMA RowLeadsHome ==
    ASSUME StoreOK, NEW k, RowKey(k), present(get(k))
    PROVE  /\ get(k).val.page_id \in PageIds /\ Stored(get(k).val.page_id)
           /\ k \in visibility_keys(get(k).val.page_id, Page(get(k).val.page_id))
           /\ get(k).val = page_pointer(get(k).val.page_id, Page(get(k).val.page_id))
  <1>1. k \in DOMAIN kv \ (PageKeys \cup ManifestKeys)
    BY EntriesOfGet DEF StoreOK, RowKey
  <1>2. PICK id \in PageIds : Stored(id) /\ k \in visibility_keys(id, Page(id))
    BY <1>1 DEF StoreOK, NoOtherRows
  <1>3. get(k).val = page_pointer(id, Page(id))
    BY <1>2 DEF StoreOK, RowsHeld
  <1>4. Page(id) \in PageAggregate
    BY <1>2, StoredTyped DEF StoreOK
  <1>5. get(k).val.page_id = id
    BY <1>3, <1>4, PointersTyped
  <1> QED BY <1>2, <1>3, <1>5

(* A stored page's rows are exactly the rows that point to it. *)
LEMMA RowsOfStored ==
    ASSUME StoreOK, NEW id \in PageIds, Stored(id), NEW k \in visibility_keys(id, Page(id))
    PROVE  RowKey(k) /\ present(get(k)) /\ get(k).val.page_id = id
  <1>1. RowKey(k)
    BY RowsOf
  <1>2. present(get(k)) /\ get(k).val = page_pointer(id, Page(id))
    BY DEF StoreOK, RowsHeld
  <1>3. Page(id) \in PageAggregate
    BY StoredTyped DEF StoreOK
  <1> QED BY <1>1, <1>2, <1>3, PointersTyped

(* The pages and assets stored after an exchange. *)
LEMMA ExchangePages ==
    ASSUME StoreOK, EntriesTyped', NEW R, NEW new, Fits(R, new), Exchange(R, new)
    PROVE  /\ \A d \in DOMAIN new : Stored(d)' /\ Page(d)' = new[d]
           /\ \A p \in PageIds \ DOMAIN new : p \in R => ~Stored(p)' /\ Page(p)' = None
           /\ \A p \in PageIds \ DOMAIN new : p \notin R => (Stored(p)' <=> Stored(p))
                                                          /\ Page(p)' = Page(p)
           /\ StoredAssets' = StoredAssets
  <1>1. \A p : Page(p)' = get(page_aggregate_storage_key(p))'.val \/ p \notin PageIds
    BY DEF Page, StoredPages
  <1>2. \A p : Stored(p)' <=> present(get(page_aggregate_storage_key(p)))'
    BY DEF Stored
  <1>3. \A p : /\ page_aggregate_storage_key(p) \in Fixed(new) => p \in DOMAIN new
               /\ p \in PageIds /\ page_aggregate_storage_key(p) \in Gone(R) => p \in R
               /\ p \in R => page_aggregate_storage_key(p) \in Gone(R)
    <2>1. \A p \in PageIds : ~RowKey(page_aggregate_storage_key(p))
      BY DEF RowKey, PageKeys
    <2>2. \A p, d, page : page_aggregate_storage_key(p) \notin visibility_keys(d, page)
      BY KeysDiffer DEF visibility_keys, endpoint_keys, projection_keys
    <2> QED BY <2>2, KeysDiffer DEF Fixed, Gone
  <1>4. \A d \in DOMAIN new : Stored(d)' /\ Page(d)' = new[d]
    BY <1>1, <1>2 DEF Exchange, Fits
  <1>5. ASSUME NEW p \in PageIds \ DOMAIN new, p \in R PROVE ~Stored(p)'
    BY <1>2, <1>3, <1>5 DEF Exchange
  <1>6. ASSUME NEW p \in PageIds \ DOMAIN new, p \notin R
        PROVE  (Stored(p)' <=> Stored(p)) /\ Page(p)' = Page(p)
    <2>1. PICK k : k = page_aggregate_storage_key(p)
      OBVIOUS
    <2>2. k \notin Fixed(new) /\ k \notin Gone(R)
      BY <1>3, <1>6, <2>1
    <2>3. (present(get(k))' <=> present(get(k))) /\ get(k)'.val = get(k).val
      BY <2>2 DEF Exchange
    <2> QED BY <1>1, <1>2, <2>1, <2>3, StoredTyped DEF Stored, StoreOK
  <1>7. \A p \in PageIds : ~Stored(p)' => Page(p)' = None
    <2>1. ASSUME NEW p \in PageIds, ~Stored(p)' PROVE Page(p)' = None
      <3>1. PICK k : k = page_aggregate_storage_key(p)
        OBVIOUS
      <3>2. ~present(get(k))'
        BY <1>2, <2>1, <3>1
      <3>3. get(k)' = Absent
        <4>1. k \in DOMAIN kv' => kv'[k].vs # 0
          BY DEF EntriesTyped
        <4> QED BY <3>2, <4>1 DEF get, present, Absent
      <3> QED BY <1>1, <3>1, <3>3, EntriesOfGet
    <2> QED BY <2>1
  <1>8. \A a \in ContentAssets : present(get(content_asset_manifest_key(a)))'
                                    <=> present(get(content_asset_manifest_key(a)))
    <2>1. \A a, d, page : content_asset_manifest_key(a) \notin visibility_keys(d, page)
      BY KeysDiffer DEF visibility_keys, endpoint_keys, projection_keys
    <2>2. \A a : content_asset_manifest_key(a) \notin Fixed(new) \cup Gone(R)
      BY <2>1, KeysDiffer DEF Fixed, Gone
    <2> QED BY <2>2 DEF Exchange
  <1>9. StoredAssets' = StoredAssets
    BY <1>8 DEF StoredAssets
  <1> QED BY <1>4, <1>5, <1>6, <1>7, <1>9

(* The rows stay those of the pages, and the claims move with them.        *)
LEMMA ExchangeKeepsRows ==
    ASSUME StoreOK, EntriesTyped', NEW R, NEW new, Fits(R, new), Exchange(R, new)
    PROVE  StoreOK'
  <1>1. /\ \A d \in DOMAIN new : Stored(d)' /\ Page(d)' = new[d]
        /\ \A p \in PageIds \ DOMAIN new : p \in R => ~Stored(p)' /\ Page(p)' = None
        /\ \A p \in PageIds \ DOMAIN new : p \notin R => (Stored(p)' <=> Stored(p))
                                                       /\ Page(p)' = Page(p)
        /\ StoredAssets' = StoredAssets
    BY ExchangePages
  <1>2. ContentHeld'
    <2>1. ASSUME NEW p \in PageIds, Stored(p)'
          PROVE  Page(p)'.content_asset_id \in StoredAssets'
      <3>1. CASE p \in DOMAIN new
        BY <1>1, <3>1 DEF Fits
      <3>2. CASE p \notin DOMAIN new
        BY <1>1, <2>1, <3>2 DEF StoreOK, ContentHeld
      <3> QED BY <3>1, <3>2
    <2> QED BY <2>1 DEF ContentHeld
  (* A page that stays keeps its rows apart from those that go and come.   *)
  <1>3. ASSUME NEW p \in PageIds \ DOMAIN new, p \notin R, Stored(p),
               NEW k \in visibility_keys(p, Page(p))
        PROVE  k \notin Fixed(new) /\ k \notin Gone(R)
    <2>1. RowKey(k) /\ present(get(k)) /\ get(k).val.page_id = p
      BY <1>3, RowsOfStored
    <2>2. \A q \in PageIds : k # page_aggregate_storage_key(q)
      BY <2>1 DEF RowKey, PageKeys
    <2>3. ASSUME NEW r \in R PROVE k \notin visibility_keys(r, Page(r))
      BY <1>3, <2>1, RowsOfStored DEF Fits
    <2>4. ASSUME NEW d \in DOMAIN new, k \in visibility_keys(d, new[d]) PROVE FALSE
      <3>1. CASE \E l \in bindings(new[d].endpoint_set) : k = page_endpoint_claim_key(l)
        <4>1. get(k).val.page_id \in R
          BY <2>1, <3>1 DEF Fits
        <4> QED BY <1>3, <2>1, <4>1
      <3>2. CASE \A other, page : k \in visibility_keys(other, page) => other = d
        BY <1>3, <3>2
      <3> QED BY <2>4, <3>1, <3>2, RowsOf
    <2> QED BY <2>2, <2>3, <2>4 DEF Fixed, Gone, Fits
  <1>4. RowsHeld'
    <2>1. ASSUME NEW p \in PageIds, Stored(p)', NEW k, k \in visibility_keys(p, Page(p)')
          PROVE  present(get(k))' /\ get(k)'.val = page_pointer(p, Page(p)')
      <3>1. CASE p \in DOMAIN new
        BY <1>1, <2>1, <3>1 DEF Exchange
      <3>2. CASE p \notin DOMAIN new
        <4>1. p \notin R /\ Stored(p) /\ Page(p)' = Page(p)
          BY <1>1, <2>1, <3>2
        <4>2. k \notin Fixed(new) /\ k \notin Gone(R)
          BY <1>3, <2>1, <3>2, <4>1
        <4>3. present(get(k)) /\ get(k).val = page_pointer(p, Page(p))
          BY <2>1, <4>1 DEF StoreOK, RowsHeld
        <4> QED BY <4>1, <4>2, <4>3 DEF Exchange
      <3> QED BY <3>1, <3>2
    <2>2. \A p : visibility_keys(p, Page(p))' = visibility_keys(p, Page(p)')
      BY DEF visibility_keys, endpoint_keys, projection_keys
    <2> QED BY <2>1, <2>2 DEF RowsHeld, page_pointer
  <1>5. NoOtherRows'
    <2>1. ASSUME NEW k, k \in DOMAIN kv', RowKey(k)
          PROVE  \E p \in PageIds : Stored(p)' /\ k \in visibility_keys(p, Page(p)')
      <3>1. present(get(k))'
        <4>1. kv'[k].vs # 0
          BY <2>1 DEF EntriesTyped
        <4> QED BY <2>1, <4>1 DEF get, present
      <3>2. CASE k \in Fixed(new)
        <4>1. PICK d \in DOMAIN new : \/ k = page_aggregate_storage_key(d)
                                      \/ k \in visibility_keys(d, new[d])
          BY <3>2 DEF Fixed
        <4>2. d \in PageIds
          BY DEF Fits
        <4>3. k \in visibility_keys(d, new[d])
          BY <2>1, <4>1, <4>2 DEF RowKey, PageKeys
        <4> QED BY <1>1, <4>2, <4>3
      <3>3. CASE k \notin Fixed(new)
        <4>1. k \notin Gone(R) /\ present(get(k))
          BY <3>1, <3>3 DEF Exchange
        <4>2. PICK p : p = get(k).val.page_id
          OBVIOUS
        <4>3. p \in PageIds /\ Stored(p) /\ k \in visibility_keys(p, Page(p))
          BY <2>1, <4>1, <4>2, RowLeadsHome
        <4>4. p \notin R
          BY <4>1, <4>3 DEF Gone
        <4>5. p \notin DOMAIN new
          BY <4>3, <4>4 DEF Fits
        <4> QED BY <1>1, <4>3, <4>4, <4>5
      <3> QED BY <3>2, <3>3
    <2>2. \A p : visibility_keys(p, Page(p))' = visibility_keys(p, Page(p)')
      BY DEF visibility_keys, endpoint_keys, projection_keys
    <2> QED BY <2>1, <2>2 DEF NoOtherRows, RowKey
  <1> QED BY <1>2, <1>4, <1>5 DEF StoreOK

(* The page that claims a locator is a page. *)
LEMMA ClaimedTyped ==
    ASSUME NEW l \in Locators
    PROVE  /\ present(get(page_endpoint_claim_key(l))) =>
                 ClaimedBy[l] = get(page_endpoint_claim_key(l)).val.page_id
           /\ ~present(get(page_endpoint_claim_key(l))) => ClaimedBy[l] = None
  BY DEF ClaimedBy

(* The claims after an exchange are those of the pages after it. *)
LEMMA ExchangeClaims ==
    ASSUME StoreOK, EntriesTyped', NEW R, NEW new, Fits(R, new), Exchange(R, new),
           NEW l \in Locators
    PROVE  /\ \A d \in DOMAIN new : l \in bindings(new[d].endpoint_set) => ClaimedBy'[l] = d
           /\ (\A d \in DOMAIN new : l \notin bindings(new[d].endpoint_set)) =>
                 ClaimedBy'[l] = IF l \in UNION {bindings(Page(r).endpoint_set) : r \in R}
                                 THEN None ELSE ClaimedBy[l]
  <1>1. PICK k : k = page_endpoint_claim_key(l)
    OBVIOUS
  <1>2. /\ present(get(k))' => ClaimedBy'[l] = get(k)'.val.page_id
        /\ ~present(get(k))' => ClaimedBy'[l] = None
    BY <1>1 DEF ClaimedBy
  <1>3. ASSUME NEW d \in DOMAIN new, l \in bindings(new[d].endpoint_set)
        PROVE  ClaimedBy'[l] = d
    <2>1. k \in visibility_keys(d, new[d])
      BY <1>1, <1>3, RowsOf
    <2>2. present(get(k))' /\ get(k)'.val = page_pointer(d, new[d])
      BY <2>1 DEF Exchange
    <2>3. d \in PageIds /\ new[d] \in PageAggregate
      BY DEF Fits
    <2> QED BY <1>2, <2>2, <2>3, PointersTyped
  <1>4. ASSUME \A d \in DOMAIN new : l \notin bindings(new[d].endpoint_set)
        PROVE  ClaimedBy'[l] = IF l \in UNION {bindings(Page(r).endpoint_set) : r \in R}
                               THEN None ELSE ClaimedBy[l]
    <2>1. k \notin Fixed(new)
      BY <1>1, <1>4, RowsOf, KeysDiffer DEF Fixed
    <2>2. k \in Gone(R) <=> l \in UNION {bindings(Page(r).endpoint_set) : r \in R}
      BY <1>1, RowsOf, KeysDiffer DEF Gone
    <2>3. CASE k \in Gone(R)
      BY <1>2, <2>1, <2>2, <2>3 DEF Exchange
    <2>4. CASE k \notin Gone(R)
      <3>1. (present(get(k))' <=> present(get(k))) /\ get(k)'.val = get(k).val
        BY <2>1, <2>4 DEF Exchange
      <3> QED BY <1>1, <1>2, <2>2, <2>4, <3>1, ClaimedTyped
    <2> QED BY <2>3, <2>4
  <1> QED BY <1>3, <1>4

-----------------------------------------------------------------------------
(* The writes of the adapter are exchanges of pages. *)

(* A function of one key. *)
LEMMA SingleFacts == \A k, v : DOMAIN Single(k, v) = {k} /\ Single(k, v)[k] = v
  BY DEF Single

One(new, id, page) ==
    /\ DOMAIN new = {id} /\ new[id] = page
    /\ Fixed(new) = {page_aggregate_storage_key(id)} \cup visibility_keys(id, page)

(* The new page of an exchange that has one. *)
LEMMA SingleIsOne == \A id, page : One(Single(id, page), id, page)
  <1> SUFFICES ASSUME NEW id, NEW page PROVE One(Single(id, page), id, page)
    OBVIOUS
  <1> DEFINE new == Single(id, page)
  <1>1. DOMAIN new = {id} /\ new[id] = page
    BY SingleFacts
  <1>2. {page_aggregate_storage_key(d) : d \in DOMAIN new} = {page_aggregate_storage_key(id)}
    BY <1>1
  <1>3. UNION {visibility_keys(d, new[d]) : d \in DOMAIN new} = visibility_keys(id, page)
    BY <1>1
  <1> QED BY <1>1, <1>2, <1>3 DEF Fixed, One

Put(id, page) == Overlay(Single(page_aggregate_storage_key(id), page), Pointers(id, page))

(* The entries a commit with a new page writes. *)
LEMMA PutFacts ==
    ASSUME NEW id, NEW page
    PROVE  /\ DOMAIN Put(id, page) = Fixed(Single(id, page))
           /\ Put(id, page)[page_aggregate_storage_key(id)] = page
           /\ \A k \in visibility_keys(id, page) : Put(id, page)[k] = page_pointer(id, page)
  <1>1. PICK key : key = page_aggregate_storage_key(id)
    OBVIOUS
  <1>2. PICK rows : rows = visibility_keys(id, page)
    OBVIOUS
  <1>3. key \notin rows
    BY <1>1, <1>2, KeysDiffer DEF visibility_keys, endpoint_keys, projection_keys
  <1>4. Pointers(id, page) = [k \in rows |-> page_pointer(id, page)]
    BY <1>2 DEF Pointers
  <1>5. Put(id, page) = [k \in {key} \cup rows |-> IF k \in {key} THEN Single(key, page)[k]
                                                   ELSE Pointers(id, page)[k]]
    BY <1>1, <1>4, SingleFacts DEF Put, Overlay
  <1>6. Fixed(Single(id, page)) = {key} \cup rows
    BY <1>1, <1>2, SingleIsOne DEF One
  <1>7. Put(id, page)[key] = page
    BY <1>5, SingleFacts
  <1>8. \A k \in rows : Put(id, page)[k] = page_pointer(id, page)
    BY <1>3, <1>4, <1>5
  <1> QED BY <1>1, <1>2, <1>5, <1>6, <1>7, <1>8

(* A commit that writes one page is an exchange. *)
LEMMA PutExchanges ==
    ASSUME EntriesTyped, NEW R, NEW id \in PageIds, NEW page \in PageAggregate,
           Write(Put(id, page), Gone(R))
    PROVE  EntriesTyped' /\ Exchange(R, Single(id, page))
  <1>1. PICK written : written = Put(id, page)
    OBVIOUS
  <1>2. PICK key, rows : key = page_aggregate_storage_key(id) /\ rows = visibility_keys(id, page)
    OBVIOUS
  <1>3. /\ DOMAIN written = Fixed(Single(id, page)) /\ DOMAIN written = {key} \cup rows
        /\ written[key] = page
        /\ \A k \in rows : written[k] = page_pointer(id, page)
    BY <1>1, <1>2, PutFacts, SingleIsOne DEF One
  <1>4. Typed(written)
    BY <1>2, <1>3, TypesOfKeys, PointersTyped, RowsOf DEF Typed
  <1>5. EntriesTyped'
    BY <1>1, <1>4, WriteTyped
  <1>6. \A k : get(k)' = IF k \in DOMAIN written
                         THEN [vs |-> clock + 1, val |-> written[k]]
                         ELSE IF k \in Gone(R) THEN Absent ELSE get(k)
    BY <1>1, WriteGets
  <1>7. clock + 1 # 0
    BY DEF EntriesTyped
  <1>8. \A k \in DOMAIN written : present(get(k))' /\ get(k)'.val = written[k]
    BY <1>6, <1>7 DEF present
  <1>9. /\ \A k : k \notin DOMAIN written /\ k \in Gone(R) => ~present(get(k))'
        /\ \A k : k \notin DOMAIN written /\ k \notin Gone(R) =>
               (present(get(k))' <=> present(get(k))) /\ get(k)'.val = get(k).val
    BY <1>6, EntriesOfGet DEF present
  <1>10. /\ present(get(page_aggregate_storage_key(id)))'
         /\ get(page_aggregate_storage_key(id))'.val = page
    BY <1>2, <1>3, <1>8
  <1>11. \A k \in visibility_keys(id, page) :
            present(get(k))' /\ get(k)'.val = page_pointer(id, page)
    BY <1>2, <1>3, <1>8
  <1>12. PICK new : new = Single(id, page)
    OBVIOUS
  <1>13. DOMAIN new = {id} /\ new[id] = page /\ Fixed(new) = DOMAIN written
    BY <1>3, <1>12, SingleIsOne DEF One
  <1>14. Exchange(R, new)
    BY <1>9, <1>10, <1>11, <1>13 DEF Exchange
  <1> QED BY <1>5, <1>12, <1>14

(* So is one that only removes. *)
LEMMA RemoveExchanges ==
    ASSUME EntriesTyped, NEW R, Write(NoEntries, Gone(R))
    PROVE  EntriesTyped' /\ Exchange(R, NoEntries)
  <1>1. Typed(NoEntries)
    BY NothingSeen DEF Typed
  <1>2. EntriesTyped'
    BY <1>1, WriteTyped
  <1>3. \A k : get(k)' = IF k \in Gone(R) THEN Absent ELSE get(k)
    BY WriteGets, NothingSeen
  <1> QED BY <1>2, <1>3, EntriesOfGet, NothingSeen DEF Exchange, present

(* A health report keeps the rows. *)
LEMMA HealthExchanges ==
    ASSUME StoreOK, NEW id \in PageIds, Stored(id), NEW page \in PageAggregate,
           page.endpoint_set = Page(id).endpoint_set, page.owner = Page(id).owner,
           page.access = Page(id).access, page.revision = Page(id).revision,
           Write(Single(page_aggregate_storage_key(id), page), {})
    PROVE  EntriesTyped' /\ Exchange({id}, Single(id, page))
  <1>1. PICK key : key = page_aggregate_storage_key(id)
    OBVIOUS
  <1>2. PICK written : written = Single(key, page)
    OBVIOUS
  <1>3. DOMAIN written = {key} /\ written[key] = page
    BY <1>2, SingleFacts
  <1>4. EntriesTyped /\ Typed(written)
    BY <1>1, <1>3, TypesOfKeys DEF Typed, StoreOK
  <1>5. EntriesTyped'
    BY <1>1, <1>2, <1>4, WriteTyped
  <1>6. \A k : get(k)' = IF k = key THEN [vs |-> clock + 1, val |-> page] ELSE get(k)
    <2>0. PICK removed : removed = {}
      OBVIOUS
    <2>1. Write(written, removed)
      BY <1>1, <1>2, <2>0
    <2>2. \A k : get(k)' = IF k \in DOMAIN written THEN [vs |-> clock + 1, val |-> written[k]]
                          ELSE IF k \in removed THEN Absent ELSE get(k)
      BY <2>1, WriteGets
    <2> QED BY <1>3, <2>0, <2>2
  <1>7. clock + 1 # 0
    BY <1>4 DEF EntriesTyped
  <1>8. present(get(key))' /\ get(key)'.val = page
    BY <1>6, <1>7 DEF present
  <1>9. /\ visibility_keys(id, page) = visibility_keys(id, Page(id))
        /\ page_pointer(id, page) = page_pointer(id, Page(id))
    BY DEF visibility_keys, endpoint_keys, projection_keys, page_pointer
  <1>10. ASSUME NEW k \in visibility_keys(id, page)
         PROVE  present(get(k))' /\ get(k)'.val = page_pointer(id, page)
    <2>1. present(get(k)) /\ get(k).val = page_pointer(id, page)
      BY <1>9, <1>10 DEF StoreOK, RowsHeld
    <2>2. k # key
      BY <1>1, <1>10, RowsOf DEF RowKey, PageKeys
    <2> QED BY <1>6, <2>1, <2>2
  <1>11. PICK new : new = Single(id, page)
    OBVIOUS
  <1>12. /\ DOMAIN new = {id} /\ new[id] = page
         /\ Fixed(new) = {key} \cup visibility_keys(id, page)
    BY <1>1, <1>11, SingleIsOne DEF One
  <1>13. Gone({id}) = Fixed(new)
    BY <1>1, <1>9, <1>12 DEF Gone
  <1>14. \A k : k \notin Fixed(new) =>
            (present(get(k))' <=> present(get(k))) /\ get(k)'.val = get(k).val
    BY <1>6, <1>12
  <1>15. Exchange({id}, new)
    BY <1>1, <1>8, <1>10, <1>12, <1>13, <1>14 DEF Exchange
  <1> QED BY <1>5, <1>11, <1>15

-----------------------------------------------------------------------------
(* A commit is the operation of the abstract store that was asked for.     *)

(* What the abstract store says of pages and claims, in terms of the entries. *)
LEMMA AbstractOperators ==
    /\ \A e : Abstract!bindings(e) = bindings(e)
    /\ \A e, a, r : Abstract!TrialPage(e, a, r) = TrialPage(e, a, r)
    /\ \A e, o, x, a : Abstract!ManagedPage(e, o, x, a) = ManagedPage(e, o, x, a)
    /\ \A page, patch : Abstract!PatchedPage(page, patch) = PatchedPage(page, patch)
    /\ \A page, e : Abstract!DuplicatePage(page, e) = DuplicatePage(page, e)
    /\ \A page : Abstract!RevisionAvailable(page) <=> RevisionAvailable(page)
    /\ \A R : Abstract!ReleasedBy(R) = UNION {bindings(Page(r).endpoint_set) : r \in R}
  <1>1. \A e : Abstract!bindings(e) = bindings(e)
    BY DEF Abstract!bindings, bindings
  <1>2. \A e, a, r : Abstract!TrialPage(e, a, r) = TrialPage(e, a, r)
    BY DEF Abstract!TrialPage, TrialPage
  <1>3. \A e, o, x, a : Abstract!ManagedPage(e, o, x, a) = ManagedPage(e, o, x, a)
    BY DEF Abstract!ManagedPage, ManagedPage
  <1>4. \A page, patch : Abstract!PatchedPage(page, patch) = PatchedPage(page, patch)
    BY DEF Abstract!PatchedPage, PatchedPage, Abstract!Or, Or, Abstract!RevisionAfter,
           RevisionAfter, Abstract!HealthAfter, HealthAfter
  <1>5. \A page, e : Abstract!DuplicatePage(page, e) = DuplicatePage(page, e)
    BY DEF Abstract!DuplicatePage, DuplicatePage
  <1>6. \A page : Abstract!RevisionAvailable(page) <=> RevisionAvailable(page)
    BY DEF Abstract!RevisionAvailable, RevisionAvailable
  <1>7. \A R : Abstract!ReleasedBy(R) = UNION {bindings(Page(r).endpoint_set) : r \in R}
    BY <1>1 DEF Abstract!ReleasedBy, Page
  <1> QED BY <1>1, <1>2, <1>3, <1>4, <1>5, <1>6, <1>7

(* An exchange is the abstract store's replacement of pages. *)
LEMMA ReplaceStep ==
    ASSUME StoreOK, NEW R, NEW id \in PageIds, NEW page \in PageAggregate,
           Fits(R, Single(id, page)), Write(Put(id, page), Gone(R))
    PROVE  StoreOK' /\ Abstract!ReplacePages(R, id, page) /\ StoredAssets' = StoredAssets
  <1>1. PICK new : new = Single(id, page)
    OBVIOUS
  <1>2. DOMAIN new = {id} /\ new[id] = page
    BY <1>1, SingleFacts
  <1>3. EntriesTyped' /\ Exchange(R, new) /\ Fits(R, new)
    BY <1>1, PutExchanges DEF StoreOK
  <1>4. StoreOK'
    BY <1>3, ExchangeKeepsRows
  <1>5. /\ Page(id)' = page
        /\ \A p \in PageIds : p # id /\ p \in R => Page(p)' = None
        /\ \A p \in PageIds : p # id /\ p \notin R => Page(p)' = Page(p)
        /\ StoredAssets' = StoredAssets
    BY <1>2, <1>3, ExchangePages
  <1>6. StoredPages' = [p \in PageIds |-> IF p = id THEN page
                                          ELSE IF p \in R THEN None ELSE StoredPages[p]]
    <2>1. \A p \in PageIds : StoredPages'[p] = Page(p)' /\ StoredPages[p] = Page(p)
      BY DEF Page
    <2>2. StoredPages' = [p \in PageIds |-> StoredPages'[p]]
      BY DEF StoredPages
    <2> QED BY <1>5, <2>1, <2>2
  <1>7. ClaimedBy' = [l \in Locators |->
                         IF l \in bindings(page.endpoint_set) THEN id
                         ELSE IF l \in UNION {bindings(Page(r).endpoint_set) : r \in R}
                         THEN None ELSE ClaimedBy[l]]
    <2>1. ASSUME NEW l \in Locators
          PROVE  ClaimedBy'[l] = IF l \in bindings(page.endpoint_set) THEN id
                                 ELSE IF l \in UNION {bindings(Page(r).endpoint_set) : r \in R}
                                 THEN None ELSE ClaimedBy[l]
      BY <1>2, <1>3, ExchangeClaims
    <2>2. ClaimedBy' = [l \in Locators |-> ClaimedBy'[l]]
      BY DEF ClaimedBy
    <2> QED BY <2>1, <2>2
  <1> QED BY <1>4, <1>5, <1>6, <1>7, AbstractOperators DEF Abstract!ReplacePages

(* What the checks of a commit say of the store. *)
LEMMA CheckedSnapshot ==
    ASSUME NEW f, f.req.kind # "health", Current(f), Recalled(f),
           NEW s, s \in f.snapshots \/ (s = f.existing /\ s # None), Snapped(s)
    PROVE  /\ Stored(s.id) /\ Page(s.id) = s.page /\ s.id \in PageIds
           /\ DOMAIN s.index = visibility_keys(s.id, Page(s.id))
  <1>1. PICK key : key = page_aggregate_storage_key(s.id)
    OBVIOUS
  <1>2. <<key, s.entry.vs>> \in SnapshotVersions(s)
    BY <1>1 DEF SnapshotVersions
  <1>3. <<key, s.entry.vs>> \in Checks(f)
    BY <1>2 DEF Checks
  <1>4. get(key).vs = s.entry.vs
    BY <1>3 DEF Current, AllCurrent
  <1>5. SeenPage(s)
    BY DEF Recalled, Remembers
  <1>6. get(key) = s.entry
    BY <1>1, <1>4, <1>5 DEF SeenPage, Seen
  <1>7. s.id \in PageIds /\ present(s.entry) /\ s.page = s.entry.val
        /\ DOMAIN s.index = visibility_keys(s.id, s.page)
    BY DEF Snapped
  <1>8. Page(s.id) = s.page /\ Stored(s.id)
    BY <1>1, <1>6, <1>7 DEF Page, StoredPages, Stored
  <1> QED BY <1>7, <1>8

(* What passed the checks of a commit is stored as it was read. *)
LEMMA CheckedEntries ==
    ASSUME NEW f, f.req.kind # "health", Current(f), Recalled(f)
    PROVE  /\ \A k \in DOMAIN f.targets : get(k) = f.targets[k]
           /\ \A k \in DOMAIN f.probed : get(k) = f.probed[k]
  <1>1. \A entries, k : k \in DOMAIN entries => <<k, entries[k].vs>> \in Versions(entries)
    BY DEF Versions
  <1>2. \A k \in DOMAIN f.targets : get(k).vs = f.targets[k].vs
    <2>1. ASSUME NEW k \in DOMAIN f.targets PROVE get(k).vs = f.targets[k].vs
      <3>1. <<k, f.targets[k].vs>> \in Checks(f)
        BY <1>1 DEF Checks
      <3> QED BY <3>1 DEF Current, AllCurrent
    <2> QED BY <2>1
  <1>3. \A k \in DOMAIN f.probed : get(k).vs = f.probed[k].vs
    <2>1. ASSUME NEW k \in DOMAIN f.probed PROVE get(k).vs = f.probed[k].vs
      <3>1. <<k, f.probed[k].vs>> \in Checks(f)
        BY <1>1 DEF Checks
      <3> QED BY <3>1 DEF Current, AllCurrent
    <2> QED BY <2>1
  <1> QED BY <1>2, <1>3 DEF Recalled, Remembers, SeenAll, Seen

Ids(S) == {s.id : s \in S}

(* The removed keys are the replaced pages with all their rows. *)
LEMMA RemovedIsGone ==
    ASSUME NEW f, \A s \in Replaced(f) : DOMAIN s.index = visibility_keys(s.id, Page(s.id))
    PROVE  Removed(f) = Gone(Ids(Replaced(f)))
  BY DEF Removed, Gone, Ids

(* The pages that hold a wanted locator are the snapshots.                 *)
LEMMA ClaimedAreSnapshots ==
    ASSUME StoreOK, NEW f, f.req.kind # "health", Current(f), Recalled(f), ClaimsOK(f),
           NEW e \in EndpointSet, WantedKeys(f.req) = ClaimKeysOf(e)
    PROVE  /\ Abstract!claimed_page_ids(e) = Ids(f.snapshots)
           /\ \A l \in bindings(e) : present(get(page_endpoint_claim_key(l))) =>
                 get(page_endpoint_claim_key(l)).val.page_id \in Ids(f.snapshots)
  <1>1. /\ \A k \in DOMAIN f.targets : get(k) = f.targets[k]
        /\ DOMAIN f.targets = ClaimKeysOf(e)
    BY CheckedEntries DEF ClaimsOK
  <1>2. \A l \in bindings(e) : l \in Locators /\ page_endpoint_claim_key(l) \in DOMAIN f.targets
    BY <1>1 DEF EndpointSet, bindings, ClaimKeysOf
  <1>3. \A s \in f.snapshots : Snapped(s) /\ s.id \in PageIds /\ s.page \in PageAggregate
    BY DEF ClaimsOK, Targeted, Snapped
  <1>4. ASSUME NEW l \in bindings(e), present(get(page_endpoint_claim_key(l)))
        PROVE  get(page_endpoint_claim_key(l)).val.page_id \in Ids(f.snapshots)
    <2>1. PICK k : k = page_endpoint_claim_key(l)
      OBVIOUS
    <2>2. k \in DOMAIN f.targets /\ present(f.targets[k]) /\ get(k) = f.targets[k]
      BY <1>1, <1>2, <1>4, <2>1
    <2>3. PICK s \in f.snapshots : f.targets[k].val = page_pointer(s.id, s.page)
      BY <2>2 DEF ClaimsOK, ClaimsCoherent
    <2>4. f.targets[k].val.page_id = s.id
      BY <1>3, <2>3, PointersTyped
    <2> QED BY <2>1, <2>2, <2>4 DEF Ids
  <1>5. ASSUME NEW l \in bindings(e)
        PROVE  /\ present(get(page_endpoint_claim_key(l))) =>
                     ClaimedBy[l] = get(page_endpoint_claim_key(l)).val.page_id
               /\ ~present(get(page_endpoint_claim_key(l))) => ClaimedBy[l] = None
    BY <1>2, ClaimedTyped
  <1>6. ASSUME NEW s \in f.snapshots
        PROVE  \E l \in bindings(e) : ClaimedBy[l] = s.id
    <2>1. s.id \in TargetIds(f)
      BY DEF ClaimsOK, Targeted
    <2>2. PICK k \in DOMAIN f.targets : present(f.targets[k]) /\ f.targets[k].val.page_id = s.id
      BY <2>1 DEF TargetIds
    <2>3. PICK l \in bindings(e) : k = page_endpoint_claim_key(l)
      BY <1>1 DEF ClaimKeysOf
    <2> QED BY <1>1, <1>5, <2>2, <2>3
  <1>7. None \notin PageIds
    BY ConstantsAssumption
  <1>8. Abstract!claimed_page_ids(e) = {ClaimedBy[l] : l \in bindings(e)} \ {None}
    BY AbstractOperators DEF Abstract!claimed_page_ids
  <1>9. {ClaimedBy[l] : l \in bindings(e)} \ {None} \subseteq Ids(f.snapshots)
    BY <1>4, <1>5
  <1>10. Ids(f.snapshots) \subseteq {ClaimedBy[l] : l \in bindings(e)} \ {None}
    BY <1>3, <1>6, <1>7 DEF Ids
  <1> QED BY <1>4, <1>8, <1>9, <1>10

(* The fields a commit sets. *)
LEMMA BuiltPages ==
    /\ \A e, a, r : /\ TrialPage(e, a, r).endpoint_set = e
                   /\ TrialPage(e, a, r).content_asset_id = a
    /\ \A e, o, x, a : /\ ManagedPage(e, o, x, a).endpoint_set = e
                      /\ ManagedPage(e, o, x, a).content_asset_id = a
    /\ \A page, e : DuplicatePage(page, e).endpoint_set = e
  BY DEF TrialPage, ManagedPage, DuplicatePage

(* So the content exists and the new id is free at the commit. *)
LEMMA ProbedFacts ==
    ASSUME NEW f, f.req \in Request, f.req.kind # "health", Current(f), Recalled(f), ProbedOK(f),
           f.page \in PageAggregate
    PROVE  /\ f.page.content_asset_id \in StoredAssets
           /\ New(f) => f.req.new_id \in PageIds /\ ~Stored(f.req.new_id)
  <1>1. \A k \in ProbeKeys(f) : present(get(k)) <=> k \in ManifestKeys
    BY CheckedEntries DEF ProbedOK
  <1>2. f.page.content_asset_id \in ContentAssets
    BY AssetOfPage
  <1>3. present(get(content_asset_manifest_key(f.page.content_asset_id)))
    BY <1>1, <1>2 DEF ProbeKeys, ManifestKeys
  <1>4. ASSUME New(f) PROVE f.req.new_id \in PageIds /\ ~Stored(f.req.new_id)
    <2>1. f.req.new_id \in PageIds
      BY <1>4, RequestFields DEF New
    <2>2. page_aggregate_storage_key(f.req.new_id) \notin ManifestKeys
      BY KeysDiffer DEF ManifestKeys
    <2>3. page_aggregate_storage_key(f.req.new_id) \in ProbeKeys(f)
      BY <1>4 DEF ProbeKeys
    <2> QED BY <1>1, <2>1, <2>2, <2>3 DEF Stored
  <1> QED BY <1>2, <1>3, <1>4 DEF StoredAssets

(* A frame whose checks pass, with the store they pass on. *)
Sound(f) ==
    StoreOK /\ f.req \in Request /\ f.req.kind # "health" /\ Current(f) /\ Recalled(f)

(* A publication of a trial, a creation or a duplication. *)
NewKinds == {"put_trial", "create", "duplicate"}

(* The commit of a new page, whichever call makes it. *)
LEMMA NewPageCommits ==
    ASSUME NEW f, Sound(f), f.req.kind \in NewKinds, Settled(f), Write(Written(f), Removed(f))
    PROVE  /\ StoreOK' /\ StoredAssets' = StoredAssets
           /\ Abstract!claimed_page_ids(f.req.endpoint_set) = Ids(f.snapshots)
           /\ Abstract!ReplacePages(Ids(f.snapshots), f.id, f.page)
           /\ \A s \in f.snapshots : Stored(s.id) /\ Page(s.id) = s.page
                                   /\ s.page.owner = None /\ s.id \in PageIds
           /\ f.page.content_asset_id \in StoredAssets
           /\ New(f) => ~Stored(f.req.new_id)
  <1>1. Planned(f) /\ ProbedOK(f) /\ ClaimsOK(f)
    BY DEF Settled, Planned, NewKinds
  <1>2. f.page \in PageAggregate /\ f.id \in PageIds
    BY <1>1, PlannedPageTyped DEF Sound
  <1>3. /\ f.page.content_asset_id \in StoredAssets
        /\ New(f) => f.req.new_id \in PageIds /\ ~Stored(f.req.new_id)
    BY <1>1, <1>2, ProbedFacts DEF Sound
  <1>4. PICK e : e = f.req.endpoint_set
    OBVIOUS
  <1>5. e \in EndpointSet /\ f.page.endpoint_set = e /\ WantedKeys(f.req) = ClaimKeysOf(e)
    <2>1. e \in EndpointSet
      BY <1>4, RequestFields DEF Sound, NewKinds
    <2>2. WantedKeys(f.req) = ClaimKeysOf(e)
      BY <1>4 DEF WantedKeys, NewKinds
    <2>3. NewOK(f) => f.page.endpoint_set = e
      BY <1>4, BuiltPages DEF NewOK
    <2>4. f.req.kind = "duplicate" /\ ExistingOK(f) => f.page.endpoint_set = e
      BY <1>4, BuiltPages DEF ExistingOK
    <2> QED BY <1>1, <2>1, <2>2, <2>3, <2>4 DEF Planned, NewKinds
  <1>6. Displaced(f) = f.snapshots /\ Replaced(f) = f.snapshots
    BY DEF Displaced, Replaced, NewKinds
  <1>7. \A s \in f.snapshots : /\ Stored(s.id) /\ Page(s.id) = s.page /\ s.page.owner = None
                               /\ s.id \in PageIds
                               /\ DOMAIN s.index = visibility_keys(s.id, Page(s.id))
    BY <1>1, <1>6, CheckedSnapshot DEF ClaimsOK, Targeted, Sound
  <1>8. /\ Abstract!claimed_page_ids(e) = Ids(f.snapshots)
        /\ \A l \in bindings(e) : present(get(page_endpoint_claim_key(l))) =>
              get(page_endpoint_claim_key(l)).val.page_id \in Ids(f.snapshots)
    BY <1>1, <1>5, ClaimedAreSnapshots DEF Sound
  <1>9. Removed(f) = Gone(Ids(f.snapshots))
    BY <1>6, <1>7, RemovedIsGone
  <1>10. Written(f) = Put(f.id, f.page)
    BY DEF Written, Put, NewKinds
  <1>11. Stored(f.id) => f.id \in Ids(f.snapshots)
    <2>1. New(f) /\ f.id = f.req.new_id => ~Stored(f.id)
      BY <1>3
    <2>2. f.req.kind # "put_trial" => New(f) /\ f.id = f.req.new_id
      BY <1>1 DEF Planned, NewOK, ExistingOK, New, NewKinds
    <2>3. f.req.kind = "put_trial" =>
            (New(f) /\ f.id = f.req.new_id) \/ \E s \in f.snapshots : f.id = s.id
      BY <1>1 DEF Planned, NewOK, ExistingOK, New, NewKinds, Editing
    <2> QED BY <2>1, <2>2, <2>3 DEF Ids
  <1>12. Fits(Ids(f.snapshots), Single(f.id, f.page))
    <2>1. PICK new : new = Single(f.id, f.page)
      OBVIOUS
    <2>2. DOMAIN new = {f.id} /\ new[f.id] = f.page
      BY <2>1, SingleFacts
    <2>3. Ids(f.snapshots) \subseteq PageIds /\ \A r \in Ids(f.snapshots) : Stored(r)
      BY <1>7 DEF Ids
    <2>4. Fits(Ids(f.snapshots), new)
      BY <1>2, <1>3, <1>5, <1>8, <1>11, <2>2, <2>3 DEF Fits
    <2> QED BY <2>1, <2>4
  <1>13. StoreOK' /\ Abstract!ReplacePages(Ids(f.snapshots), f.id, f.page)
         /\ StoredAssets' = StoredAssets
    BY <1>2, <1>9, <1>10, <1>12, ReplaceStep DEF Sound
  <1> QED BY <1>3, <1>4, <1>7, <1>8, <1>13

(* It is the operation that was asked for. *)
LEMMA NewPageOperates ==
    ASSUME NEW f, Sound(f), f.req.kind \in NewKinds, Settled(f), Write(Written(f), Removed(f))
    PROVE  RequestedOperation(f.req)
  <1>1. PICK req : req = f.req
    OBVIOUS
  <1>2. PICK R : R = Ids(f.snapshots)
    OBVIOUS
  <1>3. /\ StoredAssets' = StoredAssets
        /\ Abstract!claimed_page_ids(req.endpoint_set) = R
        /\ Abstract!ReplacePages(R, f.id, f.page)
        /\ \A s \in f.snapshots : Stored(s.id) /\ Page(s.id) = s.page
                                /\ s.page.owner = None /\ s.id \in PageIds
        /\ f.page.content_asset_id \in StoredAssets
        /\ New(f) => ~Stored(req.new_id)
    BY <1>1, <1>2, NewPageCommits
  <1>4. Planned(f) /\ ClaimsOK(f)
    BY DEF Settled, Planned, NewKinds
  <1>5. Abstract!OnlyTrials(R)
    BY <1>2, <1>3 DEF Abstract!OnlyTrials, Ids, Page
  <1>6. New(f) => StoredPages[req.new_id] = None
    <2>1. req.new_id \in PageIds
      BY <1>1, RequestFields DEF Sound, NewKinds
    <2> QED BY <1>3, <2>1, StoredTyped DEF Sound, StoreOK, Page
  <1>7. CASE req.kind = "put_trial"
    <2>1. NewOK(f)
      BY <1>1, <1>4, <1>7 DEF Planned, ExistingOK, Editing
    <2>2. f.page.content_asset_id = req.content_asset_id
      BY <1>1, <1>7, <2>1, BuiltPages DEF NewOK
    <2>3. CASE f.snapshots = {}
      <3>1. f.id = req.new_id /\ f.page = TrialPage(req.endpoint_set, req.content_asset_id, 1)
        BY <1>1, <1>7, <2>1, <2>3 DEF NewOK
      <3>2. R = {} /\ New(f)
        BY <1>1, <1>2, <1>7, <2>3 DEF Ids, New
      <3>3. Abstract!put_trial_page_aggregate(req.new_id, req.endpoint_set, req.content_asset_id)
        BY <1>3, <1>5, <1>6, <2>2, <3>1, <3>2, AbstractOperators
           DEF Abstract!put_trial_page_aggregate
      <3> QED BY <1>1, <1>7, <3>3 DEF RequestedOperation
    <2>4. CASE f.snapshots # {}
      <3>1. PICK s \in f.snapshots :
               /\ f.snapshots = {s} /\ RevisionAvailable(s.page) /\ f.id = s.id
               /\ f.page = TrialPage(req.endpoint_set, req.content_asset_id, s.page.revision + 1)
        BY <1>1, <1>7, <2>1, <2>4 DEF NewOK
      <3>2. R = {s.id} /\ StoredPages[s.id] = s.page
        BY <1>2, <1>3, <3>1 DEF Ids, Page
      <3>3. PICK id : id = s.id
        OBVIOUS
      <3>4. /\ id \in R /\ R = {id} /\ RevisionAvailable(StoredPages[id])
            /\ f.id = id
            /\ f.page = TrialPage(req.endpoint_set, req.content_asset_id,
                                  StoredPages[id].revision + 1)
        BY <3>1, <3>2, <3>3
      <3>5. Abstract!put_trial_page_aggregate(req.new_id, req.endpoint_set, req.content_asset_id)
        BY <1>3, <1>5, <2>2, <3>4, AbstractOperators DEF Abstract!put_trial_page_aggregate
      <3> QED BY <1>1, <1>7, <3>5 DEF RequestedOperation
    <2> QED BY <2>3, <2>4
  <1>8. CASE req.kind = "create"
    <2>1. /\ f.id = req.new_id
          /\ f.page = ManagedPage(req.endpoint_set, req.owner, req.access, req.content_asset_id)
      BY <1>1, <1>4, <1>8 DEF Planned, NewOK, ExistingOK, Editing
    <2>2. f.page.content_asset_id = req.content_asset_id /\ New(f)
      BY <1>1, <1>8, <2>1, BuiltPages DEF New
    <2>3. Abstract!create_managed_page_aggregate(req.new_id, req.endpoint_set, req.owner,
                                                 req.access, req.content_asset_id)
      BY <1>3, <1>5, <1>6, <2>1, <2>2, AbstractOperators
         DEF Abstract!create_managed_page_aggregate
    <2> QED BY <1>1, <1>8, <2>3 DEF RequestedOperation
  <1>9. CASE req.kind = "duplicate"
    <2>1. ExistingOK(f) /\ New(f)
      BY <1>1, <1>4, <1>9 DEF Planned, New
    <2>2. /\ f.existing # None /\ Snapped(f.existing) /\ f.existing.id = req.id
          /\ f.existing.page.owner = req.owner
          /\ f.existing.page.revision = req.expected_revision
          /\ f.id = req.new_id /\ f.page = DuplicatePage(f.existing.page, req.endpoint_set)
      BY <1>1, <1>9, <2>1 DEF ExistingOK, Editing
    <2>3. Stored(req.id) /\ Page(req.id) = f.existing.page /\ req.id \in PageIds
      BY <2>2, CheckedSnapshot DEF Sound
    <2>4. StoredPages[req.id] # None /\ StoredPages[req.id] = f.existing.page
      BY <2>3, StoredTyped DEF Sound, StoreOK, Page
    <2>5. req.owner # None
      BY <1>1, <1>9, RequestFields, ConstantsAssumption DEF Sound, Editing
    <2>6. Abstract!OwnedAt(req.id, req.owner, req.expected_revision)
      BY <2>2, <2>4, <2>5 DEF Abstract!OwnedAt
    <2>7. Abstract!duplicate_managed_page_aggregate(req.id, req.owner, req.expected_revision,
                                                    req.new_id, req.endpoint_set)
      BY <1>3, <1>5, <1>6, <2>1, <2>2, <2>4, <2>6, AbstractOperators
         DEF Abstract!duplicate_managed_page_aggregate
    <2> QED BY <1>1, <1>9, <2>7 DEF RequestedOperation
  <1> QED BY <1>1, <1>7, <1>8, <1>9 DEF NewKinds


PatchedFields ==
    \A page, patch :
        /\ PatchedPage(page, patch).endpoint_set = Or(patch.endpoint_set, page.endpoint_set)
        /\ PatchedPage(page, patch).content_asset_id =
              Or(patch.content_asset_id, page.content_asset_id)

(* What an update keeps and changes. *)
LEMMA PatchedPages == PatchedFields
  BY DEF PatchedFields, PatchedPage

(* The pages an update replaces: the page itself and the displaced trials. *)
LEMMA UpdateReplaces ==
    ASSUME NEW f, Sound(f), f.req.kind = "update", Settled(f)
    PROVE  /\ f.existing # None /\ f.existing.id = f.req.id /\ f.id = f.req.id
           /\ f.page = PatchedPage(f.existing.page, f.req.patch)
           /\ f.page \in PageAggregate /\ f.req.id \in PageIds
           /\ Stored(f.req.id) /\ Page(f.req.id) = f.existing.page
           /\ f.page.content_asset_id \in StoredAssets
           /\ \A s \in Displaced(f) : Stored(s.id) /\ Page(s.id) = s.page
                                    /\ s.page.owner = None /\ s.id \in PageIds
           /\ Ids(Replaced(f)) = {f.req.id} \cup Ids(Displaced(f))
           /\ Removed(f) = Gone(Ids(Replaced(f)))
           /\ f.req.patch.endpoint_set = None => Displaced(f) = {}
           /\ f.req.patch.endpoint_set # None => Targeted(f) /\ ClaimsOK(f)
  <1>1. ExistingOK(f) /\ ProbedOK(f)
    BY DEF Settled
  <1>2. f.req.patch.endpoint_set = None => f.snapshots = {}
    BY DEF Settled, NoClaims
  <1>3. f.req.patch.endpoint_set # None => Targeted(f) /\ ClaimsOK(f)
    BY DEF Settled, ClaimsOK
  <1>4. /\ f.existing # None /\ f.existing.id = f.req.id /\ f.id = f.req.id
        /\ Snapped(f.existing) /\ f.page = PatchedPage(f.existing.page, f.req.patch)
    BY <1>1 DEF ExistingOK
  <1>5. f.page \in PageAggregate /\ f.id \in PageIds
    BY <1>1, WrittenPageTyped DEF Sound
  <1>6. f.page.content_asset_id \in StoredAssets
    BY <1>1, <1>5, ProbedFacts DEF Sound
  <1>7. /\ Stored(f.req.id) /\ Page(f.req.id) = f.existing.page
        /\ DOMAIN f.existing.index = visibility_keys(f.existing.id, Page(f.existing.id))
    BY <1>4, CheckedSnapshot DEF Sound
  <1>8. Displaced(f) \subseteq f.snapshots
    BY DEF Displaced
  <1>9. ASSUME NEW s \in Displaced(f)
        PROVE  /\ Stored(s.id) /\ Page(s.id) = s.page /\ s.page.owner = None /\ s.id \in PageIds
               /\ DOMAIN s.index = visibility_keys(s.id, Page(s.id))
    <2>1. f.req.patch.endpoint_set # None
      BY <1>2, <1>8
    <2>2. s \in f.snapshots /\ Snapped(s) /\ s.page.owner = None
      BY <1>3, <1>8, <2>1 DEF Targeted, ClaimsOK
    <2> QED BY <2>2, CheckedSnapshot DEF Sound
  <1>10. Replaced(f) = {f.existing} \cup Displaced(f)
    BY DEF Replaced
  <1>11. Ids(Replaced(f)) = {f.req.id} \cup Ids(Displaced(f))
    BY <1>4, <1>10 DEF Ids
  <1>12. Removed(f) = Gone(Ids(Replaced(f)))
    <2>1. \A s \in Replaced(f) : DOMAIN s.index = visibility_keys(s.id, Page(s.id))
      BY <1>7, <1>9, <1>10
    <2> QED BY <2>1, RemovedIsGone
  <1> QED BY <1>2, <1>3, <1>4, <1>5, <1>6, <1>7, <1>8, <1>9, <1>11, <1>12

(* The updated page fits, and displaces the pages the operation displaces. *)
LEMMA UpdateFits ==
    ASSUME NEW f, Sound(f), f.req.kind = "update", Settled(f)
    PROVE  /\ Fits(Ids(Replaced(f)), Single(f.id, f.page))
           /\ Ids(Displaced(f)) = Abstract!Displaced(f.req.id, f.req.patch)
  <1>1. PICK req, page, patch : req = f.req /\ page = f.existing.page /\ patch = f.req.patch
    OBVIOUS
  <1>2. PICK R : R = Ids(Replaced(f))
    OBVIOUS
  <1>3. /\ f.id = req.id /\ f.page = PatchedPage(page, patch)
        /\ f.page \in PageAggregate /\ req.id \in PageIds
        /\ Stored(req.id) /\ Page(req.id) = page
        /\ f.page.content_asset_id \in StoredAssets
        /\ \A s \in Displaced(f) : Stored(s.id) /\ s.id \in PageIds
        /\ R = {req.id} \cup Ids(Displaced(f))
    BY <1>1, <1>2, UpdateReplaces
  <1>4. f.page.endpoint_set = Or(patch.endpoint_set, page.endpoint_set)
    BY <1>3, PatchedPages DEF PatchedFields
  <1>5. Ids(Displaced(f)) = Ids(f.snapshots) \ {req.id}
    BY <1>1 DEF Displaced, Ids
  <1>6. ASSUME patch.endpoint_set = None
        PROVE  /\ Ids(Displaced(f)) = Abstract!Displaced(f.req.id, f.req.patch)
               /\ \A l \in bindings(f.page.endpoint_set) :
                     present(get(page_endpoint_claim_key(l))) =>
                         get(page_endpoint_claim_key(l)).val.page_id \in R
    <2>1. Displaced(f) = {}
      BY <1>1, <1>6, UpdateReplaces
    <2>2. Ids(Displaced(f)) = Abstract!Displaced(f.req.id, f.req.patch)
      BY <1>1, <1>6, <2>1 DEF Ids, Abstract!Displaced
    <2>3. ASSUME NEW l \in bindings(f.page.endpoint_set),
                 present(get(page_endpoint_claim_key(l)))
          PROVE  get(page_endpoint_claim_key(l)).val.page_id \in R
      <3>1. page_endpoint_claim_key(l) \in visibility_keys(req.id, Page(req.id))
        BY <1>3, <1>4, <1>6, RowsOf DEF Or
      <3>2. get(page_endpoint_claim_key(l)).val.page_id = req.id
        BY <1>3, <3>1, RowsOfStored DEF Sound
      <3> QED BY <1>3, <3>2
    <2> QED BY <2>2, <2>3
  <1>7. ASSUME patch.endpoint_set # None
        PROVE  /\ Ids(Displaced(f)) = Abstract!Displaced(f.req.id, f.req.patch)
               /\ \A l \in bindings(f.page.endpoint_set) :
                     present(get(page_endpoint_claim_key(l))) =>
                         get(page_endpoint_claim_key(l)).val.page_id \in R
    <2>1. PICK e : e = patch.endpoint_set
      OBVIOUS
    <2>2. e \in EndpointSet
      BY <1>1, <1>7, <2>1, RequestFields DEF Sound, Editing, Patch
    <2>3. WantedKeys(f.req) = ClaimKeysOf(e) /\ ClaimsOK(f) /\ f.page.endpoint_set = e
      BY <1>1, <1>4, <1>7, <2>1, UpdateReplaces DEF WantedKeys, Or
    <2>4. /\ Abstract!claimed_page_ids(e) = Ids(f.snapshots)
          /\ \A l \in bindings(e) : present(get(page_endpoint_claim_key(l))) =>
                get(page_endpoint_claim_key(l)).val.page_id \in Ids(f.snapshots)
      BY <2>2, <2>3, ClaimedAreSnapshots DEF Sound
    <2>5. Ids(f.snapshots) \subseteq R
      BY <1>3, <1>5
    <2>6. Ids(Displaced(f)) = Abstract!Displaced(f.req.id, f.req.patch)
      BY <1>1, <1>5, <1>7, <2>1, <2>4 DEF Abstract!Displaced
    <2> QED BY <2>3, <2>4, <2>5, <2>6
  <1>8. /\ Ids(Displaced(f)) = Abstract!Displaced(f.req.id, f.req.patch)
        /\ \A l \in bindings(f.page.endpoint_set) :
              present(get(page_endpoint_claim_key(l))) =>
                  get(page_endpoint_claim_key(l)).val.page_id \in R
    BY <1>6, <1>7
  <1>9. R \subseteq PageIds /\ \A r \in R : Stored(r)
    BY <1>3 DEF Ids
  <1>10. PICK new : new = Single(f.id, f.page)
    OBVIOUS
  <1>11. DOMAIN new = {f.id} /\ new[f.id] = f.page
    BY <1>10, SingleFacts
  <1>12. Fits(R, new)
    BY <1>3, <1>8, <1>9, <1>11 DEF Fits
  <1> QED BY <1>2, <1>8, <1>10, <1>12

(* The commit of an update is that update. *)
LEMMA UpdateOperates ==
    ASSUME NEW f, Sound(f), f.req.kind = "update", Settled(f), Write(Written(f), Removed(f))
    PROVE  StoreOK' /\ RequestedOperation(f.req)
  <1>1. PICK req, page, patch : req = f.req /\ page = f.existing.page /\ patch = f.req.patch
    OBVIOUS
  <1>2. PICK R, D : R = Ids(Replaced(f)) /\ D = Ids(Displaced(f))
    OBVIOUS
  <1>3. /\ f.id = req.id /\ f.page = PatchedPage(page, patch)
        /\ f.page \in PageAggregate /\ req.id \in PageIds
        /\ Stored(req.id) /\ Page(req.id) = page
        /\ f.page.content_asset_id \in StoredAssets
        /\ \A s \in Displaced(f) : Page(s.id) = s.page /\ s.page.owner = None
        /\ R = {req.id} \cup D
        /\ Removed(f) = Gone(R)
    BY <1>1, <1>2, UpdateReplaces
  <1>4. Fits(R, Single(f.id, f.page)) /\ D = Abstract!Displaced(req.id, patch)
    BY <1>1, <1>2, UpdateFits
  <1>5. Written(f) = Put(f.id, f.page)
    BY DEF Written, Put
  <1>6. StoreOK' /\ Abstract!ReplacePages(R, f.id, f.page) /\ StoredAssets' = StoredAssets
    BY <1>3, <1>4, <1>5, ReplaceStep DEF Sound
  <1>7. /\ page.owner = req.owner /\ page.revision = req.expected_revision
        /\ RevisionAvailable(page)
    BY <1>1 DEF Settled, ExistingOK, Editing
  <1>8. StoredPages[req.id] # None /\ StoredPages[req.id] = page
    BY <1>3, StoredTyped DEF Sound, StoreOK, Page
  <1>9. req.owner # None
    BY <1>1, RequestFields, ConstantsAssumption DEF Sound, Editing
  <1>10. Abstract!OwnedAt(req.id, req.owner, req.expected_revision)
    BY <1>7, <1>8, <1>9 DEF Abstract!OwnedAt
  <1>11. Abstract!OnlyTrials(D)
    BY <1>2, <1>3 DEF Abstract!OnlyTrials, Ids, Page
  <1>12. patch.content_asset_id # None => patch.content_asset_id \in StoredAssets
    <2>1. f.page.content_asset_id = Or(patch.content_asset_id, page.content_asset_id)
      BY <1>3, PatchedPages DEF PatchedFields
    <2> QED BY <1>3, <2>1 DEF Or
  <1>13. Abstract!ReplacePages({req.id} \cup Abstract!Displaced(req.id, patch), req.id,
                               Abstract!PatchedPage(StoredPages[req.id], patch))
    BY <1>3, <1>4, <1>6, <1>8, AbstractOperators
  <1>14. Abstract!update_managed_page_aggregate(req.id, req.owner, req.expected_revision, patch)
    BY <1>4, <1>6, <1>7, <1>8, <1>10, <1>11, <1>12, <1>13, AbstractOperators
       DEF Abstract!update_managed_page_aggregate
  <1> QED BY <1>1, <1>6, <1>14 DEF RequestedOperation

(* The commit of a deletion is that deletion. *)
LEMMA DeleteOperates ==
    ASSUME NEW f, Sound(f), f.req.kind = "delete", ExistingOK(f),
           Write(Written(f), Removed(f))
    PROVE  StoreOK' /\ RequestedOperation(f.req)
  <1>1. PICK req, id : req = f.req /\ id = f.req.id
    OBVIOUS
  <1>2. PICK R, new : R = {id} /\ new = NoEntries
    OBVIOUS
  <1>3. /\ f.existing # None /\ Snapped(f.existing) /\ f.existing.id = id
        /\ f.existing.page.owner = req.owner /\ f.existing.page.revision = req.expected_revision
    BY <1>1 DEF ExistingOK, Editing
  <1>4. /\ Stored(id) /\ Page(id) = f.existing.page /\ id \in PageIds
        /\ DOMAIN f.existing.index = visibility_keys(id, Page(id))
    BY <1>3, CheckedSnapshot DEF Sound
  <1>5. Removed(f) = Gone(R) /\ Written(f) = new
    <2>1. Replaced(f) = {f.existing}
      BY DEF Replaced
    <2>2. Ids(Replaced(f)) = R
      BY <1>2, <1>3, <2>1 DEF Ids
    <2>3. Removed(f) = Gone(Ids(Replaced(f)))
      BY <1>3, <1>4, <2>1, RemovedIsGone
    <2> QED BY <1>2, <2>2, <2>3 DEF Written
  <1>6. DOMAIN new = {}
    BY <1>2, NothingSeen
  <1>7. Fits(R, new)
    BY <1>2, <1>4, <1>6 DEF Fits
  <1>8. EntriesTyped' /\ Exchange(R, new)
    <2>1. Write(NoEntries, Gone(R))
      BY <1>2, <1>5
    <2> QED BY <1>2, <2>1, RemoveExchanges DEF Sound, StoreOK
  <1>9. StoreOK'
    BY <1>7, <1>8, ExchangeKeepsRows DEF Sound
  <1>10. /\ Page(id)' = None
         /\ \A p \in PageIds : p # id => Page(p)' = Page(p)
         /\ StoredAssets' = StoredAssets
    BY <1>2, <1>4, <1>6, <1>7, <1>8, ExchangePages DEF Sound
  <1>11. StoredPages' = [StoredPages EXCEPT ![id] = None]
    <2>1. \A p \in PageIds : StoredPages'[p] = Page(p)' /\ StoredPages[p] = Page(p)
      BY DEF Page
    <2>2. DOMAIN StoredPages = PageIds /\ StoredPages = [p \in PageIds |-> StoredPages[p]]
      BY DEF StoredPages
    <2>3. StoredPages' = [p \in PageIds |-> StoredPages'[p]]
      BY DEF StoredPages
    <2> QED BY <1>10, <2>1, <2>2, <2>3
  <1>12. ClaimedBy' = [l \in Locators |-> IF l \in Abstract!ReleasedBy({id}) THEN None
                                          ELSE ClaimedBy[l]]
    <2>1. ASSUME NEW l \in Locators
          PROVE  ClaimedBy'[l] = IF l \in UNION {bindings(Page(r).endpoint_set) : r \in R}
                                 THEN None ELSE ClaimedBy[l]
      BY <1>6, <1>7, <1>8, ExchangeClaims DEF Sound
    <2>2. ClaimedBy' = [l \in Locators |-> ClaimedBy'[l]]
      BY DEF ClaimedBy
    <2>3. Abstract!ReleasedBy(R) = UNION {bindings(Page(r).endpoint_set) : r \in R}
      BY AbstractOperators
    <2> QED BY <1>2, <2>1, <2>2, <2>3
  <1>13. StoredPages[id] # None /\ StoredPages[id] = f.existing.page
    BY <1>4, StoredTyped DEF Sound, StoreOK, Page
  <1>14. req.owner # None
    BY <1>1, RequestFields, ConstantsAssumption DEF Sound, Editing
  <1>15. Abstract!OwnedAt(id, req.owner, req.expected_revision)
    BY <1>3, <1>13, <1>14 DEF Abstract!OwnedAt
  <1>16. Abstract!delete_managed_page_aggregate(id, req.owner, req.expected_revision)
    BY <1>10, <1>11, <1>12, <1>15
       DEF Abstract!delete_managed_page_aggregate, Abstract!RemovePage
  <1> QED BY <1>1, <1>9, <1>16 DEF RequestedOperation

(* A health report checks and rewrites the page's own entry only.          *)
LEMMA HealthOperates ==
    ASSUME NEW f, StoreOK, f.req \in Request, f.req.kind = "health", Current(f), Recalled(f),
           ExistingOK(f), Write(Written(f), Removed(f))
    PROVE  StoreOK' /\ RequestedOperation(f.req)
  <1>1. PICK req, id, page, new : /\ req = f.req /\ id = f.req.id /\ page = f.page
                                  /\ new = Single(id, page)
    OBVIOUS
  <1>2. /\ f.existing # None /\ Snapped(f.existing) /\ f.existing.id = id /\ f.id = id
        /\ f.existing.page.content_asset_id = req.content_asset_id
        /\ f.existing.page.external_missing # req.missing
        /\ page = [f.existing.page EXCEPT !.external_missing = req.missing]
    BY <1>1 DEF ExistingOK, Editing
  <1>3. Stored(id) /\ Page(id) = f.existing.page /\ id \in PageIds
    <2>1. PICK key : key = page_aggregate_storage_key(id)
      OBVIOUS
    <2>2. <<key, f.existing.entry.vs>> \in Checks(f)
      BY <1>2, <2>1 DEF Checks
    <2>3. get(key).vs = f.existing.entry.vs
      BY <2>2 DEF Current, AllCurrent
    <2>4. SeenPage(f.existing)
      BY <1>2 DEF Recalled, Remembers
    <2>5. get(key) = f.existing.entry
      BY <1>2, <2>1, <2>3, <2>4 DEF SeenPage, Seen
    <2>6. /\ id \in PageIds /\ present(f.existing.entry)
          /\ f.existing.page = f.existing.entry.val
      BY <1>2 DEF Snapped
    <2> QED BY <2>1, <2>5, <2>6 DEF Page, StoredPages, Stored
  <1>4. page \in PageAggregate
    BY <1>1, WrittenPageTyped
  <1>5. Page(id) \in PageAggregate /\ StoredPages[id] = Page(id) /\ StoredPages[id] # None
    BY <1>3, StoredTyped DEF StoreOK, Page
  <1>6. /\ page.endpoint_set = Page(id).endpoint_set /\ page.owner = Page(id).owner
        /\ page.access = Page(id).access /\ page.revision = Page(id).revision
        /\ page.content_asset_id = Page(id).content_asset_id
    BY <1>2, <1>3, <1>5 DEF PageAggregate
  <1>7. Written(f) = Single(page_aggregate_storage_key(id), page) /\ Removed(f) = {}
    BY <1>1, <1>2 DEF Written, Removed, Replaced
  <1>8. EntriesTyped' /\ Exchange({id}, new)
    <2>1. Write(Single(page_aggregate_storage_key(id), page), {})
      BY <1>7
    <2> QED BY <1>1, <1>3, <1>4, <1>6, <2>1, HealthExchanges
  <1>9. DOMAIN new = {id} /\ new[id] = page
    BY <1>1, SingleFacts
  <1>10. \A l \in bindings(page.endpoint_set) :
            /\ present(get(page_endpoint_claim_key(l)))
            /\ get(page_endpoint_claim_key(l)).val.page_id = id
    BY <1>3, <1>6, RowsOf, RowsOfStored
  <1>11. page.content_asset_id \in StoredAssets
    BY <1>3, <1>6 DEF StoreOK, ContentHeld
  <1>12. PICK R : R = {id}
    OBVIOUS
  <1>13. Fits(R, new) /\ Exchange(R, new)
    BY <1>3, <1>4, <1>8, <1>9, <1>10, <1>11, <1>12 DEF Fits
  <1>14. StoreOK'
    BY <1>8, <1>13, ExchangeKeepsRows
  <1>15. /\ Page(id)' = page
         /\ \A p \in PageIds : p # id => Page(p)' = Page(p)
         /\ StoredAssets' = StoredAssets
    BY <1>3, <1>8, <1>9, <1>12, <1>13, ExchangePages
  <1>16. StoredPages' = [StoredPages EXCEPT ![id].external_missing = req.missing]
    <2>1. \A p \in PageIds : StoredPages'[p] = Page(p)' /\ StoredPages[p] = Page(p)
      BY DEF Page
    <2>2. DOMAIN StoredPages = PageIds /\ StoredPages = [p \in PageIds |-> StoredPages[p]]
      BY DEF StoredPages
    <2>3. StoredPages' = [p \in PageIds |-> StoredPages'[p]]
      BY DEF StoredPages
    <2>4. StoredPages' = [StoredPages EXCEPT ![id] = page]
      BY <1>15, <2>1, <2>2, <2>3
    <2>5. page = [StoredPages[id] EXCEPT !.external_missing = req.missing]
      BY <1>2, <1>3, <1>5
    <2> QED BY <2>4, <2>5
  <1>17. ClaimedBy' = ClaimedBy
    <2>1. ASSUME NEW l \in Locators PROVE ClaimedBy'[l] = ClaimedBy[l]
      <3>1. CASE l \in bindings(page.endpoint_set)
        <4>1. ClaimedBy'[l] = id
          BY <1>8, <1>9, <1>13, <3>1, ExchangeClaims
        <4> QED BY <1>10, <3>1, <4>1, ClaimedTyped
      <3>2. CASE l \notin bindings(page.endpoint_set)
        <4>1. ClaimedBy'[l] = IF l \in UNION {bindings(Page(r).endpoint_set) : r \in R}
                              THEN None ELSE ClaimedBy[l]
          BY <1>8, <1>9, <1>13, <3>2, ExchangeClaims
        <4>2. l \notin UNION {bindings(Page(r).endpoint_set) : r \in R}
          BY <1>6, <1>12, <3>2
        <4> QED BY <4>1, <4>2
      <3> QED BY <3>1, <3>2
    <2>2. ClaimedBy' = [l \in Locators |-> ClaimedBy'[l]]
      BY DEF ClaimedBy
    <2>3. ClaimedBy = [l \in Locators |-> ClaimedBy[l]]
      BY DEF ClaimedBy
    <2> QED BY <2>1, <2>2, <2>3
  <1>18. req.content_asset_id \in StoredAssets \cap ExternalAssets
    BY <1>1, <1>2, <1>3, <1>6, <1>11, RequestFields
  <1>19. Abstract!update_external_content_health(id, req.content_asset_id, req.missing)
    BY <1>2, <1>3, <1>5, <1>15, <1>16, <1>17, <1>18
       DEF Abstract!update_external_content_health
  <1> QED BY <1>1, <1>14, <1>19 DEF RequestedOperation

(* An asset appears: no page, row or claim is touched. *)
LEMMA AssetAppears ==
    ASSUME StoreOK, NEW a \in ContentAssets, NEW key, key = content_asset_manifest_key(a),
           ~present(get(key)), Write(Single(key, a), {})
    PROVE  StoreOK' /\ Abstract!create_content_asset(a)
  <1>1. PICK written, removed : written = Single(key, a) /\ removed = {}
    OBVIOUS
  <1>2. DOMAIN written = {key} /\ written[key] = a /\ Write(written, removed)
    BY <1>1, SingleFacts
  <1>3. EntriesTyped'
    BY <1>2, TypesOfKeys, WriteTyped DEF Typed, StoreOK
  <1>4. \A k : get(k)' = IF k = key THEN [vs |-> clock + 1, val |-> a] ELSE get(k)
    <2>1. \A k : get(k)' = IF k \in DOMAIN written THEN [vs |-> clock + 1, val |-> written[k]]
                           ELSE IF k \in removed THEN Absent ELSE get(k)
      BY <1>2, WriteGets
    <2> QED BY <1>1, <1>2, <2>1
  <1>5. present(get(key))'
    <2>1. clock + 1 # 0
      BY DEF StoreOK, EntriesTyped
    <2> QED BY <1>4, <2>1 DEF present
  <1>6. \A k : k # key => get(k)' = get(k) /\ (present(get(k))' <=> present(get(k)))
    BY <1>4 DEF present
  <1>7. /\ \A id : page_aggregate_storage_key(id) # key
        /\ \A l : page_endpoint_claim_key(l) # key
        /\ \A k : RowKey(k) => k # key
    BY KeysDiffer DEF RowKey, ManifestKeys
  <1>8. StoredPages' = StoredPages /\ \A id : Page(id)' = Page(id)
    <2>1. \A id \in PageIds : get(page_aggregate_storage_key(id))' =
                              get(page_aggregate_storage_key(id))
      BY <1>6, <1>7
    <2>2. StoredPages' = StoredPages
      BY <2>1 DEF StoredPages
    <2> QED BY <2>2 DEF Page
  <1>9. \A id : Stored(id)' <=> Stored(id)
    BY <1>6, <1>7 DEF Stored
  <1>10. ClaimedBy' = ClaimedBy
    <2>1. \A l \in Locators : ClaimedBy'[l] = ClaimedBy[l]
      <3>1. ASSUME NEW l \in Locators PROVE ClaimedBy'[l] = ClaimedBy[l]
        <4>1. PICK k : k = page_endpoint_claim_key(l)
          OBVIOUS
        <4>2. get(k)' = get(k) /\ (present(get(k))' <=> present(get(k)))
          BY <1>6, <1>7, <4>1
        <4>3. /\ present(get(k))' => ClaimedBy'[l] = get(k)'.val.page_id
              /\ ~present(get(k))' => ClaimedBy'[l] = None
          BY <4>1 DEF ClaimedBy
        <4> QED BY <4>1, <4>2, <4>3, ClaimedTyped
      <3> QED BY <3>1
    <2>2. ClaimedBy' = [l \in Locators |-> ClaimedBy'[l]]
      BY DEF ClaimedBy
    <2>3. ClaimedBy = [l \in Locators |-> ClaimedBy[l]]
      BY DEF ClaimedBy
    <2> QED BY <2>1, <2>2, <2>3
  <1>11. StoredAssets' = StoredAssets \cup {a} /\ a \notin StoredAssets
    <2>1. \A b \in ContentAssets : b \in StoredAssets' <=> b = a \/ b \in StoredAssets
      BY <1>5, <1>6, KeysDiffer DEF StoredAssets
    <2>2. StoredAssets \subseteq ContentAssets /\ StoredAssets' \subseteq ContentAssets
      BY DEF StoredAssets
    <2> QED BY <2>1, <2>2 DEF StoredAssets
  <1>12. ContentHeld'
    BY <1>8, <1>9, <1>11 DEF StoreOK, ContentHeld
  <1>13. \A id : visibility_keys(id, Page(id))' = visibility_keys(id, Page(id))
    BY <1>8 DEF visibility_keys, endpoint_keys, projection_keys
  <1>14. \A id : \A k \in visibility_keys(id, Page(id)) : k # key
    BY <1>7, RowsOf
  <1>15. RowsHeld'
    <2>1. ASSUME NEW id \in PageIds, Stored(id)', NEW k, k \in visibility_keys(id, Page(id))'
          PROVE  present(get(k))' /\ get(k)'.val = page_pointer(id, Page(id)')
      <3>1. k \in visibility_keys(id, Page(id)) /\ Stored(id) /\ k # key
        BY <1>9, <1>13, <1>14, <2>1
      <3>2. present(get(k)) /\ get(k).val = page_pointer(id, Page(id))
        BY <3>1 DEF StoreOK, RowsHeld
      <3> QED BY <1>6, <1>8, <3>1, <3>2
    <2> QED BY <2>1 DEF RowsHeld, page_pointer
  <1>16. NoOtherRows'
    <2>0. DOMAIN kv' = DOMAIN written \cup (DOMAIN kv \ removed)
      BY <1>2, WriteGets
    <2>1. DOMAIN kv' \subseteq DOMAIN kv \cup {key}
      BY <1>2, <2>0
    <2>2. \A k \in DOMAIN kv' \ (PageKeys \cup ManifestKeys) : k \in DOMAIN kv
      BY <1>7, <2>1 DEF RowKey
    <2> QED BY <1>9, <1>13, <2>2 DEF StoreOK, NoOtherRows
  <1>17. StoreOK'
    BY <1>3, <1>12, <1>15, <1>16 DEF StoreOK
  <1> QED BY <1>8, <1>10, <1>11, <1>17 DEF Abstract!create_content_asset

(* A commit whose checks pass is the operation its caller asked for.       *)
LEMMA CommitOperates ==
    ASSUME NEW f, StoreOK, FrameOK(f), f.at = "commit", Current(f),
           Write(Written(f), Removed(f))
    PROVE  StoreOK' /\ RequestedOperation(f.req)
  <1>1. f.req \in Request /\ Recalled(f) /\ AtOK(f)
    BY DEF FrameOK, Ended
  <1>2. \/ Settled(f)
        \/ f.req.kind \in {"delete", "health"} /\ ExistingOK(f)
    <2>1. Waits(f, "commit", f.pending \cup DOMAIN f.got)
      BY <1>1 DEF AtOK
    <2> QED BY <2>1, AtPlaces
  <1>3. CASE f.req.kind = "health"
    <2>1. ExistingOK(f)
      BY <1>2, <1>3 DEF Settled
    <2> QED BY <1>1, <1>3, <2>1, HealthOperates
  <1>4. CASE f.req.kind # "health"
    <2>1. Sound(f)
      BY <1>1, <1>4 DEF Sound
    <2>2. CASE f.req.kind = "delete"
      <3>1. ExistingOK(f)
        BY <1>2, <2>2 DEF Settled
      <3> QED BY <2>1, <2>2, <3>1, DeleteOperates
    <2>3. CASE f.req.kind = "update"
      <3>1. Settled(f)
        BY <1>2, <2>3
      <3> QED BY <2>1, <2>3, <3>1, UpdateOperates
    <2>4. CASE f.req.kind \in NewKinds
      <3>1. Settled(f)
        BY <1>2, <2>4 DEF NewKinds
      <3> QED BY <2>1, <2>4, <3>1, NewPageCommits, NewPageOperates
    <2>5. f.req.kind \in NewKinds \cup {"update", "delete"}
      BY <1>2, <1>4 DEF Settled, NewKinds
    <2> QED BY <2>2, <2>3, <2>4, <2>5
  <1> QED BY <1>3, <1>4

-----------------------------------------------------------------------------
(* The invariant is inductive. *)

(* No step invalidates what another call has read. *)
LEMMA FramesStay ==
    ASSUME EntriesTyped,
           UNCHANGED <<kv, clock>> \/ \E written, removed : Write(written, removed)
    PROVE  \A f : FrameOK(f) => FrameOK(f)'
  <1>1. \A k, entry : Seen(k, entry) => Seen(k, entry)'
    BY SeenStays, SeenUnchanged
  <1> QED BY <1>1, FrameStays

(* A step that leaves the store alone keeps it sound. *)
LEMMA StoreStays ==
    ASSUME StoreOK, UNCHANGED <<kv, clock>>
    PROVE  StoreOK'
  <1>1. EntriesTyped'
    BY DEF StoreOK, EntriesTyped, TypeOf
  <1>2. /\ \A k : get(k)' = get(k)
        /\ \A k : present(get(k))' <=> present(get(k))
    BY DEF get, Absent, present
  <1>3. StoredPages' = StoredPages /\ StoredAssets' = StoredAssets
    BY <1>2 DEF StoredPages, StoredAssets
  <1>4. \A id : (Stored(id)' <=> Stored(id)) /\ Page(id)' = Page(id)
    BY <1>2, <1>3 DEF Stored, Page
  <1>5. /\ \A id : visibility_keys(id, Page(id))' = visibility_keys(id, Page(id))
        /\ \A id : page_pointer(id, Page(id))' = page_pointer(id, Page(id))
    BY <1>4 DEF visibility_keys, endpoint_keys, projection_keys, page_pointer
  <1>6. ContentHeld'
    BY <1>3, <1>4 DEF StoreOK, ContentHeld
  <1>7. RowsHeld'
    BY <1>2, <1>4, <1>5 DEF StoreOK, RowsHeld
  <1>8. NoOtherRows'
    BY <1>4, <1>5 DEF StoreOK, NoOtherRows
  <1> QED BY <1>1, <1>6, <1>7, <1>8 DEF StoreOK

(* A step that only moves one frame to where it may be keeps the invariant. *)
LEMMA LandedStep ==
    ASSUME IInv, NEW c \in Clients, Lands(c), UNCHANGED <<kv, clock>>, requests' \subseteq requests
    PROVE  IInv'
  <1>1. PICK g : Become(c, g) /\ FrameOK(g)
    BY DEF Lands
  <1>2. StoreOK'
    BY StoreStays DEF IInv
  <1>3. DOMAIN client' = Clients /\ client'[c] = g
        /\ \A d \in Clients \ {c} : client'[d] = client[d]
    BY <1>1 DEF Become, IInv
  <1>4. \A f : FrameOK(f) => FrameOK(f)'
    BY FramesStay DEF IInv, StoreOK
  <1>5. ASSUME NEW d \in Clients PROVE FrameOK(client[d])'
    <2>1. PICK h : h = client'[d]
      OBVIOUS
    <2>2. FrameOK(h)
      BY <1>1, <1>3, <2>1 DEF IInv
    <2>3. FrameOK(h)'
      BY <1>4, <2>2
    <2> QED BY <2>1, <2>3
  <1>6. (requests \subseteq UNION {s.requests : s \in Scenarios})'
    BY DEF IInv
  <1> QED BY <1>2, <1>3, <1>5, <1>6 DEF IInv

(* One read returns: the batch is still incomplete, or the code runs on.   *)
LEMMA OneRead ==
    ASSUME IInv, NEW c \in Clients, client[c].at \notin Ended, NEW k \in client[c].pending,
           NEW f, Reads(client[c], f, k)
    PROVE  /\ f.pending # {} /\ Become(c, f) => Lands(c)
           /\ f.pending = {} => Complete(f, client[c].at)
  <1>1. FrameOK(f) /\ f.at = client[c].at
    BY ReadingStays DEF IInv, StoreOK
  <1> QED BY <1>1 DEF Lands, Complete

(* Every step of a read does so. *)
LEMMA ReadsLand ==
    ASSUME IInv, NEW c \in Clients,
           \/ SnapshotEntry(c) \/ SnapshotIndexes(c) \/ SnapshotAgain(c)
           \/ Claims(c) \/ ClaimsAgain(c) \/ ProbeEntries(c)
           \/ Destination(c) \/ Authority(c) \/ RowAgain(c)
    PROVE  Lands(c) /\ UNCHANGED <<kv, clock, requests>>
  <1>1. CASE SnapshotEntry(c)
    <2>1. client[c].at = "snapshot entry" /\ UNCHANGED <<kv, clock, requests>>
      BY <1>1 DEF SnapshotEntry, Resume
    <2>2. PICK k, f :
            /\ k \in client[c].pending /\ Reads(client[c], f, k)
            /\ IF f.pending # {} THEN Become(c, f) ELSE EntryRead(c, f)
      BY <1>1 DEF SnapshotEntry, Resume, Reads
    <2> QED BY <2>1, <2>2, OneRead, EntryReadLands DEF Ended
  <1>2. CASE SnapshotIndexes(c)
    <2>1. client[c].at = "snapshot indexes" /\ UNCHANGED <<kv, clock, requests>>
      BY <1>2 DEF SnapshotIndexes, Resume
    <2>2. PICK k, f :
            /\ k \in client[c].pending /\ Reads(client[c], f, k)
            /\ IF f.pending # {} THEN Become(c, f) ELSE IndexesRead(c, f)
      BY <1>2 DEF SnapshotIndexes, Resume, Reads
    <2> QED BY <2>1, <2>2, OneRead, IndexesReadLands DEF Ended
  <1>3. CASE SnapshotAgain(c)
    <2>1. client[c].at = "snapshot again" /\ UNCHANGED <<kv, clock, requests>>
      BY <1>3 DEF SnapshotAgain, Resume
    <2>2. PICK k, f :
            /\ k \in client[c].pending /\ Reads(client[c], f, k)
            /\ IF f.pending # {} THEN Become(c, f) ELSE AgainRead(c, f)
      BY <1>3 DEF SnapshotAgain, Resume, Reads
    <2> QED BY <2>1, <2>2, OneRead, AgainReadLands DEF Ended
  <1>4. CASE Claims(c)
    <2>1. client[c].at = "claims" /\ UNCHANGED <<kv, clock, requests>>
      BY <1>4 DEF Claims, Resume
    <2>2. PICK k, f :
            /\ k \in client[c].pending /\ Reads(client[c], f, k)
            /\ IF f.pending # {} THEN Become(c, f) ELSE TargetsRead(c, f)
      BY <1>4 DEF Claims, Resume, Reads
    <2> QED BY <2>1, <2>2, OneRead, TargetsReadLands DEF Ended
  <1>5. CASE ClaimsAgain(c)
    <2>1. client[c].at = "claims again" /\ UNCHANGED <<kv, clock, requests>>
      BY <1>5 DEF ClaimsAgain, Resume
    <2>2. PICK k, f :
            /\ k \in client[c].pending /\ Reads(client[c], f, k)
            /\ IF f.pending # {} THEN Become(c, f) ELSE ClaimsAgainRead(c, f)
      BY <1>5 DEF ClaimsAgain, Resume, Reads
    <2> QED BY <2>1, <2>2, OneRead, ClaimsAgainReadLands DEF Ended
  <1>6. CASE ProbeEntries(c)
    <2>1. client[c].at = "probe" /\ UNCHANGED <<kv, clock, requests>>
      BY <1>6 DEF ProbeEntries, Resume
    <2>2. PICK k, f :
            /\ k \in client[c].pending /\ Reads(client[c], f, k)
            /\ IF f.pending # {} THEN Become(c, f) ELSE ProbeRead(c, f)
      BY <1>6 DEF ProbeEntries, Resume, Reads
    <2> QED BY <2>1, <2>2, OneRead, ProbeReadLands DEF Ended
  <1>7. CASE Destination(c)
    <2>1. client[c].at = "destination" /\ UNCHANGED <<kv, clock, requests>>
      BY <1>7 DEF Destination, Resume
    <2>2. PICK k, f :
            /\ k \in client[c].pending /\ Reads(client[c], f, k)
            /\ IF f.pending # {} THEN Become(c, f) ELSE DestinationRead(c, f)
      BY <1>7 DEF Destination, Resume, Reads
    <2> QED BY <2>1, <2>2, OneRead, DestinationReadLands DEF Ended
  <1>8. CASE Authority(c)
    <2>1. client[c].at = "authority" /\ UNCHANGED <<kv, clock, requests>>
      BY <1>8 DEF Authority, Resume
    <2>2. PICK k, f :
            /\ k \in client[c].pending /\ Reads(client[c], f, k)
            /\ IF f.pending # {} THEN Become(c, f) ELSE AuthorityRead(c, f)
      BY <1>8 DEF Authority, Resume, Reads
    <2> QED BY <2>1, <2>2, OneRead, AuthorityReadLands DEF Ended
  <1>9. CASE RowAgain(c)
    <2>1. client[c].at = "row again" /\ UNCHANGED <<kv, clock, requests>>
      BY <1>9 DEF RowAgain, Resume
    <2>2. PICK k, f :
            /\ k \in client[c].pending /\ Reads(client[c], f, k)
            /\ IF f.pending # {} THEN Become(c, f) ELSE RowAgainRead(c, f)
      BY <1>9 DEF RowAgain, Resume, Reads
    <2> QED BY <2>1, <2>2, OneRead, RowAgainReadLands DEF Ended
  <1> QED BY <1>1, <1>2, <1>3, <1>4, <1>5, <1>6, <1>7, <1>8, <1>9

(* So does the listing of rows, *)
LEMMA ListRowsLands ==
    ASSUME IInv, NEW c \in Clients, ListRows(c)
    PROVE  Lands(c) /\ UNCHANGED <<kv, clock, requests>>
  <1>1. PICK f, rows : f = client[c] /\ rows = {k \in DOMAIN kv : Lists(client[c].req, k)}
    OBVIOUS
  <1>2. /\ f.at = "list" /\ UNCHANGED <<kv, clock, requests>>
        /\ NextRow(c, [f EXCEPT !.rows = [k \in rows |-> kv[k]]])
    BY <1>1 DEF ListRows
  <1>3. DOMAIN f = DOMAIN Idle /\ f.req \in Request /\ Recalled(f) /\ AtOK(f)
    BY <1>1, <1>2 DEF IInv, FrameOK, Ended
  <1>4. Listing(f)
    <2>1. Waits(f, "list", f.pending \cup DOMAIN f.got)
      BY <1>2, <1>3 DEF AtOK
    <2> QED BY <2>1, AtPlaces
  <1>5. PICK g : g = [f EXCEPT !.rows = [k \in rows |-> kv[k]]]
    OBVIOUS
  <1>6. /\ DOMAIN g = DOMAIN Idle /\ g.req = f.req /\ g.rows = [k \in rows |-> kv[k]]
        /\ g.targets = f.targets /\ g.snapshots = f.snapshots /\ g.existing = f.existing
        /\ g.probed = f.probed
    BY <1>3, <1>5, IdleFields
  <1>7. \A k \in rows : g.rows[k] = get(k) /\ present(get(k)) /\ Lists(g.req, k)
    BY <1>1, <1>6, EntriesOfGet DEF IInv, StoreOK
  <1>8. SeenAll(g.rows)
    BY <1>6, <1>7, ReadNow DEF SeenAll, IInv, StoreOK
  <1>9. Steady(g)
    BY <1>3, <1>6, <1>8 DEF Steady, Recalled, Remembers
  <1>10. Listing(g)
    BY <1>4, <1>6, <1>7 DEF Listing
  <1> QED BY <1>2, <1>5, <1>9, <1>10, NextRowLands

(* the beginning of a call, *)
LEMMA CallLands ==
    ASSUME IInv, NEW c \in Clients, NEW req \in requests, Call(c, req)
    PROVE  Lands(c) /\ UNCHANGED <<kv, clock>> /\ requests' \subseteq requests
  <1>1. req \in Request
    BY ScenariosAssumption DEF IInv
  <1>2. UNCHANGED <<kv, clock>> /\ requests' \subseteq requests
    BY DEF Call
  <1>3. PICK f : f = [Idle EXCEPT !.req = req]
    OBVIOUS
  <1>4. Fresh(f)
    BY <1>1, <1>3, IdleFields DEF Fresh, NoClaims
  <1>5. Attempt(c, f) \/ Return(c, "endpoint_capacity_exceeded")
    BY <1>3 DEF Call
  <1>6. DOMAIN f = DOMAIN Idle
    BY <1>4 DEF Fresh
  <1> QED BY <1>2, <1>4, <1>5, <1>6, AttemptLands, EndsLand

(* and a crash. *)
LEMMA CrashLands ==
    ASSUME NEW c, Crash(c)
    PROVE  Lands(c) /\ UNCHANGED <<kv, clock, requests>>
  BY EndsLand DEF Crash, Lands, Become

(* A step that writes ends the call it belongs to, if any. *)
LEMMA WritingStep ==
    ASSUME IInv, StoreOK', NEW written, NEW removed, Write(written, removed),
           requests' \subseteq requests,
           UNCHANGED client \/ \E c \in Clients : \E reply : Return(c, reply)
    PROVE  IInv'
  <1>1. \A f : FrameOK(f) => FrameOK(f)'
    BY FramesStay DEF IInv, StoreOK
  <1>2. DOMAIN client' = Clients /\ \A d \in Clients : FrameOK(client'[d])
    <2>1. CASE UNCHANGED client
      BY <2>1 DEF IInv
    <2>2. ASSUME NEW c \in Clients, NEW reply, Return(c, reply)
          PROVE  DOMAIN client' = Clients /\ \A d \in Clients : FrameOK(client'[d])
      <3>1. PICK g : g = [Idle EXCEPT !.reply = reply]
        OBVIOUS
      <3>2. g.at = "idle"
        BY <3>1, IdleFields
      <3>3. FrameOK(g)
        BY <3>2 DEF FrameOK, Ended
      <3>4. client' = [client EXCEPT ![c] = g]
        BY <2>2, <3>1 DEF Return, Become
      <3> QED BY <3>3, <3>4 DEF IInv
    <2> QED BY <2>1, <2>2
  <1>3. ASSUME NEW d \in Clients PROVE FrameOK(client[d])'
    <2>1. PICK h : h = client'[d]
      OBVIOUS
    <2>2. FrameOK(h)'
      BY <1>1, <1>2, <2>1
    <2> QED BY <2>1, <2>2
  <1>4. (requests \subseteq UNION {s.requests : s \in Scenarios})'
    BY DEF IInv
  <1> QED BY <1>2, <1>3, <1>4 DEF IInv

(* A commit writes only what was asked for, or starts over. *)
LEMMA CommitStep ==
    ASSUME IInv, NEW c \in Clients, Commit(c)
    PROVE  /\ IInv'
           /\ kv' # kv => /\ client[c].at = "commit" /\ client'[c] # client[c]
                          /\ RequestedOperation(client[c].req)
  <1>1. PICK f : f = client[c]
    OBVIOUS
  <1>2. /\ f.at = "commit" /\ UNCHANGED requests
        /\ \/ Current(f) /\ Write(Written(f), Removed(f)) /\ Return(c, "ok")
           \/ Retry(c, f) /\ UNCHANGED <<kv, clock>>
    BY <1>1 DEF Commit
  <1>3. FrameOK(f) /\ f.req \in Request
    BY <1>1, <1>2 DEF IInv, FrameOK, Ended
  <1>4. CASE Retry(c, f) /\ UNCHANGED <<kv, clock>>
    BY <1>2, <1>3, <1>4, RetryLands, LandedStep
  <1>5. CASE Current(f) /\ Write(Written(f), Removed(f)) /\ Return(c, "ok")
    <2>1. StoreOK' /\ RequestedOperation(f.req)
      BY <1>2, <1>3, <1>5, CommitOperates DEF IInv
    <2>2. IInv'
      BY <1>2, <1>5, <2>1, WritingStep
    <2>3. client'[c].at = "idle"
      BY <1>5, IdleFields DEF Return, Become, IInv
    <2> QED BY <1>1, <1>2, <2>1, <2>2, <2>3
  <1> QED BY <1>2, <1>4, <1>5

(* A content asset that appears keeps the invariant and is the abstract operation. *)
LEMMA AssetStep ==
    ASSUME IInv, NEW req \in requests, create_content_asset(req)
    PROVE  IInv' /\ \E a \in ContentAssets : Abstract!create_content_asset(a)
  <1>1. PICK a, key : a = req.content_asset_id /\ key = content_asset_manifest_key(a)
    OBVIOUS
  <1>2. /\ req.kind = "create_content_asset" /\ ~present(get(key))
        /\ requests' \subseteq requests /\ Write(Single(key, a), {}) /\ UNCHANGED client
    BY <1>1 DEF create_content_asset
  <1>3. a \in ContentAssets
    <2>1. req \in Request
      BY ScenariosAssumption DEF IInv
    <2> QED BY <1>1, <1>2, <2>1, RequestFields
  <1>4. StoreOK' /\ Abstract!create_content_asset(a)
    BY <1>1, <1>2, <1>3, AssetAppears DEF IInv
  <1>5. PICK written, removed : written = Single(key, a) /\ removed = {}
    OBVIOUS
  <1>6. Write(written, removed)
    BY <1>2, <1>5
  <1> QED BY <1>2, <1>3, <1>4, <1>6, WritingStep

(* Every step keeps the invariant. *)
LEMMA InvariantStep ==
    ASSUME IInv, [Next]_vars
    PROVE  IInv'
  <1>1. ASSUME NEW req \in requests, create_content_asset(req) PROVE IInv'
    BY <1>1, AssetStep
  <1>2. ASSUME NEW c \in Clients, NEW req \in requests, Call(c, req) PROVE IInv'
    BY <1>2, CallLands, LandedStep
  <1>3. ASSUME NEW c \in Clients,
               \/ SnapshotEntry(c) \/ SnapshotIndexes(c) \/ SnapshotAgain(c)
               \/ Claims(c) \/ ClaimsAgain(c) \/ ProbeEntries(c)
               \/ Destination(c) \/ Authority(c) \/ RowAgain(c)
        PROVE  IInv'
    <2>1. Lands(c) /\ UNCHANGED <<kv, clock, requests>>
      BY <1>3, ReadsLand
    <2> QED BY <2>1, LandedStep
  <1>4. ASSUME NEW c \in Clients, ListRows(c) PROVE IInv'
    <2>1. Lands(c) /\ UNCHANGED <<kv, clock, requests>>
      BY <1>4, ListRowsLands
    <2> QED BY <2>1, LandedStep
  <1>5. ASSUME NEW c \in Clients, Commit(c) PROVE IInv'
    BY <1>5, CommitStep
  <1>6. ASSUME NEW c \in Clients, Crash(c) PROVE IInv'
    <2>1. Lands(c) /\ UNCHANGED <<kv, clock, requests>>
      BY <1>6, CrashLands
    <2> QED BY <2>1, LandedStep
  <1>7. CASE UNCHANGED vars
    <2>1. StoreOK' /\ \A f : FrameOK(f) => FrameOK(f)'
      BY <1>7, StoreStays, FramesStay DEF vars, IInv, StoreOK
    <2>2. client' = client /\ requests' = requests
      BY <1>7 DEF vars
    <2>3. ASSUME NEW d \in Clients PROVE FrameOK(client[d])'
      <3>1. PICK h : h = client[d]
        OBVIOUS
      <3>2. FrameOK(h)'
        BY <2>1, <3>1 DEF IInv
      <3> QED BY <2>2, <3>1, <3>2
    <2> QED BY <2>1, <2>2, <2>3 DEF IInv
  <1> QED BY <1>1, <1>2, <1>3, <1>4, <1>5, <1>6, <1>7 DEF Next

-----------------------------------------------------------------------------
(* The stores to start from. *)

(* What is stored in the beginning: the pages, the assets, the pages' rows. *)
LEMMA SeedRows ==
    ASSUME NEW s \in Seeds, NEW p \in PageIds, NEW q \in PageIds,
           s.pages[p] # None, s.pages[q] # None,
           NEW k \in visibility_keys(p, s.pages[p]), k \in visibility_keys(q, s.pages[q])
    PROVE  p = q
  <1>1. CASE \E l \in bindings(s.pages[p].endpoint_set) : k = page_endpoint_claim_key(l)
    <2>1. PICK l \in bindings(s.pages[p].endpoint_set) : k = page_endpoint_claim_key(l)
      BY <1>1
    <2>2. l \in bindings(s.pages[q].endpoint_set)
      BY <2>1, RowsOf
    <2> QED BY <2>1, <2>2, SeedsAssumption DEF OnePagePerLocator
  <1>2. CASE \A other, page : k \in visibility_keys(other, page) => other = p
    BY <1>2
  <1> QED BY <1>1, <1>2, RowsOf

SeedRowKeys(map) == UNION {visibility_keys(id, map[id]) : id \in {id \in PageIds : map[id] # None}}

(* The rows of a seeded store are those of its pages. *)
LEMMA SeedKeys ==
    \A map, k : k \in SeedRowKeys(map) <=>
        \E id \in PageIds : map[id] # None /\ k \in visibility_keys(id, map[id])
  BY DEF SeedRowKeys

SeedHeld(V, map, stored) ==
    /\ \A id \in PageIds : map[id] # None => V[page_aggregate_storage_key(id)] = map[id]
    /\ \A a \in stored : V[content_asset_manifest_key(a)] = a
    /\ \A id \in PageIds : map[id] # None =>
          \A k \in visibility_keys(id, map[id]) : V[k] = page_pointer(id, map[id])

(* The entries of a seeded store. *)
LEMMA SeedEntries ==
    ASSUME NEW s \in Seeds, NEW V, V = VisibleEntries(s.pages, s.assets)
    PROVE  /\ DOMAIN V = {page_aggregate_storage_key(id) : id \in {id \in PageIds : s.pages[id] # None}}
                         \cup {content_asset_manifest_key(a) : a \in s.assets}
                         \cup SeedRowKeys(s.pages)
           /\ SeedHeld(V, s.pages, s.assets)
  <1>1. PICK map, stored : map = s.pages /\ stored = s.assets
    OBVIOUS
  <1> DEFINE ids == {id \in PageIds : map[id] # None}
             rows == UNION {visibility_keys(id, map[id]) : id \in ids}
             Owner(k) == CHOOSE id \in ids : k \in visibility_keys(id, map[id])
  <1>2. PICK P, M, W :
           /\ P = [k \in {page_aggregate_storage_key(id) : id \in ids} |-> map[k[2]]]
           /\ M = [k \in {content_asset_manifest_key(a) : a \in stored} |-> k[2]]
           /\ W = [k \in rows |-> page_pointer(Owner(k), map[Owner(k)])]
    OBVIOUS
  <1>3. V = Overlay(P, Overlay(M, W))
    <2>1. V = VisibleEntries(map, stored)
      BY <1>1
    <2>2. VisibleEntries(map, stored) =
             Overlay([k \in {page_aggregate_storage_key(id) : id \in ids} |-> map[k[2]]],
             Overlay([k \in {content_asset_manifest_key(a) : a \in stored} |-> k[2]],
                     [k \in rows |-> page_pointer(Owner(k), map[Owner(k)])]))
      BY DEF VisibleEntries
    <2> HIDE DEF ids, rows, Owner
    <2> QED BY <1>2, <2>1, <2>2
  <1>4. PICK N : N = Overlay(M, W)
    OBVIOUS
  <1>5. N = [k \in DOMAIN M \cup DOMAIN W |-> IF k \in DOMAIN M THEN M[k] ELSE W[k]]
    BY <1>4 DEF Overlay
  <1>6. V = [k \in DOMAIN P \cup DOMAIN N |-> IF k \in DOMAIN P THEN P[k] ELSE N[k]]
    BY <1>3, <1>4 DEF Overlay
  <1>7. /\ DOMAIN P = {page_aggregate_storage_key(id) : id \in ids}
        /\ DOMAIN M = {content_asset_manifest_key(a) : a \in stored}
        /\ DOMAIN W = rows /\ DOMAIN N = DOMAIN M \cup DOMAIN W
        /\ DOMAIN V = DOMAIN P \cup DOMAIN N
    BY <1>2, <1>5, <1>6
  <1>8. rows = SeedRowKeys(map)
    BY DEF SeedRowKeys
  <1>9. \A id : page_aggregate_storage_key(id)[2] = id
    BY DEF page_aggregate_storage_key
  <1>10. \A a : content_asset_manifest_key(a)[2] = a
    BY DEF content_asset_manifest_key
  <1>11. \A id \in ids : V[page_aggregate_storage_key(id)] = map[id]
    <2>1. ASSUME NEW id \in ids PROVE V[page_aggregate_storage_key(id)] = map[id]
      <3>1. page_aggregate_storage_key(id) \in DOMAIN P
        BY <1>7
      <3>2. P[page_aggregate_storage_key(id)] = map[page_aggregate_storage_key(id)[2]]
        BY <1>2
      <3> QED BY <1>6, <1>9, <3>1, <3>2
    <2> QED BY <2>1
  <1>12. \A a \in stored : V[content_asset_manifest_key(a)] = a
    <2>1. ASSUME NEW a \in stored PROVE V[content_asset_manifest_key(a)] = a
      <3>1. content_asset_manifest_key(a) \in DOMAIN M
        BY <1>7
      <3>2. content_asset_manifest_key(a) \notin DOMAIN P
        BY <1>7, KeysDiffer
      <3>3. M[content_asset_manifest_key(a)] = content_asset_manifest_key(a)[2]
        BY <1>2
      <3> QED BY <1>5, <1>6, <1>7, <1>10, <3>1, <3>2, <3>3
    <2> QED BY <2>1
  <1>13. ASSUME NEW id \in ids, NEW k \in visibility_keys(id, map[id])
         PROVE  V[k] = page_pointer(id, map[id])
    <2>1. k \in rows
      OBVIOUS
    <2>2. RowKey(k)
      BY RowsOf
    <2>3. k \notin DOMAIN P
      BY <1>7, <2>2 DEF RowKey, PageKeys
    <2>4. k \notin DOMAIN M
      BY <1>1, <1>7, <2>2, SeedsAssumption DEF RowKey, ManifestKeys, Store
    <2>5. Owner(k) \in ids /\ k \in visibility_keys(Owner(k), map[Owner(k)])
      OBVIOUS
    <2>6. PICK o : o = Owner(k)
      OBVIOUS
    <2>7. o = id
      BY <1>1, <2>5, <2>6, SeedRows
    <2>8. W[k] = page_pointer(o, map[o])
      BY <1>2, <2>1, <2>6
    <2> QED BY <1>5, <1>6, <1>7, <2>1, <2>3, <2>4, <2>7, <2>8
  <1>14. SeedHeld(V, map, stored)
    BY <1>11, <1>12, <1>13 DEF SeedHeld
  <1> QED BY <1>1, <1>7, <1>8, <1>14

(* A seeded store is sound and is what the abstract store starts with. *)
LEMMA SeedStore ==
    ASSUME NEW s \in Seeds, kv = Stamped(VisibleEntries(s.pages, s.assets), 1), clock = 1
    PROVE  /\ StoreOK
           /\ StoredPages = s.pages /\ StoredAssets = s.assets
           /\ ClaimedBy = [l \in Locators |-> Abstract!HolderIn(s.pages, l)]
  <1>1. PICK V : V = VisibleEntries(s.pages, s.assets)
    OBVIOUS
  <1>2. PICK map, stored : map = s.pages /\ stored = s.assets
    OBVIOUS
  <1>3. /\ map \in [PageIds -> PageAggregate \cup {None}] /\ stored \subseteq ContentAssets
        /\ \A p \in PageIds : map[p] # None => map[p].content_asset_id \in stored
    BY <1>2, SeedsAssumption DEF Store, ValidPage
  <1>4. /\ \A id \in PageIds : map[id] # None =>
              V[page_aggregate_storage_key(id)] = map[id]
        /\ \A a \in stored : V[content_asset_manifest_key(a)] = a
        /\ \A id \in PageIds : map[id] # None =>
              \A k \in visibility_keys(id, map[id]) : V[k] = page_pointer(id, map[id])
    <2>1. SeedHeld(V, map, stored)
      BY <1>1, <1>2, SeedEntries
    <2> QED BY <2>1 DEF SeedHeld
  <1>5. DOMAIN V = {page_aggregate_storage_key(id) : id \in {id \in PageIds : map[id] # None}}
                   \cup {content_asset_manifest_key(a) : a \in stored} \cup SeedRowKeys(map)
    BY <1>1, <1>2, SeedEntries
  <1>6. \A k \in SeedRowKeys(map) : RowKey(k)
    BY SeedKeys, RowsOf
  <1>7. DOMAIN kv = DOMAIN V /\ \A k \in DOMAIN V : kv[k] = [vs |-> 1, val |-> V[k]]
    BY <1>1 DEF Stamped
  <1>8. /\ \A k : k \in DOMAIN V => get(k) = [vs |-> 1, val |-> V[k]]
        /\ \A k : k \in DOMAIN V => present(get(k)) /\ get(k).val = V[k]
        /\ \A k : k \notin DOMAIN V => ~present(get(k)) /\ get(k) = Absent
    <2>1. \A k : k \in DOMAIN V => get(k) = [vs |-> 1, val |-> V[k]]
      BY <1>7, EntriesOfGet
    <2>2. \A k : k \in DOMAIN V => get(k).vs = 1 /\ get(k).val = V[k]
      BY <2>1
    <2>3. \A k : k \notin DOMAIN V => ~present(get(k)) /\ get(k) = Absent
      BY <1>7, EntriesOfGet
    <2> QED BY <2>1, <2>2, <2>3 DEF present
  <1>9. \A id \in PageIds : page_aggregate_storage_key(id) \in DOMAIN V <=> map[id] # None
    <2>1. \A id \in PageIds : ~RowKey(page_aggregate_storage_key(id))
      BY DEF RowKey, PageKeys
    <2> QED BY <1>5, <1>6, <2>1, KeysDiffer
  <1>10. \A a \in ContentAssets : content_asset_manifest_key(a) \in DOMAIN V <=> a \in stored
    <2>1. \A a \in ContentAssets : ~RowKey(content_asset_manifest_key(a))
      BY DEF RowKey, ManifestKeys
    <2> QED BY <1>5, <1>6, <2>1, KeysDiffer
  <1>11. \A k : RowKey(k) => (k \in DOMAIN V <=> k \in SeedRowKeys(map))
    <2>1. \A id \in PageIds : ~RowKey(page_aggregate_storage_key(id))
      BY DEF RowKey, PageKeys
    <2>2. \A a \in stored : ~RowKey(content_asset_manifest_key(a))
      BY <1>3 DEF RowKey, ManifestKeys
    <2> QED BY <1>5, <2>1, <2>2
  <1>12. StoredPages = map
    <2>1. \A id \in PageIds : get(page_aggregate_storage_key(id)).val = map[id]
      BY <1>4, <1>8, <1>9, EntriesOfGet
    <2> QED BY <1>3, <2>1 DEF StoredPages
  <1>13. StoredAssets = stored
    BY <1>3, <1>8, <1>10 DEF StoredAssets
  <1>14. \A id \in PageIds : (Stored(id) <=> map[id] # None) /\ Page(id) = map[id]
    BY <1>8, <1>9, <1>12 DEF Stored, Page
  <1>15. EntriesTyped
    <2>1. ASSUME NEW k \in DOMAIN kv PROVE V[k] \in TypeOf(k)
      <3>1. CASE \E id \in PageIds : map[id] # None /\ k = page_aggregate_storage_key(id)
        BY <1>3, <1>4, <3>1, TypesOfKeys
      <3>2. CASE \E a \in stored : k = content_asset_manifest_key(a)
        BY <1>3, <1>4, <3>2, TypesOfKeys
      <3>3. CASE k \in SeedRowKeys(map)
        <4>1. PICK id \in PageIds : map[id] # None /\ k \in visibility_keys(id, map[id])
          BY <3>3, SeedKeys
        <4>2. V[k] = page_pointer(id, map[id]) /\ map[id] \in PageAggregate
          BY <1>3, <1>4, <4>1
        <4> QED BY <1>6, <3>3, <4>2, PointersTyped, TypesOfKeys
      <3> QED BY <1>5, <1>7, <3>1, <3>2, <3>3
    <2>2. ASSUME NEW k \in DOMAIN kv
          PROVE  /\ kv[k].vs = 1 /\ kv[k].val = V[k]
                 /\ kv[k] = [vs |-> kv[k].vs, val |-> kv[k].val]
      <3>1. PICK entry : entry = [vs |-> 1, val |-> V[k]]
        OBVIOUS
      <3>2. kv[k] = entry
        BY <1>7, <3>1
      <3>3. entry.vs = 1 /\ entry.val = V[k] /\ entry = [vs |-> entry.vs, val |-> entry.val]
        BY <3>1
      <3> QED BY <3>2, <3>3
    <2> QED BY <2>1, <2>2 DEF EntriesTyped
  <1>16. ContentHeld
    BY <1>3, <1>13, <1>14 DEF ContentHeld
  <1>17. RowsHeld
    <2>1. ASSUME NEW id \in PageIds, map[id] # None, NEW k \in visibility_keys(id, map[id])
          PROVE  present(get(k)) /\ get(k).val = page_pointer(id, map[id])
      BY <1>4, <1>5, <1>8, <2>1, SeedKeys
    <2> QED BY <1>14, <2>1 DEF RowsHeld
  <1>18. NoOtherRows
    <2>1. ASSUME NEW k \in DOMAIN kv, RowKey(k)
          PROVE  \E id \in PageIds : map[id] # None /\ k \in visibility_keys(id, map[id])
      BY <1>7, <1>11, <2>1, SeedKeys
    <2> QED BY <1>14, <2>1 DEF NoOtherRows, RowKey
  <1>19. ClaimedBy = [l \in Locators |-> Abstract!HolderIn(map, l)]
    <2>1. ASSUME NEW l \in Locators PROVE ClaimedBy[l] = Abstract!HolderIn(map, l)
      <3>1. PICK k : k = page_endpoint_claim_key(l)
        OBVIOUS
      <3>2. \A id, page : k \in visibility_keys(id, page) <=> l \in bindings(page.endpoint_set)
        BY <3>1, RowsOf
      <3>3. k \in DOMAIN V <=> \E id \in PageIds : /\ map[id] # None
                                                   /\ l \in bindings(map[id].endpoint_set)
        BY <1>11, <3>1, <3>2, SeedKeys, ClaimsAreRows
      <3>4. \A id \in PageIds : map[id] # None /\ l \in bindings(map[id].endpoint_set) =>
               V[k].page_id = id
        BY <1>3, <1>4, <3>2, PointersTyped
      <3>5. CASE k \in DOMAIN V
        <4>1. PICK p : p = CHOOSE q \in PageIds : /\ map[q] # None
                                                  /\ l \in bindings(map[q].endpoint_set)
          OBVIOUS
        <4>2. p \in PageIds /\ map[p] # None /\ l \in bindings(map[p].endpoint_set)
          BY <3>3, <3>5, <4>1
        <4>3. Abstract!HolderIn(map, l) = p
          BY <3>3, <3>5, <4>1, AbstractOperators DEF Abstract!HolderIn
        <4> QED BY <1>8, <3>1, <3>4, <3>5, <4>2, <4>3, ClaimedTyped
      <3>6. CASE k \notin DOMAIN V
        <4>1. Abstract!HolderIn(map, l) = None
          BY <3>3, <3>6, AbstractOperators DEF Abstract!HolderIn
        <4> QED BY <1>8, <3>1, <3>6, <4>1, ClaimedTyped
      <3> QED BY <3>5, <3>6
    <2>2. ClaimedBy = [l \in Locators |-> ClaimedBy[l]]
      BY DEF ClaimedBy
    <2> QED BY <2>1, <2>2
  <1> QED BY <1>2, <1>12, <1>13, <1>15, <1>16, <1>17, <1>18, <1>19 DEF StoreOK

(* So the invariant holds initially. *)
LEMMA InvariantInitially ==
    ASSUME Init
    PROVE  IInv /\ Abstract!Init
  <1>1. PICK s \in Scenarios :
           /\ kv = Stamped(VisibleEntries(s.store.pages, s.store.assets), 1) /\ clock = 1
           /\ requests = s.requests /\ client = [c \in Clients |-> Idle]
    BY DEF Init
  <1>2. PICK store : store = s.store
    OBVIOUS
  <1>3. store \in Seeds
    BY <1>2, ScenariosAssumption
  <1>4. /\ StoreOK
        /\ StoredPages = store.pages /\ StoredAssets = store.assets
        /\ ClaimedBy = [l \in Locators |-> Abstract!HolderIn(store.pages, l)]
    BY <1>1, <1>2, <1>3, SeedStore
  <1>5. Abstract!Init
    BY <1>3, <1>4 DEF Abstract!Init
  <1>6. FrameOK(Idle)
    BY IdleFields DEF FrameOK, Ended
  <1>7. /\ DOMAIN client = Clients /\ \A c \in Clients : FrameOK(client[c])
        /\ requests \subseteq UNION {t.requests : t \in Scenarios}
    BY <1>1, <1>6
  <1> QED BY <1>4, <1>5, <1>7 DEF IInv

-----------------------------------------------------------------------------
(* Theorems. *)

(* The inductive invariant: rows in step with pages, and every call knows  *)
(* at each of its awaits what its next step relies on.                     *)
THEOREM KeepsInvariant == Spec => []IInv
  <1>1. Init => IInv
    BY InvariantInitially
  <1>2. IInv /\ [Next]_vars => IInv'
    BY InvariantStep
  <1> QED BY <1>1, <1>2, PTL DEF Spec

(* Every commit is the requested operation of the abstract store, on the   *)
(* store as it is at that step, whatever other clients committed between   *)
(* the reads; nothing else but the appearance of an asset writes.          *)
THEOREM ImplementsThePageStore == Spec => ImplementsPageStore
  <1>1. Init => Abstract!Init
    BY InvariantInitially
  <1>2. ASSUME IInv, [Next]_vars, kv' # kv
        PROVE  \/ \E c \in Clients :
                     /\ client[c].at = "commit" /\ client'[c] # client[c]
                     /\ RequestedOperation(client[c].req)
               \/ \E a \in ContentAssets : Abstract!create_content_asset(a)
    <2>1. CASE \E req \in requests : create_content_asset(req)
      BY <1>2, <2>1, AssetStep
    <2>2. ASSUME NEW c \in Clients, Commit(c)
          PROVE  /\ client[c].at = "commit" /\ client'[c] # client[c]
                 /\ RequestedOperation(client[c].req)
      BY <1>2, <2>2, CommitStep
    <2>3. ASSUME NEW c \in Clients,
                 \/ SnapshotEntry(c) \/ SnapshotIndexes(c) \/ SnapshotAgain(c)
                 \/ Claims(c) \/ ClaimsAgain(c) \/ ProbeEntries(c)
                 \/ Destination(c) \/ Authority(c) \/ RowAgain(c)
          PROVE  UNCHANGED kv
      BY <1>2, <2>3, ReadsLand
    <2>4. ASSUME NEW c \in Clients,
                 \/ \E req \in requests : Call(c, req)
                 \/ ListRows(c) \/ Crash(c)
          PROVE  UNCHANGED kv
      BY <2>4 DEF Call, ListRows, Crash
    <2> QED BY <1>2, <2>1, <2>2, <2>3, <2>4 DEF Next, vars
  <1> QED BY <1>1, <1>2, KeepsInvariant, PTL DEF Spec, ImplementsPageStore

(* A frame is at one of the awaits. *)
LEMMA PlacesOfFrames ==
    ASSUME NEW f, FrameOK(f)
    PROVE  f.at \in Places
  <1>1. CASE f.at \in Ended
    BY <1>1 DEF Ended, Places
  <1>2. CASE f.at \notin Ended
    <2>1. Waits(f, f.at, f.pending \cup DOMAIN f.got)
      BY <1>2 DEF FrameOK, AtOK
    <2>2. \A at, keys : Waits(f, at, keys) => at \in Places
      BY DEF Waits, Places
    <2> QED BY <2>1, <2>2
  <1> QED BY <1>1, <1>2

(* The invariant says what the indexes are. *)
LEMMA RowsMatch ==
    ASSUME IInv
    PROVE  IndexesMatchPages
  <1> DEFINE Rows(id, page) ==
                 {page_endpoint_claim_key(l) : l \in bindings(page.endpoint_set)} \cup
                 {k \in {page_aggregate_owner_key(page.owner, page.endpoint_set.canonical, id)} :
                     page.owner # None} \cup
                 {k \in {page_aggregate_public_key(page.endpoint_set.canonical, id)} :
                     page.owner # None /\ page.access = "public"}
             stored == {id \in PageIds : StoredPages[id] # None}
             held == {<<k, kv[k].val>> : k \in DOMAIN kv \ (PageKeys \cup ManifestKeys)}
             due == UNION {Rows(id, StoredPages[id]) \X {page_pointer(id, StoredPages[id])} :
                           id \in stored}
  <1>1. TypeOK
    <2>1. \A c \in Clients : client[c].at \in Places
      BY PlacesOfFrames DEF IInv
    <2>2. \A k \in DOMAIN kv :
             /\ kv[k].vs \in 1 .. clock
             /\ kv[k].val \in (IF k \in PageKeys THEN PageAggregate
                               ELSE IF k \in ManifestKeys THEN {k[2]} ELSE Pointer)
      BY DEF IInv, StoreOK, EntriesTyped, TypeOf
    <2> QED BY <2>1, <2>2 DEF TypeOK, IInv, StoreOK, EntriesTyped
  <1>2. \A id, page : Rows(id, page) = visibility_keys(id, page)
    BY DEF visibility_keys, endpoint_keys, projection_keys
  <1>3. \A id \in PageIds : id \in stored <=> Stored(id)
    BY StoredTyped DEF IInv, StoreOK, Page
  <1>4. \A id : Page(id) = StoredPages[id]
    BY DEF Page
  <1>5. ASSUME NEW k \in DOMAIN kv \ (PageKeys \cup ManifestKeys)
        PROVE  <<k, kv[k].val>> \in due
    <2>1. RowKey(k) /\ present(get(k)) /\ kv[k] = get(k)
      BY EntriesOfGet DEF RowKey, IInv, StoreOK
    <2>2. PICK id : id = get(k).val.page_id
      OBVIOUS
    <2>3. /\ id \in PageIds /\ Stored(id)
          /\ k \in visibility_keys(id, Page(id)) /\ get(k).val = page_pointer(id, Page(id))
      BY <2>1, <2>2, RowLeadsHome DEF IInv
    <2>4. id \in stored /\ k \in Rows(id, StoredPages[id])
          /\ kv[k].val = page_pointer(id, StoredPages[id])
      BY <1>2, <1>3, <1>4, <2>1, <2>3
    <2> HIDE DEF Rows, stored
    <2> QED BY <2>4
  <1>6. ASSUME NEW id \in stored, NEW k \in Rows(id, StoredPages[id])
        PROVE  <<k, page_pointer(id, StoredPages[id])>> \in held
    <2>1. id \in PageIds /\ Stored(id) /\ k \in visibility_keys(id, Page(id))
      BY <1>2, <1>3, <1>4, <1>6
    <2>2. RowKey(k) /\ present(get(k)) /\ get(k).val = page_pointer(id, Page(id))
      BY <2>1, RowsOf DEF IInv, StoreOK, RowsHeld
    <2>3. k \in DOMAIN kv /\ kv[k] = get(k)
      BY <2>2, EntriesOfGet
    <2> HIDE DEF Rows, stored
    <2> QED BY <1>4, <2>2, <2>3 DEF RowKey
  <1>7. held = due
    <2>1. held \subseteq due
      BY <1>5
    <2> HIDE DEF Rows, stored
    <2>2. ASSUME NEW x \in due PROVE x \in held
      <3>1. PICK id \in stored :
               x \in Rows(id, StoredPages[id]) \X {page_pointer(id, StoredPages[id])}
        BY <2>2
      <3>2. PICK k \in Rows(id, StoredPages[id]) : x = <<k, page_pointer(id, StoredPages[id])>>
        BY <3>1
      <3> QED BY <1>6, <3>2
    <2> QED BY <2>1, <2>2
  <1> QED BY <1>1, <1>7 DEF IndexesMatchPages

(* The endpoint claims, owner rows and public rows are those of the stored *)
(* pages at every moment, whatever the interleaving and wherever a process *)
(* stops.                                                                  *)
THEOREM RowsAreThoseOfThePages == Spec => []IndexesMatchPages
  <1>1. IInv => IndexesMatchPages
    BY RowsMatch
  <1> QED BY <1>1, KeepsInvariant, PTL

-----------------------------------------------------------------------------
(* Why no call is misled: what it has read, as far as it is still stored,  *)
(* fits together.                                                          *)

(* Generated ids are not drawn twice. *)
IdsDrawnOnce ==
    \A s \in Scenarios : \A p, q \in s.requests :
        p.kind \in NewKinds /\ q.kind \in NewKinds /\ p.new_id = q.new_id => p = q

(* An entry read earlier has not been written since. *)
Still(k, entry) == present(entry) /\ get(k).vs = entry.vs

(* The content comes from the page that is read. *)
Inherits(req) ==
    req.kind = "duplicate" \/ (req.kind = "update" /\ req.patch.content_asset_id = None)

(* The page has been read, not yet for the second time. *)
Fetched == {"snapshot indexes", "snapshot again"}

(* Awaits of one read. *)
SinglesPending(f) ==
    /\ f.at \in {"snapshot entry", "snapshot again"} =>
          f.pending = {page_aggregate_storage_key(f.reading)}
    /\ f.at = "row again" => f.pending = {f.row[1]}
    /\ f.at = "authority" => f.pending = {page_aggregate_storage_key(f.id)}

(* A record of a stamp and a value, and nothing else. *)
IsEntry(entry) == entry = [vs |-> entry.vs, val |-> entry.val]

(* The rows read of a page that has not changed since are its rows.        *)
PageWatched(f) ==
    f.at \in Fetched =>
        /\ IsEntry(f.entry) /\ \A k \in DOMAIN f.got : IsEntry(f.got[k])
        /\ f.entry.val.content_asset_id \in StoredAssets
        /\ Still(page_aggregate_storage_key(f.reading), f.entry) =>
              \A k \in DOMAIN f.got :
                  k \in visibility_keys(f.reading, f.entry.val) =>
                      f.got[k].val = page_pointer(f.reading, f.entry.val)

(* A claim that has not changed since is one of the snapshot of its page,  *)
Matched(f, k) ==
    \E s \in f.snapshots :
        /\ f.targets[k].val = page_pointer(s.id, s.page)
        /\ k \in DOMAIN s.index /\ s.index[k].vs = f.targets[k].vs

(* or of the page that is being read,                                      *)
ClaimFits(f, k) ==
    /\ k \in visibility_keys(f.reading, f.entry.val)
    /\ f.targets[k].val = page_pointer(f.reading, f.entry.val)

Matching(f, k) ==
    /\ f.at \in Snapshotting /\ f.targets[k].val.page_id = f.reading
    /\ f.at \in Fetched =>
          /\ ClaimFits(f, k)
          /\ k \in DOMAIN f.got => f.got[k].vs = f.targets[k].vs

(* or its page is still to be read.                                        *)
Chased(f, k) == f.targets[k].val.page_id \in f.queue \/ Matched(f, k)

ClaimsWatched(f) ==
    /\ f.at \in Snapshotting => \A k \in DOMAIN f.targets :
          Still(k, f.targets[k]) => Chased(f, k) \/ Matching(f, k)
    /\ f.at = "claims again" => \A k \in DOMAIN f.targets :
          /\ Still(k, f.targets[k]) => Matched(f, k)
          /\ k \in DOMAIN f.got /\ present(f.targets[k]) /\ f.got[k].vs = f.targets[k].vs =>
                Matched(f, k)

(* A listed row that has not changed since is a row of its page.           *)
RowFits(f) ==
    /\ f.row[1] \in projection_keys(f.reading, f.entry.val)
    /\ f.row[2].val.revision = f.entry.val.revision

RowWatched(f) ==
    f.req.kind = "list" =>
        /\ f.at \in Snapshotting => f.reading = f.row[2].val.page_id
        /\ f.at \in Fetched /\ Still(f.row[1], f.row[2]) => RowFits(f)
        /\ f.at = "row again" => ~Still(f.row[1], f.row[2])

(* Content that was stored is stored. *)
ContentKept(f) ==
    f.existing # None => f.existing.page.content_asset_id \in StoredAssets

ContentWatched(f) ==
    /\ ContentKept(f)
    /\ f.at = "probe" /\ Inherits(f.req) =>
          \A k \in DOMAIN f.got : k \in ManifestKeys => present(f.got[k])

(* An id that was free is free: nobody else draws it. *)
Drawing(f) == f.req.kind \in {"create", "duplicate"}

IdWatched(f) ==
    Drawing(f) /\ IdsDrawnOnce =>
        /\ f.at = "probe" => \A k \in DOMAIN f.got :
              k \in PageKeys /\ ~present(f.got[k]) => ~Stored(f.req.new_id)
        /\ f.at \in {"destination", "authority"} => ~Stored(f.req.new_id)

(* How a row of another page can be where the new one belongs.             *)
InTheWay(f) ==
    \/ /\ f.req.kind = "update"
       /\ ~Still(page_aggregate_storage_key(f.id), f.existing.entry)
    \/ Drawing(f) /\ ~IdsDrawnOnce

(* A row in the way of an update is one the updated page already had, or   *)
(* the page has changed.                                                   *)
DestinationWatched(f) ==
    /\ f.at = "destination" =>
          /\ Drawing(f) \/ f.req.kind = "update"
          /\ f.pending \cup DOMAIN f.got = projection_keys(f.id, f.page)
          /\ \A k \in DOMAIN f.got : present(f.got[k]) =>
                InTheWay(f) \/ (f.req.kind = "update" /\ k \in DOMAIN f.existing.index)
    /\ f.at = "authority" => InTheWay(f)

(* No answer yet; a resolution goes on if the endpoint is claimed.         *)
Unanswered(f) ==
    /\ f.reply = None
    /\ f.req.kind = "resolve" /\ f.at \in Snapshotting \cup {"claims again"} =>
          \A k \in DOMAIN f.targets : present(f.targets[k])

Informed(f) ==
    /\ Unanswered(f) /\ PageWatched(f) /\ ClaimsWatched(f) /\ RowWatched(f)
    /\ ContentWatched(f) /\ IdWatched(f) /\ DestinationWatched(f)

Watched(f) == SinglesPending(f) /\ Informed(f)

(* A frame that is not misled, unless ids are drawn twice. *)
Sane(f) ==
    /\ f.at = "invariant violated" => ~IdsDrawnOnce /\ Drawing(f)
    /\ f.at \notin Ended => Watched(f)

(* A call is under way. *)
Running(c) == client[c].at \notin Ended

(* The calls of one scenario, each made once. *)
CalledOnce ==
    \E s \in Scenarios :
        /\ requests \subseteq s.requests
        /\ \A c \in Clients : Running(c) => client[c].req \in s.requests \ requests
        /\ \A c, d \in Clients : Running(c) /\ Running(d) /\ c # d =>
              client[c].req # client[d].req

Sanity == CalledOnce /\ \A c \in Clients : Sane(client[c])
-----------------------------------------------------------------------------
(* The call of client c goes on, not misled, or ends. *)
Goes(c, req) == \E g : Become(c, g) /\ Sane(g) /\ (g.at \notin Ended => g.req = req)

(* A call that ends is not misled. *)
LEMMA AtEndSane ==
    ASSUME NEW c, NEW g, NEW req, Become(c, g),
           g.at = "idle" \/ g.at = "contention exhausted"
    PROVE  Goes(c, req)
  <1>1. Sane(g) /\ g.at \in Ended
    BY DEF Sane, Ended
  <1> QED BY <1>1 DEF Goes

(* So does an answer, a failure, or an exception that is no one's fault.  *)
LEMMA EndsSane ==
    ASSUME NEW c, NEW f, DOMAIN f = DOMAIN Idle, NEW reply, NEW shots, NEW req
    PROVE  /\ Return(c, reply) => Goes(c, req)
           /\ Found(c, shots) => Goes(c, req)
           /\ contention_exhausted(c, f) => Goes(c, req)
           /\ invariant_violation(c, f) /\ ~IdsDrawnOnce /\ Drawing(f) => Goes(c, req)
  <1>2. ASSUME Return(c, reply) PROVE Goes(c, req)
    <2>1. PICK g : g = [Idle EXCEPT !.reply = reply]
      OBVIOUS
    <2>2. g.at = "idle"
      BY <2>1 DEF Idle
    <2>3. Become(c, g)
      BY <1>2, <2>1 DEF Return
    <2>4. g.at = "idle" \/ g.at = "contention exhausted"
      BY <2>2
    <2> QED BY <2>3, <2>4, AtEndSane
  <1>3. ASSUME Found(c, shots) PROVE Goes(c, req)
    <2>1. PICK g : g = [Idle EXCEPT !.reply = "found", !.snapshots = shots]
      OBVIOUS
    <2>2. g.at = "idle"
      BY <2>1 DEF Idle
    <2>3. Become(c, g)
      BY <1>3, <2>1 DEF Found
    <2>4. g.at = "idle" \/ g.at = "contention exhausted"
      BY <2>2
    <2> QED BY <2>3, <2>4, AtEndSane
  <1>4. ASSUME contention_exhausted(c, f) PROVE Goes(c, req)
    <2>1. PICK g : g = [f EXCEPT !.at = "contention exhausted", !.pending = {}, !.got = NoEntries]
      OBVIOUS
    <2>2. g.at = "contention exhausted"
      BY <2>1, IdleFields
    <2>3. Become(c, g)
      BY <1>4, <2>1 DEF contention_exhausted, Throw
    <2>4. g.at = "idle" \/ g.at = "contention exhausted"
      BY <2>2
    <2> QED BY <2>3, <2>4, AtEndSane
  <1>5. ASSUME invariant_violation(c, f), ~IdsDrawnOnce, Drawing(f) PROVE Goes(c, req)
    <2>1. PICK g : g = [f EXCEPT !.at = "invariant violated", !.pending = {}, !.got = NoEntries]
      OBVIOUS
    <2>2. g.at = "invariant violated" /\ g.req = f.req
      BY <2>1, IdleFields
    <2>3. Sane(g)
      BY <1>5, <2>2 DEF Sane, Ended, Drawing
    <2> QED BY <1>5, <2>1, <2>2, <2>3 DEF Goes, invariant_violation, Throw, Ended
  <1> QED BY <1>2, <1>3, <1>4, <1>5

(* What an await needs when none of its reads has returned. *)
Sought(f, at, k) ==
    f.targets[k].val.page_id = f.reading /\ (at = "snapshot indexes" => ClaimFits(f, k))

Prepared(f, at, keys) ==
    /\ f.reply = None /\ ContentKept(f)
    /\ at = "snapshot entry" => keys = {page_aggregate_storage_key(f.reading)}
    /\ at = "row again" => keys = {f.row[1]}
    /\ at = "authority" => keys = {page_aggregate_storage_key(f.id)}
    /\ at = "snapshot indexes" =>
          IsEntry(f.entry) /\ f.entry.val.content_asset_id \in StoredAssets
    /\ f.req.kind = "resolve" /\ at \in Snapshotting \cup {"claims again"} =>
          \A k \in DOMAIN f.targets : present(f.targets[k])
    /\ at \in Snapshotting => \A k \in DOMAIN f.targets :
          Still(k, f.targets[k]) => Chased(f, k) \/ Sought(f, at, k)
    /\ at = "claims again" => \A k \in DOMAIN f.targets : Still(k, f.targets[k]) => Matched(f, k)
    /\ f.req.kind = "list" =>
          /\ at \in Snapshotting => f.reading = f.row[2].val.page_id
          /\ at = "snapshot indexes" /\ Still(f.row[1], f.row[2]) => RowFits(f)
          /\ at = "row again" => ~Still(f.row[1], f.row[2])
    /\ Drawing(f) /\ IdsDrawnOnce /\ at \in {"destination", "authority"} => ~Stored(f.req.new_id)
    /\ at = "destination" =>
          /\ Drawing(f) \/ f.req.kind = "update"
          /\ keys = projection_keys(f.id, f.page)
    /\ at = "authority" => InTheWay(f)

(* A call that reaches an await so prepared is not misled. *)
LEMMA AwaitsSane ==
    ASSUME NEW c, NEW f, NEW at, NEW keys, DOMAIN f = DOMAIN Idle, Await(c, f, at, keys),
           at \notin Ended, at # "snapshot again", Prepared(f, at, keys)
    PROVE  Goes(c, f.req)
  <1>1. PICK g : g = [f EXCEPT !.at = at, !.pending = keys, !.got = NoEntries]
    OBVIOUS
  <1>2. /\ g.at = at /\ g.pending = keys /\ g.got = NoEntries /\ g.reply = f.reply
        /\ Same(f, g) /\ DOMAIN g.got = {}
    BY <1>1, IdleFields, NothingSeen DEF Same
  <1> USE DEF Same, Prepared
  <1>3. SinglesPending(g)
    BY <1>2 DEF SinglesPending
  <1>4. Unanswered(g)
    BY <1>2 DEF Unanswered
  <1>5. PageWatched(g)
    BY <1>2 DEF PageWatched, Fetched
  <1>6. ClaimsWatched(g)
    <2>1. ASSUME NEW k \in DOMAIN g.targets
          PROVE  /\ Chased(f, k) => Chased(g, k)
                 /\ Matched(f, k) => Matched(g, k)
                 /\ at \in Snapshotting /\ Sought(f, at, k) => Matching(g, k)
      BY <1>2 DEF Chased, Matched, Matching, Sought, ClaimFits, Fetched
    <2> QED BY <1>2, <2>1 DEF ClaimsWatched
  <1>7. RowWatched(g)
    BY <1>2 DEF RowWatched, RowFits, Fetched
  <1>8. ContentWatched(g)
    BY <1>2 DEF ContentWatched, ContentKept
  <1>9. IdWatched(g)
    BY <1>2 DEF IdWatched, Drawing
  <1>10. DestinationWatched(g)
    BY <1>2 DEF DestinationWatched, Drawing, InTheWay
  <1>11. Sane(g)
    BY <1>2, <1>3, <1>4, <1>5, <1>6, <1>7, <1>8, <1>9, <1>10 DEF Sane, Watched, Informed, Ended
  <1> QED BY <1>1, <1>2, <1>11 DEF Goes, Await

-----------------------------------------------------------------------------
(* The first reads of an attempt. *)

(* A call without an answer, whose page's content is stored. *)
Knowing(f) == DOMAIN f = DOMAIN Idle /\ f.reply = None /\ ContentKept(f)

(* An await that tells nothing of earlier reads. *)
LEMMA PlainAwaitsSane ==
    ASSUME NEW c, NEW f, Knowing(f), NEW at, NEW keys, Await(c, f, at, keys),
           at = "claims" \/ at = "probe" \/ at = "commit" \/ at = "list"
    PROVE  Goes(c, f.req)
  <1>1. Prepared(f, at, keys)
    BY DEF Prepared, Knowing, Snapshotting
  <1> QED BY <1>1, AwaitsSane DEF Ended, Knowing

(* A snapshot of page id begins, and id is where the claims led. *)
LEMMA SnapshotSane ==
    ASSUME NEW c, NEW f, Knowing(f), NEW id, read_snapshot(c, f, id),
           f.req.kind = "resolve" => \A k \in DOMAIN f.targets : present(f.targets[k]),
           \A k \in DOMAIN f.targets :
              Still(k, f.targets[k]) => Chased(f, k) \/ f.targets[k].val.page_id = id,
           f.req.kind = "list" => id = f.row[2].val.page_id
    PROVE  Goes(c, f.req)
  <1>1. PICK h : h = [f EXCEPT !.reading = id, !.snapshot_attempt = 0]
    OBVIOUS
  <1>2. /\ DOMAIN h = DOMAIN Idle /\ h.reading = id /\ h.req = f.req /\ h.targets = f.targets
        /\ h.snapshots = f.snapshots /\ h.queue = f.queue /\ h.reply = f.reply
        /\ h.existing = f.existing /\ h.row = f.row
    BY <1>1, IdleFields DEF Knowing
  <1>3. ASSUME NEW k \in DOMAIN h.targets
        PROVE  /\ Chased(f, k) => Chased(h, k)
               /\ f.targets[k].val.page_id = id => Sought(h, "snapshot entry", k)
    BY <1>2 DEF Chased, Matched, Sought
  <1>0. PICK keys : keys = {page_aggregate_storage_key(h.reading)}
    OBVIOUS
  <1>4. Prepared(h, "snapshot entry", keys)
    BY <1>0, <1>2, <1>3 DEF Prepared, Knowing, ContentKept
  <1>5. Await(c, h, "snapshot entry", keys)
    BY <1>0, <1>1, <1>2 DEF read_snapshot
  <1>6. Goes(c, h.req)
    BY <1>2, <1>4, <1>5, AwaitsSane DEF Ended
  <1> QED BY <1>2, <1>6

(* The claims of the wanted endpoints begin to be read. *)
LEMMA ClaimsSane ==
    ASSUME NEW c, NEW f, Knowing(f), NEW keys, read_claimed_endpoint_state(c, f, keys)
    PROVE  Goes(c, f.req)
  <1>1. PICK h : h = [f EXCEPT !.claim_attempt = 0, !.snapshots = {}]
    OBVIOUS
  <1>2. /\ DOMAIN h = DOMAIN Idle /\ h.req = f.req /\ h.reply = f.reply
        /\ h.existing = f.existing
    BY <1>1, IdleFields DEF Knowing
  <1>3. Knowing(h)
    BY <1>2 DEF Knowing, ContentKept
  <1>4. PICK at : at = "claims"
    OBVIOUS
  <1>5. Await(c, h, at, keys)
    BY <1>1, <1>4 DEF read_claimed_endpoint_state
  <1>6. Goes(c, h.req)
    BY <1>3, <1>4, <1>5, PlainAwaitsSane
  <1> QED BY <1>2, <1>6

(* An attempt starts with nothing read. *)
LEMMA AttemptSane ==
    ASSUME NEW c, NEW f, Fresh(f), f.reply = None, Attempt(c, f)
    PROVE  Goes(c, f.req)
  <1>1. Knowing(f)
    BY DEF Fresh, Knowing, ContentKept
  <1>2. DOMAIN f.targets = {}
    BY NothingSeen DEF Fresh, NoClaims
  <1>3. CASE \E keys : read_claimed_endpoint_state(c, f, keys)
    BY <1>1, <1>3, ClaimsSane
  <1>4. CASE read_snapshot(c, f, f.req.id) /\ f.req.kind # "list"
    BY <1>1, <1>2, <1>4, SnapshotSane
  <1>5. CASE Await(c, f, "list", {})
    BY <1>1, <1>5, PlainAwaitsSane
  <1> QED BY <1>3, <1>4, <1>5 DEF Attempt

(* A retry starts over, or gives up. *)
LEMMA RetrySane ==
    ASSUME NEW c, NEW f, f.req \in Request, Retry(c, f)
    PROVE  Goes(c, f.req)
  <1>1. PICK again : again = [Idle EXCEPT !.req = f.req, !.attempt = f.attempt + 1]
    OBVIOUS
  <1>2. Fresh(again) /\ again.reply = None /\ again.req = f.req
    BY <1>1, IdleFields DEF Fresh, NoClaims, Idle
  <1>3. CASE Attempt(c, again)
    <2>1. Goes(c, again.req)
      BY <1>2, <1>3, AttemptSane
    <2> QED BY <1>2, <2>1
  <1>4. CASE contention_exhausted(c, again)
    BY <1>2, <1>4, EndsSane DEF Fresh
  <1> QED BY <1>1, <1>3, <1>4 DEF Retry

-----------------------------------------------------------------------------
(* What follows a snapshot. *)

(* The content of a snapshot's page is stored. *)
Kept(snapshot) == snapshot # None => snapshot.page.content_asset_id \in StoredAssets

(* The page of an edit or of a health report was read. *)
LEMMA ExistingSane ==
    ASSUME NEW c, NEW f, Knowing(f), NEW snapshot, Kept(snapshot), ExistingRead(c, f, snapshot)
    PROVE  Goes(c, f.req)
  <1>1. PICK req : req = f.req
    OBVIOUS
  <1>2. PICK next : next = [f EXCEPT !.existing = snapshot]
    OBVIOUS
  <1>3. Knowing(next) /\ next.req = req
    BY <1>1, <1>2, IdleFields DEF Knowing, ContentKept, Kept
  <1>4. ASSUME NEW id, NEW page, NEW h, h = Plan(next, id, page)
        PROVE  Knowing(h) /\ h.req = req
    BY <1>3, <1>4, IdleFields DEF Plan, Knowing, ContentKept
  <1>5. ASSUME NEW h, Knowing(h), h.req = req, NEW at, at = "commit" \/ at = "probe", NEW keys,
               Await(c, h, at, keys)
        PROVE  Goes(c, req)
    <2>1. Goes(c, h.req)
      BY <1>5, PlainAwaitsSane
    <2> QED BY <1>5, <2>1
  <1>6. ASSUME NEW reply, Return(c, reply) PROVE Goes(c, req)
    BY <1>6, EndsSane DEF Knowing
  <1>7. CASE \E shots : Found(c, shots)
    BY <1>1, <1>7, EndsSane DEF Knowing
  <1>8. CASE \E reply : Return(c, reply)
    BY <1>1, <1>6, <1>8
  <1>9. ASSUME NEW id, NEW page, Ready(c, Plan(next, id, page)) PROVE Goes(c, req)
    <2>1. PICK h : h = Plan(next, id, page)
      OBVIOUS
    <2> QED BY <1>4, <1>5, <1>9, <2>1 DEF Ready
  <1>10. CASE Ready(c, next)
    BY <1>1, <1>3, <1>5, <1>10 DEF Ready
  <1>11. ASSUME NEW id, NEW page, NEW a, Probe(c, Plan(next, id, page), a, FALSE) PROVE Goes(c, req)
    <2>1. PICK h : h = Plan(next, id, page)
      OBVIOUS
    <2> QED BY <1>4, <1>5, <1>11, <2>1 DEF Probe
  <1>12. ASSUME NEW id, NEW page, NEW keys,
                read_claimed_endpoint_state(c, Plan(next, id, page), keys)
         PROVE  Goes(c, req)
    <2>1. PICK h : h = Plan(next, id, page)
      OBVIOUS
    <2>2. Goes(c, h.req)
      BY <1>4, <1>12, <2>1, ClaimsSane
    <2> QED BY <1>4, <2>1, <2>2
  <1>13. CASE f.req.kind = "find"
    BY <1>7, <1>13 DEF ExistingRead
  <1>14. CASE f.req.kind = "health"
    BY <1>1, <1>2, <1>8, <1>9, <1>14 DEF ExistingRead
  <1>15. CASE f.req.kind \in {"update", "duplicate", "delete"}
    BY <1>1, <1>2, <1>8, <1>9, <1>10, <1>11, <1>12, <1>15 DEF ExistingRead, Refused
  <1> QED BY <1>13, <1>14, <1>15 DEF ExistingRead

(* All targets of a resolution are present. *)
Bound(f) == f.req.kind = "resolve" => \A k \in DOMAIN f.targets : present(f.targets[k])

(* The next claimed page, or the second reading of the claims. *)
LEMMA NextClaimedSane ==
    ASSUME NEW c, NEW f, Knowing(f), Bound(f), f.req.kind # "list",
           \A k \in DOMAIN f.targets : Still(k, f.targets[k]) => Chased(f, k),
           NextClaimed(c, f)
    PROVE  Goes(c, f.req)
  <1>1. CASE f.queue = {}
    <2>1. PICK keys : keys = DOMAIN f.targets /\ Await(c, f, "claims again", keys)
      BY <1>1 DEF NextClaimed
    <2>2. Prepared(f, "claims again", keys)
      BY <1>1 DEF Prepared, Knowing, Bound, Chased, Snapshotting
    <2> QED BY <2>1, <2>2, AwaitsSane DEF Knowing, Ended
  <1>2. CASE f.queue # {}
    <2>1. PICK id \in f.queue : read_snapshot(c, [f EXCEPT !.queue = @ \ {id}], id)
      BY <1>2 DEF NextClaimed
    <2>2. PICK g : g = [f EXCEPT !.queue = @ \ {id}]
      OBVIOUS
    <2>3. /\ DOMAIN g = DOMAIN Idle /\ g.queue = f.queue \ {id} /\ g.req = f.req
          /\ g.targets = f.targets /\ g.snapshots = f.snapshots /\ g.existing = f.existing
          /\ g.reply = f.reply
      BY <2>2, IdleFields DEF Knowing
    <2>4. ASSUME NEW k \in DOMAIN f.targets, Chased(f, k)
          PROVE  Chased(g, k) \/ f.targets[k].val.page_id = id
      BY <2>3, <2>4 DEF Chased, Matched
    <2>5. Knowing(g)
      BY <2>3 DEF Knowing, ContentKept
    <2>6. Goes(c, g.req)
      BY <2>1, <2>2, <2>3, <2>4, <2>5, SnapshotSane DEF Bound
    <2> QED BY <2>3, <2>6
  <1> QED BY <1>1, <1>2

(* Listings. *)
LEMMA NextRowSane ==
    ASSUME NEW c, NEW f, Knowing(f), Listing(f), NextRow(c, f)
    PROVE  Goes(c, f.req)
  <1>1. CASE DOMAIN f.rows = {}
    BY <1>1, EndsSane DEF NextRow, Knowing
  <1>2. CASE DOMAIN f.rows # {}
    <2>1. PICK row \in DOMAIN f.rows :
            read_snapshot(c, [f EXCEPT !.row = <<row, f.rows[row]>>,
                                       !.rows = [k \in DOMAIN f.rows \ {row} |-> f.rows[k]]],
                          f.rows[row].val.page_id)
      BY <1>2 DEF NextRow
    <2>2. PICK entry : entry = f.rows[row]
      OBVIOUS
    <2>3. PICK g : g = [f EXCEPT !.row = <<row, entry>>,
                                 !.rows = [k \in DOMAIN f.rows \ {row} |-> f.rows[k]]]
      OBVIOUS
    <2>4. /\ DOMAIN g = DOMAIN Idle /\ g.req = f.req /\ g.row = <<row, entry>>
          /\ g.targets = f.targets /\ g.existing = f.existing /\ g.reply = f.reply
      BY <2>3, IdleFields DEF Knowing
    <2>5. Knowing(g)
      BY <2>4 DEF Knowing, ContentKept
    <2>6. DOMAIN g.targets = {} /\ g.req.kind # "resolve"
      BY <2>4, NothingSeen DEF Listing
    <2>7. g.row[2] = entry
      BY <2>4
    <2>8. Goes(c, g.req)
      BY <2>1, <2>2, <2>3, <2>5, <2>6, <2>7, SnapshotSane
    <2> QED BY <2>4, <2>8
  <1> QED BY <1>1, <1>2

(* A row whose page has been read; the row has changed if they disagree.   *)
LEMMA RowReadSane ==
    ASSUME NEW c, NEW f, Knowing(f), Listing(f), NEW snapshot,
           Still(f.row[1], f.row[2]) => RowMatches(f, snapshot), RowRead(c, f, snapshot)
    PROVE  Goes(c, f.req)
  <1>1. CASE RowMatches(f, snapshot) /\ NextRow(c, [f EXCEPT !.snapshots = @ \cup {snapshot}])
    <2>1. PICK g : g = [f EXCEPT !.snapshots = @ \cup {snapshot}]
      OBVIOUS
    <2>2. Knowing(g) /\ Listing(g) /\ g.req = f.req
      BY <2>1, IdleFields DEF Knowing, Listing, ContentKept
    <2>3. Goes(c, g.req)
      BY <1>1, <2>1, <2>2, NextRowSane
    <2> QED BY <2>2, <2>3
  <1>2. CASE ~RowMatches(f, snapshot) /\ Await(c, f, "row again", {f.row[1]})
    <2>1. PICK keys : keys = {f.row[1]}
      OBVIOUS
    <2>2. Prepared(f, "row again", keys)
      BY <1>2, <2>1 DEF Prepared, Knowing, Listing, Snapshotting
    <2>3. Await(c, f, "row again", keys)
      BY <1>2, <2>1
    <2> QED BY <2>2, <2>3, AwaitsSane DEF Knowing, Ended
  <1> QED BY <1>1, <1>2 DEF RowRead

(* A claim that is a row of the page just read. *)
Joins(f, snapshot, k) ==
    /\ snapshot # None /\ f.targets[k].val = page_pointer(snapshot.id, snapshot.page)
    /\ k \in DOMAIN snapshot.index /\ snapshot.index[k].vs = f.targets[k].vs

(* The page that was being read is known, or known to be absent.           *)
LEMMA SnapshotReadSane ==
    ASSUME NEW c, NEW f, Knowing(f), Fetching(f), Bound(f), NEW snapshot, Kept(snapshot),
           f.req.kind = "list" => (Still(f.row[1], f.row[2]) => RowMatches(f, snapshot)),
           \A k \in DOMAIN f.targets :
              Still(k, f.targets[k]) => Chased(f, k) \/ Joins(f, snapshot, k),
           SnapshotRead(c, f, snapshot)
    PROVE  Goes(c, f.req)
  <1>1. CASE f.req.kind = "list"
    <2>1. Listing(f)
      BY <1>1 DEF Fetching, Editing, Claiming, Asking
    <2>2. RowRead(c, f, snapshot)
      BY <1>1, <2>1 DEF SnapshotRead, Listing
    <2> QED BY <1>1, <2>1, <2>2, RowReadSane
  <1>2. CASE f.targets # NoEntries /\ f.req.kind # "list"
    <2>1. NextClaimed(c, [f EXCEPT !.snapshots = @ \cup ({snapshot} \ {None})])
      BY <1>2 DEF SnapshotRead
    <2>2. PICK g : g = [f EXCEPT !.snapshots = @ \cup ({snapshot} \ {None})]
      OBVIOUS
    <2>3. /\ DOMAIN g = DOMAIN Idle /\ g.req = f.req
          /\ g.snapshots = f.snapshots \cup ({snapshot} \ {None}) /\ g.queue = f.queue
          /\ g.targets = f.targets /\ g.existing = f.existing /\ g.reply = f.reply
      BY <2>2, IdleFields DEF Knowing
    <2>4. Knowing(g) /\ Bound(g)
      BY <2>3 DEF Knowing, ContentKept, Bound
    <2>5. ASSUME NEW k \in DOMAIN g.targets, Still(k, g.targets[k])
          PROVE  Chased(g, k)
      <3>1. Chased(f, k) \/ Joins(f, snapshot, k)
        BY <2>3, <2>5
      <3>2. Chased(f, k) => Chased(g, k)
        BY <2>3 DEF Chased, Matched
      <3>3. Joins(f, snapshot, k) => Chased(g, k)
        BY <2>3 DEF Chased, Matched, Joins
      <3> QED BY <3>1, <3>2, <3>3
    <2>6. Goes(c, g.req)
      BY <1>2, <2>1, <2>2, <2>3, <2>4, <2>5, NextClaimedSane
    <2> QED BY <2>3, <2>6
  <1>3. CASE f.targets = NoEntries /\ f.req.kind # "list"
    BY <1>3, ExistingSane DEF SnapshotRead
  <1> QED BY <1>1, <1>2, <1>3

-----------------------------------------------------------------------------
(* #read_snapshot. *)

(* A row that has not been written since it was read is a row of its page. *)
LEMMA RowStill ==
    ASSUME StoreOK, NEW k, RowKey(k), NEW entry, Seen(k, entry), Still(k, entry), NEW id,
           id = entry.val.page_id
    PROVE  /\ id \in PageIds /\ Stored(id) /\ k \in visibility_keys(id, Page(id))
           /\ entry.val = page_pointer(id, Page(id)) /\ get(k) = entry
  <1>1. get(k) = entry /\ present(get(k))
    BY DEF Seen, Still
  <1> QED BY <1>1, RowLeadsHome

(* The row of a listing that is a row of a page is not one of its claims.  *)
LEMMA ListedAreProjections ==
    ASSUME NEW req, NEW k, Lists(req, k), NEW id, NEW page, k \in visibility_keys(id, page)
    PROVE  k \in projection_keys(id, page)
  <1>1. \A l : page_endpoint_claim_key(l)[1] = "by-endpoint"
    BY DEF page_endpoint_claim_key
  <1>2. k \notin endpoint_keys(page)
    BY <1>1 DEF Lists, endpoint_keys
  <1> QED BY <1>2 DEF visibility_keys

(* The claims and the row of a frame, as far as they are still stored. *)
LEMMA ClaimStill ==
    ASSUME StoreOK, NEW f, Steady(f), Fetching(f), NEW k \in DOMAIN f.targets,
           Still(k, f.targets[k]), NEW id, id = f.targets[k].val.page_id
    PROVE  /\ id \in PageIds /\ Stored(id) /\ k \in visibility_keys(id, Page(id))
           /\ f.targets[k].val = page_pointer(id, Page(id)) /\ get(k) = f.targets[k]
  <1>1. RowKey(k)
    BY WantedAreRows, NothingSeen DEF Fetching, Claiming, Listing, NoClaims
  <1>2. PICK entry : entry = f.targets[k]
    OBVIOUS
  <1>3. Seen(k, entry) /\ Still(k, entry)
    BY <1>2 DEF Steady, Remembers, SeenAll
  <1> QED BY <1>1, <1>2, <1>3, RowStill

(* A listed row that is still stored is a row of the page it points to.    *)
LEMMA ListedStill ==
    ASSUME StoreOK, NEW f, Fetching(f), f.req.kind = "list", RemembersRow(f),
           Still(f.row[1], f.row[2]), NEW id, id = f.row[2].val.page_id
    PROVE  /\ id \in PageIds /\ Stored(id) /\ f.row[1] \in projection_keys(id, Page(id))
           /\ f.row[2].val = page_pointer(id, Page(id))
  <1>1. PICK k, entry : k = f.row[1] /\ entry = f.row[2]
    OBVIOUS
  <1>2. Lists(f.req, k) /\ RowKey(k)
    BY <1>1, ListedAreRows DEF Fetching, Claiming, Asking, ExistingOK, Editing
  <1>3. Seen(k, entry) /\ Still(k, entry) /\ id = entry.val.page_id
    BY <1>1 DEF RemembersRow
  <1>4. /\ id \in PageIds /\ Stored(id) /\ k \in visibility_keys(id, Page(id))
        /\ entry.val = page_pointer(id, Page(id))
    BY <1>2, <1>3, RowStill
  <1>5. k \in projection_keys(id, Page(id))
    BY <1>2, <1>4, ListedAreProjections
  <1> QED BY <1>1, <1>4, <1>5

(* What an informed frame knows while it reads a page. *)
LEMMA ReadingFacts ==
    ASSUME NEW f, NEW at, Complete(f, at), Informed(f), at \in Snapshotting
    PROVE  /\ Steady(f) /\ Fetching(f) /\ Knowing(f) /\ Bound(f)
           /\ f.req.kind = "list" => RemembersRow(f) /\ f.reading = f.row[2].val.page_id
           /\ \A k \in DOMAIN f.targets :
                 Still(k, f.targets[k]) => Chased(f, k) \/ Matching(f, k)
  <1>1. Steady(f) /\ Fetching(f)
    BY CompleteFacts, AtPlaces DEF Snapshotting
  <1>2. f.at \in Snapshotting
    BY DEF Complete
  <1>3. Knowing(f)
    BY <1>1 DEF Informed, Unanswered, ContentWatched, Knowing, Steady
  <1>4. Bound(f)
    BY <1>2 DEF Informed, Unanswered, Bound
  <1>5. f.req.kind = "list" => RemembersRow(f)
    BY CompleteFacts, EntryAndRowAt DEF Snapshotting
  <1>6. f.req.kind = "list" => f.reading = f.row[2].val.page_id
    BY <1>2 DEF Informed, RowWatched
  <1>7. \A k \in DOMAIN f.targets :
                 Still(k, f.targets[k]) => Chased(f, k) \/ Matching(f, k)
    BY <1>2 DEF Informed, ClaimsWatched
  <1> QED BY <1>1, <1>3, <1>4, <1>5, <1>6, <1>7

(* The entry of the page has been read. *)
LEMMA EntryReadSane ==
    ASSUME StoreOK, NEW c, NEW f, Complete(f, "snapshot entry"), Informed(f),
           NEW key, key = page_aggregate_storage_key(f.reading), f.got[key] = get(key),
           EntryRead(c, f)
    PROVE  Goes(c, f.req)
  <1>1. /\ Steady(f) /\ Fetching(f) /\ Knowing(f) /\ Bound(f)
        /\ f.req.kind = "list" => RemembersRow(f) /\ f.reading = f.row[2].val.page_id
        /\ \A k \in DOMAIN f.targets : Still(k, f.targets[k]) => Chased(f, k) \/ Matching(f, k)
    BY ReadingFacts DEF Snapshotting
  <1>2. PICK entry : entry = get(key)
    OBVIOUS
  <1>3. f.reading \in PageIds
    BY <1>1 DEF Fetching
  <1>4. Stored(f.reading) <=> present(entry)
    BY <1>2 DEF Stored
  <1>5. Page(f.reading) = entry.val
    BY <1>2, <1>3, StoredTyped DEF StoreOK
  <1>6. ASSUME NEW k \in DOMAIN f.targets, Still(k, f.targets[k]), Matching(f, k)
        PROVE  /\ Stored(f.reading) /\ k \in visibility_keys(f.reading, entry.val)
               /\ f.targets[k].val = page_pointer(f.reading, entry.val)
               /\ f.targets[k].val.page_id = f.reading
    <2>1. f.targets[k].val.page_id = f.reading
      BY <1>6 DEF Matching
    <2>2. PICK id : id = f.reading
      OBVIOUS
    <2>3. id = f.targets[k].val.page_id /\ Steady(f) /\ Fetching(f)
      BY <1>1, <2>1, <2>2
    <2>4. /\ Stored(id) /\ k \in visibility_keys(id, Page(id))
          /\ f.targets[k].val = page_pointer(id, Page(id))
      BY <1>6, <2>3, ClaimStill
    <2> QED BY <1>5, <2>1, <2>2, <2>4
  <1>7. ASSUME f.req.kind = "list", Still(f.row[1], f.row[2])
        PROVE  /\ Stored(f.reading) /\ f.row[1] \in projection_keys(f.reading, entry.val)
               /\ f.row[2].val = page_pointer(f.reading, entry.val)
    BY <1>1, <1>5, <1>7, ListedStill
  <1>8. CASE ~present(entry) /\ SnapshotRead(c, f, None)
    <2>1. Kept(None)
      BY DEF Kept
    <2> QED BY <1>1, <1>4, <1>6, <1>7, <1>8, <2>1, SnapshotReadSane
  <1>9. CASE /\ present(entry)
             /\ Await(c, [f EXCEPT !.entry = entry], "snapshot indexes",
                      visibility_keys(f.reading, entry.val))
    <2>1. PICK h : h = [f EXCEPT !.entry = entry]
      OBVIOUS
    <2>2. /\ DOMAIN h = DOMAIN Idle /\ h.entry = entry /\ h.reading = f.reading
          /\ h.req = f.req /\ h.existing = f.existing /\ h.reply = f.reply
          /\ h.targets = f.targets /\ h.queue = f.queue /\ h.snapshots = f.snapshots
          /\ h.row = f.row
      BY <1>1, <2>1, IdleFields DEF Steady
    <2>3. entry.val.content_asset_id \in StoredAssets
      BY <1>3, <1>4, <1>5, <1>9 DEF StoreOK, ContentHeld
    <2>4. ASSUME NEW k \in DOMAIN h.targets, Still(k, h.targets[k])
          PROVE  Chased(h, k) \/ Sought(h, "snapshot indexes", k)
      <3>1. CASE Chased(f, k)
        BY <2>2, <3>1 DEF Chased, Matched
      <3>2. CASE Matching(f, k)
        BY <1>6, <2>2, <2>4, <3>2 DEF Sought, ClaimFits
      <3> QED BY <1>1, <2>2, <2>4, <3>1, <3>2
    <2>5. f.req.kind = "list" /\ Still(f.row[1], f.row[2]) => RowFits(h)
      <3>1. page_pointer(f.reading, entry.val).revision = entry.val.revision
        BY DEF page_pointer
      <3> QED BY <1>7, <2>2, <3>1 DEF RowFits
    <2>10. IsEntry(entry)
      BY <1>2, <1>9, EntriesOfGet DEF StoreOK, EntriesTyped, IsEntry
    <2>6. PICK keys : keys = visibility_keys(f.reading, entry.val)
      OBVIOUS
    <2>7. Prepared(h, "snapshot indexes", keys)
      BY <1>1, <2>2, <2>3, <2>4, <2>5, <2>10 DEF Prepared, Knowing, ContentKept, Bound
    <2>8. Await(c, h, "snapshot indexes", keys)
      BY <1>9, <2>1, <2>6
    <2>9. Goes(c, h.req)
      BY <2>2, <2>7, <2>8, AwaitsSane DEF Ended
    <2> QED BY <2>2, <2>9
  <1> QED BY <1>2, <1>8, <1>9 DEF EntryRead

(* The rows of the page have been read. *)
LEMMA IndexesReadSane ==
    ASSUME NEW c, NEW f, Complete(f, "snapshot indexes"), Informed(f), IndexesRead(c, f)
    PROVE  Goes(c, f.req)
  <1>1. PICK g : g = [f EXCEPT !.at = "snapshot again",
                               !.pending = {page_aggregate_storage_key(f.reading)}]
    OBVIOUS
  <1>2. Steady(f) /\ Knowing(f)
    BY ReadingFacts DEF Snapshotting
  <1>3. /\ DOMAIN g = DOMAIN Idle /\ g.at = "snapshot again" /\ g.reply = f.reply
        /\ g.pending = {page_aggregate_storage_key(f.reading)} /\ g.got = f.got /\ Same(f, g)
    BY <1>1, <1>2, IdleFields DEF Steady, Same
  <1>4. f.at = "snapshot indexes"
    BY DEF Complete
  <1> USE DEF Informed, Same
  <1>5. SinglesPending(g)
    BY <1>3 DEF SinglesPending
  <1>6. Unanswered(g)
    BY <1>3, <1>4 DEF Unanswered, Snapshotting
  <1>7. PageWatched(g)
    BY <1>3, <1>4 DEF PageWatched, Fetched
  <1>8. ClaimsWatched(g)
    <2>1. ASSUME NEW k \in DOMAIN g.targets, Still(k, g.targets[k])
          PROVE  Chased(g, k) \/ Matching(g, k)
      <3>1. Chased(f, k) \/ Matching(f, k)
        BY <1>3, <2>1, ReadingFacts DEF Snapshotting
      <3>2. Chased(f, k) => Chased(g, k)
        BY <1>3 DEF Chased, Matched
      <3>3. Matching(f, k) => Matching(g, k)
        BY <1>3, <1>4 DEF Matching, ClaimFits, Snapshotting, Fetched
      <3> QED BY <3>1, <3>2, <3>3
    <2> QED BY <1>3, <2>1 DEF ClaimsWatched
  <1>9. RowWatched(g)
    BY <1>3, <1>4 DEF RowWatched, RowFits, Fetched, Snapshotting
  <1>10. ContentWatched(g)
    BY <1>2, <1>3 DEF ContentWatched, ContentKept, Knowing
  <1>11. IdWatched(g) /\ DestinationWatched(g)
    BY <1>3 DEF IdWatched, DestinationWatched
  <1>12. Sane(g)
    BY <1>3, <1>5, <1>6, <1>7, <1>8, <1>9, <1>10, <1>11 DEF Sane, Watched
  <1> QED BY <1>1, <1>3, <1>12 DEF IndexesRead, Goes

(* A snapshot is not None. *)
LEMMA SnapshotIsSome ==
    ASSUME EntriesTyped, NEW id \in PageIds, NEW entry, IsEntry(entry), present(entry),
           Seen(page_aggregate_storage_key(id), entry),
           NEW index, index = [k \in visibility_keys(id, entry.val) |-> index[k]],
           \A k \in visibility_keys(id, entry.val) : IsEntry(index[k]) /\ Seen(k, index[k])
    PROVE  Snapshot(id, entry, index) # None
  <1>1. PICK page : page = entry.val
    OBVIOUS
  <1>2. page \in PageAggregate
    BY <1>1, TypesOfKeys DEF Seen
  <1>3. clock \in Nat
    BY DEF EntriesTyped
  <1>4. entry \in [vs : Nat, val : {page}]
    BY <1>1, <1>3 DEF Seen, IsEntry
  <1> DEFINE Entry == [vs : Nat, val : [page_id : PageIds, revision : 1 .. MaxRevision] \cup {None}]
  <1>5. ASSUME NEW k \in visibility_keys(id, page) PROVE index[k] \in Entry
    <2>1. PICK e : e = index[k]
      OBVIOUS
    <2>2. IsEntry(e) /\ Seen(k, e) /\ RowKey(k)
      BY <1>1, <1>5, <2>1, RowsOf
    <2>3. e.val \in [page_id : PageIds, revision : 1 .. MaxRevision] \cup {None}
      BY <2>2, TypesOfKeys, EntriesOfGet DEF Seen, Pointer
    <2>4. e.vs \in Nat
      BY <1>3, <2>2 DEF Seen
    <2> QED BY <2>1, <2>2, <2>3, <2>4 DEF IsEntry
  <1>6. index \in [visibility_keys(id, page) -> Entry]
    BY <1>1, <1>5
  <1>7. Snapshot(id, entry, index) \in SnapshotsOf(id, page)
    BY <1>1, <1>4, <1>6 DEF Snapshot, SnapshotsOf
  <1> QED BY <1>2, <1>7, NoneAssumption

(* The entry has been read again. *)
LEMMA AgainReadSane ==
    ASSUME EntriesTyped, NEW c, NEW f, Complete(f, "snapshot again"), Informed(f),
           NEW key, key = page_aggregate_storage_key(f.reading), f.got[key] = get(key),
           AgainRead(c, f)
    PROVE  Goes(c, f.req)
  <1>1. /\ Steady(f) /\ Fetching(f) /\ Knowing(f) /\ Bound(f)
        /\ f.req.kind = "list" => RemembersRow(f) /\ f.reading = f.row[2].val.page_id
        /\ \A k \in DOMAIN f.targets : Still(k, f.targets[k]) => Chased(f, k) \/ Matching(f, k)
    BY ReadingFacts DEF Snapshotting
  <1>2. PICK keys : keys = visibility_keys(f.reading, f.entry.val)
    OBVIOUS
  <1>3. DOMAIN f.got = keys \cup {key}
    BY <1>2, CompleteFacts, AtPlaces
  <1>4. f.at = "snapshot again" /\ f.at \in Fetched
    BY DEF Complete, Fetched
  <1>5. present(f.entry)
    BY CompleteFacts, EntryAndRowAt DEF RemembersEntry
  <1>6. f.entry.val.content_asset_id \in StoredAssets
    BY <1>4 DEF Informed, PageWatched
  <1>7. ASSUME ~SnapshotTorn(f), NEW k \in keys
        PROVE  f.got[k].val = page_pointer(f.reading, f.entry.val)
    <2>1. Still(key, f.entry)
      BY <1>5, <1>7 DEF SnapshotTorn, Still
    <2> QED BY <1>2, <1>3, <1>4, <1>7, <2>1 DEF Informed, PageWatched
  <1>8. PICK h : h = [f EXCEPT !.snapshot_attempt = @ + 1]
    OBVIOUS
  <1>9. DOMAIN h = DOMAIN Idle /\ Same(f, h) /\ h.reply = f.reply
    BY <1>1, <1>8, IdleFields DEF Steady, Same
  <1>10. PICK index : index = [k \in keys |-> f.got[k]]
    OBVIOUS
  <1>11. CASE contention_exhausted(c, h)
    BY <1>9, <1>11, EndsSane
  <1>12. CASE Await(c, h, "snapshot entry", {key})
    <2>1. PICK wanted : wanted = {key}
      OBVIOUS
    <2>2. ASSUME NEW k \in DOMAIN h.targets, Still(k, h.targets[k])
          PROVE  Chased(h, k) \/ Sought(h, "snapshot entry", k)
      <3>1. Chased(f, k) => Chased(h, k)
        BY <1>9 DEF Chased, Matched, Same
      <3>2. Matching(f, k) => Sought(h, "snapshot entry", k)
        BY <1>9 DEF Matching, Sought, Same
      <3> QED BY <1>1, <1>9, <2>2, <3>1, <3>2 DEF Same
    <2>3. Prepared(h, "snapshot entry", wanted)
      BY <1>1, <1>9, <2>1, <2>2 DEF Prepared, Knowing, ContentKept, Bound, Same
    <2>4. Goes(c, h.req)
      BY <1>9, <1>12, <2>1, <2>3, AwaitsSane DEF Ended
    <2> QED BY <1>9, <2>4 DEF Same
  <1>13. CASE ~SnapshotTorn(f) /\ SnapshotRead(c, f, Snapshot(f.reading, f.entry, index))
    <2>1. PICK s : s = Snapshot(f.reading, f.entry, index)
      OBVIOUS
    <2>2. s.id = f.reading /\ s.entry = f.entry /\ s.index = index /\ s.page = f.entry.val
      BY <2>1 DEF Snapshot
    <2>3. DOMAIN index = keys /\ \A k \in keys : index[k] = f.got[k]
      BY <1>10
    <2>4. s # None
      <3>1. f.reading \in PageIds /\ Seen(key, f.entry) /\ SeenAll(f.got)
        BY <1>1, CompleteFacts, EntryAndRowAt DEF Fetching, RemembersEntry
      <3>2. IsEntry(f.entry) /\ \A k \in DOMAIN f.got : IsEntry(f.got[k])
        BY <1>4 DEF Informed, PageWatched
      <3>3. index = [k \in keys |-> index[k]]
        BY <1>10
      <3>4. \A k \in keys : IsEntry(index[k]) /\ Seen(k, index[k])
        BY <1>3, <2>3, <3>1, <3>2 DEF SeenAll
      <3> QED BY <1>2, <1>5, <2>1, <3>1, <3>2, <3>3, <3>4, SnapshotIsSome
    <2>5. Kept(s)
      BY <1>6, <2>2 DEF Kept
    <2>6. ASSUME f.req.kind = "list", Still(f.row[1], f.row[2])
          PROVE  RowMatches(f, s)
      <3>1. RowFits(f)
        BY <1>4, <2>6 DEF Informed, RowWatched
      <3> QED BY <2>2, <2>4, <3>1 DEF RowFits, RowMatches
    <2>7. ASSUME NEW k \in DOMAIN f.targets, Still(k, f.targets[k])
          PROVE  Chased(f, k) \/ Joins(f, s, k)
      <3>1. CASE Matching(f, k)
        <4>1. ClaimFits(f, k) /\ (k \in DOMAIN f.got => f.got[k].vs = f.targets[k].vs)
          BY <1>4, <3>1 DEF Matching
        <4> QED BY <1>2, <1>3, <2>2, <2>3, <2>4, <4>1 DEF ClaimFits, Joins
      <3> QED BY <1>1, <2>7, <3>1
    <2> QED BY <1>1, <1>13, <2>1, <2>5, <2>6, <2>7, SnapshotReadSane
  <1>14. \/ contention_exhausted(c, h) \/ Await(c, h, "snapshot entry", {key})
         \/ ~SnapshotTorn(f) /\ SnapshotRead(c, f, Snapshot(f.reading, f.entry, index))
    BY <1>2, <1>7, <1>8, <1>10 DEF AgainRead
  <1> QED BY <1>11, <1>12, <1>13, <1>14

-----------------------------------------------------------------------------
(* #read_claimed_endpoint_state. *)

(* What an informed frame knows when its reads are back, wherever it is.   *)
LEMMA InformedFacts ==
    ASSUME NEW f, NEW at, Complete(f, at), Informed(f)
    PROVE  Steady(f) /\ Knowing(f) /\ f.at = at
  BY CompleteFacts DEF Complete, Informed, Unanswered, ContentWatched, Knowing, Steady

(* The claims have been read: those present lead to the pages to read.     *)
LEMMA TargetsReadSane ==
    ASSUME NEW c, NEW f, Complete(f, "claims"), Informed(f), TargetsRead(c, f)
    PROVE  Goes(c, f.req)
  <1>1. Knowing(f) /\ Asking(f) /\ DOMAIN f.got = WantedKeys(f.req)
    BY InformedFacts, CompleteFacts, AtPlaces
  <1>2. PICK claimed : claimed = {k \in DOMAIN f.got : present(f.got[k])}
    OBVIOUS
  <1>3. CASE Found(c, {})
    BY <1>1, <1>3, EndsSane DEF Knowing
  <1>4. CASE /\ f.req.kind = "resolve" => claimed # {}
             /\ NextClaimed(c, [f EXCEPT !.targets = f.got,
                                         !.queue = {f.got[k].val.page_id : k \in claimed}])
    <2>1. PICK g : g = [f EXCEPT !.targets = f.got,
                                 !.queue = {f.got[k].val.page_id : k \in claimed}]
      OBVIOUS
    <2>2. /\ DOMAIN g = DOMAIN Idle /\ g.req = f.req /\ g.targets = f.got /\ g.reply = f.reply
          /\ g.existing = f.existing /\ g.queue = {f.got[k].val.page_id : k \in claimed}
      BY <1>1, <2>1, IdleFields DEF Knowing
    <2>3. Knowing(g)
      BY <1>1, <2>2 DEF Knowing, ContentKept
    <2>4. ASSUME g.req.kind = "resolve", NEW k \in DOMAIN g.targets PROVE present(g.targets[k])
      <3>1. DOMAIN f.got = {page_endpoint_claim_key(f.req.locator)}
        BY <1>1, <2>2, <2>4 DEF WantedKeys
      <3> QED BY <1>2, <1>4, <2>2, <2>4, <3>1
    <2>5. ASSUME NEW k \in DOMAIN g.targets, Still(k, g.targets[k]) PROVE Chased(g, k)
      BY <1>2, <2>2, <2>5 DEF Still, Chased
    <2>6. g.req.kind # "list"
      BY <1>1, <2>2 DEF Asking
    <2>7. Goes(c, g.req)
      BY <1>4, <2>1, <2>3, <2>4, <2>5, <2>6, NextClaimedSane DEF Bound
    <2> QED BY <2>2, <2>7
  <1> QED BY <1>2, <1>3, <1>4 DEF TargetsRead

(* The rows the new page will have begin to be read. *)
LEMMA DestinationsSane ==
    ASSUME NEW c, NEW f, Knowing(f), read_destination_projections(c, f),
           Drawing(f) \/ f.req.kind = "update",
           Drawing(f) /\ IdsDrawnOnce => ~Stored(f.req.new_id)
    PROVE  Goes(c, f.req)
  <1>1. PICK keys : keys = projection_keys(f.id, f.page)
    OBVIOUS
  <1>2. Prepared(f, "destination", keys)
    BY <1>1 DEF Prepared, Knowing, Snapshotting, Drawing
  <1>3. Await(c, f, "destination", keys)
    BY <1>1 DEF read_destination_projections
  <1> QED BY <1>2, <1>3, AwaitsSane DEF Ended, Knowing

(* The claims are those of the pages that were read; the attempt goes on.  *)
LEMMA ClaimsReadSane ==
    ASSUME NEW c, NEW f, Knowing(f), Claiming(f), ClaimsRead(c, f)
    PROVE  Goes(c, f.req)
  <1>1. PICK req : req = f.req
    OBVIOUS
  <1>2. CASE \E reply : Return(c, reply)
    BY <1>2, EndsSane DEF Knowing
  <1>3. CASE \E shots : Found(c, shots)
    BY <1>3, EndsSane DEF Knowing
  <1>4. ASSUME NEW h, Knowing(h), h.req = req, NEW a, NEW new, Probe(c, h, a, new)
        PROVE  Goes(c, req)
    <2>1. PICK at, keys : at = "probe" /\ Await(c, h, at, keys)
      BY <1>4 DEF Probe
    <2>2. Goes(c, h.req)
      BY <1>4, <2>1, PlainAwaitsSane
    <2> QED BY <1>4, <2>2
  <1>5. ASSUME NEW id, NEW page, NEW a, NEW new, Probe(c, Plan(f, id, page), a, new)
        PROVE  Goes(c, req)
    <2>1. PICK h : h = Plan(f, id, page)
      OBVIOUS
    <2>2. Knowing(h) /\ h.req = req
      BY <1>1, <2>1, IdleFields DEF Plan, Knowing, ContentKept
    <2> QED BY <1>4, <1>5, <2>1, <2>2
  <1>6. CASE req.kind = "resolve"
    BY <1>1, <1>3, <1>6 DEF ClaimsRead
  <1>7. CASE req.kind = "put_trial"
    BY <1>1, <1>2, <1>5, <1>7 DEF ClaimsRead
  <1>8. CASE req.kind = "create"
    BY <1>1, <1>2, <1>5, <1>8 DEF ClaimsRead
  <1>9. CASE req.kind = "duplicate"
    BY <1>1, <1>2, <1>4, <1>9 DEF ClaimsRead
  <1>10. CASE req.kind = "update"
    <2>1. Return(c, "managed or endpoint conflict") \/ read_destination_projections(c, f)
      BY <1>1, <1>10 DEF ClaimsRead
    <2>2. ~Drawing(f)
      BY <1>1, <1>10 DEF Drawing
    <2> QED BY <1>1, <1>2, <1>10, <2>1, <2>2, DestinationsSane
  <1> QED BY <1>1, <1>6, <1>7, <1>8, <1>9, <1>10 DEF Claiming, Asking

(* The claims have been read again: those that did not change are rows of  *)
(* the pages that were read.                                               *)
LEMMA ClaimsAgainReadSane ==
    ASSUME NEW c, NEW f, Complete(f, "claims again"), Informed(f), ClaimsAgainRead(c, f)
    PROVE  Goes(c, f.req)
  <1>1. Knowing(f) /\ Claiming(f) /\ DOMAIN f.got = DOMAIN f.targets /\ f.at = "claims again"
    BY InformedFacts, CompleteFacts, AtPlaces DEF Claiming
  <1>2. ~ClaimsMoved(f) => ClaimsCoherent(f)
    BY <1>1 DEF ClaimsMoved, ClaimsCoherent, Informed, ClaimsWatched, Matched
  <1>3. PICK h : h = [f EXCEPT !.claim_attempt = @ + 1, !.snapshot_attempt = 0,
                               !.targets = NoEntries, !.snapshots = {}]
    OBVIOUS
  <1>4. /\ DOMAIN h = DOMAIN Idle /\ h.req = f.req /\ h.existing = f.existing
        /\ h.reply = f.reply
    BY <1>1, <1>3, IdleFields DEF Knowing
  <1>5. CASE contention_exhausted(c, h)
    BY <1>4, <1>5, EndsSane
  <1>6. CASE Await(c, h, "claims", DOMAIN f.targets)
    <2>1. Knowing(h)
      BY <1>1, <1>4 DEF Knowing, ContentKept
    <2>2. Goes(c, h.req)
      BY <1>6, <2>1, PlainAwaitsSane
    <2> QED BY <1>4, <2>2
  <1>7. CASE ClaimsRead(c, f)
    BY <1>1, <1>7, ClaimsReadSane
  <1> QED BY <1>2, <1>3, <1>5, <1>6, <1>7 DEF ClaimsAgainRead

-----------------------------------------------------------------------------
(* Probes, destinations and rows. *)

(* The probe has been read: inherited content is there. *)
LEMMA ProbeReadSane ==
    ASSUME NEW c, NEW f, Complete(f, "probe"), Informed(f), ProbeRead(c, f)
    PROVE  Goes(c, f.req)
  <1>1. Knowing(f) /\ Steady(f) /\ f.at = "probe" /\ DOMAIN f.got = ProbeKeys(f)
    BY InformedFacts, CompleteFacts, AtPlaces
  <1>2. PICK h : h = [f EXCEPT !.probed = f.got]
    OBVIOUS
  <1>3. Knowing(h) /\ h.req = f.req /\ h.id = f.id /\ h.page = f.page
    BY <1>1, <1>2, IdleFields DEF Knowing, ContentKept
  <1>4. CASE \E reply : Return(c, reply)
    BY <1>1, <1>4, EndsSane DEF Knowing
  <1>5. ASSUME NEW k \in DOMAIN f.got, k \in ManifestKeys, ~present(f.got[k])
        PROVE  ~Inherits(f.req)
    BY <1>1, <1>5 DEF Informed, ContentWatched
  <1>6. CASE Ready(c, h)
    <2>1. PICK at, keys : at = "commit" /\ Await(c, h, at, keys)
      BY <1>6 DEF Ready
    <2>2. Goes(c, h.req)
      BY <1>3, <2>1, PlainAwaitsSane
    <2> QED BY <1>3, <2>2
  <1>7. CASE \E keys : read_claimed_endpoint_state(c, h, keys)
    <2>1. Goes(c, h.req)
      BY <1>3, <1>7, ClaimsSane
    <2> QED BY <1>3, <2>1
  <1>8. CASE /\ \A k \in DOMAIN f.got : k \in PageKeys => ~present(f.got[k])
             /\ Drawing(f) \/ f.req.kind = "update"
             /\ read_destination_projections(c, h)
    <2>1. ASSUME Drawing(f), IdsDrawnOnce PROVE ~Stored(f.req.new_id)
      <3>1. PICK key : key = page_aggregate_storage_key(f.req.new_id)
        OBVIOUS
      <3>2. key \in DOMAIN f.got
        BY <1>1, <2>1, <3>1 DEF Drawing, ProbeKeys, New
      <3>3. f.req.new_id \in PageIds
        BY <1>1, <2>1, RequestFields DEF Steady, Drawing
      <3>4. key \in PageKeys
        BY <3>1, <3>3 DEF PageKeys
      <3> QED BY <1>1, <1>8, <2>1, <3>2, <3>4 DEF Informed, IdWatched
    <2>2. Goes(c, h.req)
      BY <1>3, <1>8, <2>1, DestinationsSane DEF Drawing
    <2> QED BY <1>3, <2>2
  <1>9. ProbeRead(c, f) =>
          \/ \E reply : Return(c, reply)
          \/ Ready(c, h) \/ \E keys : read_claimed_endpoint_state(c, h, keys)
          \/ /\ \A k \in DOMAIN f.got : k \in PageKeys => ~present(f.got[k])
             /\ Drawing(f) \/ f.req.kind = "update"
             /\ read_destination_projections(c, h)
    BY <1>2, <1>5 DEF ProbeRead, Inherits, Drawing
  <1> QED BY <1>4, <1>6, <1>7, <1>8, <1>9

(* The destination rows have been read: one in the way means a change.     *)
LEMMA DestinationReadSane ==
    ASSUME NEW c, NEW f, Complete(f, "destination"), Informed(f), DestinationRead(c, f)
    PROVE  Goes(c, f.req)
  <1>1. Knowing(f) /\ Steady(f) /\ f.at = "destination" /\ Settled(f)
    BY InformedFacts, CompleteFacts, AtPlaces
  <1>2. PICK h : h = [f EXCEPT !.destination = f.got]
    OBVIOUS
  <1>3. Knowing(h) /\ Same(f, h)
    BY <1>1, <1>2, IdleFields DEF Knowing, ContentKept, Same
  <1>4. CASE Retry(c, f)
    BY <1>1, <1>4, RetrySane DEF Steady
  <1>5. CASE Ready(c, h)
    <2>1. PICK at, keys : at = "commit" /\ Await(c, h, at, keys)
      BY <1>5 DEF Ready
    <2>2. Goes(c, h.req)
      BY <1>3, <2>1, PlainAwaitsSane
    <2> QED BY <1>3, <2>2 DEF Same
  <1>6. ASSUME NEW k \in DOMAIN f.got, present(f.got[k]),
               f.existing # None /\ f.req.kind = "update" => k \notin DOMAIN f.existing.index
        PROVE  InTheWay(f)
    <2>1. f.req.kind = "update" => f.existing # None
      BY <1>1 DEF Settled, ExistingOK
    <2> QED BY <1>1, <1>6, <2>1 DEF Informed, DestinationWatched
  <1>7. CASE InTheWay(f) /\ Await(c, h, "authority", {page_aggregate_storage_key(f.id)})
    <2>1. PICK keys : keys = {page_aggregate_storage_key(f.id)}
      OBVIOUS
    <2>2. InTheWay(h) /\ (Drawing(h) <=> Drawing(f))
      BY <1>3, <1>7 DEF InTheWay, Same, Drawing
    <2>3. Drawing(f) /\ IdsDrawnOnce => ~Stored(f.req.new_id)
      BY <1>1 DEF Informed, IdWatched
    <2>4. Prepared(h, "authority", keys)
      BY <1>3, <2>1, <2>2, <2>3 DEF Prepared, Knowing, Snapshotting, Same, InTheWay, Drawing
    <2>5. Await(c, h, "authority", keys)
      BY <1>7, <2>1
    <2>6. Goes(c, h.req)
      BY <1>3, <2>4, <2>5, AwaitsSane DEF Ended, Knowing
    <2> QED BY <1>3, <2>6 DEF Same
  <1>8. CASE /\ \E k \in DOMAIN f.got :
                   /\ f.existing # None /\ f.req.kind = "update" => k \notin DOMAIN f.existing.index
                   /\ present(f.got[k])
             /\ Await(c, h, "authority", {page_aggregate_storage_key(f.id)})
    BY <1>6, <1>7, <1>8
  <1>9. \/ Retry(c, f) \/ Ready(c, h)
        \/ /\ \E k \in DOMAIN f.got :
                 /\ f.existing # None /\ f.req.kind = "update" => k \notin DOMAIN f.existing.index
                 /\ present(f.got[k])
           /\ Await(c, h, "authority", {page_aggregate_storage_key(f.id)})
    BY <1>2 DEF DestinationRead
  <1> QED BY <1>4, <1>5, <1>8, <1>9

(* The authority for an occupied row has been read: it has changed, unless *)
(* another call drew the same id.                                          *)
LEMMA AuthorityReadSane ==
    ASSUME NEW c, NEW f, Complete(f, "authority"), Informed(f),
           NEW key, key = page_aggregate_storage_key(f.id), f.got[key] = get(key),
           AuthorityRead(c, f)
    PROVE  Goes(c, f.req)
  <1>1. Knowing(f) /\ Steady(f) /\ f.at = "authority" /\ Settled(f)
    BY InformedFacts, CompleteFacts, AtPlaces
  <1>2. CASE Retry(c, f)
    BY <1>1, <1>2, RetrySane DEF Steady
  <1>3. CASE /\ invariant_violation(c, f)
             /\ f.req.kind = "update" => f.got[key].vs = f.existing.entry.vs
    <2>1. f.req.kind = "update" => present(f.existing.entry)
      BY <1>1 DEF Settled, ExistingOK, Snapped
    <2>2. InTheWay(f)
      BY <1>1 DEF Informed, DestinationWatched
    <2>3. Drawing(f) /\ ~IdsDrawnOnce
      BY <1>3, <2>1, <2>2 DEF InTheWay, Still
    <2> QED BY <1>1, <1>3, <2>3, EndsSane DEF Knowing
  <1> QED BY <1>2, <1>3 DEF AuthorityRead

(* A row has been read again after its page: it has changed.               *)
LEMMA RowAgainReadSane ==
    ASSUME NEW c, NEW f, Complete(f, "row again"), Informed(f),
           NEW key, key = f.row[1], f.got[key] = get(key), RowAgainRead(c, f)
    PROVE  Goes(c, f.req)
  <1>1. Knowing(f) /\ Listing(f) /\ f.at = "row again"
    BY InformedFacts, CompleteFacts, AtPlaces
  <1>2. f.req.kind = "list"
    BY <1>1 DEF Listing
  <1>3. present(f.row[2])
    BY <1>2, CompleteFacts, EntryAndRowAt DEF RemembersRow
  <1>4. ~Still(f.row[1], f.row[2])
    BY <1>1, <1>2 DEF Informed, RowWatched
  <1>5. NextRow(c, f)
    BY <1>3, <1>4 DEF RowAgainRead, Still
  <1> QED BY <1>1, <1>5, NextRowSane

-----------------------------------------------------------------------------
(* A read that returns keeps a call informed: it shows the store as it is, *)
(* where rows and pages agree.                                             *)

(* The two rows that name a page are rows of no other page. *)
LEMMA ProjectionsOf ==
    ASSUME NEW id, NEW page, NEW k \in projection_keys(id, page), NEW other, NEW p,
           k \in visibility_keys(other, p)
    PROVE  other = id
  <1>1. \/ k = page_aggregate_owner_key(page.owner, page.endpoint_set.canonical, id)
        \/ k = page_aggregate_public_key(page.endpoint_set.canonical, id)
    BY DEF projection_keys
  <1>2. \A l : k # page_endpoint_claim_key(l)
    BY <1>1, KeysDiffer
  <1>3. k \in visibility_keys(id, page)
    BY DEF visibility_keys
  <1> QED BY <1>2, <1>3, RowsOf

(* What is read is an entry. *)
LEMMA ReadsEntries == ASSUME EntriesTyped, NEW k PROVE IsEntry(get(k))
  BY EntriesOfGet DEF EntriesTyped, IsEntry, Absent

(* An inherited asset is that of the page inherited from. *)
LEMMA InheritedContent ==
    ASSUME NEW f, Planned(f), Inherits(f.req)
    PROVE  f.existing # None /\ f.page.content_asset_id = f.existing.page.content_asset_id
  <1>1. CASE f.req.kind = "duplicate"
    BY <1>1 DEF Planned, ExistingOK, DuplicatePage
  <1>2. CASE f.req.kind = "update" /\ f.req.patch.content_asset_id = None
    BY <1>2 DEF Planned, ExistingOK, PatchedPage, Or
  <1> QED BY <1>1, <1>2 DEF Inherits

(* The new id of a creation or duplication is the id it will write under.  *)
LEMMA DrawnId ==
    ASSUME NEW f, Settled(f), Drawing(f)
    PROVE  f.id = f.req.new_id
  BY DEF Settled, Planned, NewOK, ExistingOK, Drawing

(* The read shows the store as it is, where rows and pages agree. *)
LEMMA ReadInformed ==
    ASSUME StoreOK, NEW f, FrameOK(f), f.at \notin Ended, Informed(f), NEW k \in f.pending, NEW g,
           Reads(f, g, k)
    PROVE  Informed(g)
  <1>1. /\ g.at = f.at /\ Same(f, g) /\ DOMAIN g.got = DOMAIN f.got \cup {k}
        /\ g.got[k] = get(k) /\ \A j \in DOMAIN f.got \ {k} : g.got[j] = f.got[j]
    BY ReadingStays DEF StoreOK
  <1>2. DOMAIN f = DOMAIN Idle /\ f.req \in Request /\ Recalled(f) /\ AtOK(f)
    BY DEF FrameOK
  <1>3. g.reply = f.reply /\ g.pending = f.pending \ {k}
    BY <1>2, IdleFields DEF Reads
  <1>4. PICK keys : keys = f.pending \cup DOMAIN f.got
    OBVIOUS
  <1>5. Waits(f, f.at, keys) /\ k \in keys
    BY <1>2, <1>4 DEF AtOK
  <1>6. Unanswered(g)
    BY <1>1, <1>3 DEF Informed, Unanswered, Same
  <1>7. PageWatched(g)
    <2>1. CASE f.at \in Fetched
      <3>1. PICK key, page : key = page_aggregate_storage_key(f.reading) /\ page = f.entry.val
        OBVIOUS
      <3>5. Fetching(f)
        BY <1>5, <2>1 DEF Waits, Fetched
      <3>2. Seen(key, f.entry) /\ f.reading \in PageIds
        BY <1>2, <2>1, <3>1, <3>5 DEF Recalled, RemembersEntry, Fetched, Fetching
      <3>3. ASSUME Still(key, f.entry), k \in visibility_keys(f.reading, page)
            PROVE  get(k).val = page_pointer(f.reading, page)
        <4>1. get(key) = f.entry /\ Stored(f.reading)
          BY <3>1, <3>2, <3>3 DEF Seen, Still, Stored
        <4>2. Page(f.reading) = page
          BY <3>1, <3>2, <4>1, StoredTyped DEF StoreOK
        <4> QED BY <3>2, <3>3, <4>1, <4>2 DEF StoreOK, RowsHeld
      <3>4. IsEntry(get(k))
        BY ReadsEntries DEF StoreOK
      <3> QED BY <1>1, <2>1, <3>1, <3>3, <3>4 DEF Informed, PageWatched, Same
    <2> QED BY <1>1, <2>1 DEF PageWatched
  <1>8. ClaimsWatched(g)
    <2>1. ASSUME NEW j \in DOMAIN g.targets
          PROVE  /\ Chased(f, j) => Chased(g, j)
                 /\ Matched(f, j) => Matched(g, j)
                 /\ Still(j, g.targets[j]) /\ Matching(f, j) => Matching(g, j)
      <3>1. Chased(f, j) => Chased(g, j)
        BY <1>1 DEF Chased, Matched, Same
      <3>2. Matched(f, j) => Matched(g, j)
        BY <1>1 DEF Matched, Same
      <3>3. Still(j, g.targets[j]) /\ Matching(f, j) => Matching(g, j)
        BY <1>1 DEF Matching, ClaimFits, Still, Same
      <3> QED BY <3>1, <3>2, <3>3
    <2>2. ASSUME g.at = "claims again", NEW j \in DOMAIN g.targets, j \in DOMAIN g.got,
                 present(g.targets[j]), g.got[j].vs = g.targets[j].vs
          PROVE  Matched(g, j)
      <3>1. CASE j = k
        <4>1. Still(j, f.targets[j])
          BY <1>1, <2>2, <3>1 DEF Still, Same
        <4> QED BY <1>1, <2>1, <2>2, <4>1 DEF Informed, ClaimsWatched, Same
      <3>2. CASE j # k
        BY <1>1, <2>1, <2>2, <3>2 DEF Informed, ClaimsWatched, Same
      <3> QED BY <3>1, <3>2
    <2> QED BY <1>1, <2>1, <2>2 DEF Informed, ClaimsWatched, Same
  <1>9. RowWatched(g)
    BY <1>1 DEF Informed, RowWatched, RowFits, Same
  <1>10. ContentWatched(g)
    <2>1. ASSUME f.at = "probe", Inherits(f.req), k \in ManifestKeys PROVE present(get(k))
      <3>1. Planned(f) /\ keys = ProbeKeys(f)
        BY <1>5, <2>1 DEF Waits
      <3>2. f.page \in PageAggregate
        BY <1>2, <3>1, PlannedPageTyped
      <3>3. PICK a : a = f.page.content_asset_id
        OBVIOUS
      <3>4. a \in StoredAssets
        BY <2>1, <3>1, <3>3, InheritedContent DEF Informed, ContentWatched, ContentKept
      <3>5. k = content_asset_manifest_key(a)
        BY <1>5, <2>1, <3>1, <3>3, KeysDiffer DEF ProbeKeys, ManifestKeys
      <3> QED BY <3>4, <3>5 DEF StoredAssets
    <2>2. ContentKept(g)
      BY <1>1 DEF Informed, ContentWatched, ContentKept, Same
    <2> QED BY <1>1, <2>1, <2>2 DEF Informed, ContentWatched, Same
  <1>11. IdWatched(g)
    <2>1. ASSUME f.at = "probe", Drawing(f), k \in PageKeys, ~present(get(k))
          PROVE  ~Stored(f.req.new_id)
      <3>1. keys = ProbeKeys(f)
        BY <1>5, <2>1 DEF Waits
      <3>2. k = page_aggregate_storage_key(f.req.new_id)
        BY <1>5, <2>1, <3>1, KeysDiffer DEF ProbeKeys, PageKeys
      <3> QED BY <2>1, <3>2 DEF Stored
    <2> QED BY <1>1, <2>1 DEF Informed, IdWatched, Drawing, Same
  <1>12. DestinationWatched(g)
    <2>1. ASSUME f.at = "destination", present(get(k))
          PROVE  InTheWay(f) \/ (f.req.kind = "update" /\ k \in DOMAIN f.existing.index)
      <3>1. Settled(f)
        BY <1>5, <2>1 DEF Waits
      <3>2. k \in projection_keys(f.id, f.page) /\ (Drawing(f) \/ f.req.kind = "update")
        BY <2>1 DEF Informed, DestinationWatched
      <3>3. RowKey(k)
        BY <3>2, RowsOf DEF visibility_keys
      <3>4. PICK id : id = get(k).val.page_id
        OBVIOUS
      <3>5. id \in PageIds /\ Stored(id) /\ k \in visibility_keys(id, Page(id))
        BY <2>1, <3>3, <3>4, RowLeadsHome
      <3>6. id = f.id
        BY <3>2, <3>5, ProjectionsOf
      <3>7. CASE Drawing(f)
        <4>1. Stored(f.req.new_id)
          BY <3>1, <3>5, <3>6, <3>7, DrawnId
        <4> QED BY <2>1, <3>7, <4>1 DEF Informed, IdWatched, InTheWay, DestinationWatched
      <3>8. CASE f.req.kind = "update" /\ Still(page_aggregate_storage_key(f.id), f.existing.entry)
        <4>1. /\ f.existing # None /\ Snapped(f.existing) /\ f.existing.id = f.id
          BY <3>1, <3>8 DEF Settled, ExistingOK
        <4>2. Seen(page_aggregate_storage_key(f.id), f.existing.entry)
          BY <1>2, <4>1 DEF Recalled, Remembers, SeenPage
        <4>3. get(page_aggregate_storage_key(f.id)) = f.existing.entry
          BY <3>8, <4>2 DEF Seen, Still
        <4>4. Page(id) = f.existing.page
          BY <3>5, <3>6, <4>1, <4>3, StoredTyped DEF StoreOK, Snapped
        <4> QED BY <3>5, <3>6, <3>8, <4>1, <4>4 DEF Snapped
      <3>9. CASE /\ f.req.kind = "update"
                 /\ ~Still(page_aggregate_storage_key(f.id), f.existing.entry)
        BY <3>9 DEF InTheWay
      <3> QED BY <3>2, <3>7, <3>8, <3>9
    <2>2. (InTheWay(g) <=> InTheWay(f)) /\ (Drawing(g) <=> Drawing(f))
      BY <1>1 DEF InTheWay, Drawing, Same
    <2>3. g.pending \cup DOMAIN g.got = f.pending \cup DOMAIN f.got
      BY <1>1, <1>3
    <2> QED BY <1>1, <2>1, <2>2, <2>3 DEF Informed, DestinationWatched, Same
  <1> QED BY <1>6, <1>7, <1>8, <1>9, <1>10, <1>11, <1>12 DEF Informed

(* A read on its way keeps the call watched. *)
LEMMA ReadWatched ==
    ASSUME StoreOK, NEW f, FrameOK(f), f.at \notin Ended, Watched(f), NEW k \in f.pending, NEW g,
           Reads(f, g, k), g.pending # {}
    PROVE  Sane(g)
  <1>1. g.at = f.at /\ Same(f, g)
    BY ReadingStays DEF StoreOK
  <1>2. g.pending = f.pending \ {k}
    BY IdleFields DEF Reads, FrameOK
  <1>3. SinglesPending(g)
    BY <1>1, <1>2 DEF Watched, SinglesPending, Same
  <1>4. Informed(g)
    BY ReadInformed DEF Watched
  <1> QED BY <1>1, <1>3, <1>4 DEF Sane, Watched, Ended

-----------------------------------------------------------------------------
(* Nor does what others do mislead a call. *)

(* An entry that is still stored as it was read was so before the step: a  *)
(* write gives a stamp nobody has read.                                    *)
LEMMA StillEarlier ==
    ASSUME EntriesTyped,
           UNCHANGED <<kv, clock>> \/ \E written, removed : Write(written, removed),
           NEW k, NEW entry, Seen(k, entry), Still(k, entry)'
    PROVE  Still(k, entry)
  <1>1. /\ clock \in Nat /\ entry.vs \in 0 .. clock /\ entry.vs # 0
        /\ get(k)'.vs = entry.vs /\ present(entry)
    BY DEF EntriesTyped, Seen, Still, present
  <1>2. CASE UNCHANGED <<kv, clock>>
    <2>1. get(k)' = get(k)
      BY <1>2 DEF get, Absent
    <2> QED BY <1>1, <2>1 DEF Still
  <1>3. ASSUME NEW written, NEW removed, Write(written, removed) PROVE Still(k, entry)
    <2>1. CASE k \in DOMAIN written
      <3>1. get(k)' = [vs |-> clock + 1, val |-> written[k]]
        BY <1>3, <2>1, WriteGets
      <3>2. get(k)'.vs = clock + 1
        BY <3>1
      <3> QED BY <1>1, <3>2
    <2>2. CASE k \notin DOMAIN written /\ k \in removed
      <3>1. get(k)' = Absent
        BY <1>3, <2>2, WriteGets
      <3> QED BY <1>1, <3>1, EntriesOfGet
    <2>3. CASE k \notin DOMAIN written /\ k \notin removed
      <3>1. get(k)' = get(k)
        BY <1>3, <2>3, WriteGets
      <3> QED BY <1>1, <3>1 DEF Still
    <2> QED BY <2>1, <2>2, <2>3
  <1> QED BY <1>2, <1>3

(* What a call relies on survives a step that keeps the assets and does    *)
(* not take the id it draws.                                               *)
LEMMA WatchedStays ==
    ASSUME NEW f, FrameOK(f), f.at \notin Ended, Watched(f),
           \A k, entry : Seen(k, entry) /\ Still(k, entry)' => Still(k, entry),
           StoredAssets \subseteq StoredAssets',
           Drawing(f) /\ IdsDrawnOnce => (Stored(f.req.new_id)' => Stored(f.req.new_id))
    PROVE  Watched(f)'
  <1>1. DOMAIN f = DOMAIN Idle /\ f.req \in Request /\ Recalled(f) /\ AtOK(f)
    BY DEF FrameOK
  <1>2. SinglesPending(f)'
    BY DEF Watched, SinglesPending
  <1>3. Unanswered(f)'
    BY DEF Watched, Informed, Unanswered, present
  <1>4. PageWatched(f)'
    <2>1. CASE f.at \in Fetched
      <3>1. PICK key : key = page_aggregate_storage_key(f.reading)
        OBVIOUS
      <3>2. Seen(key, f.entry)
        BY <1>1, <2>1, <3>1 DEF Recalled, RemembersEntry, Fetched
      <3>3. Still(key, f.entry)' => Still(key, f.entry)
        BY <3>2
      <3> QED BY <2>1, <3>1, <3>3 DEF Watched, Informed, PageWatched
    <2> QED BY <2>1 DEF PageWatched
  <1>5. ClaimsWatched(f)'
    <2>1. ASSUME NEW k \in DOMAIN f.targets
          PROVE  Still(k, f.targets[k])' => Still(k, f.targets[k])
      BY <1>1 DEF Recalled, Remembers, SeenAll
    <2> QED BY <2>1 DEF Watched, Informed, ClaimsWatched, present
  <1>6. RowWatched(f)'
    <2>1. f.req.kind = "list" /\ f.at \in Snapshotting \cup {"row again"} =>
             Seen(f.row[1], f.row[2])
      BY <1>1 DEF Recalled, RemembersRow
    <2> QED BY <2>1 DEF Watched, Informed, RowWatched, Fetched, Snapshotting
  <1>7. ContentWatched(f)'
    BY DEF Watched, Informed, ContentWatched, ContentKept, present
  <1>8. IdWatched(f)'
    BY DEF Watched, Informed, IdWatched, present
  <1>9. f.at \in {"destination", "authority"} => (InTheWay(f) => InTheWay(f)')
    <2>1. ASSUME f.at \in {"destination", "authority"}, f.req.kind = "update"
          PROVE  Seen(page_aggregate_storage_key(f.id), f.existing.entry)
      <3>1. PICK keys : keys = f.pending \cup DOMAIN f.got
        OBVIOUS
      <3>2. Settled(f)
        BY <1>1, <2>1, <3>1 DEF AtOK, Waits
      <3>3. f.existing # None /\ f.existing.id = f.id
        BY <2>1, <3>2 DEF Settled, ExistingOK
      <3> QED BY <1>1, <3>3 DEF Recalled, Remembers, SeenPage
    <2> QED BY <2>1 DEF InTheWay
  <1>10. DestinationWatched(f)'
    BY <1>9 DEF Watched, Informed, DestinationWatched, present
  <1> QED BY <1>2, <1>3, <1>4, <1>5, <1>6, <1>7, <1>8, <1>10 DEF Watched, Informed

(* Whether a page is stored, in the abstract store's terms, after a step too. *)
LEMMA StoredBefore ==
    ASSUME EntriesTyped, NEW i \in PageIds
    PROVE  Stored(i) <=> StoredPages[i] # None
  BY StoredTyped DEF Page

(* The same after a step. *)
LEMMA StoredAfter ==
    ASSUME EntriesTyped', NEW i \in PageIds
    PROVE  Stored(i)' <=> StoredPages'[i] # None
  <1>1. PICK key : key = page_aggregate_storage_key(i)
    OBVIOUS
  <1>2. StoredPages'[i] = get(key)'.val /\ (Stored(i)' <=> present(get(key))')
    BY <1>1 DEF StoredPages, Stored
  <1>3. CASE key \in DOMAIN kv'
    <2>1. get(key)' = kv'[key]
      BY <1>3 DEF get
    <2>2. kv'[key].vs \in 1 .. clock' /\ kv'[key].val \in TypeOf(key) /\ clock' \in Nat
      BY <1>3 DEF EntriesTyped
    <2>3. kv'[key].vs # 0
      BY <2>2
    <2>4. kv'[key].val # None
      BY <1>1, <2>2, TypesOfKeys, ConstantsAssumption
    <2> QED BY <1>2, <2>1, <2>3, <2>4 DEF present
  <1>4. CASE key \notin DOMAIN kv'
    <2>1. get(key)' = Absent
      BY <1>4 DEF get, Absent
    <2> QED BY <1>2, <2>1, EntriesOfGet DEF present
  <1> QED BY <1>3, <1>4

(* The only page a commit adds is one under the id its call drew. *)
Adds(req) ==
    \A i \in PageIds :
        StoredPages'[i] # None /\ StoredPages[i] = None => req.kind \in NewKinds /\ i = req.new_id

(* A replacement adds the page it is about, if it was not there. *)
LEMMA ReplacementAdds ==
    ASSUME NEW R, NEW id, NEW page, Abstract!ReplacePages(R, id, page), NEW req,
           id \in PageIds => (StoredPages[id] # None \/ (req.kind \in NewKinds /\ id = req.new_id))
    PROVE  Adds(req)
  BY DEF Abstract!ReplacePages, Adds

(* So does every commit: it keeps the assets and adds at most that page.   *)
LEMMA CommitAdds ==
    ASSUME StoreOK, NEW f, FrameOK(f), f.at = "commit", Current(f), Write(Written(f), Removed(f))
    PROVE  StoreOK' /\ StoredAssets' = StoredAssets /\ Adds(f.req)
  <1>1. StoreOK' /\ RequestedOperation(f.req)
    BY CommitOperates
  <1>2. PICK req : req = f.req
    OBVIOUS
  <1>3. f.req \in Request /\ Recalled(f) /\ AtOK(f)
    BY DEF FrameOK, Ended
  <1>4. \/ Settled(f)
        \/ f.req.kind \in {"delete", "health"} /\ ExistingOK(f)
    <2>1. Waits(f, "commit", f.pending \cup DOMAIN f.got)
      BY <1>3 DEF AtOK
    <2> QED BY <2>1, AtPlaces
  <1>5. CASE req.kind \in NewKinds
    <2>1. Sound(f) /\ Settled(f)
      BY <1>2, <1>3, <1>4, <1>5 DEF Sound, NewKinds
    <2>2. /\ StoredAssets' = StoredAssets
          /\ Abstract!ReplacePages(Ids(f.snapshots), f.id, f.page)
          /\ \A s \in f.snapshots : Stored(s.id) /\ s.id \in PageIds
      BY <1>2, <1>5, <2>1, NewPageCommits
    <2>3. f.id = req.new_id \/ \E s \in f.snapshots : f.id = s.id
      BY <1>2, <1>5, <2>1 DEF Settled, Planned, NewOK, ExistingOK, NewKinds
    <2>4. f.id \in PageIds => (StoredPages[f.id] # None \/ f.id = req.new_id)
      BY <2>2, <2>3, StoredBefore DEF StoreOK
    <2>5. Adds(req)
      BY <1>5, <2>2, <2>4, ReplacementAdds
    <2> QED BY <1>1, <1>2, <2>2, <2>5
  <1>6. CASE req.kind = "update"
    <2>1. Abstract!update_managed_page_aggregate(req.id, req.owner, req.expected_revision,
                                                 req.patch)
      BY <1>1, <1>2, <1>6 DEF RequestedOperation
    <2>2. /\ StoredPages[req.id] # None /\ StoredAssets' = StoredAssets
          /\ \E R, page : Abstract!ReplacePages(R, req.id, page)
      BY <2>1 DEF Abstract!update_managed_page_aggregate, Abstract!OwnedAt
    <2> QED BY <1>1, <1>2, <2>2, ReplacementAdds
  <1>7. CASE req.kind = "delete"
    <2>1. Abstract!delete_managed_page_aggregate(req.id, req.owner, req.expected_revision)
      BY <1>1, <1>2, <1>7 DEF RequestedOperation
    <2>2. StoredPages' = [StoredPages EXCEPT ![req.id] = None] /\ StoredAssets' = StoredAssets
      BY <2>1 DEF Abstract!delete_managed_page_aggregate, Abstract!RemovePage
    <2>3. DOMAIN StoredPages = PageIds
      BY DEF StoredPages
    <2> QED BY <1>1, <1>2, <2>2, <2>3 DEF Adds
  <1>8. CASE req.kind = "health"
    <2>1. Abstract!update_external_content_health(req.id, req.content_asset_id, req.missing)
      BY <1>1, <1>2, <1>8 DEF RequestedOperation
    <2>2. /\ StoredPages' = [StoredPages EXCEPT ![req.id].external_missing = req.missing]
          /\ StoredAssets' = StoredAssets /\ StoredPages[req.id] # None
      BY <2>1 DEF Abstract!update_external_content_health
    <2>3. DOMAIN StoredPages = PageIds
      BY DEF StoredPages
    <2> QED BY <1>1, <1>2, <2>2, <2>3 DEF Adds
  <1> QED BY <1>2, <1>4, <1>5, <1>6, <1>7, <1>8 DEF Settled, NewKinds

-----------------------------------------------------------------------------
(* The steps of a call. *)

(* One read returns: the batch is still incomplete, or the call runs on    *)
(* informed; where one read is awaited, it is that read.                   *)
LEMMA OneReadSane ==
    ASSUME IInv, NEW c \in Clients, client[c].at \notin Ended, Sane(client[c]),
           NEW k \in client[c].pending, NEW f, Reads(client[c], f, k)
    PROVE  /\ f.pending # {} /\ Become(c, f) => Goes(c, client[c].req)
           /\ f.pending = {} => Complete(f, client[c].at) /\ Informed(f)
           /\ f.req = client[c].req /\ f.got[k] = get(k)
           /\ client[c].at \in {"snapshot entry", "snapshot again"} =>
                 k = page_aggregate_storage_key(f.reading)
           /\ client[c].at = "row again" => k = f.row[1]
           /\ client[c].at = "authority" => k = page_aggregate_storage_key(f.id)
  <1>1. PICK h : h = client[c]
    OBVIOUS
  <1>2. StoreOK /\ FrameOK(h) /\ Watched(h) /\ h.at \notin Ended /\ k \in h.pending
        /\ Reads(h, f, k)
    BY <1>1 DEF IInv, Sane
  <1>3. f.at = h.at /\ Same(h, f) /\ f.got[k] = get(k)
    BY <1>2, ReadingStays DEF StoreOK
  <1>4. Informed(f)
    BY <1>2, ReadInformed DEF Watched
  <1>5. f.pending = {} => Complete(f, h.at)
    BY <1>1, <1>2, OneRead
  <1>6. ASSUME f.pending # {}, Become(c, f) PROVE Goes(c, h.req)
    <2>1. Sane(f)
      BY <1>2, <1>6, ReadWatched
    <2> QED BY <1>3, <1>6, <2>1 DEF Goes, Same
  <1>7. /\ h.at \in {"snapshot entry", "snapshot again"} =>
              k = page_aggregate_storage_key(f.reading)
        /\ h.at = "row again" => k = f.row[1]
        /\ h.at = "authority" => k = page_aggregate_storage_key(f.id)
    <2>1. h.reading = f.reading /\ h.row = f.row /\ h.id = f.id
      BY <1>3 DEF Same
    <2>2. ASSUME h.at \in {"snapshot entry", "snapshot again"}
          PROVE  k = page_aggregate_storage_key(f.reading)
      <3>1. h.pending = {page_aggregate_storage_key(h.reading)}
        BY <1>2, <2>2 DEF Watched, SinglesPending
      <3> QED BY <1>2, <2>1, <3>1
    <2>3. ASSUME h.at = "row again" PROVE k = f.row[1]
      <3>1. h.pending = {h.row[1]}
        BY <1>2, <2>3 DEF Watched, SinglesPending
      <3> QED BY <1>2, <2>1, <3>1
    <2>4. ASSUME h.at = "authority" PROVE k = page_aggregate_storage_key(f.id)
      <3>1. h.pending = {page_aggregate_storage_key(h.id)}
        BY <1>2, <2>4 DEF Watched, SinglesPending
      <3> QED BY <1>2, <2>1, <3>1
    <2> QED BY <2>2, <2>3, <2>4
  <1> QED BY <1>1, <1>3, <1>4, <1>5, <1>6, <1>7 DEF Same

(* A call that awaits reads goes on, not misled. *)
LEMMA ReadsGo ==
    ASSUME IInv, NEW c \in Clients, Sane(client[c]),
           \/ SnapshotEntry(c) \/ SnapshotIndexes(c) \/ SnapshotAgain(c)
           \/ Claims(c) \/ ClaimsAgain(c) \/ ProbeEntries(c)
           \/ Destination(c) \/ Authority(c) \/ RowAgain(c)
    PROVE  client[c].at \notin Ended /\ Goes(c, client[c].req)
  <1>0. StoreOK /\ EntriesTyped
    BY DEF IInv, StoreOK
  <1>1. CASE SnapshotEntry(c)
    <2>1. client[c].at = "snapshot entry"
      BY <1>1 DEF SnapshotEntry, Resume
    <2>2. PICK k, f :
            /\ k \in client[c].pending /\ Reads(client[c], f, k)
            /\ IF f.pending # {} THEN Become(c, f) ELSE EntryRead(c, f)
      BY <1>1 DEF SnapshotEntry, Resume, Reads
    <2>3. f.pending = {} => Goes(c, f.req)
      BY <1>0, <2>1, <2>2, OneReadSane, EntryReadSane DEF Ended
    <2> QED BY <2>1, <2>2, <2>3, OneReadSane DEF Ended
  <1>2. CASE SnapshotIndexes(c)
    <2>1. client[c].at = "snapshot indexes"
      BY <1>2 DEF SnapshotIndexes, Resume
    <2>2. PICK k, f :
            /\ k \in client[c].pending /\ Reads(client[c], f, k)
            /\ IF f.pending # {} THEN Become(c, f) ELSE IndexesRead(c, f)
      BY <1>2 DEF SnapshotIndexes, Resume, Reads
    <2>3. f.pending = {} => Goes(c, f.req)
      BY <2>1, <2>2, OneReadSane, IndexesReadSane DEF Ended
    <2> QED BY <2>1, <2>2, <2>3, OneReadSane DEF Ended
  <1>3. CASE SnapshotAgain(c)
    <2>1. client[c].at = "snapshot again"
      BY <1>3 DEF SnapshotAgain, Resume
    <2>2. PICK k, f :
            /\ k \in client[c].pending /\ Reads(client[c], f, k)
            /\ IF f.pending # {} THEN Become(c, f) ELSE AgainRead(c, f)
      BY <1>3 DEF SnapshotAgain, Resume, Reads
    <2>3. f.pending = {} => Goes(c, f.req)
      BY <1>0, <2>1, <2>2, OneReadSane, AgainReadSane DEF Ended
    <2> QED BY <2>1, <2>2, <2>3, OneReadSane DEF Ended
  <1>4. CASE Claims(c)
    <2>1. client[c].at = "claims"
      BY <1>4 DEF Claims, Resume
    <2>2. PICK k, f :
            /\ k \in client[c].pending /\ Reads(client[c], f, k)
            /\ IF f.pending # {} THEN Become(c, f) ELSE TargetsRead(c, f)
      BY <1>4 DEF Claims, Resume, Reads
    <2>3. f.pending = {} => Goes(c, f.req)
      BY <2>1, <2>2, OneReadSane, TargetsReadSane DEF Ended
    <2> QED BY <2>1, <2>2, <2>3, OneReadSane DEF Ended
  <1>5. CASE ClaimsAgain(c)
    <2>1. client[c].at = "claims again"
      BY <1>5 DEF ClaimsAgain, Resume
    <2>2. PICK k, f :
            /\ k \in client[c].pending /\ Reads(client[c], f, k)
            /\ IF f.pending # {} THEN Become(c, f) ELSE ClaimsAgainRead(c, f)
      BY <1>5 DEF ClaimsAgain, Resume, Reads
    <2>3. f.pending = {} => Goes(c, f.req)
      BY <2>1, <2>2, OneReadSane, ClaimsAgainReadSane DEF Ended
    <2> QED BY <2>1, <2>2, <2>3, OneReadSane DEF Ended
  <1>6. CASE ProbeEntries(c)
    <2>1. client[c].at = "probe"
      BY <1>6 DEF ProbeEntries, Resume
    <2>2. PICK k, f :
            /\ k \in client[c].pending /\ Reads(client[c], f, k)
            /\ IF f.pending # {} THEN Become(c, f) ELSE ProbeRead(c, f)
      BY <1>6 DEF ProbeEntries, Resume, Reads
    <2>3. f.pending = {} => Goes(c, f.req)
      BY <2>1, <2>2, OneReadSane, ProbeReadSane DEF Ended
    <2> QED BY <2>1, <2>2, <2>3, OneReadSane DEF Ended
  <1>7. CASE Destination(c)
    <2>1. client[c].at = "destination"
      BY <1>7 DEF Destination, Resume
    <2>2. PICK k, f :
            /\ k \in client[c].pending /\ Reads(client[c], f, k)
            /\ IF f.pending # {} THEN Become(c, f) ELSE DestinationRead(c, f)
      BY <1>7 DEF Destination, Resume, Reads
    <2>3. f.pending = {} => Goes(c, f.req)
      BY <2>1, <2>2, OneReadSane, DestinationReadSane DEF Ended
    <2> QED BY <2>1, <2>2, <2>3, OneReadSane DEF Ended
  <1>8. CASE Authority(c)
    <2>1. client[c].at = "authority"
      BY <1>8 DEF Authority, Resume
    <2>2. PICK k, f :
            /\ k \in client[c].pending /\ Reads(client[c], f, k)
            /\ IF f.pending # {} THEN Become(c, f) ELSE AuthorityRead(c, f)
      BY <1>8 DEF Authority, Resume, Reads
    <2>3. f.pending = {} => Goes(c, f.req)
      BY <2>1, <2>2, OneReadSane, AuthorityReadSane DEF Ended
    <2> QED BY <2>1, <2>2, <2>3, OneReadSane DEF Ended
  <1>9. CASE RowAgain(c)
    <2>1. client[c].at = "row again"
      BY <1>9 DEF RowAgain, Resume
    <2>2. PICK k, f :
            /\ k \in client[c].pending /\ Reads(client[c], f, k)
            /\ IF f.pending # {} THEN Become(c, f) ELSE RowAgainRead(c, f)
      BY <1>9 DEF RowAgain, Resume, Reads
    <2>3. f.pending = {} => Goes(c, f.req)
      <3>1. client[c].at \notin Ended
        BY <2>1 DEF Ended
      <3>2. k = f.row[1]
        BY <2>1, <2>2, <3>1, OneReadSane
      <3>3. f.got[k] = get(k)
        BY <2>2, <3>1, OneReadSane
      <3>4. f.pending = {} => Complete(f, "row again") /\ Informed(f) /\ RowAgainRead(c, f)
        BY <2>1, <2>2, <3>1, OneReadSane
      <3> QED BY <3>2, <3>3, <3>4, RowAgainReadSane
    <2> QED BY <2>1, <2>2, <2>3, OneReadSane DEF Ended
  <1> QED BY <1>1, <1>2, <1>3, <1>4, <1>5, <1>6, <1>7, <1>8, <1>9

(* So does one that lists rows, *)
LEMMA ListRowsGo ==
    ASSUME IInv, NEW c \in Clients, Sane(client[c]), ListRows(c)
    PROVE  client[c].at \notin Ended /\ Goes(c, client[c].req)
  <1>1. PICK f, rows : f = client[c] /\ rows = {k \in DOMAIN kv : Lists(client[c].req, k)}
    OBVIOUS
  <1>2. /\ f.at = "list" /\ f.at \notin Ended
        /\ NextRow(c, [f EXCEPT !.rows = [k \in rows |-> kv[k]]])
    BY <1>1 DEF ListRows, Ended
  <1>3. DOMAIN f = DOMAIN Idle /\ f.req \in Request /\ AtOK(f) /\ Watched(f)
    BY <1>1, <1>2 DEF IInv, FrameOK, Sane
  <1>4. Listing(f)
    <2>1. Waits(f, "list", f.pending \cup DOMAIN f.got)
      BY <1>2, <1>3 DEF AtOK
    <2> QED BY <2>1, AtPlaces
  <1>5. PICK g : g = [f EXCEPT !.rows = [k \in rows |-> kv[k]]]
    OBVIOUS
  <1>6. /\ DOMAIN g = DOMAIN Idle /\ g.req = f.req /\ g.rows = [k \in rows |-> kv[k]]
        /\ g.targets = f.targets /\ g.existing = f.existing /\ g.reply = f.reply
    BY <1>3, <1>5, IdleFields
  <1>7. \A k \in rows : g.rows[k] = get(k) /\ present(get(k)) /\ Lists(g.req, k)
    BY <1>1, <1>6, EntriesOfGet DEF IInv, StoreOK
  <1>8. Listing(g)
    BY <1>4, <1>6, <1>7 DEF Listing
  <1>9. Knowing(g)
    BY <1>3, <1>6 DEF Knowing, Watched, Informed, Unanswered, ContentWatched, ContentKept
  <1>10. Goes(c, g.req)
    BY <1>2, <1>5, <1>8, <1>9, NextRowSane
  <1> QED BY <1>1, <1>2, <1>6, <1>10

(* one that begins, *)
LEMMA CallGoes ==
    ASSUME IInv, NEW c \in Clients, NEW req \in requests, Call(c, req)
    PROVE  Goes(c, req)
  <1>1. req \in Request
    BY ScenariosAssumption DEF IInv
  <1>2. PICK f : f = [Idle EXCEPT !.req = req]
    OBVIOUS
  <1>3. Fresh(f) /\ f.reply = None /\ f.req = req
    BY <1>1, <1>2, IdleFields DEF Fresh, NoClaims, Idle
  <1>4. Attempt(c, f) \/ Return(c, "endpoint_capacity_exceeded")
    BY <1>2 DEF Call
  <1>5. CASE Attempt(c, f)
    <2>1. Goes(c, f.req)
      BY <1>3, <1>5, AttemptSane
    <2> QED BY <1>3, <2>1
  <1>6. CASE Return(c, "endpoint_capacity_exceeded")
    <2>1. DOMAIN f = DOMAIN Idle
      BY <1>3 DEF Fresh
    <2> QED BY <1>6, <2>1, EndsSane
  <1> QED BY <1>4, <1>5, <1>6

(* and one that stops. *)
LEMMA CrashGoes ==
    ASSUME NEW c, NEW req, Crash(c)
    PROVE  Goes(c, req)
  <1>1. PICK g : g = Idle
    OBVIOUS
  <1>2. Become(c, g) /\ g.at = "idle"
    BY <1>1, IdleFields DEF Crash, Become
  <1> QED BY <1>2, AtEndSane

-----------------------------------------------------------------------------
(* Every step keeps all calls from being misled. *)

(* The calls under way stay different calls of one scenario. *)
LEMMA CalledStays ==
    ASSUME CalledOnce, DOMAIN client = Clients, NEW c \in Clients, NEW g, Become(c, g),
           requests' \subseteq requests,
           \/ g.at \in Ended
           \/ Running(c) /\ g.req = client[c].req
           \/ g.req \in requests \ requests'
    PROVE  CalledOnce'
  <1>1. PICK s \in Scenarios :
           /\ requests \subseteq s.requests
           /\ \A d \in Clients : Running(d) => client[d].req \in s.requests \ requests
           /\ \A d, e \in Clients : Running(d) /\ Running(e) /\ d # e =>
                 client[d].req # client[e].req
    BY DEF CalledOnce
  <1>2. client'[c] = g /\ \A d \in Clients \ {c} : client'[d] = client[d]
    BY DEF Become
  <1>3. \A d \in Clients \ {c} : Running(d)' <=> Running(d)
    BY <1>2 DEF Running
  <1>4. Running(c)' <=> g.at \notin Ended
    BY <1>2 DEF Running
  <1>5. Running(c)' => /\ g.req \in s.requests \ requests'
                       /\ \A d \in Clients \ {c} : Running(d) => client[d].req # g.req
    BY <1>1, <1>4
  <1>6. \A d \in Clients : Running(d)' => client'[d].req \in s.requests \ requests'
    BY <1>1, <1>2, <1>3, <1>5
  <1>7. \A d, e \in Clients : Running(d)' /\ Running(e)' /\ d # e =>
           client'[d].req # client'[e].req
    BY <1>1, <1>2, <1>3, <1>5
  <1>8. requests' \subseteq s.requests
    BY <1>1
  <1> QED BY <1>6, <1>7, <1>8 DEF CalledOnce

(* So they do when no call moves. *)
LEMMA CallsStay ==
    ASSUME CalledOnce, client' = client, requests' \subseteq requests
    PROVE  CalledOnce'
  <1>1. PICK s \in Scenarios :
           /\ requests \subseteq s.requests
           /\ \A d \in Clients : Running(d) => client[d].req \in s.requests \ requests
           /\ \A d, e \in Clients : Running(d) /\ Running(e) /\ d # e =>
                 client[d].req # client[e].req
    BY DEF CalledOnce
  <1>2. \A d \in Clients : Running(d)' <=> Running(d)
    BY DEF Running
  <1> QED BY <1>1, <1>2 DEF CalledOnce

(* A frame that is not misled is not misled by a step of another call. *)
LEMMA SaneStays ==
    ASSUME EntriesTyped,
           UNCHANGED <<kv, clock>> \/ \E written, removed : Write(written, removed),
           StoredAssets \subseteq StoredAssets',
           NEW f, FrameOK(f), Sane(f),
           f.at \notin Ended /\ Drawing(f) /\ IdsDrawnOnce =>
              (Stored(f.req.new_id)' => Stored(f.req.new_id))
    PROVE  Sane(f)'
  <1>1. CASE f.at \in Ended
    BY <1>1 DEF Sane
  <1>2. CASE f.at \notin Ended
    <2>1. \A k, entry : Seen(k, entry) /\ Still(k, entry)' => Still(k, entry)
      BY StillEarlier
    <2>2. Watched(f)'
      BY <1>2, <2>1, WatchedStays DEF Sane
    <2> QED BY <1>2, <2>2 DEF Sane, Ended
  <1> QED BY <1>1, <1>2

(* A step that leaves the store alone. *)
LEMMA QuietStep ==
    ASSUME IInv, Sanity, UNCHANGED <<kv, clock>>, NEW c \in Clients, Lands(c), NEW req,
           Goes(c, req), requests' \subseteq requests,
           \/ client'[c].at \in Ended
           \/ Running(c) /\ req = client[c].req
           \/ req \in requests \ requests'
    PROVE  Sanity'
  <1>1. EntriesTyped /\ DOMAIN client = Clients
    BY DEF IInv, StoreOK
  <1>2. PICK g : Become(c, g) /\ Sane(g) /\ (g.at \notin Ended => g.req = req)
    BY DEF Goes
  <1>3. client'[c] = g /\ \A d \in Clients \ {c} : client'[d] = client[d]
    BY <1>1, <1>2 DEF Become
  <1>4. FrameOK(g)
    BY <1>1, <1>3 DEF Lands, Become
  <1>5. CalledOnce'
    BY <1>1, <1>2, <1>3, CalledStays DEF Sanity
  <1>6. StoredAssets' = StoredAssets /\ \A id : Stored(id)' <=> Stored(id)
    BY DEF StoredAssets, Stored, get, present, Absent
  <1>7. ASSUME NEW d \in Clients PROVE Sane(client[d])'
    <2>1. PICK h : h = client'[d]
      OBVIOUS
    <2>2. FrameOK(h) /\ Sane(h)
      BY <1>2, <1>3, <1>4, <2>1 DEF IInv, Sanity
    <2>3. Sane(h)'
      BY <1>1, <1>6, <2>2, SaneStays
    <2> QED BY <2>1, <2>3
  <1> QED BY <1>5, <1>7 DEF Sanity

(* A commit adds at most the page whose id its call drew, which no other   *)
(* call draws.                                                             *)
LEMMA CommitKeepsSane ==
    ASSUME IInv, Sanity, NEW c \in Clients, NEW f, f = client[c], f.at = "commit", Current(f),
           Write(Written(f), Removed(f)), Return(c, "ok"), UNCHANGED requests
    PROVE  Sanity'
  <1>1. StoreOK /\ FrameOK(f) /\ DOMAIN client = Clients
    BY DEF IInv
  <1>2. StoreOK' /\ StoredAssets' = StoredAssets /\ Adds(f.req)
    BY <1>1, CommitAdds
  <1>3. PICK g : g = [Idle EXCEPT !.reply = "ok"]
    OBVIOUS
  <1>4. Become(c, g) /\ g.at = "idle"
    BY <1>3, IdleFields DEF Return
  <1>5. client'[c] = g /\ \A d \in Clients \ {c} : client'[d] = client[d]
    BY <1>1, <1>4 DEF Become
  <1>6. CalledOnce'
    BY <1>1, <1>4, CalledStays DEF Sanity, Ended
  <1>7. \E written, removed : Write(written, removed)
    OBVIOUS
  <1>8. EntriesTyped /\ EntriesTyped'
    BY <1>1, <1>2 DEF StoreOK
  <1>9. ASSUME NEW d \in Clients PROVE Sane(client[d])'
    <2>1. PICK h : h = client'[d]
      OBVIOUS
    <2>2. CASE d = c
      <3>1. h.at = "idle"
        BY <1>4, <1>5, <2>1, <2>2
      <3>2. Sane(h)'
        BY <3>1 DEF Sane, Ended
      <3> QED BY <2>1, <3>2
    <2>3. CASE d # c
      <3>1. h = client[d] /\ FrameOK(h) /\ Sane(h)
        BY <1>5, <2>1, <2>3 DEF IInv, Sanity
      <3>2. ASSUME h.at \notin Ended, Drawing(h), IdsDrawnOnce, Stored(h.req.new_id)'
            PROVE  Stored(h.req.new_id)
        <4>1. PICK i : i = h.req.new_id
          OBVIOUS
        <4>2. i \in PageIds
          BY <3>1, <3>2, <4>1, RequestFields DEF FrameOK, Drawing
        <4>3. PICK s \in Scenarios :
                 /\ f.req \in s.requests /\ h.req \in s.requests /\ f.req # h.req
          BY <2>3, <3>1, <3>2 DEF Sanity, CalledOnce, Running, Ended
        <4>4. ~(f.req.kind \in NewKinds /\ i = f.req.new_id)
          BY <3>2, <4>1, <4>3 DEF IdsDrawnOnce, Drawing, NewKinds
        <4>5. StoredPages'[i] # None
          BY <1>8, <3>2, <4>1, <4>2, StoredAfter
        <4>6. StoredPages[i] # None
          BY <1>2, <4>2, <4>4, <4>5 DEF Adds
        <4> QED BY <1>8, <4>1, <4>2, <4>6, StoredBefore
      <3>3. Sane(h)'
        BY <1>2, <1>7, <1>8, <3>1, <3>2, SaneStays
      <3> QED BY <2>1, <3>3
    <2> QED BY <2>2, <2>3
  <1> QED BY <1>6, <1>9 DEF Sanity

(* The appearance of an asset adds no page. *)
LEMMA AssetKeepsSane ==
    ASSUME IInv, Sanity, NEW req \in requests, create_content_asset(req)
    PROVE  Sanity'
  <1>1. PICK a \in ContentAssets : Abstract!create_content_asset(a)
    BY AssetStep
  <1>2. StoredAssets \subseteq StoredAssets' /\ StoredPages' = StoredPages
    BY <1>1 DEF Abstract!create_content_asset
  <1>3. EntriesTyped /\ EntriesTyped'
    BY AssetStep DEF IInv, StoreOK
  <1>4. /\ \E written, removed : Write(written, removed)
        /\ client' = client /\ requests' \subseteq requests
    BY DEF create_content_asset
  <1>6. CalledOnce'
    BY <1>4, CallsStay DEF Sanity
  <1>7. ASSUME NEW d \in Clients PROVE Sane(client[d])'
    <2>1. PICK h : h = client[d]
      OBVIOUS
    <2>2. FrameOK(h) /\ Sane(h)
      BY <2>1 DEF IInv, Sanity
    <2>3. ASSUME h.at \notin Ended, Drawing(h), Stored(h.req.new_id)' PROVE Stored(h.req.new_id)
      <3>1. PICK i : i = h.req.new_id
        OBVIOUS
      <3>2. i \in PageIds
        BY <2>2, <2>3, <3>1, RequestFields DEF FrameOK, Drawing
      <3> QED BY <1>2, <1>3, <2>3, <3>1, <3>2, StoredBefore, StoredAfter
    <2>4. Sane(h)'
      BY <1>2, <1>3, <1>4, <2>2, <2>3, SaneStays
    <2> QED BY <1>4, <2>1, <2>4
  <1> QED BY <1>6, <1>7 DEF Sanity

(* Nothing happens. *)
LEMMA StutterKeepsSane ==
    ASSUME IInv, Sanity, UNCHANGED vars
    PROVE  Sanity'
  <1>1. UNCHANGED <<kv, clock>> /\ client' = client /\ requests' \subseteq requests
    BY DEF vars
  <1>2. CalledOnce'
    BY <1>1, CallsStay DEF Sanity
  <1>3. StoredAssets' = StoredAssets /\ \A id : Stored(id)' <=> Stored(id)
    BY <1>1 DEF StoredAssets, Stored, get, present, Absent
  <1>4. ASSUME NEW d \in Clients PROVE Sane(client[d])'
    <2>1. PICK h : h = client[d]
      OBVIOUS
    <2>2. FrameOK(h) /\ Sane(h) /\ EntriesTyped
      BY <2>1 DEF IInv, Sanity, StoreOK
    <2>3. Sane(h)'
      BY <1>1, <1>3, <2>2, SaneStays
    <2> QED BY <1>1, <2>1, <2>3
  <1> QED BY <1>2, <1>4 DEF Sanity

(* Every step keeps every call informed. *)
LEMMA SanityStep ==
    ASSUME IInv, Sanity, [Next]_vars
    PROVE  Sanity'
  <1>0. \A d \in Clients : Sane(client[d])
    BY DEF Sanity
  <1>1. ASSUME NEW req \in requests, create_content_asset(req) PROVE Sanity'
    BY <1>1, AssetKeepsSane
  <1>2. ASSUME NEW c \in Clients, NEW req \in requests, Call(c, req) PROVE Sanity'
    <2>1. Lands(c) /\ UNCHANGED <<kv, clock>> /\ Goes(c, req)
      BY <1>2, CallLands, CallGoes
    <2>2. requests' = requests \ {req}
      BY <1>2 DEF Call
    <2> QED BY <2>1, <2>2, QuietStep
  <1>3. ASSUME NEW c \in Clients,
               \/ SnapshotEntry(c) \/ SnapshotIndexes(c) \/ SnapshotAgain(c)
               \/ Claims(c) \/ ClaimsAgain(c) \/ ProbeEntries(c)
               \/ Destination(c) \/ Authority(c) \/ RowAgain(c)
        PROVE  Sanity'
    <2>1. Lands(c) /\ UNCHANGED <<kv, clock, requests>>
      BY <1>3, ReadsLand
    <2>2. Running(c) /\ Goes(c, client[c].req)
      BY <1>0, <1>3, ReadsGo DEF Running
    <2> QED BY <2>1, <2>2, QuietStep
  <1>4. ASSUME NEW c \in Clients, ListRows(c) PROVE Sanity'
    <2>1. Lands(c) /\ UNCHANGED <<kv, clock, requests>>
      BY <1>4, ListRowsLands
    <2>2. Running(c) /\ Goes(c, client[c].req)
      BY <1>0, <1>4, ListRowsGo DEF Running
    <2> QED BY <2>1, <2>2, QuietStep
  <1>5. ASSUME NEW c \in Clients, Commit(c) PROVE Sanity'
    <2>1. PICK f : f = client[c]
      OBVIOUS
    <2>2. /\ f.at = "commit" /\ UNCHANGED requests
          /\ \/ Current(f) /\ Write(Written(f), Removed(f)) /\ Return(c, "ok")
             \/ Retry(c, f) /\ UNCHANGED <<kv, clock>>
      BY <1>5, <2>1 DEF Commit
    <2>3. f.req \in Request
      BY <2>1, <2>2 DEF IInv, FrameOK, Ended
    <2>4. CASE Current(f) /\ Write(Written(f), Removed(f)) /\ Return(c, "ok")
      BY <2>1, <2>2, <2>4, CommitKeepsSane
    <2>5. CASE Retry(c, f) /\ UNCHANGED <<kv, clock>>
      <3>1. Lands(c) /\ Goes(c, f.req)
        BY <2>1, <2>3, <2>5, RetryLands, RetrySane DEF IInv
      <3>2. Running(c) /\ f.req = client[c].req /\ requests' \subseteq requests
        BY <2>1, <2>2 DEF Running, Ended
      <3> QED BY <2>5, <3>1, <3>2, QuietStep
    <2> QED BY <2>2, <2>4, <2>5
  <1>6. ASSUME NEW c \in Clients, Crash(c) PROVE Sanity'
    <2>1. Lands(c) /\ UNCHANGED <<kv, clock, requests>>
      BY <1>6, CrashLands
    <2>2. client'[c].at = "idle"
      BY <1>6, IdleFields DEF Crash, IInv
    <2>3. PICK req : Goes(c, req)
      BY <1>6, CrashGoes
    <2> QED BY <2>1, <2>2, <2>3, QuietStep DEF Ended
  <1>7. CASE UNCHANGED vars
    BY <1>7, StutterKeepsSane DEF vars
  <1> QED BY <1>1, <1>2, <1>3, <1>4, <1>5, <1>6, <1>7 DEF Next

(* No call is under way in the beginning. *)
LEMMA SanityInitially ==
    ASSUME Init
    PROVE  Sanity
  <1>1. PICK s \in Scenarios : requests = s.requests /\ client = [c \in Clients |-> Idle]
    BY DEF Init
  <1>2. Idle.at = "idle"
    BY IdleFields
  <1>3. \A c \in Clients : client[c].at = "idle"
    BY <1>1, <1>2
  <1>4. \A c \in Clients : Sane(client[c]) /\ ~Running(c)
    BY <1>3 DEF Sane, Running, Ended
  <1> QED BY <1>1, <1>4 DEF Sanity, CalledOnce

(* What every call relies on at each of its awaits stays true, whatever    *)
(* the others commit between its reads.                                    *)
THEOREM KeepsSanity == Spec => []Sanity
  <1>1. Init => Sanity
    BY SanityInitially
  <1>2. IInv /\ Sanity /\ [Next]_vars => Sanity'
    BY SanityStep
  <1> QED BY <1>1, <1>2, KeepsInvariant, PTL DEF Spec

(* No call that does not draw an id is misled, however its reads and other *)
(* clients' commits interleave, and no call at all is if ids are not drawn *)
(* twice.                                                                  *)
THEOREM OnlyDrawnIdsMislead ==
    Spec => [](\A c \in Clients :
                  client[c].at = "invariant violated" => ~IdsDrawnOnce /\ Drawing(client[c]))
  <1>1. Sanity => \A c \in Clients :
                    client[c].at = "invariant violated" => ~IdsDrawnOnce /\ Drawing(client[c])
    BY DEF Sanity, Sane
  <1> QED BY <1>1, KeepsSanity, PTL

(* If ids are not drawn twice, as random ones are not, no call ever throws *)
(* "invariant violated".                                                   *)
THEOREM NobodyIsMisled ==
    ASSUME IdsDrawnOnce
    PROVE  Spec => []NoFalseInvariantViolation
  <1>1. Sanity => NoFalseInvariantViolation
    BY DEF Sanity, Sane, NoFalseInvariantViolation
  <1> QED BY <1>1, KeepsSanity, PTL

-----------------------------------------------------------------------------
(* What resolutions and listings answer with. *)

(* A read that has returned, in one predicate. *)
Returned(h, f, k) == FrameOK(f) /\ f.at = h.at /\ Same(h, f) /\ f.got[k] = get(k)

(* A read returns what the store holds and changes nothing else. *)
LEMMA ReadReturned ==
    ASSUME EntriesTyped, NEW h, FrameOK(h), h.at \notin Ended, NEW k \in h.pending, NEW f,
           Reads(h, f, k)
    PROVE  Returned(h, f, k)
  BY ReadingStays DEF Returned

(* A call that awaits its last reads moves by one of them, stops, or stays. *)
LEMMA LastReads ==
    ASSUME IInv, [Next]_vars, NEW c \in Clients,
           client[c].at = "claims again" \/ client[c].at = "snapshot again"
    PROVE  \/ client'[c] = client[c]
           \/ client'[c] = Idle
           \/ client[c].at = "claims again" /\ ClaimsAgain(c)
           \/ client[c].at = "snapshot again" /\ SnapshotAgain(c)
  <1>1. DOMAIN client = Clients
    BY DEF IInv
  <1>2. ASSUME NEW d \in Clients, Lands(d), d # c PROVE client'[c] = client[c]
    BY <1>1, <1>2 DEF Lands, Become
  <1>3. ASSUME NEW req \in requests, create_content_asset(req) PROVE client'[c] = client[c]
    BY <1>3 DEF create_content_asset
  <1>4. ASSUME NEW d \in Clients, NEW req \in requests, Call(d, req)
        PROVE  client'[c] = client[c]
    <2>1. Lands(d) /\ d # c
      BY <1>4, CallLands DEF Call
    <2> QED BY <1>2, <2>1
  <1>5. ASSUME NEW d \in Clients, d # c,
               \/ SnapshotEntry(d) \/ SnapshotIndexes(d) \/ SnapshotAgain(d)
               \/ Claims(d) \/ ClaimsAgain(d) \/ ProbeEntries(d)
               \/ Destination(d) \/ Authority(d) \/ RowAgain(d)
        PROVE  client'[c] = client[c]
    <2>1. Lands(d)
      BY <1>5, ReadsLand
    <2> QED BY <1>2, <1>5, <2>1
  <1>6. /\ ~SnapshotEntry(c) /\ ~SnapshotIndexes(c) /\ ~Claims(c) /\ ~ProbeEntries(c)
        /\ ~Destination(c) /\ ~Authority(c) /\ ~RowAgain(c)
        /\ SnapshotAgain(c) => client[c].at = "snapshot again"
        /\ ClaimsAgain(c) => client[c].at = "claims again"
    BY DEF SnapshotEntry, SnapshotIndexes, SnapshotAgain, Claims, ClaimsAgain, ProbeEntries,
           Destination, Authority, RowAgain, Resume
  <1>7. ASSUME NEW d \in Clients, ListRows(d) PROVE client'[c] = client[c]
    <2>1. Lands(d) /\ d # c
      BY <1>7, ListRowsLands DEF ListRows
    <2> QED BY <1>2, <2>1
  <1>8. ASSUME NEW d \in Clients, Commit(d) PROVE client'[c] = client[c]
    <2>1. PICK f : f = client[d]
      OBVIOUS
    <2>2. f.at = "commit" /\ (Return(d, "ok") \/ Retry(d, f))
      BY <1>8, <2>1 DEF Commit
    <2>3. f.req \in Request /\ DOMAIN f = DOMAIN Idle
      BY <2>1, <2>2 DEF IInv, FrameOK, Ended
    <2>4. Lands(d)
      BY <2>2, <2>3, RetryLands, EndsLand
    <2>5. d # c
      BY <2>1, <2>2
    <2> QED BY <1>2, <2>4, <2>5
  <1>9. ASSUME NEW d \in Clients, Crash(d) PROVE client'[c] = client[c] \/ client'[c] = Idle
    BY <1>1, <1>9 DEF Crash
  <1>10. CASE UNCHANGED vars
    BY <1>10 DEF vars
  <1> QED BY <1>3, <1>4, <1>5, <1>6, <1>7, <1>8, <1>9, <1>10 DEF Next

(* A resolution whose claims are read a second time answers with the page  *)
(* the claim names now.                                                    *)
LEMMA ResolutionIsCurrent ==
    ASSUME IInv, NEW c \in Clients, Sane(client[c]), client[c].at = "claims again",
           client[c].req.kind = "resolve", ClaimsAgain(c), client'[c].reply = "found",
           NEW key, key = page_endpoint_claim_key(client[c].req.locator)
    PROVE  \E s \in client'[c].snapshots : get(key).val = page_pointer(s.id, s.page)
  <1>1. DOMAIN client = Clients /\ EntriesTyped /\ client[c].at \notin Ended
    BY DEF IInv, StoreOK, Ended
  <1>2. PICK k, f :
          /\ k \in client[c].pending /\ Reads(client[c], f, k)
          /\ IF f.pending # {} THEN Become(c, f) ELSE ClaimsAgainRead(c, f)
    BY DEF ClaimsAgain, Resume, Reads
  <1>0. client[c].at \notin Ended /\ k \in client[c].pending /\ Reads(client[c], f, k)
    BY <1>1, <1>2
  <1>3. Informed(f) /\ f.req = client[c].req /\ f.got[k] = get(k)
    <2>1. f.req = client[c].req /\ f.got[k] = get(k)
      BY <1>0, OneReadSane
    <2>2. StoreOK /\ FrameOK(client[c]) /\ Watched(client[c])
      BY <1>0 DEF IInv, Sane
    <2>3. Informed(f)
      BY <1>0, <2>2, ReadInformed DEF Watched
    <2> QED BY <2>1, <2>3
  <1>4. FrameOK(f) /\ f.at = "claims again"
    <2>1. PICK h : h = client[c]
      OBVIOUS
    <2>2. FrameOK(h) /\ h.at \notin Ended /\ k \in h.pending /\ Reads(h, f, k)
      BY <1>0, <2>1 DEF IInv
    <2>3. Returned(h, f, k)
      BY <1>1, <2>2, ReadReturned
    <2> QED BY <2>1, <2>3 DEF Returned
  <1>5. f.reply = None
    BY <1>3 DEF Informed, Unanswered
  <1>6. \A g : Become(c, g) => client'[c] = g
    BY <1>1 DEF Become
  <1>7. DOMAIN f = DOMAIN Idle /\ Recalled(f) /\ AtOK(f)
    BY <1>4 DEF FrameOK, Ended
  <1>8. f.pending = {}
    BY <1>2, <1>5, <1>6, NoneAssumption
  <1>9. Claiming(f) /\ DOMAIN f.got = WantedKeys(f.req)
    <2>1. PICK keys : keys = f.pending \cup DOMAIN f.got
      OBVIOUS
    <2>2. Waits(f, f.at, keys)
      BY <1>7, <2>1 DEF AtOK
    <2>3. Claiming(f) /\ keys = WantedKeys(f.req)
      BY <1>4, <2>2 DEF Waits
    <2> QED BY <1>8, <2>1, <2>3
  <1>10. WantedKeys(f.req) = {key}
    BY <1>3 DEF WantedKeys
  <1>11. k = key
    <2>1. PICK h, keys : h = client[c] /\ keys = client[c].pending \cup DOMAIN client[c].got
      OBVIOUS
    <2>2. Waits(h, h.at, keys)
      BY <1>1, <2>1 DEF IInv, FrameOK, AtOK
    <2>3. keys = WantedKeys(h.req)
      BY <2>1, <2>2 DEF Waits
    <2> QED BY <1>2, <1>3, <1>10, <2>1, <2>3
  <1>12. f.got[key] = get(key)
    BY <1>3, <1>11
  <1>13. f.targets # NoEntries /\ key \in DOMAIN f.targets
    BY <1>9, <1>10, NothingSeen DEF Claiming
  <1>14. Seen(key, f.targets[key]) /\ present(f.targets[key])
    BY <1>3, <1>4, <1>7, <1>13 DEF Recalled, Remembers, SeenAll, Informed, Unanswered
  <1>15. ClaimsAgainRead(c, f)
    BY <1>2, <1>8
  <1>16. PICK again : again = [f EXCEPT !.claim_attempt = @ + 1, !.snapshot_attempt = 0,
                                        !.targets = NoEntries, !.snapshots = {}]
    OBVIOUS
  <1>17. again.reply = None /\ DOMAIN again = DOMAIN Idle
    BY <1>5, <1>7, <1>16, IdleFields
  <1>18. ASSUME NEW h, h.reply = None, DOMAIN h = DOMAIN Idle
         PROVE  /\ \A at, keys : ~Await(c, h, at, keys)
                /\ ~contention_exhausted(c, h) /\ ~invariant_violation(c, h)
    <2>1. ASSUME NEW at, NEW keys, Await(c, h, at, keys) PROVE FALSE
      <3>1. PICK g : g = [h EXCEPT !.at = at, !.pending = keys, !.got = NoEntries]
        OBVIOUS
      <3>2. g.reply = None
        BY <1>18, <3>1, IdleFields
      <3> QED BY <1>6, <2>1, <3>1, <3>2, NoneAssumption DEF Await
    <2>2. ASSUME NEW error, Throw(c, h, error) PROVE FALSE
      <3>1. PICK g : g = [h EXCEPT !.at = error, !.pending = {}, !.got = NoEntries]
        OBVIOUS
      <3>2. g.reply = None
        BY <1>18, <3>1, IdleFields
      <3> QED BY <1>6, <2>2, <3>1, <3>2, NoneAssumption DEF Throw
    <2> QED BY <2>1, <2>2 DEF contention_exhausted, invariant_violation
  <1>19. ~ClaimsMoved(f) /\ ClaimsCoherent(f) /\ ClaimsRead(c, f)
    <2>1. \/ \E at, keys : Await(c, again, at, keys)
          \/ contention_exhausted(c, again) \/ invariant_violation(c, f)
          \/ ~ClaimsMoved(f) /\ ClaimsCoherent(f) /\ ClaimsRead(c, f)
      BY <1>15, <1>16 DEF ClaimsAgainRead
    <2> QED BY <1>5, <1>7, <1>17, <1>18, <2>1
  <1>20. get(key) = f.targets[key]
    BY <1>12, <1>13, <1>14, <1>19 DEF ClaimsMoved, Seen
  <1>21. \E s \in f.snapshots : f.targets[key].val = page_pointer(s.id, s.page)
    BY <1>13, <1>14, <1>19 DEF ClaimsCoherent
  <1>22. client'[c].snapshots = f.snapshots
    <2>1. Found(c, f.snapshots)
      BY <1>3, <1>19 DEF ClaimsRead
    <2>2. PICK g : g = [Idle EXCEPT !.reply = "found", !.snapshots = f.snapshots]
      OBVIOUS
    <2>3. Become(c, g) /\ g.snapshots = f.snapshots
      BY <2>1, <2>2, IdleFields DEF Found
    <2> QED BY <1>6, <2>3
  <1> QED BY <1>20, <1>21, <1>22

(* A resolution answers with the page that holds the locator, at its       *)
(* current revision, at the step at which it answers.                      *)
THEOREM ResolutionsAreCurrent == Spec => ResolveReturnsCurrent
  <1> DEFINE Answers(c) == /\ client[c].at = "claims again" /\ client[c].req.kind = "resolve"
                           /\ client'[c].reply = "found"
             Current_(c) == \E s \in client'[c].snapshots :
                               get(page_endpoint_claim_key(client[c].req.locator)).val =
                                   page_pointer(s.id, s.page)
  <1>1. ASSUME IInv, Sanity, [Next]_vars, NEW c \in Clients, Answers(c)
        PROVE  Current_(c)
    <2>1. Sane(client[c])
      BY <1>1 DEF Sanity
    <2>2. client[c].reply = None /\ Idle.reply = None
      BY <1>1, <2>1 DEF Sane, Watched, Informed, Unanswered, Ended, Idle
    <2>3. ClaimsAgain(c)
      BY <1>1, <2>2, LastReads, NoneAssumption
    <2>4. PICK key : key = page_endpoint_claim_key(client[c].req.locator)
      OBVIOUS
    <2>5. \E s \in client'[c].snapshots : get(key).val = page_pointer(s.id, s.page)
      BY <1>1, <2>1, <2>3, <2>4, ResolutionIsCurrent
    <2> QED BY <2>4, <2>5
  <1>2. IInv /\ Sanity /\ [Next]_vars => [\A c \in Clients : Answers(c) => Current_(c)]_vars
    BY <1>1
  <1> QED BY <1>2, KeepsInvariant, KeepsSanity, PTL DEF Spec, ResolveReturnsCurrent

(* A page that a listing takes up is stored as it was read, with a row     *)
(* that is listed.                                                         *)
LEMMA ListedIsCurrent ==
    ASSUME IInv, NEW c \in Clients, Sane(client[c]), client[c].at = "snapshot again",
           client[c].req.kind = "list", SnapshotAgain(c),
           NEW s \in client'[c].snapshots \ client[c].snapshots
    PROVE  /\ get(page_aggregate_storage_key(s.id)) = s.entry
           /\ \E k \in projection_keys(s.id, s.page) : Lists(client[c].req, k)
  <1>1. DOMAIN client = Clients /\ EntriesTyped /\ client[c].at \notin Ended
    BY DEF IInv, StoreOK, Ended
  <1>2. PICK k, f :
          /\ k \in client[c].pending /\ Reads(client[c], f, k)
          /\ IF f.pending # {} THEN Become(c, f) ELSE AgainRead(c, f)
    BY DEF SnapshotAgain, Resume, Reads
  <1>3. PICK h : h = client[c]
    OBVIOUS
  <1>4. /\ FrameOK(h) /\ h.at = "snapshot again" /\ h.at \notin Ended /\ k \in h.pending
        /\ Reads(h, f, k) /\ Watched(h)
    BY <1>1, <1>2, <1>3 DEF IInv, Sane
  <1>5. FrameOK(f) /\ f.at = "snapshot again" /\ Same(h, f) /\ f.got[k] = get(k)
    <2>1. EntriesTyped /\ FrameOK(h) /\ h.at \notin Ended /\ k \in h.pending /\ Reads(h, f, k)
      BY <1>1, <1>4
    <2>2. Returned(h, f, k)
      BY <2>1, ReadReturned
    <2> QED BY <1>4, <2>2 DEF Returned
  <1>6. \A g : Become(c, g) => client'[c] = g
    BY <1>1 DEF Become
  <1>7. f.snapshots = h.snapshots /\ f.req = h.req /\ f.reading = h.reading
    BY <1>5 DEF Same
  <1>8. ASSUME NEW g, Become(c, g) PROVE g.snapshots # f.snapshots
    BY <1>3, <1>6, <1>7, <1>8
  <1>9. f.pending = {} /\ AgainRead(c, f)
    BY <1>2, <1>8
  <1>10. DOMAIN f = DOMAIN Idle /\ Recalled(f) /\ AtOK(f)
    BY <1>5 DEF FrameOK, Ended
  <1>11. Fetching(f)
    <2>1. PICK keys : keys = f.pending \cup DOMAIN f.got
      OBVIOUS
    <2>2. Waits(f, f.at, keys)
      BY <1>10, <2>1 DEF AtOK
    <2> QED BY <1>5, <2>2 DEF Waits
  <1>12. Listing(f) /\ Lists(f.req, f.row[1])
    BY <1>3, <1>7, <1>11 DEF Fetching, Editing, Claiming, Asking
  <1>13. PICK key, page : key = page_aggregate_storage_key(f.reading) /\ page = f.entry.val
    OBVIOUS
  <1>14. f.got[key] = get(key)
    <2>1. h.pending = {page_aggregate_storage_key(h.reading)}
      BY <1>4 DEF Watched, SinglesPending
    <2> QED BY <1>4, <1>5, <1>7, <1>13, <2>1
  <1>15. Seen(key, f.entry)
    BY <1>5, <1>10, <1>13 DEF Recalled, RemembersEntry
  <1>16. ASSUME NEW e, DOMAIN e = DOMAIN Idle, e.snapshots = f.snapshots
         PROVE  /\ \A at, keys : ~Await(c, e, at, keys)
                /\ ~contention_exhausted(c, e) /\ ~invariant_violation(c, e)
    <2>1. ASSUME NEW at, NEW keys, Await(c, e, at, keys) PROVE FALSE
      <3>1. PICK g : g = [e EXCEPT !.at = at, !.pending = keys, !.got = NoEntries]
        OBVIOUS
      <3>2. g.snapshots = f.snapshots
        BY <1>16, <3>1, IdleFields
      <3> QED BY <1>8, <2>1, <3>1, <3>2 DEF Await
    <2>2. ASSUME NEW error, Throw(c, e, error) PROVE FALSE
      <3>1. PICK g : g = [e EXCEPT !.at = error, !.pending = {}, !.got = NoEntries]
        OBVIOUS
      <3>2. g.snapshots = f.snapshots
        BY <1>16, <3>1, IdleFields
      <3> QED BY <1>8, <2>2, <3>1, <3>2 DEF Throw
    <2> QED BY <2>1, <2>2 DEF contention_exhausted, invariant_violation
  <1>17. PICK index : index = [j \in visibility_keys(f.reading, page) |-> f.got[j]]
    OBVIOUS
  <1>18. PICK snapshot : snapshot = Snapshot(f.reading, f.entry, index)
    OBVIOUS
  <1>19. snapshot.id = f.reading /\ snapshot.entry = f.entry /\ snapshot.page = page
    BY <1>13, <1>18 DEF Snapshot
  <1>20. ~SnapshotTorn(f) /\ SnapshotRead(c, f, snapshot)
    <2>1. PICK again : again = [f EXCEPT !.snapshot_attempt = @ + 1]
      OBVIOUS
    <2>2. DOMAIN again = DOMAIN Idle /\ again.snapshots = f.snapshots
      BY <1>10, <2>1, IdleFields
    <2>3. \/ \E at, keys : Await(c, again, at, keys)
          \/ contention_exhausted(c, again) \/ invariant_violation(c, f)
          \/ ~SnapshotTorn(f) /\ SnapshotRead(c, f, snapshot)
      BY <1>9, <1>13, <1>17, <1>18, <2>1 DEF AgainRead
    <2> QED BY <1>10, <1>16, <2>2, <2>3
  <1>21. get(key) = f.entry
    BY <1>13, <1>14, <1>15, <1>20 DEF SnapshotTorn, Seen
  <1>22. RowMatches(f, snapshot) /\ NextRow(c, [f EXCEPT !.snapshots = @ \cup {snapshot}])
    <2>1. RowRead(c, f, snapshot)
      BY <1>3, <1>7, <1>12, <1>20 DEF SnapshotRead, Listing
    <2>2. ~Await(c, f, "row again", {f.row[1]})
      BY <1>10, <1>16
    <2> QED BY <2>1, <2>2 DEF RowRead
  <1>23. client'[c].snapshots = f.snapshots \cup {snapshot}
    <2>1. PICK g : g = [f EXCEPT !.snapshots = @ \cup {snapshot}]
      OBVIOUS
    <2>2. DOMAIN g = DOMAIN Idle /\ g.snapshots = f.snapshots \cup {snapshot}
      BY <1>10, <2>1, IdleFields
    <2>3. NextRow(c, g)
      BY <1>22, <2>1
    <2>4. CASE Found(c, g.snapshots)
      <3>1. PICK e : e = [Idle EXCEPT !.reply = "found", !.snapshots = g.snapshots]
        OBVIOUS
      <3>2. Become(c, e) /\ e.snapshots = g.snapshots
        BY <2>4, <3>1, IdleFields DEF Found
      <3> QED BY <1>6, <2>2, <3>2
    <2>5. CASE DOMAIN g.rows # {}
      <3>1. PICK row, rest, id : read_snapshot(c, [g EXCEPT !.row = row, !.rows = rest], id)
        BY <2>3, <2>5 DEF NextRow
      <3>2. PICK e : e = [g EXCEPT !.row = row, !.rows = rest]
        OBVIOUS
      <3>3. PICK d : d = [e EXCEPT !.reading = id, !.snapshot_attempt = 0]
        OBVIOUS
      <3>4. PICK at, keys : Await(c, d, at, keys)
        BY <3>1, <3>2, <3>3 DEF read_snapshot
      <3>5. DOMAIN e = DOMAIN Idle /\ e.snapshots = g.snapshots
        BY <2>2, <3>2, IdleFields
      <3>6. DOMAIN d = DOMAIN Idle /\ d.snapshots = g.snapshots
        BY <3>3, <3>5, IdleFields
      <3>7. PICK b : b = [d EXCEPT !.at = at, !.pending = keys, !.got = NoEntries]
        OBVIOUS
      <3>8. b.snapshots = g.snapshots
        BY <3>6, <3>7, IdleFields
      <3> QED BY <1>6, <2>2, <3>4, <3>7, <3>8 DEF Await
    <2> QED BY <2>3, <2>4, <2>5 DEF NextRow
  <1>24. s = snapshot
    BY <1>3, <1>7, <1>23
  <1>25. f.row[1] \in projection_keys(snapshot.id, snapshot.page)
    BY <1>22 DEF RowMatches
  <1> QED BY <1>3, <1>7, <1>12, <1>13, <1>19, <1>21, <1>24, <1>25

(* A page enters a listing as it is stored at that step, and only while it *)
(* has a listed row.                                                       *)
THEOREM ListingsAreCurrent == Spec => ListedPagesAreCurrent
  <1> DEFINE Listed(c) ==
                \A s \in client'[c].snapshots \ client[c].snapshots :
                    /\ get(page_aggregate_storage_key(s.id)) = s.entry
                    /\ \E k \in projection_keys(s.id, s.page) : Lists(client[c].req, k)
             Lists_(c) == client[c].at = "snapshot again" /\ client[c].req.kind = "list"
  <1>1. ASSUME IInv, Sanity, [Next]_vars, NEW c \in Clients, Lists_(c)
        PROVE  Listed(c)
    <2>1. Sane(client[c])
      BY <1>1 DEF Sanity
    <2>2. Idle.snapshots = {}
      BY IdleFields
    <2>3. CASE SnapshotAgain(c)
      BY <1>1, <2>1, <2>3, ListedIsCurrent
    <2>4. CASE client'[c] = client[c] \/ client'[c] = Idle
      BY <2>2, <2>4
    <2> QED BY <1>1, <2>3, <2>4, LastReads
  <1>2. IInv /\ Sanity /\ [Next]_vars => [\A c \in Clients : Lists_(c) => Listed(c)]_vars
    BY <1>1
  <1> QED BY <1>2, KeepsInvariant, KeepsSanity, PTL DEF Spec, ListedPagesAreCurrent

-----------------------------------------------------------------------------
(* The checks of a commit stay within the budget of an atomic operation.   *)

(* A union of at most m sets with at most n elements each has at most m * n. *)
LEMMA UnionBound ==
    ASSUME NEW F, IsFiniteSet(F), NEW m \in Nat, NEW n \in Nat, Cardinality(F) <= m,
           \A S \in F : IsFiniteSet(S) /\ Cardinality(S) <= n
    PROVE  IsFiniteSet(UNION F) /\ Cardinality(UNION F) <= m * n
  <1> DEFINE SetOf(x) == CHOOSE S \in F : x \in S
             Numbering(S) == CHOOSE f \in Injection(S, 1 .. n) : TRUE
  <1>1. \A x \in UNION F : SetOf(x) \in F /\ x \in SetOf(x)
    OBVIOUS
  <1>2. ASSUME NEW S \in F PROVE Injection(S, 1 .. n) # {}
    <2>1. Cardinality(S) \in Nat /\ ExistsBijection(1 .. Cardinality(S), S)
      BY FS_CardinalityType
    <2>2. ExistsBijection(S, 1 .. Cardinality(S))
      BY <2>1, Fun_ExistsBijSymmetric
    <2>3. PICK f \in Bijection(S, 1 .. Cardinality(S)) : TRUE
      BY <2>2 DEF ExistsBijection
    <2>4. 1 .. Cardinality(S) \subseteq 1 .. n
      BY <2>1
    <2>5. f \in Injection(S, 1 .. n)
      BY <2>3, <2>4 DEF Bijection, Injection, IsInjective
    <2> QED BY <2>5
  <1>3. \A S \in F : Numbering(S) \in Injection(S, 1 .. n)
    BY <1>2
  <1> HIDE DEF SetOf, Numbering
  <1>0. PICK number : number = [x \in UNION F |-> <<SetOf(x), Numbering(SetOf(x))[x]>>]
    OBVIOUS
  <1>4. number \in Injection(UNION F, F \X (1 .. n))
    <2>1. \A S \in F : /\ Numbering(S) \in [S -> 1 .. n]
                       /\ \A x, y \in S : Numbering(S)[x] = Numbering(S)[y] => x = y
      BY <1>3 DEF Injection, IsInjective
    <2>2. number \in [UNION F -> F \X (1 .. n)]
      BY <1>0, <1>1, <2>1
    <2>3. ASSUME NEW x \in UNION F, NEW y \in UNION F, number[x] = number[y] PROVE x = y
      <3>1. SetOf(x) = SetOf(y) /\ Numbering(SetOf(x))[x] = Numbering(SetOf(y))[y]
        BY <1>0, <2>3
      <3> QED BY <1>1, <2>1, <3>1
    <2> QED BY <2>2, <2>3 DEF Injection, IsInjective
  <1>5. IsFiniteSet(1 .. n) /\ Cardinality(1 .. n) = n
    BY FS_Interval
  <1>6. IsFiniteSet(F \X (1 .. n)) /\ Cardinality(F \X (1 .. n)) = Cardinality(F) * n
    BY <1>5, FS_Product
  <1>7. IsFiniteSet(UNION F) /\ Cardinality(UNION F) <= Cardinality(F) * n
    BY <1>4, <1>6, FS_Injection
  <1>8. Cardinality(F) \in Nat /\ Cardinality(UNION F) \in Nat
    BY <1>7, FS_CardinalityType
  <1>9. Cardinality(F) * n <= m * n
    BY <1>8
  <1> QED BY <1>7, <1>8, <1>9

(* A set of at most a and one of at most b elements have at most a + b.    *)
LEMMA SumBound ==
    ASSUME NEW S, NEW T, NEW a \in Nat, NEW b \in Nat, IsFiniteSet(S), IsFiniteSet(T),
           Cardinality(S) <= a, Cardinality(T) <= b
    PROVE  IsFiniteSet(S \cup T) /\ Cardinality(S \cup T) <= a + b
  <1>1. /\ IsFiniteSet(S \cup T)
        /\ Cardinality(S \cup T) = Cardinality(S) + Cardinality(T) - Cardinality(S \cap T)
    BY FS_Union
  <1>2. IsFiniteSet(S \cap T)
    BY FS_Intersection
  <1>3. /\ Cardinality(S) \in Nat /\ Cardinality(T) \in Nat /\ Cardinality(S \cap T) \in Nat
        /\ Cardinality(S \cup T) \in Nat
    BY <1>1, <1>2, FS_CardinalityType
  <1> QED BY <1>1, <1>3

(* What is written of a set of entries, one element for each. *)
LEMMA VersionsBound ==
    ASSUME NEW entries, NEW n \in Nat, IsFiniteSet(DOMAIN entries), Cardinality(DOMAIN entries) <= n
    PROVE  IsFiniteSet(Versions(entries)) /\ Cardinality(Versions(entries)) <= n
  <1> DEFINE check == [k \in DOMAIN entries |-> <<k, entries[k].vs>>]
  <1>1. check \in Surjection(DOMAIN entries, Versions(entries))
    BY DEF Surjection, Versions
  <1>2. /\ IsFiniteSet(Versions(entries))
        /\ Cardinality(Versions(entries)) <= Cardinality(DOMAIN entries)
    BY <1>1, FS_Surjection
  <1>3. Cardinality(Versions(entries)) \in Nat /\ Cardinality(DOMAIN entries) \in Nat
    BY <1>2, FS_CardinalityType
  <1> QED BY <1>2, <1>3

(* What holds of the size of a set holds of the keys made of its elements. *)
LEMMA ImageBound ==
    ASSUME NEW S, NEW T, NEW g, IsFiniteSet(S), g \in [S -> T], T = {g[x] : x \in S},
           NEW n \in Nat, Cardinality(S) <= n
    PROVE  IsFiniteSet(T) /\ Cardinality(T) <= n
  <1>1. g \in Surjection(S, T)
    BY DEF Surjection
  <1>2. IsFiniteSet(T) /\ Cardinality(T) <= Cardinality(S)
    BY <1>1, FS_Surjection
  <1>3. Cardinality(T) \in Nat /\ Cardinality(S) \in Nat
    BY <1>2, FS_CardinalityType
  <1> QED BY <1>2, <1>3

(* The claims of an endpoint set within the capacity. *)
LEMMA ClaimKeysBound ==
    ASSUME NEW e \in EndpointSet, Within(e)
    PROVE  IsFiniteSet(ClaimKeysOf(e)) /\ Cardinality(ClaimKeysOf(e)) <= MaxEndpoints
  <1>1. bindings(e) \subseteq Locators
    BY DEF bindings, EndpointSet
  <1>2. IsFiniteSet(bindings(e))
    BY <1>1, CapacityAssumption, FS_Subset
  <1>3. PICK g : g = [l \in bindings(e) |-> page_endpoint_claim_key(l)]
    OBVIOUS
  <1>4. g \in [bindings(e) -> ClaimKeysOf(e)] /\ ClaimKeysOf(e) = {g[l] : l \in bindings(e)}
    BY <1>3 DEF ClaimKeysOf
  <1> QED BY <1>2, <1>4, CapacityAssumption, ImageBound DEF Within

(* At most two elements. *)
LEMMA PairBound ==
    ASSUME NEW x, NEW y, NEW S, S \subseteq {x, y}
    PROVE  IsFiniteSet(S) /\ Cardinality(S) <= 2
  <1>1. /\ IsFiniteSet({x}) /\ Cardinality({x}) = 1
        /\ IsFiniteSet({y}) /\ Cardinality({y}) = 1
    BY FS_Singleton
  <1>2. IsFiniteSet({x} \cup {y}) /\ Cardinality({x} \cup {y}) <= 1 + 1
    <2>1. Cardinality({x}) <= 1 /\ Cardinality({y}) <= 1 /\ 1 \in Nat
      BY <1>1
    <2> QED BY <1>1, <2>1, SumBound
  <1>3. {x} \cup {y} = {x, y}
    OBVIOUS
  <1>4. IsFiniteSet({x, y}) /\ Cardinality({x, y}) <= 2
    BY <1>2, <1>3
  <1>5. IsFiniteSet(S) /\ Cardinality(S) <= Cardinality({x, y})
    BY <1>4, FS_Subset
  <1>6. Cardinality(S) \in Nat /\ Cardinality({x, y}) \in Nat
    BY <1>4, <1>5, FS_CardinalityType
  <1> QED BY <1>4, <1>5, <1>6

(* A page has at most two projections. *)
LEMMA ProjectionKeysBrief ==
    ASSUME NEW id, NEW page
    PROVE  /\ IsFiniteSet(projection_keys(id, page))
           /\ Cardinality(projection_keys(id, page)) <= 2
  <1>1. PICK x, y : /\ x = page_aggregate_owner_key(page.owner, page.endpoint_set.canonical, id)
                    /\ y = page_aggregate_public_key(page.endpoint_set.canonical, id)
    OBVIOUS
  <1>2. projection_keys(id, page) \subseteq {x, y}
    BY <1>1 DEF projection_keys
  <1> QED BY <1>2, PairBound

(* A probe reads at most two entries. *)
LEMMA ProbeKeysBrief ==
    ASSUME NEW f
    PROVE  IsFiniteSet(ProbeKeys(f)) /\ Cardinality(ProbeKeys(f)) <= 2
  <1>1. PICK x, y : /\ x = content_asset_manifest_key(f.page.content_asset_id)
                    /\ y = page_aggregate_storage_key(f.req.new_id)
    OBVIOUS
  <1>2. ProbeKeys(f) \subseteq {x, y}
    BY <1>1 DEF ProbeKeys
  <1> QED BY <1>2, PairBound

-----------------------------------------------------------------------------
(* Pages within the capacity, and every claimed page read once.            *)

(* No stored page has more endpoints than an atomic operation can check.   *)
StoreFits == \A id \in PageIds : Page(id) # None => Within(Page(id).endpoint_set)

(* A snapshot of a page within the capacity. *)
Sized(s) == Snapped(s) /\ Within(s.page.endpoint_set)

(* At most two entries. *)
Brief(entries) == IsFiniteSet(DOMAIN entries) /\ Cardinality(DOMAIN entries) <= 2

(* The two reads of an updated page agree if it has not been written.      *)
Agrees(existing, s) ==
    existing # None /\ s.id = existing.id /\ s.entry.vs = existing.entry.vs =>
        s.page = existing.page

(* What a call has read, and what it will write, is within the capacity;   *)
(* no page is read twice among those that hold the wanted endpoints.       *)
Ample(f) ==
    /\ DOMAIN f = DOMAIN Idle
    /\ Persistable(f.req)
    /\ Brief(f.probed) /\ Brief(f.destination)
    /\ \A s \in f.snapshots : Sized(s)
    /\ f.existing # None => Sized(f.existing)
    /\ f.req.kind # "list" =>
          /\ \A s, t \in f.snapshots : s.id = t.id => s = t
          /\ \A s \in f.snapshots : s.id \notin f.queue /\ Agrees(f.existing, s)

(* The page that is being read is not one that has been or will be read.   *)
Apart(f, id) ==
    f.req.kind # "list" /\ f.targets # NoEntries =>
        id \notin f.queue /\ \A s \in f.snapshots : s.id # id

Measured(f) ==
    f.at \notin Ended =>
        /\ Ample(f)
        /\ f.at \in Snapshotting => Apart(f, f.reading)
        /\ f.at \in Fetched => Within(f.entry.val.endpoint_set)

(* A call that has not read anything. *)
LEMMA NothingBrief == Brief(NoEntries) /\ Idle.destination = NoEntries
  BY NothingSeen, FS_EmptySet DEF Brief, Idle

(* The call of client c goes on within the capacity, or ends. *)
Holds(c) == \E g : Become(c, g) /\ Measured(g)

(* A call that returns or throws has nothing left to measure. *)
LEMMA EndsHold ==
    ASSUME NEW c, NEW f, DOMAIN f = DOMAIN Idle
    PROVE  /\ \A reply : Return(c, reply) => Holds(c)
           /\ \A shots : Found(c, shots) => Holds(c)
           /\ contention_exhausted(c, f) => Holds(c)
           /\ invariant_violation(c, f) => Holds(c)
  <1>1. ASSUME NEW g, Become(c, g), g.at \in Ended PROVE Holds(c)
    BY <1>1 DEF Holds, Measured
  <1>2. ASSUME NEW reply, Return(c, reply) PROVE Holds(c)
    <2>1. PICK g : g = [Idle EXCEPT !.reply = reply]
      OBVIOUS
    <2>2. g.at = "idle"
      BY <2>1, IdleFields
    <2> QED BY <1>1, <1>2, <2>1, <2>2 DEF Return, Ended
  <1>3. ASSUME NEW shots, Found(c, shots) PROVE Holds(c)
    <2>1. PICK g : g = [Idle EXCEPT !.reply = "found", !.snapshots = shots]
      OBVIOUS
    <2>2. g.at = "idle"
      BY <2>1, IdleFields
    <2> QED BY <1>1, <1>3, <2>1, <2>2 DEF Found, Ended
  <1>4. ASSUME NEW error \in {"contention exhausted", "invariant violated"}, Throw(c, f, error)
        PROVE  Holds(c)
    <2>1. PICK g : g = [f EXCEPT !.at = error, !.pending = {}, !.got = NoEntries]
      OBVIOUS
    <2>2. g.at = error
      BY <2>1, IdleFields
    <2> QED BY <1>1, <1>4, <2>1, <2>2 DEF Throw, Ended
  <1> QED BY <1>2, <1>3, <1>4 DEF contention_exhausted, invariant_violation

(* Awaiting further reads takes nothing in. *)
LEMMA AwaitsHold ==
    ASSUME NEW c, NEW f, Ample(f), NEW at, NEW keys, Await(c, f, at, keys),
           at \in Snapshotting => Apart(f, f.reading),
           at \in Fetched => Within(f.entry.val.endpoint_set)
    PROVE  Holds(c)
  <1>1. PICK g : g = [f EXCEPT !.at = at, !.pending = keys, !.got = NoEntries]
    OBVIOUS
  <1>2. /\ g.destination = f.destination
        /\ DOMAIN g = DOMAIN Idle /\ g.at = at /\ Same(f, g)
    BY <1>1, IdleFields DEF Ample, Same
  <1>3. Ample(g)
    BY <1>2 DEF Ample, Same
  <1>4. Apart(f, f.reading) => Apart(g, g.reading)
    BY <1>2 DEF Apart, Same
  <1>5. Measured(g)
    BY <1>2, <1>3, <1>4 DEF Measured, Same
  <1> QED BY <1>1, <1>5 DEF Await, Holds

(* Awaits at which no page is being read. *)
LEMMA OtherAwaitsHold ==
    ASSUME NEW c, NEW f, Ample(f), NEW at, NEW keys, Await(c, f, at, keys),
           at \notin Snapshotting
    PROVE  Holds(c)
  BY AwaitsHold DEF Snapshotting, Fetched

(* #read_snapshot starts on a page that is not read twice. *)
LEMMA SnapshotHolds ==
    ASSUME NEW c, NEW f, Ample(f), NEW id, Apart(f, id), read_snapshot(c, f, id)
    PROVE  Holds(c)
  <1>1. PICK h : h = [f EXCEPT !.reading = id, !.snapshot_attempt = 0]
    OBVIOUS
  <1>2. /\ h.probed = f.probed /\ h.destination = f.destination
        /\ DOMAIN h = DOMAIN Idle /\ h.reading = id /\ h.req = f.req /\ h.targets = f.targets
        /\ h.snapshots = f.snapshots /\ h.queue = f.queue /\ h.existing = f.existing
    BY <1>1, IdleFields DEF Ample
  <1>3. Ample(h) /\ Apart(h, h.reading)
    BY <1>2 DEF Ample, Apart
  <1>4. PICK keys : Await(c, h, "snapshot entry", keys)
    BY <1>1 DEF read_snapshot
  <1> QED BY <1>3, <1>4, AwaitsHold DEF Fetched

(* #read_claimed_endpoint_state starts, or starts again, without a page. *)
LEMMA ClaimsHold ==
    ASSUME NEW c, NEW f, Ample(f), NEW keys, read_claimed_endpoint_state(c, f, keys)
    PROVE  Holds(c)
  <1>1. PICK h : h = [f EXCEPT !.claim_attempt = 0, !.snapshots = {}]
    OBVIOUS
  <1>2. /\ h.probed = f.probed /\ h.destination = f.destination
        /\ DOMAIN h = DOMAIN Idle /\ h.req = f.req /\ h.existing = f.existing
        /\ h.snapshots = {}
    BY <1>1, IdleFields DEF Ample
  <1>3. Ample(h)
    BY <1>2 DEF Ample
  <1>4. Await(c, h, "claims", keys)
    BY <1>1 DEF read_claimed_endpoint_state
  <1> QED BY <1>3, <1>4, OtherAwaitsHold DEF Snapshotting

(* The first reads of an attempt. *)
LEMMA AttemptHolds ==
    ASSUME NEW c, NEW f, Fresh(f), f.destination = NoEntries, Persistable(f.req), Attempt(c, f)
    PROVE  Holds(c)
  <1>1. Ample(f)
    BY NothingBrief DEF Fresh, NoClaims, Ample
  <1>2. \A id : Apart(f, id)
    BY DEF Fresh, NoClaims, Apart
  <1>3. CASE \E keys : read_claimed_endpoint_state(c, f, keys)
    BY <1>1, <1>3, ClaimsHold
  <1>4. CASE read_snapshot(c, f, f.req.id)
    BY <1>1, <1>2, <1>4, SnapshotHolds
  <1>5. CASE Await(c, f, "list", {})
    BY <1>1, <1>5, OtherAwaitsHold DEF Snapshotting
  <1> QED BY <1>3, <1>4, <1>5 DEF Attempt

(* An attempt that lost starts again with nothing read. *)
LEMMA RetryHolds ==
    ASSUME NEW c, NEW f, f.req \in Request, Persistable(f.req), Retry(c, f)
    PROVE  Holds(c)
  <1>1. PICK again : again = [Idle EXCEPT !.req = f.req, !.attempt = f.attempt + 1]
    OBVIOUS
  <1>2. Fresh(again) /\ again.req = f.req /\ again.destination = NoEntries
    BY <1>1, IdleFields, NothingBrief DEF Fresh, NoClaims
  <1>3. CASE Attempt(c, again)
    BY <1>2, <1>3, AttemptHolds
  <1>4. CASE contention_exhausted(c, again)
    BY <1>2, <1>4, EndsHold DEF Fresh
  <1> QED BY <1>1, <1>3, <1>4 DEF Retry

(* The page of an edit or of a health report was read: the first page read. *)
LEMMA ExistingHolds ==
    ASSUME NEW c, NEW f, Ample(f), f.snapshots = {}, NEW snapshot,
           snapshot # None => Sized(snapshot), ExistingRead(c, f, snapshot)
    PROVE  Holds(c)
  <1>1. PICK next : next = [f EXCEPT !.existing = snapshot]
    OBVIOUS
  <1>2. Ample(next) /\ next.snapshots = {}
    <2>1. /\ next.probed = f.probed /\ next.destination = f.destination
          /\ DOMAIN next = DOMAIN Idle /\ next.req = f.req /\ next.existing = snapshot
          /\ next.snapshots = {}
      BY <1>1, IdleFields DEF Ample
    <2> QED BY <2>1 DEF Ample
  <1>3. ASSUME NEW id, NEW page PROVE Ample(Plan(next, id, page))
    <2>1. PICK h : h = Plan(next, id, page)
      OBVIOUS
    <2>2. /\ h.probed = next.probed /\ h.destination = next.destination
          /\ DOMAIN h = DOMAIN Idle /\ h.req = next.req /\ h.existing = next.existing
          /\ h.snapshots = {}
      BY <1>2, <2>1, IdleFields DEF Plan, Ample
    <2>3. Ample(h)
      BY <1>2, <2>2 DEF Ample
    <2> QED BY <2>1, <2>3
  <1>4. CASE \/ \E shots : Found(c, shots)
             \/ \E reply : Return(c, reply)
    BY <1>4, EndsHold DEF Ample
  <1>5. ASSUME NEW h, Ample(h), NEW keys, Await(c, h, "commit", keys) \/ Await(c, h, "probe", keys)
         PROVE  Holds(c)
    BY <1>5, OtherAwaitsHold DEF Snapshotting
  <1>6. CASE Ready(c, next)
    BY <1>2, <1>5, <1>6 DEF Ready
  <1>7. ASSUME NEW id, NEW page, Ready(c, Plan(next, id, page)) PROVE Holds(c)
    BY <1>3, <1>5, <1>7 DEF Ready
  <1>8. CASE Ready(c, next) \/ \E id, page : Ready(c, Plan(next, id, page))
    BY <1>8, <1>6, <1>7
  <1>9. ASSUME NEW id, NEW page, NEW a, Probe(c, Plan(next, id, page), a, FALSE) PROVE Holds(c)
    <2>1. PICK h : h = Plan(next, id, page)
      OBVIOUS
    <2>2. PICK keys : Await(c, h, "probe", keys)
      BY <1>9, <2>1 DEF Probe
    <2> QED BY <1>3, <1>5, <2>1, <2>2
  <1>10. CASE \E id, page, a : Probe(c, Plan(next, id, page), a, FALSE)
    BY <1>10, <1>9
  <1>11. CASE \E id, page, keys : read_claimed_endpoint_state(c, Plan(next, id, page), keys)
    BY <1>3, <1>11, ClaimsHold
  <1>12. CASE f.req.kind = "find"
    BY <1>4, <1>12 DEF ExistingRead
  <1>13. CASE f.req.kind = "health"
    BY <1>1, <1>4, <1>8, <1>13 DEF ExistingRead
  <1>14. CASE f.req.kind \in {"update", "duplicate", "delete"}
    BY <1>1, <1>4, <1>8, <1>10, <1>11, <1>14 DEF ExistingRead, Refused
  <1> QED BY <1>12, <1>13, <1>14 DEF ExistingRead

(* The next page that holds a wanted endpoint is taken from the queue. *)
LEMMA NextClaimedHolds ==
    ASSUME NEW c, NEW f, Ample(f), f.req.kind # "list", NextClaimed(c, f)
    PROVE  Holds(c)
  <1>1. CASE f.queue = {}
    <2>1. PICK keys : Await(c, f, "claims again", keys)
      BY <1>1 DEF NextClaimed
    <2> QED BY <2>1, OtherAwaitsHold DEF Snapshotting
  <1>2. CASE f.queue # {}
    <2>1. PICK id \in f.queue : read_snapshot(c, [f EXCEPT !.queue = @ \ {id}], id)
      BY <1>2 DEF NextClaimed
    <2>2. PICK g : g = [f EXCEPT !.queue = @ \ {id}]
      OBVIOUS
    <2>3. /\ g.probed = f.probed /\ g.destination = f.destination
          /\ DOMAIN g = DOMAIN Idle /\ g.queue = f.queue \ {id} /\ g.req = f.req
          /\ g.snapshots = f.snapshots /\ g.existing = f.existing
      BY <2>2, IdleFields DEF Ample
    <2>4. Ample(g) /\ Apart(g, id)
      BY <2>3 DEF Ample, Apart
    <2> QED BY <2>1, <2>2, <2>4, SnapshotHolds
  <1> QED BY <1>1, <1>2

(* The next page of a listing is taken from the queue. *)
LEMMA NextRowHolds ==
    ASSUME NEW c, NEW f, Ample(f), f.req.kind = "list", NextRow(c, f)
    PROVE  Holds(c)
  <1>1. CASE Found(c, f.snapshots)
    BY <1>1, EndsHold DEF Ample
  <1>2. ASSUME NEW row, NEW rest, NEW id,
               read_snapshot(c, [f EXCEPT !.row = row, !.rows = rest], id)
        PROVE  Holds(c)
    <2>1. PICK g : g = [f EXCEPT !.row = row, !.rows = rest]
      OBVIOUS
    <2>2. /\ g.probed = f.probed /\ g.destination = f.destination
          /\ DOMAIN g = DOMAIN Idle /\ g.req = f.req /\ g.snapshots = f.snapshots
          /\ g.existing = f.existing
      BY <2>1, IdleFields DEF Ample
    <2>3. Ample(g) /\ Apart(g, id)
      BY <2>2 DEF Ample, Apart
    <2> QED BY <1>2, <2>1, <2>3, SnapshotHolds
  <1> QED BY <1>1, <1>2 DEF NextRow

(* A page of a listing was read. *)
LEMMA RowReadHolds ==
    ASSUME NEW c, NEW f, Ample(f), f.req.kind = "list", NEW snapshot,
           snapshot # None => Sized(snapshot), RowRead(c, f, snapshot)
    PROVE  Holds(c)
  <1>1. CASE snapshot # None /\ NextRow(c, [f EXCEPT !.snapshots = @ \cup {snapshot}])
    <2>1. PICK g : g = [f EXCEPT !.snapshots = @ \cup {snapshot}]
      OBVIOUS
    <2>2. /\ g.probed = f.probed /\ g.destination = f.destination
          /\ DOMAIN g = DOMAIN Idle /\ g.req = f.req /\ g.existing = f.existing
          /\ g.snapshots = f.snapshots \cup {snapshot}
      BY <2>1, IdleFields DEF Ample
    <2>3. Ample(g)
      BY <1>1, <2>2 DEF Ample
    <2> QED BY <1>1, <2>1, <2>2, <2>3, NextRowHolds
  <1>2. CASE \E keys : Await(c, f, "row again", keys)
    BY <1>2, OtherAwaitsHold DEF Snapshotting
  <1> QED BY <1>1, <1>2 DEF RowRead, RowMatches

(* A page that was read joins those read before. *)
LEMMA SnapshotReadHolds ==
    ASSUME NEW c, NEW f, Ample(f), Apart(f, f.reading), Fetching(f), NEW snapshot,
           snapshot # None => /\ snapshot.id = f.reading /\ Sized(snapshot)
                              /\ Agrees(f.existing, snapshot),
           SnapshotRead(c, f, snapshot)
    PROVE  Holds(c)
  <1>1. CASE f.req.kind = "list"
    <2>1. f.targets = NoEntries
      BY <1>1 DEF Fetching, Listing, Editing, Claiming, Asking
    <2> QED BY <1>1, <2>1, RowReadHolds DEF SnapshotRead
  <1>2. CASE f.targets # NoEntries /\ f.req.kind # "list"
    <2>1. PICK g : g = [f EXCEPT !.snapshots = @ \cup ({snapshot} \ {None})]
      OBVIOUS
    <2>2. NextClaimed(c, g)
      BY <1>2, <2>1 DEF SnapshotRead
    <2>3. /\ g.probed = f.probed /\ g.destination = f.destination
          /\ DOMAIN g = DOMAIN Idle /\ g.req = f.req /\ g.existing = f.existing
          /\ g.queue = f.queue /\ g.snapshots = f.snapshots \cup ({snapshot} \ {None})
      BY <2>1, IdleFields DEF Ample
    <2>4. f.reading \notin f.queue /\ \A s \in f.snapshots : s.id # f.reading
      BY <1>2 DEF Apart
    <2>5. Ample(g)
      BY <1>2, <2>3, <2>4 DEF Ample
    <2> QED BY <1>2, <2>2, <2>3, <2>5, NextClaimedHolds
  <1>3. CASE f.targets = NoEntries /\ f.req.kind # "list"
    <2>1. f.snapshots = {}
      <3>1. CASE NoClaims(f)
        BY <3>1 DEF NoClaims
      <3>2. CASE Targeted(f)
        <4>1. TargetIds(f) = {}
          BY <1>3, NothingSeen DEF TargetIds
        <4> QED BY <3>2, <4>1 DEF Targeted
      <3> QED BY <1>3, <3>1, <3>2 DEF Fetching, Listing, Claiming
    <2> QED BY <1>3, <2>1, ExistingHolds DEF SnapshotRead
  <1> QED BY <1>1, <1>2, <1>3

-----------------------------------------------------------------------------
(* What follows the last read of each batch. *)

(* What is known of a call while it reads a page. *)
LEMMA ReadingMeasured ==
    ASSUME NEW f, NEW at, at \in Snapshotting, Complete(f, at), Measured(f)
    PROVE  /\ Ample(f) /\ Apart(f, f.reading) /\ Fetching(f) /\ f.reading \in PageIds
           /\ Steady(f) /\ f.at = at
           /\ at \in Fetched => RemembersEntry(f) /\ Within(f.entry.val.endpoint_set)
  <1>1. f.at = at /\ f.at \notin Ended
    BY DEF Complete
  <1>2. Ample(f) /\ Apart(f, f.reading) /\ (at \in Fetched => Within(f.entry.val.endpoint_set))
    BY <1>1 DEF Measured
  <1>3. Fetching(f) /\ Steady(f)
    BY CompleteFacts, AtPlaces DEF Snapshotting
  <1>4. at \in Fetched => RemembersEntry(f)
    BY CompleteFacts, EntryAndRowAt DEF Fetched
  <1>5. f.reading \in PageIds
    BY <1>3 DEF Fetching
  <1> QED BY <1>1, <1>2, <1>3, <1>4, <1>5

(* The stored page that #read_snapshot meets fits. *)
LEMMA EntryReadHolds ==
    ASSUME StoreOK, StoreFits, NEW c, NEW f, Complete(f, "snapshot entry"), Measured(f),
           NEW key, key = page_aggregate_storage_key(f.reading), f.got[key] = get(key),
           EntryRead(c, f)
    PROVE  Holds(c)
  <1>1. Ample(f) /\ Apart(f, f.reading) /\ Fetching(f) /\ f.reading \in PageIds
    BY ReadingMeasured DEF Snapshotting
  <1>2. PICK entry : entry = get(key)
    OBVIOUS
  <1>3. CASE SnapshotRead(c, f, None)
    BY <1>1, <1>3, SnapshotReadHolds
  <1>4. CASE present(entry) /\ \E keys : Await(c, [f EXCEPT !.entry = entry],
                                               "snapshot indexes", keys)
    <2>1. PICK h : h = [f EXCEPT !.entry = entry]
      OBVIOUS
    <2>2. /\ h.probed = f.probed /\ h.destination = f.destination
          /\ DOMAIN h = DOMAIN Idle /\ h.entry = entry /\ h.reading = f.reading
          /\ h.req = f.req /\ h.existing = f.existing
          /\ h.targets = f.targets /\ h.queue = f.queue /\ h.snapshots = f.snapshots
      BY <1>1, <2>1, IdleFields DEF Ample
    <2>3. Ample(h) /\ Apart(h, h.reading)
      BY <1>1, <2>2 DEF Ample, Apart
    <2>4. Page(f.reading) # None /\ Page(f.reading) = entry.val
      BY <1>1, <1>2, <1>4, StoredTyped DEF StoreOK, Stored
    <2>5. Within(h.entry.val.endpoint_set)
      BY <1>1, <2>2, <2>4 DEF StoreFits
    <2> QED BY <1>4, <2>1, <2>3, <2>5, AwaitsHold
  <1> QED BY <1>2, <1>3, <1>4 DEF EntryRead

(* The index entries of a page were read. *)
LEMMA IndexesReadHolds ==
    ASSUME NEW c, NEW f, Complete(f, "snapshot indexes"), Measured(f), IndexesRead(c, f)
    PROVE  Holds(c)
  <1>1. Ample(f) /\ Apart(f, f.reading) /\ Within(f.entry.val.endpoint_set)
    BY ReadingMeasured DEF Snapshotting, Fetched
  <1>2. PICK g : g = [f EXCEPT !.at = "snapshot again",
                               !.pending = {page_aggregate_storage_key(f.reading)}]
    OBVIOUS
  <1>3. /\ g.destination = f.destination
        /\ DOMAIN g = DOMAIN Idle /\ g.at = "snapshot again" /\ Same(f, g)
    BY <1>1, <1>2, IdleFields DEF Ample, Same
  <1>4. Ample(g)
    BY <1>1, <1>3 DEF Ample, Same
  <1>5. Apart(g, g.reading) /\ Within(g.entry.val.endpoint_set)
    BY <1>1, <1>3 DEF Apart, Same
  <1>6. Measured(g)
    BY <1>4, <1>5 DEF Measured
  <1> QED BY <1>2, <1>6 DEF IndexesRead, Holds

(* The page was read again: a snapshot of it fits, and is a new one. *)
LEMMA AgainReadHolds ==
    ASSUME EntriesTyped, NEW c, NEW f, Complete(f, "snapshot again"), Measured(f),
           NEW key, key = page_aggregate_storage_key(f.reading), f.got[key] = get(key),
           AgainRead(c, f)
    PROVE  Holds(c)
  <1>1. /\ Ample(f) /\ Apart(f, f.reading) /\ Fetching(f) /\ Steady(f)
        /\ f.reading \in PageIds /\ RemembersEntry(f) /\ Within(f.entry.val.endpoint_set)
    BY ReadingMeasured DEF Snapshotting, Fetched
  <1>2. PICK h : h = [f EXCEPT !.snapshot_attempt = @ + 1]
    OBVIOUS
  <1>3. /\ h.destination = f.destination
        /\ DOMAIN h = DOMAIN Idle /\ Same(f, h)
    BY <1>1, <1>2, IdleFields DEF Ample, Same
  <1>4. Ample(h) /\ Apart(h, h.reading)
    BY <1>1, <1>3 DEF Ample, Apart, Same
  <1>5. CASE contention_exhausted(c, h) \/ invariant_violation(c, f)
    BY <1>1, <1>3, <1>5, EndsHold DEF Ample
  <1>6. CASE \E keys : Await(c, h, "snapshot entry", keys)
    BY <1>4, <1>6, AwaitsHold DEF Fetched
  <1>7. ASSUME ~SnapshotTorn(f), NEW index, SnapshotRead(c, f, Snapshot(f.reading, f.entry, index)),
               DOMAIN index = visibility_keys(f.reading, f.entry.val)
        PROVE  Holds(c)
    <2>1. PICK s : s = Snapshot(f.reading, f.entry, index)
      OBVIOUS
    <2>2. /\ s.id = f.reading /\ s.entry = f.entry /\ s.index = index
          /\ s.page = f.entry.val
      BY <2>1 DEF Snapshot
    <2>6. Snapped(s)
      <3>1. f.entry.val \in PageAggregate
        BY <1>1, TypesOfKeys DEF RemembersEntry, Seen
      <3> QED BY <1>1, <1>7, <2>2, <3>1 DEF Snapped, RemembersEntry
    <2>3. get(key) = f.entry
      BY <1>1, <1>7 DEF SnapshotTorn, RemembersEntry, Seen
    <2>4. ASSUME f.existing # None, s.id = f.existing.id, s.entry.vs = f.existing.entry.vs
          PROVE  s.page = f.existing.page
      <3>1. Seen(key, f.existing.entry)
        BY <1>1, <2>2, <2>4 DEF Steady, Remembers, SeenPage
      <3>2. get(key) = f.existing.entry
        BY <2>2, <2>3, <2>4, <3>1 DEF Seen
      <3>3. f.existing.page = f.existing.entry.val
        BY <1>1, <2>4 DEF Ample, Sized, Snapped
      <3> QED BY <2>2, <2>3, <3>2, <3>3
    <2>5. Sized(s) /\ Agrees(f.existing, s)
      BY <1>1, <2>2, <2>4, <2>6 DEF Sized, Agrees
    <2> QED BY <1>1, <1>7, <2>1, <2>2, <2>5, SnapshotReadHolds
  <1> QED BY <1>2, <1>5, <1>6, <1>7 DEF AgainRead

(* The claims were read: each page they lead to is queued once. *)
LEMMA TargetsReadHolds ==
    ASSUME NEW c, NEW f, Complete(f, "claims"), Measured(f), TargetsRead(c, f)
    PROVE  Holds(c)
  <1>1. Ample(f) /\ NoClaims(f) /\ f.req.kind # "list"
    <2>1. Ample(f)
      BY DEF Measured, Complete
    <2>2. Asking(f) /\ NoClaims(f)
      BY CompleteFacts, AtPlaces
    <2> QED BY <2>1, <2>2 DEF Asking
  <1>2. CASE \E shots : Found(c, shots)
    BY <1>1, <1>2, EndsHold DEF Ample
  <1>3. ASSUME NEW targets, NEW queue,
               NextClaimed(c, [f EXCEPT !.targets = targets, !.queue = queue])
        PROVE  Holds(c)
    <2>1. PICK g : g = [f EXCEPT !.targets = targets, !.queue = queue]
      OBVIOUS
    <2>2. /\ g.probed = f.probed /\ g.destination = f.destination
          /\ DOMAIN g = DOMAIN Idle /\ g.req = f.req /\ g.existing = f.existing
          /\ g.snapshots = {}
      BY <1>1, <2>1, IdleFields DEF Ample, NoClaims
    <2>3. Ample(g)
      BY <1>1, <2>2 DEF Ample
    <2> QED BY <1>1, <1>3, <2>1, <2>2, <2>3, NextClaimedHolds
  <1> QED BY <1>2, <1>3 DEF TargetsRead

(* The pages that hold the wanted endpoints were read. *)
LEMMA ClaimsReadHolds ==
    ASSUME NEW c, NEW f, Ample(f), ClaimsRead(c, f)
    PROVE  Holds(c)
  <1>1. ASSUME NEW id, NEW page PROVE Ample(Plan(f, id, page))
    <2>1. PICK h : h = Plan(f, id, page)
      OBVIOUS
    <2>2. /\ h.probed = f.probed /\ h.destination = f.destination
          /\ DOMAIN h = DOMAIN Idle /\ h.req = f.req /\ h.existing = f.existing
          /\ h.snapshots = f.snapshots /\ h.queue = f.queue
      BY <2>1, IdleFields DEF Plan, Ample
    <2>3. Ample(h)
      BY <2>2 DEF Ample
    <2> QED BY <2>1, <2>3
  <1>2. CASE (\E shots : Found(c, shots)) \/ \E reply : Return(c, reply)
    BY <1>2, EndsHold DEF Ample
  <1>3. ASSUME NEW h, Ample(h), NEW a, NEW new, Probe(c, h, a, new) PROVE Holds(c)
    <2>1. PICK keys : Await(c, h, "probe", keys)
      BY <1>3 DEF Probe
    <2> QED BY <1>3, <2>1, OtherAwaitsHold DEF Snapshotting
  <1>4. ASSUME NEW id, NEW page, NEW a, NEW new, Probe(c, Plan(f, id, page), a, new)
        PROVE  Holds(c)
    BY <1>1, <1>3, <1>4
  <1>5. CASE read_destination_projections(c, f)
    <2>1. PICK keys : Await(c, f, "destination", keys)
      BY <1>5 DEF read_destination_projections
    <2> QED BY <2>1, OtherAwaitsHold DEF Snapshotting
  <1> QED BY <1>2, <1>3, <1>4, <1>5 DEF ClaimsRead

(* The claims were read again. *)
LEMMA ClaimsAgainReadHolds ==
    ASSUME NEW c, NEW f, Complete(f, "claims again"), Measured(f), ClaimsAgainRead(c, f)
    PROVE  Holds(c)
  <1>1. Ample(f)
    BY DEF Measured, Complete
  <1>2. PICK h : h = [f EXCEPT !.claim_attempt = @ + 1, !.snapshot_attempt = 0,
                               !.targets = NoEntries, !.snapshots = {}]
    OBVIOUS
  <1>3. /\ h.probed = f.probed /\ h.destination = f.destination
        /\ DOMAIN h = DOMAIN Idle /\ h.req = f.req /\ h.existing = f.existing
        /\ h.snapshots = {}
    BY <1>1, <1>2, IdleFields DEF Ample
  <1>4. Ample(h)
    BY <1>1, <1>3 DEF Ample
  <1>5. CASE contention_exhausted(c, h) \/ invariant_violation(c, f)
    BY <1>1, <1>3, <1>5, EndsHold DEF Ample
  <1>6. CASE \E keys : Await(c, h, "claims", keys)
    BY <1>4, <1>6, OtherAwaitsHold DEF Snapshotting
  <1>7. CASE ClaimsRead(c, f)
    BY <1>1, <1>7, ClaimsReadHolds
  <1> QED BY <1>2, <1>5, <1>6, <1>7 DEF ClaimsAgainRead

(* The two entries of a probe were read. *)
LEMMA ProbeReadHolds ==
    ASSUME NEW c, NEW f, Complete(f, "probe"), Measured(f), ProbeRead(c, f)
    PROVE  Holds(c)
  <1>1. Ample(f)
    BY DEF Measured, Complete
  <1>2. PICK next : next = [f EXCEPT !.probed = f.got]
    OBVIOUS
  <1>3. Ample(next)
    <2>1. Brief(f.got)
      <3>1. DOMAIN f.got = ProbeKeys(f)
        BY CompleteFacts, AtPlaces
      <3> QED BY <3>1, ProbeKeysBrief DEF Brief
    <2>2. /\ next.probed = f.got /\ next.destination = f.destination
          /\ DOMAIN next = DOMAIN Idle /\ next.req = f.req /\ next.existing = f.existing
          /\ next.snapshots = f.snapshots /\ next.queue = f.queue
      BY <1>1, <1>2, IdleFields DEF Ample
    <2> QED BY <1>1, <2>1, <2>2 DEF Ample
  <1>4. CASE (\E reply : Return(c, reply)) \/ invariant_violation(c, f)
    BY <1>1, <1>4, EndsHold DEF Ample
  <1>5. CASE Ready(c, next) \/ read_destination_projections(c, next)
    <2>1. PICK at, keys : at \in {"commit", "destination"} /\ Await(c, next, at, keys)
      BY <1>5 DEF Ready, read_destination_projections
    <2> QED BY <1>3, <2>1, OtherAwaitsHold DEF Snapshotting
  <1>6. CASE \E keys : read_claimed_endpoint_state(c, next, keys)
    BY <1>3, <1>6, ClaimsHold
  <1> QED BY <1>2, <1>4, <1>5, <1>6 DEF ProbeRead

(* The projections of the destination were read. *)
LEMMA DestinationReadHolds ==
    ASSUME NEW c, NEW f, Complete(f, "destination"), Informed(f), Measured(f), DestinationRead(c, f)
    PROVE  Holds(c)
  <1>1. Ample(f) /\ f.req \in Request
    BY CompleteFacts DEF Measured, Complete, Steady
  <1>2. PICK next : next = [f EXCEPT !.destination = f.got]
    OBVIOUS
  <1>3. Ample(next)
    <2>1. DOMAIN f.got = projection_keys(f.id, f.page)
      BY DEF Complete, Informed, DestinationWatched
    <2>2. Brief(f.got)
      BY <2>1, ProjectionKeysBrief DEF Brief
    <2>3. /\ next.probed = f.probed /\ next.destination = f.got
          /\ DOMAIN next = DOMAIN Idle /\ next.req = f.req /\ next.existing = f.existing
          /\ next.snapshots = f.snapshots /\ next.queue = f.queue
      BY <1>1, <1>2, IdleFields DEF Ample
    <2> QED BY <1>1, <2>2, <2>3 DEF Ample
  <1>4. CASE Retry(c, f)
    BY <1>1, <1>4, RetryHolds DEF Ample
  <1>5. CASE Ready(c, next) \/ \E keys : Await(c, next, "authority", keys)
    <2>1. PICK at, keys : at \in {"commit", "authority"} /\ Await(c, next, at, keys)
      BY <1>5 DEF Ready
    <2> QED BY <1>3, <2>1, OtherAwaitsHold DEF Snapshotting
  <1> QED BY <1>2, <1>4, <1>5 DEF DestinationRead

(* The page whose destination is occupied was read again. *)
LEMMA AuthorityReadHolds ==
    ASSUME NEW c, NEW f, Complete(f, "authority"), Measured(f), AuthorityRead(c, f)
    PROVE  Holds(c)
  <1>1. Ample(f) /\ f.req \in Request
    BY CompleteFacts DEF Measured, Complete, Steady
  <1>2. CASE Retry(c, f)
    BY <1>1, <1>2, RetryHolds DEF Ample
  <1>3. CASE invariant_violation(c, f)
    BY <1>1, <1>3, EndsHold DEF Ample
  <1> QED BY <1>2, <1>3 DEF AuthorityRead

(* The row of a listing was read again. *)
LEMMA RowAgainReadHolds ==
    ASSUME NEW c, NEW f, Complete(f, "row again"), Measured(f), RowAgainRead(c, f)
    PROVE  Holds(c)
  <1>1. Ample(f) /\ f.req.kind = "list"
    <2>1. Ample(f)
      BY DEF Measured, Complete
    <2>2. Listing(f)
      BY CompleteFacts, AtPlaces
    <2> QED BY <2>1, <2>2 DEF Listing
  <1>2. CASE NextRow(c, f)
    BY <1>1, <1>2, NextRowHolds
  <1>3. CASE invariant_violation(c, f)
    BY <1>1, <1>3, EndsHold DEF Ample
  <1> QED BY <1>2, <1>3 DEF RowAgainRead

-----------------------------------------------------------------------------
(* The steps of a call. *)

(* One read returns, and the batch is still incomplete. *)
LEMMA OneReadHolds ==
    ASSUME IInv, NEW c \in Clients, client[c].at \notin Ended, Measured(client[c]),
           NEW k \in client[c].pending, NEW f, Reads(client[c], f, k)
    PROVE  Measured(f) /\ (Become(c, f) => Holds(c))
  <1>1. PICK h : h = client[c]
    OBVIOUS
  <1>2. FrameOK(f) /\ f.at = h.at /\ Same(h, f)
    BY <1>1, ReadingStays DEF IInv, StoreOK
  <1>3. DOMAIN f = DOMAIN Idle
    BY <1>1, <1>2 DEF FrameOK
  <1>4. Ample(h) => Ample(f)
    <2>1. ASSUME Ample(h) PROVE f.destination = h.destination
      BY <1>1, <2>1, IdleFields DEF Ample, Reads
    <2> QED BY <1>2, <1>3, <2>1 DEF Ample, Same
  <1>5. Apart(h, h.reading) => Apart(f, f.reading)
    BY <1>2 DEF Apart, Same
  <1>6. Measured(f)
    BY <1>1, <1>2, <1>4, <1>5 DEF Measured, Same
  <1> QED BY <1>6 DEF Holds

(* Every answer of the store leaves its call within the capacity. *)
LEMMA ReadsHold ==
    ASSUME IInv, StoreFits, NEW c \in Clients, Sane(client[c]), Measured(client[c]),
           \/ SnapshotEntry(c) \/ SnapshotIndexes(c) \/ SnapshotAgain(c)
           \/ Claims(c) \/ ClaimsAgain(c) \/ ProbeEntries(c)
           \/ Destination(c) \/ Authority(c) \/ RowAgain(c)
    PROVE  Holds(c)
  <1>0. StoreOK /\ EntriesTyped
    BY DEF IInv, StoreOK
  <1>1. CASE SnapshotEntry(c)
    <2>1. client[c].at = "snapshot entry" /\ client[c].at \notin Ended
      BY <1>1 DEF SnapshotEntry, Resume, Ended
    <2>2. PICK k, f :
            /\ k \in client[c].pending /\ Reads(client[c], f, k)
            /\ IF f.pending # {} THEN Become(c, f) ELSE EntryRead(c, f)
      BY <1>1 DEF SnapshotEntry, Resume, Reads
    <2>3. f.pending = {} => Holds(c)
      BY <1>0, <2>1, <2>2, OneReadSane, OneReadHolds, EntryReadHolds
    <2> QED BY <2>1, <2>2, <2>3, OneReadHolds
  <1>2. CASE SnapshotIndexes(c)
    <2>1. client[c].at = "snapshot indexes" /\ client[c].at \notin Ended
      BY <1>2 DEF SnapshotIndexes, Resume, Ended
    <2>2. PICK k, f :
            /\ k \in client[c].pending /\ Reads(client[c], f, k)
            /\ IF f.pending # {} THEN Become(c, f) ELSE IndexesRead(c, f)
      BY <1>2 DEF SnapshotIndexes, Resume, Reads
    <2> QED BY <2>1, <2>2, OneRead, OneReadHolds, IndexesReadHolds
  <1>3. CASE SnapshotAgain(c)
    <2>1. client[c].at = "snapshot again" /\ client[c].at \notin Ended
      BY <1>3 DEF SnapshotAgain, Resume, Ended
    <2>2. PICK k, f :
            /\ k \in client[c].pending /\ Reads(client[c], f, k)
            /\ IF f.pending # {} THEN Become(c, f) ELSE AgainRead(c, f)
      BY <1>3 DEF SnapshotAgain, Resume, Reads
    <2>3. f.pending = {} => Holds(c)
      BY <1>0, <2>1, <2>2, OneReadSane, OneReadHolds, AgainReadHolds
    <2> QED BY <2>1, <2>2, <2>3, OneReadHolds
  <1>4. CASE Claims(c)
    <2>1. client[c].at = "claims" /\ client[c].at \notin Ended
      BY <1>4 DEF Claims, Resume, Ended
    <2>2. PICK k, f :
            /\ k \in client[c].pending /\ Reads(client[c], f, k)
            /\ IF f.pending # {} THEN Become(c, f) ELSE TargetsRead(c, f)
      BY <1>4 DEF Claims, Resume, Reads
    <2> QED BY <2>1, <2>2, OneRead, OneReadHolds, TargetsReadHolds
  <1>5. CASE ClaimsAgain(c)
    <2>1. client[c].at = "claims again" /\ client[c].at \notin Ended
      BY <1>5 DEF ClaimsAgain, Resume, Ended
    <2>2. PICK k, f :
            /\ k \in client[c].pending /\ Reads(client[c], f, k)
            /\ IF f.pending # {} THEN Become(c, f) ELSE ClaimsAgainRead(c, f)
      BY <1>5 DEF ClaimsAgain, Resume, Reads
    <2> QED BY <2>1, <2>2, OneRead, OneReadHolds, ClaimsAgainReadHolds
  <1>6. CASE ProbeEntries(c)
    <2>1. client[c].at = "probe" /\ client[c].at \notin Ended
      BY <1>6 DEF ProbeEntries, Resume, Ended
    <2>2. PICK k, f :
            /\ k \in client[c].pending /\ Reads(client[c], f, k)
            /\ IF f.pending # {} THEN Become(c, f) ELSE ProbeRead(c, f)
      BY <1>6 DEF ProbeEntries, Resume, Reads
    <2> QED BY <2>1, <2>2, OneRead, OneReadHolds, ProbeReadHolds
  <1>7. CASE Destination(c)
    <2>1. client[c].at = "destination" /\ client[c].at \notin Ended
      BY <1>7 DEF Destination, Resume, Ended
    <2>2. PICK k, f :
            /\ k \in client[c].pending /\ Reads(client[c], f, k)
            /\ IF f.pending # {} THEN Become(c, f) ELSE DestinationRead(c, f)
      BY <1>7 DEF Destination, Resume, Reads
    <2>3. f.pending = {} => Holds(c)
      BY <2>1, <2>2, OneReadSane, OneReadHolds, DestinationReadHolds
    <2> QED BY <2>1, <2>2, <2>3, OneReadHolds
  <1>8. CASE Authority(c)
    <2>1. client[c].at = "authority" /\ client[c].at \notin Ended
      BY <1>8 DEF Authority, Resume, Ended
    <2>2. PICK k, f :
            /\ k \in client[c].pending /\ Reads(client[c], f, k)
            /\ IF f.pending # {} THEN Become(c, f) ELSE AuthorityRead(c, f)
      BY <1>8 DEF Authority, Resume, Reads
    <2> QED BY <2>1, <2>2, OneRead, OneReadHolds, AuthorityReadHolds
  <1>9. CASE RowAgain(c)
    <2>1. client[c].at = "row again" /\ client[c].at \notin Ended
      BY <1>9 DEF RowAgain, Resume, Ended
    <2>2. PICK k, f :
            /\ k \in client[c].pending /\ Reads(client[c], f, k)
            /\ IF f.pending # {} THEN Become(c, f) ELSE RowAgainRead(c, f)
      BY <1>9 DEF RowAgain, Resume, Reads
    <2> QED BY <2>1, <2>2, OneRead, OneReadHolds, RowAgainReadHolds
  <1> QED BY <1>1, <1>2, <1>3, <1>4, <1>5, <1>6, <1>7, <1>8, <1>9

(* The rows of a listing were read. *)
LEMMA ListRowsHolds ==
    ASSUME IInv, NEW c \in Clients, Measured(client[c]), ListRows(c)
    PROVE  Holds(c)
  <1>1. PICK f, rows : f = client[c] /\ rows = {k \in DOMAIN kv : Lists(client[c].req, k)}
    OBVIOUS
  <1>2. /\ f.at = "list" /\ f.at \notin Ended
        /\ NextRow(c, [f EXCEPT !.rows = [k \in rows |-> kv[k]]])
    BY <1>1 DEF ListRows, Ended
  <1>3. Ample(f)
    BY <1>1, <1>2 DEF Measured
  <1>4. f.req.kind = "list"
    <2>1. AtOK(f)
      BY <1>1, <1>2 DEF IInv, FrameOK
    <2>2. Waits(f, "list", f.pending \cup DOMAIN f.got)
      BY <1>2, <2>1 DEF AtOK
    <2> QED BY <2>2, AtPlaces DEF Listing
  <1>5. PICK g : g = [f EXCEPT !.rows = [k \in rows |-> kv[k]]]
    OBVIOUS
  <1>6. /\ g.probed = f.probed /\ g.destination = f.destination
        /\ DOMAIN g = DOMAIN Idle /\ g.req = f.req /\ g.existing = f.existing
        /\ g.snapshots = f.snapshots
    BY <1>3, <1>5, IdleFields DEF Ample
  <1>7. Ample(g)
    BY <1>3, <1>4, <1>6 DEF Ample
  <1> QED BY <1>2, <1>4, <1>5, <1>6, <1>7, NextRowHolds

(* A call starts within the capacity, or is refused. *)
LEMMA CallHolds ==
    ASSUME IInv, NEW c \in Clients, NEW req \in requests, Call(c, req)
    PROVE  Holds(c)
  <1>1. req \in Request
    BY ScenariosAssumption DEF IInv
  <1>2. PICK f : f = [Idle EXCEPT !.req = req]
    OBVIOUS
  <1>3. Fresh(f) /\ f.req = req /\ f.destination = NoEntries
    BY <1>1, <1>2, IdleFields, NothingBrief DEF Fresh, NoClaims
  <1>4. (Persistable(req) /\ Attempt(c, f)) \/ Return(c, "endpoint_capacity_exceeded")
    BY <1>2 DEF Call
  <1>5. CASE Persistable(req) /\ Attempt(c, f)
    BY <1>3, <1>5, AttemptHolds
  <1>6. CASE Return(c, "endpoint_capacity_exceeded")
    BY <1>3, <1>6, EndsHold DEF Fresh
  <1> QED BY <1>4, <1>5, <1>6

(* A crashed process has no call. *)
LEMMA CrashHolds ==
    ASSUME NEW c, Crash(c)
    PROVE  Holds(c)
  <1>1. PICK g : g = Idle
    OBVIOUS
  <1>2. Become(c, g) /\ g.at = "idle"
    BY <1>1, IdleFields DEF Crash, Become
  <1>3. Measured(g)
    BY <1>2 DEF Measured, Ended
  <1> QED BY <1>2, <1>3 DEF Holds

-----------------------------------------------------------------------------
(* What a commit stores is within the capacity.                            *)

(* Storing a page that fits keeps the store fitting. *)
LEMMA ReplacementFits ==
    ASSUME StoreFits, NEW R, NEW id, NEW page, Abstract!ReplacePages(R, id, page),
           Within(page.endpoint_set)
    PROVE  StoreFits'
  <1>1. StoredPages' = [p \in PageIds |-> IF p = id THEN page
                                          ELSE IF p \in R THEN None ELSE StoredPages[p]]
    BY DEF Abstract!ReplacePages
  <1>2. ASSUME NEW p \in PageIds, StoredPages'[p] # None
        PROVE  Within(StoredPages'[p].endpoint_set)
    <2>1. CASE p = id
      BY <1>1, <2>1
    <2>2. CASE p # id
      <3>1. StoredPages'[p] = StoredPages[p]
        BY <1>1, <1>2, <2>2
      <3> QED BY <1>2, <3>1 DEF StoreFits, Page
    <2> QED BY <2>1, <2>2
  <1> QED BY <1>2 DEF StoreFits, Page, Within, bindings

(* The endpoint sets of the pages an operation builds. *)
LEMMA BuiltSets ==
    /\ \A e, a, r : TrialPage(e, a, r).endpoint_set = e
    /\ \A e, o, x, a : ManagedPage(e, o, x, a).endpoint_set = e
    /\ \A page, e : DuplicatePage(page, e).endpoint_set = e
  BY DEF TrialPage, ManagedPage, DuplicatePage

(* A commit stores only pages that the adapter found persistable. *)
LEMMA OperationFits ==
    ASSUME StoreFits, NEW req \in Request, Persistable(req), RequestedOperation(req),
           req.kind \in NewKinds \cup {"update", "delete", "health"}
    PROVE  StoreFits'
  <1>1. DOMAIN StoredPages = PageIds /\ \A id \in PageIds : Page(id) = StoredPages[id]
    BY DEF StoredPages, Page
  <1>2. req.kind \in NewKinds => Within(req.endpoint_set)
    BY DEF Persistable, RequestedSets, NewKinds
  <1>3. CASE req.kind = "put_trial"
    <2>1. Abstract!put_trial_page_aggregate(req.new_id, req.endpoint_set, req.content_asset_id)
      BY <1>3 DEF RequestedOperation
    <2>2. PICK R, id, r : Abstract!ReplacePages(R, id, TrialPage(req.endpoint_set,
                                                                 req.content_asset_id, r))
      BY <2>1, AbstractOperators DEF Abstract!put_trial_page_aggregate
    <2> QED BY <1>2, <1>3, <2>2, BuiltSets, ReplacementFits DEF NewKinds
  <1>4. CASE req.kind = "create"
    <2>1. Abstract!create_managed_page_aggregate(req.new_id, req.endpoint_set, req.owner,
                                                 req.access, req.content_asset_id)
      BY <1>4 DEF RequestedOperation
    <2>2. PICK R : Abstract!ReplacePages(R, req.new_id,
                      ManagedPage(req.endpoint_set, req.owner, req.access, req.content_asset_id))
      BY <2>1, AbstractOperators DEF Abstract!create_managed_page_aggregate
    <2> QED BY <1>2, <1>4, <2>2, BuiltSets, ReplacementFits DEF NewKinds
  <1>5. CASE req.kind = "duplicate"
    <2>1. Abstract!duplicate_managed_page_aggregate(req.id, req.owner, req.expected_revision,
                                                    req.new_id, req.endpoint_set)
      BY <1>5 DEF RequestedOperation
    <2>2. PICK R : Abstract!ReplacePages(R, req.new_id,
                      DuplicatePage(StoredPages[req.id], req.endpoint_set))
      BY <2>1, AbstractOperators DEF Abstract!duplicate_managed_page_aggregate
    <2> QED BY <1>2, <1>5, <2>2, BuiltSets, ReplacementFits DEF NewKinds
  <1>6. CASE req.kind = "update"
    <2>1. Abstract!update_managed_page_aggregate(req.id, req.owner, req.expected_revision,
                                                 req.patch)
      BY <1>6 DEF RequestedOperation
    <2>2. /\ StoredPages[req.id] # None
          /\ \E R : Abstract!ReplacePages(R, req.id, PatchedPage(StoredPages[req.id], req.patch))
      BY <2>1, AbstractOperators DEF Abstract!update_managed_page_aggregate, Abstract!OwnedAt
    <2>3. req.id \in PageIds
      BY <1>6, RequestFields DEF Editing
    <2>4. Within(StoredPages[req.id].endpoint_set)
      BY <1>1, <2>2, <2>3 DEF StoreFits
    <2>5. req.patch.endpoint_set # None => Within(req.patch.endpoint_set)
      BY <1>6 DEF Persistable, RequestedSets
    <2>6. Within(PatchedPage(StoredPages[req.id], req.patch).endpoint_set)
      BY <2>4, <2>5, PatchedPages DEF PatchedFields, Or
    <2> QED BY <2>2, <2>6, ReplacementFits
  <1>7. CASE req.kind = "delete"
    <2>1. Abstract!delete_managed_page_aggregate(req.id, req.owner, req.expected_revision)
      BY <1>7 DEF RequestedOperation
    <2>2. StoredPages' = [StoredPages EXCEPT ![req.id] = None]
      BY <2>1 DEF Abstract!delete_managed_page_aggregate, Abstract!RemovePage
    <2>3. \A p \in PageIds : StoredPages'[p] # None => StoredPages'[p] = StoredPages[p]
      BY <1>1, <2>2
    <2> QED BY <1>1, <2>3 DEF StoreFits, Page, Within, bindings
  <1>8. CASE req.kind = "health"
    <2>1. Abstract!update_external_content_health(req.id, req.content_asset_id, req.missing)
      BY <1>8 DEF RequestedOperation
    <2>2. /\ StoredPages' = [StoredPages EXCEPT ![req.id].external_missing = req.missing]
          /\ StoredPages[req.id] # None
      BY <2>1 DEF Abstract!update_external_content_health
    <2>3. PICK page : page = StoredPages[req.id]
      OBVIOUS
    <2>4. PICK new : new = [page EXCEPT !.external_missing = req.missing]
      OBVIOUS
    <2>5. StoredPages' = [StoredPages EXCEPT ![req.id] = new]
      BY <2>2, <2>3, <2>4
    <2>6. new.endpoint_set = page.endpoint_set
      BY <2>4
    <2>7. \A p \in PageIds : StoredPages'[p] # None =>
             StoredPages[p] # None /\ StoredPages'[p].endpoint_set = StoredPages[p].endpoint_set
      BY <1>1, <2>2, <2>3, <2>5, <2>6
    <2> QED BY <1>1, <2>7 DEF StoreFits, Page, Within, bindings
  <1> QED BY <1>3, <1>4, <1>5, <1>6, <1>7, <1>8 DEF NewKinds

-----------------------------------------------------------------------------
(* Every step keeps the calls and the store within the capacity. *)

Capacity == StoreFits /\ \A c \in Clients : Measured(client[c])

(* A step of one call that leaves the store within the capacity. *)
LEMMA HoldingStep ==
    ASSUME DOMAIN client = Clients, Capacity, NEW c \in Clients, Holds(c), StoreFits'
    PROVE  Capacity'
  <1>1. PICK g : Become(c, g) /\ Measured(g)
    BY DEF Holds
  <1>2. \A d \in Clients : Measured(client'[d])
    BY <1>1 DEF Become, Capacity
  <1> QED BY <1>2 DEF Capacity

(* One that does not write. *)
LEMMA QuietHoldingStep ==
    ASSUME DOMAIN client = Clients, Capacity, NEW c \in Clients, Holds(c), UNCHANGED kv
    PROVE  Capacity'
  <1>1. StoreFits'
    BY DEF Capacity, StoreFits, Page, StoredPages, get, Absent
  <1> QED BY <1>1, HoldingStep

(* Every step stays within the capacity. *)
LEMMA CapacityStep ==
    ASSUME IInv, Sanity, Capacity, [Next]_vars
    PROVE  Capacity'
  <1>0. DOMAIN client = Clients /\ StoreFits /\ \A c \in Clients : Sane(client[c]) /\ Measured(client[c])
    BY DEF IInv, Sanity, Capacity
  <1>1. ASSUME NEW req \in requests, create_content_asset(req) PROVE Capacity'
    <2>1. UNCHANGED client
      BY <1>1 DEF create_content_asset
    <2>2. PICK a \in ContentAssets : Abstract!create_content_asset(a)
      BY <1>1, AssetStep
    <2>3. StoredPages' = StoredPages
      BY <2>2 DEF Abstract!create_content_asset
    <2>4. StoreFits'
      BY <1>0, <2>3 DEF StoreFits, Page
    <2> QED BY <1>0, <2>1, <2>4 DEF Capacity
  <1>2. ASSUME NEW c \in Clients, NEW req \in requests, Call(c, req) PROVE Capacity'
    BY <1>0, <1>2, CallHolds, QuietHoldingStep DEF Call
  <1>3. ASSUME NEW c \in Clients,
               \/ SnapshotEntry(c) \/ SnapshotIndexes(c) \/ SnapshotAgain(c)
               \/ Claims(c) \/ ClaimsAgain(c) \/ ProbeEntries(c)
               \/ Destination(c) \/ Authority(c) \/ RowAgain(c)
        PROVE  Capacity'
    <2>1. UNCHANGED kv
      BY <1>3, ReadsLand
    <2>2. Holds(c)
      BY <1>0, <1>3, ReadsHold
    <2> QED BY <1>0, <2>1, <2>2, QuietHoldingStep
  <1>4. ASSUME NEW c \in Clients, ListRows(c) PROVE Capacity'
    BY <1>0, <1>4, ListRowsHolds, QuietHoldingStep DEF ListRows
  <1>5. ASSUME NEW c \in Clients, Commit(c) PROVE Capacity'
    <2>1. PICK f : f = client[c]
      OBVIOUS
    <2>2. /\ f.at = "commit"
          /\ \/ Current(f) /\ Write(Written(f), Removed(f)) /\ Return(c, "ok")
             \/ Retry(c, f) /\ UNCHANGED <<kv, clock>>
      BY <1>5, <2>1 DEF Commit
    <2>3. FrameOK(f) /\ f.req \in Request /\ Ample(f) /\ f.at \notin Ended
      BY <1>0, <2>1, <2>2 DEF IInv, FrameOK, Measured, Ended
    <2>4. Persistable(f.req) /\ DOMAIN f = DOMAIN Idle
      BY <2>3 DEF Ample
    <2>5. CASE Current(f) /\ Write(Written(f), Removed(f)) /\ Return(c, "ok")
      <3>1. RequestedOperation(f.req)
        BY <2>2, <2>3, <2>5, CommitOperates DEF IInv
      <3>2. f.req.kind \in NewKinds \cup {"update", "delete", "health"}
        <4>1. Waits(f, "commit", f.pending \cup DOMAIN f.got)
          BY <2>2, <2>3 DEF FrameOK, AtOK
        <4> QED BY <4>1, AtPlaces DEF Settled, NewKinds
      <3>3. StoreFits'
        BY <1>0, <2>3, <2>4, <3>1, <3>2, OperationFits
      <3>4. Holds(c)
        BY <2>4, <2>5, EndsHold
      <3> QED BY <1>0, <3>3, <3>4, HoldingStep
    <2>6. CASE Retry(c, f) /\ UNCHANGED <<kv, clock>>
      BY <1>0, <2>3, <2>4, <2>6, RetryHolds, QuietHoldingStep
    <2> QED BY <2>2, <2>5, <2>6
  <1>6. ASSUME NEW c \in Clients, Crash(c) PROVE Capacity'
    BY <1>0, <1>6, CrashHolds, QuietHoldingStep DEF Crash
  <1>7. CASE UNCHANGED vars
    BY <1>0, <1>7 DEF vars, Capacity, StoreFits, Page, StoredPages, get, Absent
  <1> QED BY <1>1, <1>2, <1>3, <1>4, <1>5, <1>6, <1>7 DEF Next

(* The pages of a scenario are within the capacity. *)
LEMMA CapacityInitially ==
    ASSUME Init
    PROVE  Capacity
  <1>1. PICK s \in Scenarios :
           /\ kv = Stamped(VisibleEntries(s.store.pages, s.store.assets), 1) /\ clock = 1
           /\ client = [c \in Clients |-> Idle]
    BY DEF Init
  <1>2. PICK store : store = s.store
    OBVIOUS
  <1>3. store \in Seeds /\ \A id \in PageIds : store.pages[id] # None =>
                              Within(store.pages[id].endpoint_set)
    BY <1>2, ScenariosAssumption
  <1>4. StoredPages = store.pages
    BY <1>1, <1>2, <1>3, SeedStore
  <1>5. StoreFits
    BY <1>3, <1>4 DEF StoreFits, Page
  <1>6. Measured(Idle)
    BY IdleFields DEF Measured, Ended
  <1> QED BY <1>1, <1>5, <1>6 DEF Capacity

-----------------------------------------------------------------------------
(* Counting the checks of a commit. *)

(* A snapshot is checked by its page and its rows: the claims, and for a   *)
(* managed page at most two more.                                          *)
LEMMA SnapshotSize ==
    ASSUME NEW s, Sized(s)
    PROVE  /\ IsFiniteSet(SnapshotVersions(s))
           /\ Cardinality(SnapshotVersions(s)) <= MaxEndpoints + 3
           /\ s.page.owner = None => Cardinality(SnapshotVersions(s)) <= MaxEndpoints + 1
  <1>1. PICK e, N : e = s.page.endpoint_set /\ N = MaxEndpoints
    OBVIOUS
  <1>2. e \in EndpointSet /\ Within(e) /\ N \in Nat
    BY <1>1, CapacityAssumption DEF Sized, Snapped, PageAggregate
  <1>3. IsFiniteSet(ClaimKeysOf(e)) /\ Cardinality(ClaimKeysOf(e)) <= N
    BY <1>1, <1>2, ClaimKeysBound
  <1>4. PICK P : P = projection_keys(s.id, s.page)
    OBVIOUS
  <1>5. IsFiniteSet(P) /\ Cardinality(P) <= 2
    BY <1>4, ProjectionKeysBrief
  <1>6. DOMAIN s.index = ClaimKeysOf(e) \cup P
    BY <1>1, <1>4 DEF Sized, Snapped, visibility_keys, endpoint_keys, ClaimKeysOf
  <1>7. PICK K : K = {<<page_aggregate_storage_key(s.id), s.entry.vs>>}
    OBVIOUS
  <1>8. IsFiniteSet(K) /\ Cardinality(K) <= 1
    <2>1. PICK x : K = {x}
      BY <1>7
    <2>2. IsFiniteSet({x}) /\ Cardinality({x}) = 1
      BY FS_Singleton
    <2> QED BY <2>1, <2>2
  <1>9. SnapshotVersions(s) = K \cup Versions(s.index)
    BY <1>7 DEF SnapshotVersions
  <1>10. ASSUME NEW n \in Nat, IsFiniteSet(DOMAIN s.index), Cardinality(DOMAIN s.index) <= n
         PROVE  IsFiniteSet(SnapshotVersions(s)) /\ Cardinality(SnapshotVersions(s)) <= 1 + n
    <2>1. IsFiniteSet(Versions(s.index)) /\ Cardinality(Versions(s.index)) <= n
      BY <1>10, VersionsBound
    <2> QED BY <1>8, <1>9, <2>1, SumBound
  <1>11. IsFiniteSet(DOMAIN s.index) /\ Cardinality(DOMAIN s.index) <= N + 2
    BY <1>2, <1>3, <1>5, <1>6, SumBound
  <1>12. IsFiniteSet(SnapshotVersions(s)) /\ Cardinality(SnapshotVersions(s)) <= 1 + (N + 2)
    <2>1. N + 2 \in Nat
      BY <1>2
    <2> QED BY <1>10, <1>11, <2>1
  <1>13. Cardinality(SnapshotVersions(s)) \in Nat
    BY <1>12, FS_CardinalityType
  <1>14. ASSUME s.page.owner = None PROVE Cardinality(SnapshotVersions(s)) <= N + 1
    <2>1. P = {}
      BY <1>4, <1>14 DEF projection_keys
    <2>2. DOMAIN s.index = ClaimKeysOf(e)
      BY <1>6, <2>1
    <2>3. Cardinality(SnapshotVersions(s)) <= 1 + N
      BY <1>2, <1>3, <1>10, <2>2
    <2> QED BY <1>2, <1>13, <2>3
  <1> QED BY <1>1, <1>2, <1>12, <1>13, <1>14

(* What the commit checks for one wanted endpoint: that nothing claims it, *)
(* or the page of another owner that does.                                 *)
ClaimChecks(f, k) ==
    IF ~present(f.targets[k]) THEN {<<k, f.targets[k].vs>>}
    ELSE UNION {SnapshotVersions(s) : s \in {s \in Displaced(f) : s.id = f.targets[k].val.page_id}}

(* A wanted endpoint is absent, or leads to one trial. *)
LEMMA ClaimChecksSize ==
    ASSUME NEW f, Ample(f), f.req.kind # "list", \A s \in Displaced(f) : s.page.owner = None,
           NEW k
    PROVE  /\ IsFiniteSet(ClaimChecks(f, k))
           /\ Cardinality(ClaimChecks(f, k)) <= MaxEndpoints + 1
  <1>1. MaxEndpoints \in Nat
    BY CapacityAssumption
  <1>2. CASE ~present(f.targets[k])
    <2>1. PICK x : x = <<k, f.targets[k].vs>>
      OBVIOUS
    <2>2. ClaimChecks(f, k) = {x}
      BY <1>2, <2>1 DEF ClaimChecks
    <2>3. IsFiniteSet({x}) /\ Cardinality({x}) = 1
      BY FS_Singleton
    <2> QED BY <1>1, <2>2, <2>3
  <1>3. CASE present(f.targets[k])
    <2>1. CASE \E s \in Displaced(f) : s.id = f.targets[k].val.page_id
      <3>1. PICK s \in Displaced(f) : s.id = f.targets[k].val.page_id
        BY <2>1
      <3>2. \A t \in Displaced(f) : t.id = f.targets[k].val.page_id => t = s
        BY <3>1 DEF Ample, Displaced
      <3>3. ClaimChecks(f, k) = SnapshotVersions(s)
        <4>1. {t \in Displaced(f) : t.id = f.targets[k].val.page_id} = {s}
          BY <3>1, <3>2
        <4>2. UNION {SnapshotVersions(t) : t \in {s}} = SnapshotVersions(s)
          OBVIOUS
        <4> QED BY <1>3, <4>1, <4>2 DEF ClaimChecks
      <3>4. Sized(s) /\ s.page.owner = None
        BY <3>1 DEF Ample, Displaced
      <3> QED BY <3>3, <3>4, SnapshotSize
    <2>2. CASE ~\E s \in Displaced(f) : s.id = f.targets[k].val.page_id
      <3>1. ClaimChecks(f, k) = {}
        BY <1>3, <2>2 DEF ClaimChecks
      <3> QED BY <1>1, <3>1, FS_EmptySet
    <2> QED BY <2>1, <2>2
  <1> QED BY <1>2, <1>3

(* What it checks of the page that is updated or duplicated. *)
ExistingChecks(f) == IF f.existing # None THEN SnapshotVersions(f.existing) ELSE {}

(* A page, its claims and its two projections. *)
LEMMA ExistingChecksSize ==
    ASSUME NEW f, Ample(f)
    PROVE  /\ IsFiniteSet(ExistingChecks(f))
           /\ Cardinality(ExistingChecks(f)) <= MaxEndpoints + 3
  <1>1. CASE f.existing # None
    BY <1>1, SnapshotSize DEF Ample, ExistingChecks
  <1>2. CASE f.existing = None
    <2>1. ExistingChecks(f) = {}
      BY <1>2 DEF ExistingChecks
    <2> QED BY <2>1, FS_EmptySet, CapacityAssumption
  <1> QED BY <1>1, <1>2

(* The updated page, if it is read again among the pages that hold a       *)
(* wanted endpoint, adds no check: every key was read at the same version. *)
LEMMA ReadAgainAddsNothing ==
    ASSUME NEW f, Ample(f), Merge(f), f.req.kind = "update", f.existing # None,
           NEW s \in f.snapshots, s.id = f.existing.id
    PROVE  SnapshotVersions(s) \subseteq SnapshotVersions(f.existing)
  <1>1. PICK e : e = f.existing
    OBVIOUS
  <1>2. /\ \A check \in SnapshotVersions(s) : check \in Checks(f)
        /\ \A check \in SnapshotVersions(e) : check \in Checks(f)
    BY <1>1 DEF Checks
  <1>3. \A a, b : a \in SnapshotVersions(s) /\ b \in SnapshotVersions(e) /\ a[1] = b[1] => a = b
    BY <1>2 DEF Merge
  <1>4. Sized(s) /\ Sized(e) /\ Agrees(e, s) /\ e # None
    BY <1>1 DEF Ample
  <1>5. PICK key : key = page_aggregate_storage_key(s.id)
    OBVIOUS
  <1>6. <<key, s.entry.vs>> \in SnapshotVersions(s) /\ <<key, e.entry.vs>> \in SnapshotVersions(e)
    BY <1>1, <1>5 DEF SnapshotVersions
  <1>7. <<key, s.entry.vs>> = <<key, e.entry.vs>>
    BY <1>3, <1>6
  <1>8. s.entry.vs = e.entry.vs
    BY <1>7
  <1>9. DOMAIN s.index = DOMAIN e.index
    BY <1>1, <1>4, <1>8 DEF Agrees, Sized, Snapped
  <1>10. ASSUME NEW k \in DOMAIN s.index
         PROVE  <<k, s.index[k].vs>> \in SnapshotVersions(e)
    <2>1. /\ <<k, s.index[k].vs>> \in SnapshotVersions(s)
          /\ <<k, e.index[k].vs>> \in SnapshotVersions(e)
      BY <1>9 DEF SnapshotVersions, Versions
    <2>2. <<k, s.index[k].vs>> = <<k, e.index[k].vs>>
      BY <1>3, <2>1
    <2> QED BY <2>1, <2>2
  <1>11. ASSUME NEW check \in SnapshotVersions(s) PROVE check \in SnapshotVersions(e)
    <2>1. CASE check = <<key, s.entry.vs>>
      BY <1>6, <1>7, <2>1
    <2>2. CASE check \in Versions(s.index)
      <3>1. PICK k \in DOMAIN s.index : check = <<k, s.index[k].vs>>
        BY <2>2 DEF Versions
      <3> QED BY <1>10, <3>1
    <2> QED BY <1>5, <2>1, <2>2 DEF SnapshotVersions
  <1> QED BY <1>1, <1>11

(* The checks of the wanted endpoints, together. *)
TargetChecks(f) == UNION {ClaimChecks(f, k) : k \in DOMAIN f.targets}

(* The endpoints of one set are wanted, or none. *)
LEMMA TargetsBound ==
    ASSUME NEW f, f.req \in Request, Persistable(f.req), DOMAIN f.targets = WantedKeys(f.req),
           f.req.kind \in NewKinds \/ (f.req.kind = "update" /\ f.req.patch.endpoint_set # None)
    PROVE  IsFiniteSet(DOMAIN f.targets) /\ Cardinality(DOMAIN f.targets) <= MaxEndpoints
  <1>1. CASE f.req.kind \in NewKinds
    <2>1. f.req.endpoint_set \in EndpointSet /\ Within(f.req.endpoint_set)
      BY <1>1, RequestFields DEF NewKinds, Persistable, RequestedSets
    <2>2. DOMAIN f.targets = ClaimKeysOf(f.req.endpoint_set)
      BY <1>1 DEF WantedKeys, NewKinds
    <2> QED BY <2>1, <2>2, ClaimKeysBound
  <1>2. CASE f.req.kind = "update" /\ f.req.patch.endpoint_set # None
    <2>1. f.req.patch.endpoint_set \in EndpointSet
      BY <1>2, RequestFields DEF Patch
    <2>2. Within(f.req.patch.endpoint_set)
      BY <1>2 DEF Persistable, RequestedSets
    <2>3. DOMAIN f.targets = ClaimKeysOf(f.req.patch.endpoint_set)
      BY <1>2 DEF WantedKeys
    <2> QED BY <2>1, <2>2, <2>3, ClaimKeysBound
  <1> QED BY <1>1, <1>2

(* At most MaxEndpoints wanted endpoints, each with a trial at most. *)
LEMMA TargetChecksSize ==
    ASSUME NEW f, Ample(f), f.req.kind # "list", \A s \in Displaced(f) : s.page.owner = None,
           IsFiniteSet(DOMAIN f.targets), Cardinality(DOMAIN f.targets) <= MaxEndpoints
    PROVE  /\ IsFiniteSet(TargetChecks(f))
           /\ Cardinality(TargetChecks(f)) <= MaxEndpoints * (MaxEndpoints + 1)
  <1>1. MaxEndpoints \in Nat /\ MaxEndpoints + 1 \in Nat
    BY CapacityAssumption
  <1>2. PICK F : F = {ClaimChecks(f, k) : k \in DOMAIN f.targets}
    OBVIOUS
  <1>3. PICK g : g = [k \in DOMAIN f.targets |-> ClaimChecks(f, k)]
    OBVIOUS
  <1>4. g \in [DOMAIN f.targets -> F] /\ F = {g[k] : k \in DOMAIN f.targets}
    BY <1>2, <1>3
  <1>5. IsFiniteSet(F) /\ Cardinality(F) <= MaxEndpoints
    BY <1>1, <1>4, ImageBound
  <1>6. \A S \in F : IsFiniteSet(S) /\ Cardinality(S) <= MaxEndpoints + 1
    BY <1>2, ClaimChecksSize
  <1>7. IsFiniteSet(UNION F) /\ Cardinality(UNION F) <= MaxEndpoints * (MaxEndpoints + 1)
    BY <1>1, <1>5, <1>6, UnionBound
  <1>8. TargetChecks(f) = UNION F
    BY <1>2 DEF TargetChecks
  <1> QED BY <1>7, <1>8

(* A present claim leads to the snapshot it was found coherent with. *)
LEMMA ClaimedSnapshot ==
    ASSUME NEW f, ClaimsOK(f), NEW s \in f.snapshots
    PROVE  \E k \in DOMAIN f.targets : present(f.targets[k]) /\ f.targets[k].val.page_id = s.id
  <1>1. s.id \in TargetIds(f)
    BY DEF ClaimsOK, Targeted
  <1> QED BY <1>1 DEF TargetIds

(* All that is checked of claims and of the pages they lead to is counted  *)
(* under a wanted endpoint, or is part of the updated page.                *)
LEMMA ClaimsCounted ==
    ASSUME NEW f, Ample(f), Merge(f), ClaimsOK(f),
           f.req.kind = "update" => f.existing # None /\ f.existing.id = f.req.id
    PROVE  /\ \A s \in f.snapshots :
                 SnapshotVersions(s) \subseteq TargetChecks(f) \cup ExistingChecks(f)
           /\ Versions(f.targets) \subseteq TargetChecks(f) \cup ExistingChecks(f)
  <1>1. ASSUME NEW s \in f.snapshots
        PROVE  SnapshotVersions(s) \subseteq TargetChecks(f) \cup ExistingChecks(f)
    <2>1. CASE s \in Displaced(f)
      <3>1. PICK k \in DOMAIN f.targets :
               present(f.targets[k]) /\ f.targets[k].val.page_id = s.id
        BY ClaimedSnapshot
      <3>2. SnapshotVersions(s) \subseteq ClaimChecks(f, k)
        BY <2>1, <3>1 DEF ClaimChecks
      <3> QED BY <3>2 DEF TargetChecks
    <2>2. CASE s \notin Displaced(f)
      <3>1. f.req.kind = "update" /\ s.id = f.req.id
        BY <2>2 DEF Displaced
      <3>2. SnapshotVersions(s) \subseteq SnapshotVersions(f.existing)
        BY <3>1, ReadAgainAddsNothing
      <3> QED BY <3>1, <3>2 DEF ExistingChecks
    <2> QED BY <2>1, <2>2
  <1>2. ASSUME NEW k \in DOMAIN f.targets
        PROVE  <<k, f.targets[k].vs>> \in TargetChecks(f) \cup ExistingChecks(f)
    <2>1. CASE present(f.targets[k])
      <3>1. PICK s \in f.snapshots : k \in DOMAIN s.index /\ s.index[k].vs = f.targets[k].vs
        BY <2>1 DEF ClaimsOK, ClaimsCoherent
      <3>2. <<k, f.targets[k].vs>> \in SnapshotVersions(s)
        BY <3>1 DEF SnapshotVersions, Versions
      <3> QED BY <1>1, <3>2
    <2>2. CASE ~present(f.targets[k])
      <3>1. <<k, f.targets[k].vs>> \in ClaimChecks(f, k)
        BY <2>2 DEF ClaimChecks
      <3> QED BY <3>1 DEF TargetChecks
    <2> QED BY <2>1, <2>2
  <1>3. Versions(f.targets) \subseteq TargetChecks(f) \cup ExistingChecks(f)
    BY <1>2 DEF Versions
  <1> QED BY <1>1, <1>3

(* Four parts of a commit's checks, and their sum. *)
LEMMA PartsBound ==
    ASSUME NEW S, NEW A, NEW B, NEW C, NEW D, S \subseteq A \cup B \cup C \cup D,
           IsFiniteSet(A), Cardinality(A) <= MaxEndpoints * (MaxEndpoints + 1),
           IsFiniteSet(B), Cardinality(B) <= MaxEndpoints + 3,
           IsFiniteSet(C), Cardinality(C) <= 2, IsFiniteSet(D), Cardinality(D) <= 2
    PROVE  Cardinality(S) <= max_page_aggregate_atomic_checks
  <1>1. PICK N, M : N = MaxEndpoints /\ M = N * N
    OBVIOUS
  <1>2. N \in Nat /\ M \in Nat
    BY <1>1, CapacityAssumption
  <1>3. MaxEndpoints * (MaxEndpoints + 1) = M + N
    BY <1>1, <1>2
  <1>4. /\ M + N \in Nat /\ N + 3 \in Nat /\ 2 \in Nat
        /\ (M + N) + (N + 3) \in Nat /\ (M + N) + (N + 3) + 2 \in Nat
    BY <1>2
  <1>5. IsFiniteSet(A \cup B) /\ Cardinality(A \cup B) <= (M + N) + (N + 3)
    BY <1>1, <1>3, <1>4, SumBound
  <1>6. IsFiniteSet((A \cup B) \cup C) /\ Cardinality((A \cup B) \cup C) <= (M + N) + (N + 3) + 2
    BY <1>4, <1>5, SumBound
  <1>7. PICK T : T = ((A \cup B) \cup C) \cup D
    OBVIOUS
  <1>8. IsFiniteSet(T) /\ Cardinality(T) <= (M + N) + (N + 3) + 2 + 2
    BY <1>4, <1>6, <1>7, SumBound
  <1>9. Cardinality(S) <= Cardinality(T) /\ IsFiniteSet(S)
    <2>1. S \subseteq T
      BY <1>7
    <2> QED BY <1>8, <2>1, FS_Subset
  <1>10. Cardinality(S) \in Nat /\ Cardinality(T) \in Nat
    BY <1>8, <1>9, FS_CardinalityType
  <1>11. Cardinality(S) <= M + 2 * N + 7
    BY <1>2, <1>8, <1>9, <1>10
  <1> QED BY <1>1, <1>11 DEF max_page_aggregate_atomic_checks

(* A health report checks one entry; an edit the parts counted above. *)
LEMMA ChecksBound ==
    ASSUME NEW f, FrameOK(f), f.at = "commit", Ample(f), Merge(f)
    PROVE  Cardinality(Checks(f)) <= max_page_aggregate_atomic_checks
  <1>1. f.req \in Request /\ Persistable(f.req)
    BY DEF FrameOK, Ample, Ended
  <1>2. \/ Settled(f)
        \/ f.req.kind \in {"delete", "health"} /\ ExistingOK(f) /\ NoClaims(f)
    <2>1. Waits(f, "commit", f.pending \cup DOMAIN f.got)
      BY DEF FrameOK, AtOK, Ended
    <2> QED BY <2>1, AtPlaces
  <1>3. PICK A, B, C, D : /\ A = TargetChecks(f) /\ B = ExistingChecks(f)
                          /\ C = Versions(f.probed) /\ D = Versions(f.destination)
    OBVIOUS
  <1>4. IsFiniteSet(B) /\ Cardinality(B) <= MaxEndpoints + 3
    BY <1>3, ExistingChecksSize
  <1>5. IsFiniteSet(C) /\ Cardinality(C) <= 2 /\ IsFiniteSet(D) /\ Cardinality(D) <= 2
    BY <1>3, VersionsBound DEF Ample, Brief
  <1>6. MaxEndpoints \in Nat
    BY CapacityAssumption
  <1>7. \A snapshot \in f.snapshots \cup ({f.existing} \ {None}) :
           snapshot \in f.snapshots \/ SnapshotVersions(snapshot) = B
    BY <1>3 DEF ExistingChecks
  <1>8. CASE f.req.kind = "health"
    <2>1. PICK x : x = <<page_aggregate_storage_key(f.id), f.existing.entry.vs>>
      OBVIOUS
    <2>2. Checks(f) = {x}
      BY <1>8, <2>1 DEF Checks
    <2>3. Cardinality({x}) = 1
      BY FS_Singleton
    <2>4. MaxEndpoints * MaxEndpoints \in Nat
      BY <1>6
    <2> QED BY <1>6, <2>2, <2>3, <2>4 DEF max_page_aggregate_atomic_checks
  <1>9. CASE f.req.kind # "health" /\ NoClaims(f)
    <2>1. f.snapshots = {} /\ DOMAIN f.targets = {}
      BY <1>9, NothingSeen DEF NoClaims
    <2>2. TargetChecks(f) = {} /\ Versions(f.targets) = {}
      BY <2>1 DEF TargetChecks, Versions
    <2>3. Checks(f) \subseteq A \cup B \cup C \cup D
      BY <1>3, <1>7, <1>9, <2>1, <2>2 DEF Checks
    <2>4. IsFiniteSet(A) /\ Cardinality(A) <= MaxEndpoints * (MaxEndpoints + 1)
      <3>1. MaxEndpoints * (MaxEndpoints + 1) \in Nat
        BY <1>6
      <3> QED BY <1>3, <2>2, <3>1, FS_EmptySet
    <2> QED BY <1>4, <1>5, <2>3, <2>4, PartsBound
  <1>10. CASE f.req.kind # "health" /\ ~NoClaims(f)
    <2>1. /\ ClaimsOK(f)
          /\ f.req.kind \in NewKinds \/ (f.req.kind = "update" /\ f.req.patch.endpoint_set # None)
          /\ f.req.kind = "update" => ExistingOK(f)
      BY <1>2, <1>10 DEF Settled, Planned, NewKinds
    <2>2. /\ DOMAIN f.targets = WantedKeys(f.req)
          /\ \A s \in Displaced(f) : s.page.owner = None
      BY <2>1 DEF ClaimsOK
    <2>3. IsFiniteSet(DOMAIN f.targets) /\ Cardinality(DOMAIN f.targets) <= MaxEndpoints
      BY <1>1, <2>1, <2>2, TargetsBound
    <2>4. IsFiniteSet(A) /\ Cardinality(A) <= MaxEndpoints * (MaxEndpoints + 1)
      BY <1>3, <2>1, <2>2, <2>3, TargetChecksSize DEF NewKinds
    <2>5. f.req.kind = "update" => f.existing # None /\ f.existing.id = f.req.id
      BY <2>1 DEF ExistingOK
    <2>6. /\ \A s \in f.snapshots : SnapshotVersions(s) \subseteq A \cup B
          /\ Versions(f.targets) \subseteq A \cup B
      BY <1>3, <2>1, <2>5, ClaimsCounted
    <2>7. Checks(f) \subseteq A \cup B \cup C \cup D
      BY <1>3, <1>7, <1>10, <2>6 DEF Checks
    <2> QED BY <1>4, <1>5, <2>4, <2>7, PartsBound
  <1> QED BY <1>8, <1>9, <1>10

-----------------------------------------------------------------------------
(* Theorems. *)

(* No stored page and no page a call has read has more endpoints than the  *)
(* adapter can check, and no call reads a page twice among those that hold *)
(* the endpoints it wants.                                                 *)
THEOREM StaysWithinCapacity == Spec => []Capacity
  <1>1. Init => Capacity
    BY CapacityInitially
  <1>2. IInv /\ Sanity /\ Capacity /\ [Next]_vars => Capacity'
    BY CapacityStep
  <1> QED BY <1>1, <1>2, KeepsInvariant, KeepsSanity, PTL DEF Spec

(* Whatever the stores, calls and interleavings, the atomic operation of   *)
(* #commit has at most max_page_aggregate_atomic_checks checks once they   *)
(* are merged: the limit on endpoints per page is the only one needed to   *)
(* keep every commit within what Deno KV takes.                            *)
THEOREM CommitsStayWithinBudget == Spec => []AtomicCheckBudget
  <1>1. ASSUME IInv, Capacity, NEW c \in Clients, client[c].at = "commit", Merge(client[c])
        PROVE  Cardinality(Checks(client[c])) <= max_page_aggregate_atomic_checks
    <2>1. FrameOK(client[c]) /\ Measured(client[c])
      BY <1>1 DEF IInv, Capacity
    <2>2. Ample(client[c])
      BY <1>1, <2>1 DEF Measured, Ended
    <2> QED BY <1>1, <2>1, <2>2, ChecksBound
  <1>2. IInv /\ Capacity => AtomicCheckBudget
    BY <1>1 DEF AtomicCheckBudget
  <1> QED BY <1>2, KeepsInvariant, StaysWithinCapacity, PTL
=============================================================================
