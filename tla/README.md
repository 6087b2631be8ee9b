# A TLA+ model of iam-pager

iam-pager publishes pages: a visitor leaves a public *trial* page on an unreserved
namespace, a signed-in user reserves namespaces and manages pages in them, by browser
session or by API key, with content stored inline or in an external storage account.
It is a Deno program with a browser client. On the server the handlers of many requests
interleave at every `await`, in one process and across processes, and the only thing
they share is Deno KV, whose atomic operations check versionstamps. In the browser the
handlers of one page interleave at every `await` over state hooks and closures of earlier
renders. What is hard in this code is therefore what these modules are about: what a
handler has read when it writes, how long ago it read it, and whether anything checks it.

## 1. Inventory

| Component (under `src/`) | State | Operations | Hard behaviour | What makes it correct |
|---|---|---|---|---|
| Page model: `lib/page/aggregate.ts`, `endpoint.ts` | none | build and validate a page | pages are rebuilt by spreading old ones | trials are public and unlocked, health belongs to external content |
| Page repository: `lib/page/aggregate-interfaces.ts`, `memory-aggregate-repository.ts` | pages, endpoint index, assets | put trial, create, update, duplicate, health, delete, list, resolve | displacing trials through canonical and alternate locators | one page per locator, managed pages never displaced, one revision per mutation |
| KV page repository: `lib/storage/kv-page-aggregate-repository.ts` | page, claim, owner-row and public-row entries | the same, as batches of reads and one atomic operation | torn reads, stale rows, phantoms, retries, crashes | implements the page repository; never throws on a healthy store |
| Page service: `lib/page/service.ts` | none of its own; the frames of the calls under way | publish, create, update, relink, bulk access, rename, duplicate, delete, bulk delete, deliver | check-then-act over page, reservation, lock and external object | owner's namespaces only, locks bind keys, health is of this content, loops end |
| API keys: `lib/api-key/*-repository.ts` | records, hash index, owner rows, owner generations | create, find, list, update, revoke, revoke all | revoke-all by generation, purges, dead occupants | revoke-all is atomic, live keys are indexed, a revoked key never resolves |
| API-key service and HTTP: `lib/api-key/service.ts`, `http.ts`, `lib/api-auth/*` | none | issue, authenticate, permit, update, revoke | expiry against update, preconditions | a key does what it was granted, and only while it lives |
| API-key panel: `islands/ApiKeyPanel.tsx` | list, form, confirmations, busy marks | generate, edit, revoke, revoke all | rows of an earlier list, late requests, lists replaced under a form | a key is changed as its row showed it |
| Namespaces: `lib/namespace/*` | reservations by name and by owner | reserve, find, list | two first reservers | one owner, for good |
| Content assets: `lib/storage/kv-content-asset-repository.ts`, `kv-toolbox-gateway.ts` | manifest, chunked payload | create, find | payload before manifest, ambiguous commit, cleanup, orphans | a committed manifest has its payload |
| Sessions: `lib/session/*` | session record by id, id by credential, attempts | establish, touch, begin and consume attempts, attach, revoke | versioned replacement, rotation, eviction of attempts, lazy expiry | an attempt is consumed once, a replaced session is gone |
| Identities and sign-in: `lib/auth/*`, `lib/request-context.ts` | user, identity by strategy subject; the browser's cookie | start, callback, sign out, find or create | tabs with old cookies, replayed callbacks, two first sign-ins | one exchange per attempt, one user per identity |
| Storage connections and Drive provider: `lib/external-storage/*`, `lib/storage/kv-storage-connection-repository.ts` | connection, credentials, active-connection index, OAuth attempts, refreshes under way | connect, reauthorize, refresh, disconnect, use | refresh against disconnect and reauthorize over processes, connect in two writes | tokens are of the connection's account, and go only for a refusal |
| Drive gateway and token cipher | none | HTTP calls, encryption | none of its own | primitives |
| Page HTTP API: `lib/page/http.ts` | none | authenticate, permit, precondition, command, status | what a reply says is old when it arrives | a command is bound to the revision its sender saw |
| Cursors: `lib/page/cursor.ts` | none | compare sort keys, resume | pages renamed between two requests of a listing | rows are in order |
| Page panel: `islands/PageManagementPanel.tsx`, `lib/ui/page-management.ts` | rows, filters, cursor, selection, editor, forms, busy marks | list, filter, load more, edit, rename, copy, relink, access, block, delete, bulk | three handlers at once, 412 with refresh, lost and late requests | acts only on what is shown, gives its controls back |
| Map routes: `lib/maps/*`, `lib/ui/map-route-steps.ts` | none | read a link as stops, operate on stops, write a link | what a URL cannot carry | round trip of a frame |
| Markdown editor: `components/MarkdownContentEditor.tsx`, `MapRouteFields.tsx`, `lib/ui/markdown-section-editor.ts` | draft, section being edited, insertion, links known, links awaited | edit, insert, move, merge, delete, frame, split, paste | sections parsed anew after each gesture, answers for short links and the clipboard that land later | a draft stays on its section, nothing said is lost |
| Locators, content types: `lib/locator/*`, `lib/content/*` | none | pure functions | text | round trips |
| Other client UI: `islands/*`, `components/*`, `routes/*` | view models | render, one request at a time | none of its own | presentation |
| Composition: `app.ts`, `storage/runtime-storage.ts` | none | wiring | selection of adapters at start-up | none of its own |

Interaction: HTTP handlers resolve the request's principal (bearer key, or session and
CSRF token), call the page, key, authentication or storage service, and these call
repositories (memory or KV behind one interface) and a storage provider, all by `await`.
The browser's panels call the HTTP API and keep what it answered. Nothing is called back
on the server; the shared state is the store, the browser's cookie, and in the Drive
provider a process's table of refreshes under way.

## 2. Modules

```
PageAggregates                 the page and the pages operations build
  PageStore                    the repository's promise = the in-memory repository
    PageStoreProofs            theorems about it
    MCPageStore
  KvPageAggregate  (+ DenoKv)  the KV repository;  Abstract == INSTANCE PageStore
    KvPageAggregateProofs      its invariant and the refinement, proved
    MCKvPageAggregate
  PageService                  the use cases;      Repository == INSTANCE PageStore
    PageServiceProofs          theorems about it;  Proved == INSTANCE PageStoreProofs
    MCPageService
ApiKeyStore                    the key repository's promise = the in-memory repository
  KvApiKeys        (+ DenoKv)  the KV repository;  Abstract == INSTANCE ApiKeyStore
    KvApiKeysProofs            its invariant and the refinement, proved
    MCKvApiKeys
ContentAssetStore              an asset is created whole, at once
  KvContentAssets              staging;            Abstract == INSTANCE ContentAssetStore
    KvContentAssetsProofs      the refinement, proved
    MCKvContentAssets
SessionRecords                 the session and the sessions operations build
  SessionStore                 the in-memory repository
    SessionStoreProofs
  KvSessions       (+ DenoKv)  the KV repository, read by read
    KvIdentities               users and external identities
      SignIn                   services and handlers; Abstract == INSTANCE SessionStore
        SignInProofs           its invariant, identities, sessions and exchanges, proved
        MCSignIn
StorageConnectionStore         the in-memory repository of connections
KvStorageConnections (+ DenoKv) the KV repository, read by read
  DriveStorage                 connecting, using;  Abstract == INSTANCE StorageConnectionStore
    DriveStorageProofs         its invariant, custody and the refinement, proved
    MCDriveStorage
PageHttp                       the management API over one owner's pages
  PagePanel                    the page list in a browser
MapRoutes                      links, stops and frames
  MarkdownSections             a document as sections
    MarkdownEditor             the gestures
ApiKeyPanel                    the key list in a browser; Repository == INSTANCE ApiKeyStore
MCCreatorPage                  a creator's browser: PagePanel, MarkdownEditor, ApiKeyPanel
```

Each pair of an abstract and a detailed module lets the layer above run on the abstract
one: the page service on `PageStore`, the key panel on `ApiKeyStore`; the page panel runs
on `PageHttp`, in which a command is one step because its commit is.

### Server

**PageAggregates** has the record of a page. `owner = None` is trial stewardship.
A locator is one value whatever its case. `None` also marks a field a patch lacks.
Tags, timestamps, the delivery profile of a binding and the cause of a health
observation are left out: no guard of a repository compares them, except that a new
cause alone rewrites an already missing page's observation.

**PageStore** has the three maps of `MemoryPageAggregateRepository` and one action per
operation. Its operations contain no `await` between check and write, so each is one
step. The reasons to refuse a call are the guards. `Seeds` are the stores the system
may start from.

**DenoKv** is what the repositories use of Deno KV: linearizable reads of one key, and an
atomic operation that checks versionstamps and then writes all its keys with a new one.

**KvPageAggregate** models one call per client as a frame (`at`, what it waits for, what
it has read). Every single-key read is a step: `Promise.all` batches return in any order,
and whatever other clients commit falls between. The synchronous code after the last read
of a batch belongs to that read's step. `Commit` is the atomic operation with every check
`#merge_checks` passes it. `Retry` is the next round of the `for` loop. A client may crash
anywhere. A listing scans its rows in one step (Deno KV lists in batches) and then
snapshots page after page. `Request` says which calls there are, with what arguments.

**KvApiKeys** has the same shape for `DenoKvApiKeyRepository`: record, hash index, owner
row and owner generation are entries; `Checks`, `Written` and `Removed` are the atomic
operation of each call. A purge is a read and a best-effort commit of its own, after
which the call that started it goes on. A walk over an owner's rows throws when the record
of a row is another owner's, as `list_by_owner` and `revoke_all_by_owner` do; the proofs
show that it never is. `EntriesOK` says what stores a scenario may start from, `Request`
which calls there are. `was_live` is a history variable of the frame for one property; no
step reads it.

**PageService** models each command as the list of awaits it still has to make (`todo`,
set by `Course`), over `PageStore` actions. `page`, `page authority` and `authority` are
the reads; `upload` and `fetch candidate` are the provider; `stage` creates the asset;
`commit` is the repository call. Single commands and bulk commands share the path: a bulk
command has a selection of several pages and goes on with the next one when one is
refused. Page ids are random 128-bit values, so an id that has been drawn is not drawn
again once its page is gone (`drawn`); it may be drawn while the page is there, which is
what the collision loops are for. Fresh asset ids are chosen among the unused ones.
Reservations only grow. An external object can be lost (also: changed, so that its digest
no longer matches) and restored. `ScenarioOK` says what a scenario may start from: a
well-formed store whose managed pages are in reserved namespaces and whose pages reported
missing show an object that was lost; `Init` lets the objects' histories differ
accordingly.

**KvContentAssets** is the creation of an asset, await by await: the id must be free, a
payload id is generated and must be unused, the bytes are written in two batches, read
back twice, and the manifest is committed. Every call of the store may throw (`MaxFaults`
bounds how often), a commit that throws may have been applied, cleanup may itself fail,
and a process may stop anywhere. Finding an asset only reads and is left out.

**KvSessions**, **KvIdentities** and **SignIn** are one browser's requests: opening a
page, starting a sign-in, the provider's callback, signing out, and requests with a
bearer. A request carries the cookie the browser had when it was *sent*; it is served
concurrently with those of other tabs, and responses (with their cookies) arrive in any
order. The call a request makes of a repository is in its frame, one step per read or
atomic operation. Credentials are drawn from a pool and never again once stored, as they
are 256 random bits. Deno KV may drop an expired entry at any moment (`Expire`), one entry
of a session before the other. The provider's exchange is external.

**KvStorageConnections** and **DriveStorage** are the requests about one user's Drive
connection, served by several processes: start of a consent, callback, disconnection,
and any operation on content with the connection's token. A request whose token has aged,
or was refused, asks for a refresh; requests of one process share it (`Share` is the
provider's single-flight table), requests of two processes do not. Google is external:
it grants (with or without a refresh token), does not answer, refuses a token, turns the
site's own credentials away when a token is to be refreshed (401 from the token endpoint,
which the provider takes for a refusal, `google-drive-provider.ts:213`), and the creator may
withdraw a consent on Google's pages. A grant is named after the attempt that made it, which is how
`TokensOfOwnAccount` can tell whose tokens a connection holds.

**PageHttp** has the handlers of the collection, the item and the bulk routes: principal
(bearer before session), permission, CSRF, precondition, the command and its status (a
duplicate is refused to a page that needs more than one inline endpoint, and keeps the lock
and the source; a relink is also refused for what the storage provider answers), and
the pages listings answer with, in sort order, filtered and resumed after a key. Page
names are numbers in the order of their sort keys.

### Browser

In all three browser modules a handler runs without interruption between two awaits, its
closure keeps what it was started with, and a control can be used only if the last render
shows it enabled. Requests can be lost, and one the browser has given up can still arrive.

**PagePanel** has every state hook of the panel that a request depends on, the clicks
(`clicks`, each made at most once, in any order), the requests of other tabs and API keys
(`foreign`), and the handlers under way (`task`): each goes from the click to the request,
its answer, and for many of them a refresh and a second answer.

**MapRoutes** reads a URL as a record of the parameters its text has (a place, a
directions link, a short link, or something else) and back. Stops are places; the device's
own position is a stop without parameter. **MarkdownSections** is the boundary between raw
Markdown and sections: a document is a sequence of lines, a line a sequence of words, with
a URL when the whole line is a link. Parsing, serializing, drafts, changes of type and
merges are functions. **MarkdownEditor** has the editor's hooks (`markdown`, `mode`,
`map_route_enabled`, `editing`, `insertion`, `delete_armed_index`), the short links known
and asked for (`links`, `adopting`), what still waits for an answer (`awaiting`), which
mount of its fields a form shows (`frame`: an added short link is awaited once per mount, as
`pending` is a state of `MapRouteFields`), and one action per gesture and per answer. A drag is one gesture, as what it hovers over changes
nothing.

**ApiKeyPanel** has the key endpoints (principal, CSRF, precondition, validation, one step
of `ApiKeyStore`) and the panel that calls them. Its clock counts half minutes, because
the form shows whole minutes and keys expire in between. Keys are numbered in the order
of their creation. What a draft was opened on and what the creator chose are recorded in
the draft for one property.

## 3. Runs

The detailed modules take `Scenarios`: a scenario is a state to start from and the calls
(clicks, gestures) to come, each made at most once, by any client, in any order. One run
covers several scenarios (TLC starts from each). Runs use symmetry over clients and over
interchangeable values, except `page_store`, whose few states need none, and `panel`,
which checks liveness. A run whose scenarios come to an end does not check deadlock: when
no call is left to make, the system comes to rest. `page_store` has no scenarios: every
operation with every argument.

| Run | Bounds | What it shows |
|---|---|---|
| `page_store` | 3 page ids, 2 locators, 2 owners, an inline and an external asset, 3 revisions | every operation in every order keeps index, pages and stewardship right. With 2 locators a page has an alternate, and one claim retires two trials |
| `kv_pages` | 2 clients, 5 page ids, 7 locators, 2 revisions, 3 attempts, 2 endpoints per page. *Contenders*: a trial publication, a creation, a move and a health observation around one locator; *OwnerCalls*: conflicting moves, an access change, a duplication, a deletion and an asset that appears; *Duplicates*: creations and duplications that draw one id, displace two full trials, ask for three endpoints; *Edits*: a move and a content change of one page, so that the move reads its page at two revisions; *Changes*: resolution, listings and finds against an update, a health observation and a deletion | each commit is the `PageStore` operation asked for, leaves no stale row, and checks at most `N*N + 2*N + 7` entries once they are merged (87 for the code's N = 8, below Deno KV's 100); readers see no torn page and answer with what is current. Revision exhaustion, exhausted retries and id conflicts occur |
| `api_keys` | 2 clients, 3 ids and hashes, 2 revisions, 3 attempts. *Management*: one live key with a creation, two updates, a revocation, a revoke-all and a bearer lookup; *Collisions*: dead keys left by a crash, with and without a live one, whose ids and hashes are drawn again | revoke-all is one step of the abstract store although it is a generation bump and many purges; dead occupants are replaced without touching live keys' indexes; a created key is alive, a found key was |
| `service_safety` | 2 clients, 3 page ids, 3 revisions, 2 namespaces, 3 page names, 2 attempts per id and per name. *LockRequests*: the owner locks and unlocks while a key updates, bulk-changes, relinks, renames, duplicates; *NamespaceRequests*: creations, an update and a trial over two namespaces, one of them unreserved at first; *HealthRequests*: deliveries, two relinks, a content update, a bulk delete; *LoopRequests*: ids and names that collide; *CopyRequests*: a duplication to locators of which a trial takes one and a rename another | no key-authenticated commit changes a locked page or sets or clears a lock; managed pages stay in namespaces their owner has reserved; observations stay with the content they are of; a relink never overwrites other bytes; every step leaves its call less to do, so the nested loops over generated names and ids end |
| `content_assets` | 2 clients, 2 assets, 3 payload ids, 2 inline contents and an external one, 2 faults | an asset comes into being whole, in one step, and stays; without faults nothing is left behind |
| `sign_in` | 2 requests served at once, 3 credentials, 3 attempts, 2 identities, 2 users; lifetimes of 1 to 3 ticks, 2 pending attempts, 3 update attempts. *TwoCallbacks*, *Replay*, *SameIdentity*, *KnownIdentity*, *FirstVisit*, *NoCookie*, *LeavingUser*, *LateCallback* | every code is exchanged once and attempts are bounded; racing first sign-ins end in one user; identities do not go back; a session signs in once and stays revoked; each commit is an operation of `SessionStore` |
| `storage` | 2 requests at once, 2 processes, a user, 2 Google accounts, 3 commit attempts, 1 withdrawal or refusal of the site. *FirstConsents*, *Twice*, *Restored*, *Aging*, *Leaving*, *Starting* | tokens kept for a connection are those of its account; content requests revoke a connection only for a refusal, never for an outage; a moved index entry is never reported as damage; each commit is an operation of `StorageConnectionStore` |
| `panel` | one of three in each initial state. Pages: 10 scenarios, 4 page ids, 3 handlers, 2 rows per reply, 2 selected, 4 revisions, a network failure. Documents: 9 documents with 7 to 10 gestures, 2 short links, 1 waypoint, 6 lines. Keys: 5 scenarios, 5 ids, 2 handlers, 3 revisions, a network failure | selection is shown; a stale row, a lost or a late request changes nothing; controls come back; drafts stay one section, and on their section whatever the gestures do to the document; arranging keeps words and places; an answer for a short link changes its own draft or completes the frame the link was added to; frames and links say the same; keys change as their row showed them |
| `api_keys_listing`, `api_keys_bearer`, `service_delete`, `service_trials` | one scenario each | counterexamples, see below |

The `Implements...` properties of `KvPageAggregate`, `KvApiKeys`, `SignIn` and
`DriveStorage` say more than that the abstract next-state relation holds of the mapped
state: the step is the operation, with the arguments, of the call that commits, and every
other step leaves the abstract state alone (in `SignIn`, forgets only what is over).

Why the bounds are enough to be of interest: every hazard of the plan needs at most two
concurrent calls and one object they contend for, and the runs give further calls that
can come between (a client makes several calls one after the other). Three attempts are
fewer than the other calls of a scenario can spoil, so that retries are both made and
exhausted. Revisions are bounded by `MaxRevision` or `max_..._revision`, which plays
`Number.MAX_SAFE_INTEGER` and is reached in the repositories. Limits are set low enough
to be met: two pending attempts, two rows per reply, two selected rows, one waypoint, six
lines. Clocks tick as often as `ticks` says, past every lifetime of the scenario.
Key-authenticated deletes are in `service_delete` only: they break `KeysRespectLock`, and
so does a listing that purges (`api_keys_listing`) the key refinement.

**Fairness** is assumed in `panel` only, for `ControlsComeBack`: `WF(Answer(i))` and
`WF(Resume(i))` for each handler. The browser answers or fails every `fetch` it has begun,
and the event loop resumes every await that completes. Nothing is assumed of the creator,
of other tabs, of keys, or of late requests.

### What the four counterexamples show

- `api_keys_listing`: `list_by_owner` reads the owner's generation, then the rows. When a
  revoke-all and a creation commit in between, the new key's generation differs from the
  one read, and the listing purges a live key (`lib/api-key/kv-repository.ts:332`).
- `api_keys_bearer`: the hash index is read, the key is revoked, the record is read: the
  lookup throws rather than answer that there is no such key (`:302`).
- `service_delete`: the delete commands test the lock of the page they read without
  comparing its revision with the one they delete (`lib/page/service.ts:1033`), so that the
  lock of an older revision counts.
- `service_trials`: the reservation of a trial's namespaces is looked up before content
  is prepared and staged; the commit does not depend on it (`lib/page/service.ts:346`).

### Behaviour the models show and no property forbids

These follow from the code as it is modelled; except for the last one, no document promises
otherwise, or a property names the exception it makes for them.

- Moving or saving a section whose fence is not closed, or dropping the text "- ```" into
  an empty section, makes the next parse swallow the sections that follow, so that the
  index of the section being edited points elsewhere (`MarkdownContentEditor.tsx:1165`,
  `:1209`). `Unswallowed` is the exception in `DraftsFollowTheirSections`.
- `add_stop` (`MapRouteFields.tsx:183`) and the paste button
  (`MarkdownContentEditor.tsx:292`) await, and then apply to the form of the render they
  were started in: edits made meanwhile are undone, a form closed or opened on another
  section meanwhile is replaced, and the draft is back at the index it had then. If the
  section was moved in between, saving overwrites the one that has come to that index. The
  scenarios `Pasting` (with the save) and `AddingAlias` reach this. `DraftsFollowTheirSections` is about steps
  that change the document, so that it does not speak of these answers;
  `ExpansionsKeepToTheirLink` (`Completed`) asks of the answer for an added link that the
  frame gets the stops it had then and those of the link, at the index of then, no more.
- Arranging keeps words and places, not everything: the URL of a link and the language of a
  block that are dropped on a section of another kind are gone.
- A connection is revoked for a refusal of the tokens that the *request* used
  (`RevokedOnlyOnRefusal`). A callback or another process may have replaced them by good
  ones; the connection goes with these. `docs/specification/external-storage.md:105` has
  invalid grants, and access that remains unauthorized after a refresh, revoke the
  connection, and does not speak of replaced tokens. A 401 that turns the *site* away
  at the token endpoint revokes it too.
- Removing the middle of A, B, A leaves A, A; the names of the stops of a route with several
  stops are not in its URL and come back as what the URL says.
- A list of API keys that is refreshed because another key's request met a conflict puts a
  newer row, with its validator, under an open edit form; saving the form then overwrites
  the other change without a 412 (`ApiKeyPanel.tsx:114`). A refresh answered late can bring
  back a revoked row or drop a new one until the next request meets a 404 or 412. A late
  revoke-all, which is bound to no revision, revokes keys generated after it. Saving an
  untouched expiry cuts it to the minute.
- A "load more" answered after a filter was applied adds rows and a cursor of the old
  filter (`PageManagementPanel.tsx:348`).
- A callback that fails after its session was rotated is answered with the cookie of a
  fresh guest session (`lib/auth/http.ts:78`).

One such behaviour is promised otherwise: `docs/map-route-steps.md:42` says that the frame of
an alias pasted into a Link section's URL opens by itself. `request_expansion`
(`MarkdownContentEditor.tsx:936`) adopts an answer only if this call has asked for it: when
the background has asked already and is waiting, it returns, and no frame opens when the answer
comes. The model follows the code (`adopting` holds the links to adopt); no run is about it.

## 4. Proofs

Theorems in eight modules, each for every value of the constants. TLC found each invariant
to hold on the small instances before it was proved.

**PageStoreProofs** proves the properties of `page_store` (and that a managed page goes
only alone) for every set of pages, locators, owners, assets and seeds, and every
`MaxRevision`, from two assumptions: `ConstantsAssumption` (None is none of the values it
stands beside, external assets are assets, at least one revision) and `SeedsAssumption`
(a store that is started from is well-formed).

The inductive invariant is `Inv == TypeOK /\ EndpointIndexCoherent /\ StoredPagesValid`.
None of the parts is inductive alone: a put or an update retires the pages the *index*
names for the wanted locators, so that the pages stay disjoint only because the index is
coherent; the index stays coherent only because `ReleasedBy` reads the bindings of pages
that are there (types); validity of a rebuilt page needs the validity of the old one.
All four page-writing operations go through `ReplacePages`, so the work is in lemmas
about it: `ReplaceKeepsIndex`, `ReplaceKeepsValid` and `ReplaceStepOK` are stated for any
set of removed trials that covers the holders of the new page's locators, and each
operation's lemma (`TrialStep`, `CreateStep`, `UpdateStep`, `DuplicateStep`,
`HealthStep`, `DeleteStep`, `AssetStep`) discharges their hypotheses from its guards.
`NextStep` joins them with the action properties (`StepOK`), and the theorems follow by
PTL.

**KvContentAssetsProofs** proves the refinement: `AssetsAreCreatedWhole` is
`Spec => ImplementsContentAssetStore`, for any clients, payload ids, contents and number
of faults, from `ContentAssetsAssumption` (None is no id or content, external contents are
not inline). What has to be shown is that nothing a call writes or removes belongs to an
asset. The invariant `IInv == TypeOK /\ FramesOK /\ OwnPayloads /\ PayloadsKept` is an
ownership argument: no other call uses a call's payload id (`OwnPayloads`); from the moment
the call sees that id unused until it ends, no manifest names it, and past the second
verification the payload is whole (`FramesOK`); so a manifest is committed only over a
whole payload, and a payload a manifest names stays (`PayloadsKept`). Cleanup after an
ambiguous commit is exactly what would break it. `NothingIsLeftBehind` is
`Spec => []NoStagingLeaks`, from the same ownership and an account of every payload
(`OthersUntouched`, `OwnPayloadAccounted`, `ChunksGoneKeeps`).

**SessionStoreProofs** is about the abstract store that `SignIn` is checked to implement.
`BearersAreCoherent`: a bearer leads to the session that carries it and to no other,
through rotations and deletions. `VersionsGrow`: a stored session's version never decreases
and a revoked session stays as it was, which is why a replacement decided on an older
version cannot succeed. Its assumption is the theorems' hypothesis `NothingApart` (None is
none of the values it stands beside), since the runs reach the module only by INSTANCE; so
is `StoreApart` for `CustodyIsCoherent` below.

**PageServiceProofs** proves the properties of `service_safety` for any number of
concurrent requests, any scenario, any pages, namespaces and assets, and any limits, from
`ServiceAssumption` (a locator is a name in a namespace, both finite in number; None is
none of the values it stands beside; every scenario is `ScenarioOK`; at least one attempt
per id, and fewer name attempts than there are names, which is why a free name is found).
A use case decides on what it read several awaits before its commit. `Inv` says what is
left of that at every await:

- `StoreInv`, the inductive invariant of `PageStore`. It is not proved again:
  `ServiceUsesTheContract` shows that every step is a `PageStore` operation with arguments
  the contract accepts, or a stutter, and cites `PageStoreProofs` for the rest.
- `WorldInv`: managed pages are in namespaces of their owner (reservations are for good),
  a page reported missing shows content that was lost, ids that were drawn stay drawn.
- `FrameOK(f)` for each call: where it is on its `Course` and what is still to come; the
  page it read is the stored one *while the revisions agree* (`Current`), which is all a
  commit bound to a revision needs; the namespaces it has checked are its owner's
  (`Cleared`); the bytes a relink compared, or the observation a delivery made, are those
  of the content of that page.

`PagesStayInOwnNamespaces`, `ReportedMissingWasLost` and `RelinksKeepContent` follow from
it. `KeysRespectLockUnlessDeleting` has the hypothesis that no key-authenticated request
deletes; it is the exact complement of the run `service_delete`, in which such a deletion
breaks the property. `CallsProgress` is the termination measure: every step of a call
lowers a natural number made of the pages still selected, the attempts left and the awaits
to come, so that no loop of the service runs forever whatever ids and names collide.

**KvApiKeysProofs** proves the four properties of `api_keys`, and the one of
`api_keys_listing`, for any number of clients, keys, owners, hashes, attempts, crashes and
calls, from `ApiKeyAssumption` and `NoneIsNoKey` (None is none of the values it stands
beside; the entries a scenario starts from are coherent). The argument is one of
versionstamps. `Inv` has two parts.

- The store: entries are typed, with stamps up to the clock (`EntriesTyped`); a record
  has its index entry and its owner row and a generation its owner has had, an owner row
  and an index entry lead to a record that is theirs (`Coherent`).
- The calls (`FrameOK`): an entry read earlier is the stored one *if the stamps agree*
  (`Seen`); a record's generation is never ahead of its owner's (`Aged`), so one judged
  dead stays dead (`Dead`), as generations only grow; while the record at hand is
  unchanged, so is the index entry read after it, since the two are only ever
  written together; each occupant a creation lists as stale is dead, and is the one at the
  id or at the hash for as long as the entry read there is (`HashOccupied`, `SecretsOK`).

`StoreGrows` is what every commit promises to the other calls, and `FrameStays` that a
call's knowledge survives it. Four predicates, `Removes`, `Creates`, `Updates` and `Bumps`,
say what a commit does to all four families of entries; each is shown once to keep
`Coherent` and to give `StoreGrows`, and each atomic operation whose checks are all
current is shown to be one of them (`CreationCreates`, `UpdateUpdates`, `RemovalRemoves`,
`RevokeAllBumps`). So `IndexesStayCoherent` and `FoundKeysWereLiveThen` follow by PTL, and
`CreatedKeysStartLive` from `StepEffects`, which lists what a step may do.

`OnlyDeadKeysArePurged`, `RepositoryImplementsStore` and `RepositoryRefinesStore` have
the hypothesis `NeverListedWhileRevoked`: no call lists the keys of an owner for whom
another call is a revoke-all. The scenarios of `api_keys` satisfy it with listings of one
owner and revoke-alls of another. Without it they are false, as `api_keys_listing` shows:
a listing takes the keys of its owner's next generation for dead. The invariant keeps the
two cases apart (`Quiet`, `Condemned`, `Calm`), so the other theorems need no hypothesis.
The refinement mapping is `LiveKeys`: an entry is a key of the abstract store while its
generation is its owner's.

**KvPageAggregateProofs** proves that the KV page repository implements `PageStore` and that
its rows are always those of its pages, for any number of clients, pages, locators, assets,
calls and crashes and any retry limits, from `ConstantsAssumption`, `SeedsAssumption` and
`ScenariosAssumption` (a scenario starts from a well-formed store and makes the calls of
`Request`). `IInv`, which TLC checked on the scenarios of `kv_pages` first, has two halves.

- `StoreOK` about the entries: they have the type of their key and a stamp that was given
  out (`EntriesTyped`), a page's content exists (`ContentHeld`), every row a page calls for
  points to it (`RowsHeld`), and there is no other row (`NoOtherRows`).
- `FrameOK` about every call in progress: what it read earlier is what is stored *if the
  stamps agree* (`Recalled`, `Seen`), and `Waits` says, await by await, how what it
  holds was computed from what it read: the claims it wants are the keys it has read
  (`ClaimsOK`), the page it writes is built from the page it read (`ExistingOK`, `NewOK`),
  the probe found the content and a free id (`ProbedOK`).

`SeenStays` and `FrameStays` show that the second half survives other calls' commits, and one
lemma per read (`EntryReadLands` to `RowAgainReadLands`) that a call's own steps lead
from one await to the next. A commit is then sequential reasoning about the store as it is
(`CheckedSnapshot`, `CheckedEntries`). The step a test would hardly reach is
`ClaimedAreSnapshots`: the pages that hold a wanted locator *at the commit* are exactly the
snapshots the call has checked, because each claim it read is checked, a current claim
leads home (`RowLeadsHome`), and an absent one is checked to be absent. An `Exchange` then
removes all rows of those pages and writes those of the new one, and keeps `StoreOK`
(`ExchangeKeepsRows`) as long as the new page takes no locator of a page that stays
(`Fits`). It is `ReplacePages` of the abstract store (`ReplaceStep`), and `NewPageOperates`,
`UpdateOperates`, `DeleteOperates` and `HealthOperates` show that it is the operation the
caller asked for, under all guards of the contract.

Three more properties of `kv_pages` are about what the calls conclude from their reads. The
repository throws "invariant violated" when what it has read does not fit together, unless
one of the entries has changed since: it rereads their stamps to tell a tear from a broken
store. That this is right at every await is a second invariant, `Sanity`, on top of `IInv`.
For a call in progress it says, for each contradiction the next reads could show, which of
the entries already read would have to be stale for it to appear (`PageWatched`,
`ClaimsWatched`, `RowWatched`, `ContentWatched`, `IdWatched`, `DestinationWatched`). Others'
commits keep it because what they change, they stamp anew.

The proof showed where the check is not enough. A creation or duplication probes that its
id is free; if another call stores a page under the same id and deletes it again before the
stamps are reread, an absent entry is again what was read, with the row of the other
page seen in between, and the repository calls a healthy store invalid. So
`NobodyIsMisled` has the hypothesis `IdsDrawnOnce`: no two calls that make a page draw
one id, as the service draws them from 128 random bits (`CryptoPageIdGenerator`).
`OnlyDrawnIdsMislead` needs no hypothesis and says that nothing else misleads a call. The
scenarios of `kv_pages` do let two calls draw one id, but none of them deletes the page that
took it, so TLC finds no violation there.

`ResolutionsAreCurrent` and `ListingsAreCurrent` need `IInv` alone: the claim or row that
is read last, with the stamp it had when it led to the page, says that the page read in
between is the stored one. They and `Sanity` use `NoneAssumption`, that None is not
a snapshot.

`CommitsStayWithinBudget` proves `AtomicCheckBudget`, that with at most N endpoints per page
`#commit` never has more than `N*N + 2*N + 7` checks and its exception for an exceeded budget
is never thrown. It rests on a third invariant, `Capacity` (`StaysWithinCapacity`): stored
pages have at most N endpoints (`StoreFits`), and so have the pages a call has read
(`Measured`, `Ample`), which are different pages if it reads them for the endpoints it
wants. Each wanted endpoint then counts for one absent claim, or for one trial with its entry and
at most N claims (`ClaimChecksSize`: a trial has no other row); the page that is updated or
duplicated counts for N + 3, the probe for two entries and the destination for two
(`ChecksBound`). An update may read its own page twice, for the request and as the holder of
an endpoint it wants, and the two readings may be of different revisions. The property first
counted all these checks, and was false: 16 for N = 2, where the bound is 15. What makes the
bound right is that `#merge_checks` runs before the count and gives such an attempt up
(`Merge`); if it does not, the second reading adds nothing (`ReadAgainAddsNothing`).
The assumption is `CapacityAssumption` (N is a natural number, the locators are finitely
many), and `ScenariosAssumption` says that the seed pages are within the capacity too, as
`serialize_envelope` and `deserialize_envelope` require of every stored page.

**SignInProofs** proves the five properties of `sign_in` for any number of tabs,
requests, credentials, identities and crashes, and any lifetimes and limits, from
`StoredBefore`: what is stored when the requests begin is what earlier ones left
(`StoredSession`: a session is a guest's, unrevoked, in its first version, and signed in or
revoked from the next one on; its pending attempts are within the limit and have different
states; `Indexes`: an index entry that has not expired leads to the session of its bearer, and
ends with it; users and identities come in pairs; None is no identity and no session), and a state that the
provider returns with was drawn once, for a session stored or for one request to come
(`Drawn`: states are 256 random bits). `IInv`, which TLC also checked on the scenarios of
`sign_in`, combines two arguments.

- Versionstamps: a session or an identity read earlier is the one stored *if the stamps
  agree* (`Seen`), so what a repository decided upon the read holds of the entry its checked
  commit replaces (`UpdateOK`, `IdentityOK`); `StampsGrow` is what every write, and the
  expiry of an entry, promises to the other calls, `FrameStays` that their knowledge
  survives it.
- Session versions: between its calls a request holds no entry, only what it was answered.
  A callback that gets past the lookup belongs to a guest's session in its first version
  (`RequestOK`), through the consumption, the exchange and the identification; therefore
  the upgrade asks for the first version, which a session leaves for good
  when it signs in or is revoked.

`OneUserForEachIdentity` follows from `IdentitiesPaired`, kept because a creation checks
that both keys are absent. `ObservationsNeverGoBack` and `EverySessionSignsInOnce` follow
from `StepsGrow`: each writing step either leaves the family of entries alone
(`FamiliesKept`) or replaces an entry it has checked (`CheckedAbsent`, `CheckedSame`) by what
`Updated` makes of it (`UpdatedStored`).

`CodesAreExchangedOnce` needs a third argument, `TInv`: for each state there is at most one
*ticket* (`OneTicket`), while a callback may still return with the state, and none once its
code has been exchanged. A ticket is a request that will draw or has drawn the state, a
stored session with an attempt of that state, or a callback that has consumed the attempt and
has not called the provider yet (`Tickets`). A step adds no ticket (`NoNewTicket`), hands one
on (`TicketMoves`: a request is received, a save or a consumption commits) or spends one
(`TicketSpent`: the exchange). That a consumption takes the ticket from the session it
commits, and not from a copy another callback has consumed already, is the versionstamp
argument again; that nothing of that state remains in the session is `UpdatedAttempts`, which
needs the attempts' states to be different, hence their place in `IInv`. The filters of
`lib/session/kv-repository.ts` are for this proof defined by the positions that are kept, in
their order (`Filtered`): `SelectSeq` is recursive in the library, and the prover knows
nothing of what it returns. `FilteredIs` says what a reader needs of it.

`SessionsImplementStore` is the refinement, step by step: `CreateCommitCreates` and
`CommitOperates` show that a commit is `create` or `update` of `SessionStore` on the views
`Sessions` and `Bearers` (`ViewsWritten` says what a write makes of them), with the guards of
that operation; `DropIndexForgets`, `ExpireForgets` and `ViewsAlone` that the other steps
only forget what has expired. The hard one is `DropIndex`: a lookup that found an index
entry and then no session deletes the entry, two awaits after it was read. That this takes
no bearer from a session in use needs `IndexesOK` in `IInv`: an entry that has not
expired leads to a stored session with that bearer and that end. `IndexesWritten` shows that
commits keep this, an upgrade, which moves the session's end, because it removes the old
bearer's entry in the same atomic operation. So if the session is missing while the entry has
the stamp it was found with, the entry has expired (`FindOK`). `Forgetting` accordingly speaks
of each entry's own end. It does not say that the *session* of the entry is over: only the
length of a draw keeps a new session from taking the name of an expired one whose index
entry is still there.

**DriveStorageProofs** proves the four properties of `storage` for any number of
processes, requests served at once, accounts, states, withdrawals and crashes, from
`StorageAssumption` (at least one commit attempt; a token outlives the refresh leeway; None
is none of the values it stands beside) and `ScenariosAssumption`: the entries a scenario
starts from belong together, their tokens are of grants of the connection's account, and a
state that is still to be drawn has not been drawn before (states are 256 random bits).

The inductive invariant `IInv` (`StorageIsSettled`) has four parts:

- `EntriesOK`: a connection that is active has its index entry, an index entry leads to an
  active connection of that user, tokens lie beside active connections only and were given
  by the connection's account (`Fits`). No key is written without the check that keeps
  this, but which check does it depends on what the call has read.
- `FrameOK(f)` for each request: an entry read earlier is the stored one *while the stamps
  agree* (`Seen`), or is known to have been replaced (`Stale`), which is what lets
  "read again" be the only answer to a moved entry. A connection may be revoked and its
  tokens dropped between two awaits, but its user and account never change (`Known`), so
  tokens that fit it when they were exchanged, refreshed or read still fit when they are
  written. `Refused` keeps, from the refusal to the revocation, that the tokens were refused:
  consents are withdrawn for good, a refusal of the site is remembered in the grant, and a
  refused access token ends a request only if it has been refused before (`second`).
- `OneTicket`: at most one of the request that starts an attempt, the call that saves it,
  the entry stored, and the callback that consumed it exists for each state, and none once
  its code has been exchanged. The grant that an exchange makes is therefore new, and
  nobody's tokens change owner when it is made.
- `NumbersOK`, the types.

What one request knows is disturbed by the steps of another only through `kv`, `now` and
`grants`. `Advance` says how these may go: stamps and the time grow, grants keep their
account and do not come back, connections stay whose they are. Each step is shown to be an
`Advance` once, and each kind of knowledge to survive one once (`StampsStay`, `KnownStays`,
`FitsStays`, `RefusedStays`, joined in `FrameStays`). `StoreSteps` then says what each
commit writes (`CreateDone`, `ReauthorizeDone`, `RevokeDone`, `PutDone`), from which both
`RefusalAloneRevokes` and the refinement `CommitsAreOperations` follow, the mapping being
`Connections`, `ActiveConnections` and `Credentials`. `EntriesKeepCustody` says of those
entries what `CustodyIsCoherent`, at the end of the module, says of `StorageConnectionStore`
for any constants of its own: tokens are kept for active connections only, a user has at
most one, and the index finds it.

Only model-checked: everything about the browser modules. Out of the prover's reach and left
to TLC: `ControlsComeBack` (liveness under fairness), and what the recursive functions of
`MapRoutes` and `MarkdownSections` compute for every document (induction over data).

## 5. Not modelled, and why

- Replies' wording: a refused call ends and changes nothing; which reason it gives is a
  status in the HTTP modules and nothing below.
- Text: locators, slugs, names, tags, content types and their rendering, PDF uploads,
  malformed bodies and tokens, the token encoding of cursors, `geo:` links. They are opaque
  values, or numbers in an order.
- The stored formats of the KV repositories and the migration of older rows.
- The KV repository of namespaces: one read and one checked commit, here the atomic and
  permanent `reserve` of `PageService`.
- Cursors of public listings and the page-by-page requests of the KV listing.
- Delivery responses; the service's delivery with its health observation is modelled.
- The Drive gateway and the token cipher: their outcomes are external steps.
- In the panels: notices, result lines, copying and showing a bearer, layout. In the editor:
  densities, previews, what a drag hovers over, heading levels, the switches of other inputs.
- The publication form, the reservation form and the public listing's view: one request at
  a time over endpoints that are modelled.
- Composition: wiring without state.

## 6. Plan

1. `Namespaces`: the KV repository read by read, in place of the atomic reservation.
2. `PagePublishForm` and `NamespaceReservationPanel` over `PageHttp`.
3. Listings over several requests: cursors of public listings, with pages renamed between.
4. The upload and delivery handlers, with bodies that end early.
5. Theorems: `SelectionIsShown` for the page panel, `FramesMatchTheirLinks` for the editor.
