------------------------- MODULE MCKvPageAggregate -------------------------
(* TLC values for KvPageAggregate: small stores and the calls made on them. *)
EXTENDS KvPageAggregate, TLC

CONSTANTS c1, c2,                    \* clients
          trial, other, managed,    \* pages a seed may hold
          new1, new2,                \* ids of new pages
          inline, external, unknown  \* content assets

MCClients == {c1, c2}
MCContentAssets == {inline, external, unknown}
MCExternalAssets == {external}
Symmetry == Permutations(MCClients)

At(l) == [canonical |-> l, alternates |-> {}]
With(l, others) == [canonical |-> l, alternates |-> others]
NoPatch == [endpoint_set |-> None, content_asset_id |-> None, access |-> None,
            block_api_write |-> None]

Holding(map) ==
    [pages |-> [p \in PageIds |-> IF p \in DOMAIN map THEN map[p] ELSE None],
     assets |-> {inline, external}]

put_trial(id, e, a) ==
    [kind |-> "put_trial", new_id |-> id, endpoint_set |-> e, content_asset_id |-> a]
create(id, e, access) ==
    [kind |-> "create", new_id |-> id, endpoint_set |-> e, owner |-> "u2",
     access |-> access, content_asset_id |-> inline]
update(expected, patch) ==
    [kind |-> "update", id |-> managed, owner |-> "u1", expected_revision |-> expected,
     patch |-> patch]
duplicate(id, e) ==
    [kind |-> "duplicate", id |-> managed, owner |-> "u1", expected_revision |-> 1,
     new_id |-> id, endpoint_set |-> e]
delete(expected) ==
    [kind |-> "delete", id |-> managed, owner |-> "u1", expected_revision |-> expected]
health(missing) ==
    [kind |-> "health", id |-> managed, content_asset_id |-> external, missing |-> missing]
find == [kind |-> "find", id |-> managed]
resolve(l) == [kind |-> "resolve", locator |-> l]
list(owner) == [kind |-> "list", owner |-> owner]
asset == [kind |-> "create_content_asset", content_asset_id |-> unknown]

(* A trial at a and a managed page at b. *)
TrialAndPage ==
    Holding((trial :> TrialPage(At("a"), inline, 1)) @@
            (managed :> ManagedPage(At("b"), "u1", "public", external)))

(* Writers that compete for the trial's locator and for the page. *)
Contenders ==
    {put_trial(new1, At("a"), inline),
     create(new1, With("a", {"c"}), "private"),
     update(1, [NoPatch EXCEPT !.endpoint_set = With("c", {"a"})]),
     health(TRUE)}

(* Everything an owner can do to one page, from two tabs: one edit moves   *)
(* it, another moves it to the same place and gives it a new content, the  *)
(* third meets the last revision.                                          *)
OnePage == Holding(managed :> ManagedPage(At("b"), "u1", "public", external))

OwnerCalls ==
    {update(1, [NoPatch EXCEPT !.endpoint_set = At("c")]),
     update(1, [NoPatch EXCEPT !.endpoint_set = At("c"), !.content_asset_id = unknown]),
     update(2, [NoPatch EXCEPT !.access = "private"]),
     duplicate(new1, At("c")),
     delete(2),
     asset}

(* Readers against writers.  Two pages with both their rows: a listing has *)
(* a second row to read.                                                   *)
TwoPages ==
    Holding((managed :> ManagedPage(At("b"), "u1", "public", external)) @@
            (other :> ManagedPage(At("a"), "u1", "public", inline)))

Changes ==
    {update(1, [NoPatch EXCEPT !.access = "private"]), health(TRUE), delete(2)}

(* A source page with two endpoints, and two trials with two endpoints     *)
(* each that a duplicate onto one endpoint of each retires.  A set of three *)
(* endpoints is beyond MaxEndpoints.  Two new pages draw the same id.      *)
FullPages ==
    Holding((managed :> ManagedPage(With("a", {"b"}), "u1", "public", inline)) @@
            (trial :> TrialPage(With("c", {"d"}), inline, 1)) @@
            (other :> TrialPage(With("e", {"f"}), inline, 1)))

Duplicates ==
    {duplicate(new1, With("c", {"e"})),
     duplicate(new2, With("c", {"e", "g"})),
     create(new1, At("g"), "private"),
     update(1, [NoPatch EXCEPT !.endpoint_set = With("a", {"e"})])}

(* An edit that reads its page at two revisions: the page of the request,  *)
(* and, after another edit, the page that holds a wanted endpoint.  The    *)
(* other one is a trial's.                                                 *)
PageAndTrial ==
    Holding((managed :> ManagedPage(With("a", {"b"}), "u1", "public", inline)) @@
            (trial :> TrialPage(With("c", {"d"}), inline, 1)))

Edits ==
    {update(1, [NoPatch EXCEPT !.endpoint_set = With("c", {"a"})]),
     update(1, [NoPatch EXCEPT !.content_asset_id = external])}

WriteScenarios ==
    {[store |-> TrialAndPage, requests |-> Contenders],
     [store |-> OnePage, requests |-> OwnerCalls],
     [store |-> FullPages, requests |-> Duplicates],
     [store |-> PageAndTrial, requests |-> Edits]}

ReadScenarios ==
    {[store |-> TwoPages, requests |-> Changes \cup reads] :
        reads \in {{resolve("b"), list("u1")}, {find, list(None)}}}

AllScenarios == WriteScenarios \cup ReadScenarios

MCSeeds == {TrialAndPage, OnePage, FullPages, TwoPages, PageAndTrial}
=============================================================================
