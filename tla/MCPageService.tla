---------------------------- MODULE MCPageService ----------------------------
(* TLC values for PageService. *)
EXTENDS PageService

CONSTANTS p1, p2, p3, i1, i2, i3, x1, x2, c1, c2

MCPageIds == {p1, p2, p3}
MCContentAssets == {i1, i2, i3, x1, x2}
MCExternalAssets == {x1, x2}
InlineAssets == {i1, i2, i3}
MCClients == {c1, c2}
MCNamespaces == {"n1", "n2"}
MCLocators == {"n1", "n2"} \X {"a", "b", "c"}
MCDigest == [a \in MCContentAssets |-> IF a \in MCExternalAssets THEN "pdf" ELSE "text"]
InlineDigest == [a \in InlineAssets |-> "text"]
OneReserved == "n1" :> "u1" @@ "n2" :> None
AllReserved == "n1" :> "u1" @@ "n2" :> "u1"
NoneReserved == "n1" :> None @@ "n2" :> None
Symmetry == Permutations(MCClients) \cup Permutations({i1, i2, i3})

at(n, name) == [canonical |-> <<n, name>>, alternates |-> {}]
both(n, name, m, other) == [canonical |-> <<n, name>>, alternates |-> {<<m, other>>}]

Holding(p, page, stored) ==
    [pages |-> [q \in MCPageIds |-> IF q = p THEN page ELSE None], assets |-> {stored}]

(* u1's public page n1/a, inline or external. *)
InlinePage == Holding(p1, ManagedPage(at("n1", "a"), "u1", "public", i1), i1)
ExternalPage == Holding(p1, ManagedPage(at("n1", "a"), "u1", "public", x1), x1)
NoPage == [pages |-> [q \in MCPageIds |-> None], assets |-> {}]
MCSeeds == {InlinePage, ExternalPage, NoPage}
InlineSeeds == {InlinePage}

publish_trial(e) ==
    [kind |-> "publish_trial", actor |-> None, endpoint_set |-> e, content |-> "inline"]
create_managed(u, e, access, content) ==
    [kind |-> "create_managed", actor |-> u, via_api_key |-> FALSE, endpoint_set |-> e,
     access |-> access, content |-> content]
update(u, key, selection, e, access, lock, content) ==
    [kind |-> "update", actor |-> u, via_api_key |-> key, selection |-> selection,
     endpoint_set |-> e, access |-> access, block_api_write |-> lock, content |-> content]
relink(key, p, r) ==
    [kind |-> "relink", actor |-> "u1", via_api_key |-> key, selection |-> <<<<p, r>>>>,
     content |-> "external"]
rename(key, p, r, name) ==
    [kind |-> "rename", actor |-> "u1", via_api_key |-> key, selection |-> <<<<p, r>>>>,
     page_name |-> name]
duplicate(key, p, r) ==
    [kind |-> "duplicate", actor |-> "u1", via_api_key |-> key, selection |-> <<<<p, r>>>>]
delete(key, selection) ==
    [kind |-> "delete", actor |-> "u1", via_api_key |-> key, selection |-> selection]
duplicate_as(p, r, e) ==
    [kind |-> "duplicate", actor |-> "u1", via_api_key |-> FALSE, selection |-> <<<<p, r>>>>,
     endpoint_set |-> e]
deliver(actor, l) == [kind |-> "deliver", actor |-> actor, locator |-> l]

(* The lock, set, cleared, and what a key tries meanwhile. *)
LockRequests ==
    {update("u1", FALSE, <<<<p1, 1>>>>, None, None, TRUE, None),
     update("u1", FALSE, <<<<p1, 2>>>>, None, None, FALSE, None),
     update("u1", TRUE, <<<<p1, 1>>>>, None, None, TRUE, None),
     update("u1", TRUE, <<<<p1, 2>>, <<p2, 1>>>>, None, "private", None, None),
     update("u1", TRUE, <<<<p1, 3>>>>, None, "private", None, "inline"),
     rename(TRUE, p1, 2, "b"), duplicate(TRUE, p1, 2), relink(TRUE, p1, 2)}

(* Pages over two namespaces while both are being reserved. *)
NamespaceRequests ==
    {create_managed("u1", both("n1", "b", "n2", "b"), "public", "inline"),
     create_managed("u2", at("n2", "b"), "private", "external"),
     update("u1", FALSE, <<<<p1, 1>>>>, both("n1", "a", "n2", "a"), None, None, "external"),
     publish_trial(both("n2", "a", "n2", "b"))}

(* Slow deliveries of external content that is lost, restored, relinked.   *)
HealthRequests ==
    {deliver(None, <<"n1", "a">>), deliver("u1", <<"n1", "a">>),
     relink(FALSE, p1, 1), relink(TRUE, p1, 1),
     update("u1", FALSE, <<<<p1, 1>>>>, None, None, None, "inline"),
     delete(FALSE, <<<<p1, 1>>, <<p2, 1>>>>)}

(* Loops: ids and names drawn again, bulk commands. *)
LoopRequests ==
    {create_managed("u1", at("n1", "b"), "public", "inline"), duplicate(FALSE, p1, 1),
     rename(FALSE, p2, 1, "c"), update("u1", FALSE, <<<<p1, 1>>>>, at("n1", "a"), None, None, None),
     update("u1", FALSE, <<<<p1, 1>>, <<p2, 1>>>>, None, "private", None, None)}

(* A copy under given endpoints, while one is taken and one reserved. *)
CopyRequests ==
    {duplicate_as(p1, 1, both("n1", "c", "n2", "a")), rename(FALSE, p1, 1, "b"),
     publish_trial(both("n2", "a", "n2", "b"))}

(* A lock set while a key deletes. *)
DeleteRequests ==
    {update("u1", FALSE, <<<<p1, 1>>>>, None, None, TRUE, None),
     update("u1", FALSE, <<<<p1, 1>>>>, None, "private", None, "inline"),
     duplicate(FALSE, p1, 1), delete(TRUE, <<<<p2, 1>>, <<p1, 2>>>>)}

(* A reservation while a guest publishes. *)
TrialRequests == {publish_trial(at("n1", "a")), publish_trial(both("n1", "a", "n2", "a"))}

Scenario(start, reserved, calls) == [store |-> start, reservations |-> reserved, requests |-> calls]

SafetyScenarios ==
    {Scenario(ExternalPage, AllReserved, LockRequests),
     Scenario(InlinePage, OneReserved, NamespaceRequests),
     Scenario(ExternalPage, AllReserved, HealthRequests),
     Scenario(InlinePage, AllReserved, LoopRequests),
     Scenario(InlinePage, OneReserved, CopyRequests)}

DeleteScenarios == {Scenario(InlinePage, AllReserved, DeleteRequests)}

TrialScenarios == {Scenario(NoPage, NoneReserved, TrialRequests)}
=============================================================================
