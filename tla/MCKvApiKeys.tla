---------------------------- MODULE MCKvApiKeys ----------------------------
(* TLC values for KvApiKeys. *)
EXTENDS KvApiKeys, TLC

CONSTANTS k1, k2, k3, c1, c2

MCClients == {c1, c2}
Symmetry == Permutations(MCClients)

Stored(owner, hash, generation) ==
    [owner_user_id |-> owner, secret_hash |-> hash, metadata |-> "old", revision |-> 1,
     owner_generation |-> generation]

(* A live key; a key a revoke-all has killed and, its process gone, not    *)
(* purged; both at once.                                                   *)
LiveKey == KeyEntries(k1, Stored("u1", "h1", 0))
DeadKey == KeyEntries(k1, Stored("u1", "h1", 0)) @@ (generation_key("u1") :> 1)
DeadAndLive == DeadKey @@ KeyEntries(k2, Stored("u1", "h2", 1))

create(id, owner, hash) ==
    [kind |-> "create", id |-> id, owner |-> owner, hash |-> hash, metadata |-> "old"]
find_by_id(id) == [kind |-> "find_by_id", id |-> id]
find_by_secret_hash(hash) == [kind |-> "find_by_secret_hash", hash |-> hash]
list_by_owner(owner) == [kind |-> "list_by_owner", owner |-> owner]
update(id, metadata) ==
    [kind |-> "update", id |-> id, owner |-> "u1", expected_revision |-> 1, metadata |-> metadata]
revoke(id) == [kind |-> "revoke", id |-> id, owner |-> "u1", expected_revision |-> 1]
revoke_all(owner, n) == [kind |-> "revoke_all", owner |-> owner, n |-> n]

(* One live key and everything its owner can do with it. *)
Management ==
    {create(k2, "u1", "h2"), update(k1, "new"), update(k1, "newer"), revoke(k1),
     revoke_all("u1", 1), find_by_secret_hash("h1")}

(* Dead keys whose id or hash is drawn again. *)
Collisions ==
    {create(k1, "u2", "h3"), create(k3, "u1", "h1"), create(k1, "u1", "h2"),
     find_by_id(k1), revoke_all("u1", 1), list_by_owner("u2")}

(* A listing and a revoke-all that a creation follows. *)
Listing == {list_by_owner("u1"), revoke_all("u1", 1), create(k2, "u1", "h2")}

(* A bearer in use while its key is revoked. *)
BearerInUse == {find_by_secret_hash("h1"), update(k1, "new"), revoke(k1)}

AllScenarios ==
    {[entries |-> LiveKey, requests |-> Management],
     [entries |-> DeadKey, requests |-> Collisions],
     [entries |-> DeadAndLive, requests |-> Collisions]}

ListingScenario == {[entries |-> LiveKey, requests |-> Listing]}

BearerScenario == {[entries |-> LiveKey, requests |-> BearerInUse]}
=============================================================================
