--------------------------- MODULE MCKvContentAssets ---------------------------
(* TLC values for KvContentAssets: two calls at a time, ids that collide.  *)
EXTENDS KvContentAssets, TLC

CONSTANTS c1, c2, a1, a2, p1, p2, p3, x1, x2, r1

MCClients == {c1, c2}
MCAssetIds == {a1, a2}
MCPayloadIds == {p1, p2, p3}
Symmetry == Permutations(MCClients) \cup Permutations(MCAssetIds) \cup Permutations(MCPayloadIds)
              \cup Permutations({x1, x2})
=============================================================================
