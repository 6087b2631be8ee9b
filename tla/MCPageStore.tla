---------------------------- MODULE MCPageStore ----------------------------
(* TLC values for PageStore: an empty store, as a fresh process has it. *)
EXTENDS PageStore, TLC

CONSTANTS p1, p2, p3, inline, external

MCPageIds == {p1, p2, p3}
MCContentAssets == {inline, external}
MCExternalAssets == {external}
MCSeeds == {[pages |-> [p \in MCPageIds |-> None], assets |-> {}]}
Symmetry == Permutations(MCPageIds)
=============================================================================
