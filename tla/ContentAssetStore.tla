--------------------------- MODULE ContentAssetStore ---------------------------
(***************************************************************************)
(* What a ContentAssetCreator promises (lib/content/interfaces.ts, as the  *)
(* in-memory repository does it): an asset is created whole, once, and     *)
(* stays as it is.                                                         *)
(***************************************************************************)
CONSTANTS None, AssetIds, Contents

VARIABLE assets  \* asset id -> its content, or None

Init == assets = [id \in AssetIds |-> None]

create_content_asset(id, content) ==
    /\ assets[id] = None
    /\ assets' = [assets EXCEPT ![id] = content]

Next == \E id \in AssetIds, content \in Contents : create_content_asset(id, content)

Spec == Init /\ [][Next]_assets
=============================================================================
