CONSTANTS
    c1 = c1
    c2 = c2
    a1 = a1
    a2 = a2
    p1 = p1
    p2 = p2
    p3 = p3
    x1 = x1
    x2 = x2
    r1 = r1
    None = None
    Clients <- MCClients
    AssetIds <- MCAssetIds
    PayloadIds <- MCPayloadIds
    InlineContents = {x1, x2}
    ExternalContents = {r1}
    MaxFaults = 2
SPECIFICATION Spec
SYMMETRY Symmetry
INVARIANTS NoStagingLeaks
PROPERTIES ImplementsContentAssetStore
