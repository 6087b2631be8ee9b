\* Two locators and three page ids: a page can have an alternate, one claim can
\* retire two trials, and a free id is always left.
CONSTANTS
    p1 = p1
    p2 = p2
    p3 = p3
    inline = inline
    external = external
    None = None
    PageIds <- MCPageIds
    Locators = {l1, l2}
    Owners = {u1, u2}
    ContentAssets <- MCContentAssets
    ExternalAssets <- MCExternalAssets
    MaxRevision = 3
    Seeds <- MCSeeds
SPECIFICATION Spec
SYMMETRY Symmetry
INVARIANTS TypeOK EndpointIndexCoherent StoredPagesValid
PROPERTIES ManagedClaimNeverTransferred OneMutationPerRevision
