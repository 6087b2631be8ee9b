CONSTANTS
    p1 = p1
    p2 = p2
    p3 = p3
    i1 = i1
    i2 = i2
    i3 = i3
    x1 = x1
    x2 = x2
    c1 = c1
    c2 = c2
    None = None
    PageIds <- MCPageIds
    Locators <- MCLocators
    Owners = {"u1", "u2"}
    ContentAssets <- InlineAssets
    ExternalAssets = {}
    MaxRevision = 4
    Seeds <- InlineSeeds
    Namespaces <- MCNamespaces
    PageNames = {"a", "b", "c"}
    Clients <- MCClients
    Scenarios <- DeleteScenarios
    digest <- InlineDigest
    max_page_id_attempts = 2
    max_page_name_attempts = 2
SPECIFICATION Spec
SYMMETRY Symmetry
PROPERTIES KeysRespectLock
CHECK_DEADLOCK FALSE
