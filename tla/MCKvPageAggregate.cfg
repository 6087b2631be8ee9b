CONSTANTS
    c1 = c1
    c2 = c2
    trial = trial
    other = other
    managed = managed
    new1 = new1
    new2 = new2
    inline = inline
    external = external
    unknown = unknown
    None = None
    PageIds = {managed, trial, other, new1, new2}
    Locators = {"a", "b", "c", "d", "e", "f", "g"}
    Owners = {"u1", "u2"}
    ContentAssets <- MCContentAssets
    ExternalAssets <- MCExternalAssets
    MaxRevision = 2
    Seeds <- MCSeeds
    Clients <- MCClients
    Scenarios <- AllScenarios
    MaxEndpoints = 2
    MaxAttempts = 3
SPECIFICATION Spec
SYMMETRY Symmetry
INVARIANTS NoFalseInvariantViolation IndexesMatchPages AtomicCheckBudget
PROPERTIES ImplementsPageStore ResolveReturnsCurrent ListedPagesAreCurrent
CHECK_DEADLOCK FALSE
