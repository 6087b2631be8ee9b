CONSTANTS
    k1 = k1
    k2 = k2
    k3 = k3
    c1 = c1
    c2 = c2
    None = None
    KeyIds = {k1, k2, k3}
    Owners = {"u1", "u2"}
    Hashes = {"h1", "h2", "h3"}
    Metadata = {"old", "new", "newer"}
    MaxRevision = 2
    Clients <- MCClients
    Scenarios <- BearerScenario
    max_commit_attempts = 8
SPECIFICATION Spec
SYMMETRY Symmetry
INVARIANTS BearerLookupAnswers
CHECK_DEADLOCK FALSE
