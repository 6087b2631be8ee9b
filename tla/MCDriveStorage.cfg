CONSTANTS
    c1 = c1
    c2 = c2
    p1 = p1
    p2 = p2
    None = None
    Clients <- MCClients
    Processes <- MCProcesses
    Users = {"u"}
    Subjects = {"a", "b"}
    States = {"s0", "s1", "s2"}
    Scenarios <- AllScenarios
    attempt_lifetime = 2
    token_lifetime = 2
    refresh_leeway = 1
    max_commit_attempts = 3
SPECIFICATION Spec
SYMMETRY Symmetry
INVARIANTS NoFalseInvalidRecord TokensOfOwnAccount
PROPERTIES RevokedOnlyOnRefusal ImplementsConnectionStore
CHECK_DEADLOCK FALSE
