CONSTANTS
    c1 = c1
    c2 = c2
    None = None
    Clients <- MCClients
    Credentials = {"h1", "h2", "h3"}
    States = {"s1", "s2", "s3"}
    Subjects = {"a", "b"}
    UserIds = {"u1", "u2"}
    Scenarios <- AllScenarios
    guest_absolute_lifetime = 2
    authenticated_idle_lifetime = 2
    authenticated_absolute_lifetime = 3
    renewal_threshold = 1
    authentication_attempt_lifetime = 1
    max_pending_attempts = 2
    max_update_attempts = 3
    max_id_generation_attempts = 3
    MAX_GENERATION_ATTEMPTS = 2
SPECIFICATION Spec
SYMMETRY Symmetry
INVARIANTS OneExchangePerAttempt OneUserPerIdentity
PROPERTIES ImplementsSessionStore IdentitiesNeverGoBack SessionsSignInOnce
CHECK_DEADLOCK FALSE
