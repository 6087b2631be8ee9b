------------------------------ MODULE DriveStorage ------------------------------
(***************************************************************************)
(* Google Drive as a place for content: the connections a creator makes    *)
(* and breaks (google-drive-connection-service.ts) and the requests that   *)
(* use their tokens (google-drive-provider.ts), over the repositories of   *)
(* KvStorageConnections.  Requests are served by several processes; one    *)
(* process refreshes the tokens of a connection once at a time.            *)
(*                                                                         *)
(* Google is external: it grants, refuses and forgets consents.  A grant   *)
(* and a connection are named after the attempt that made them.            *)
(***************************************************************************)
EXTENDS KvStorageConnections, FiniteSets

CONSTANTS Processes, Users, Subjects, States, Scenarios,
          attempt_lifetime, token_lifetime, refresh_leeway

VARIABLES process,   \* client -> the process that serves it
          requests,  \* those still to be sent
          ticks,     \* how far the time of day still goes
          grants,    \* grant -> the account that gave it, whether it stands, and
                     \* whether Google has refused to renew it while it stood
          issued,    \* access tokens given out
          withdrawals, \* how often Google may still turn away a grant, or the site
          exchanged  \* state -> how often its code was exchanged, for a property

(* What is kept of a connection, and of a grant's tokens. *)
StorageConnection ==
    [connection_id : States, user_id : Users, provider_subject : Subjects,
     status : {"active", "revoked"}, created_at : Nat, updated_at : Nat]

OAuthCredentials ==
    [access : [grant : States, number : Nat], expires : Nat, refresh : States \cup {None}]

ASSUME StorageAssumption ==
    /\ max_commit_attempts \in Nat \ {0}
    /\ token_lifetime \in Nat /\ refresh_leeway \in Nat /\ token_lifetime > refresh_leeway
    /\ None \notin States \cup Subjects \cup Users
    /\ None \notin StorageConnection /\ None \notin OAuthCredentials

(* The entries that earlier requests leave. *)
StoredTogether(map) ==
    \A key \in DOMAIN map :
        /\ key[1] = "connection" =>
              LET connection == map[key] IN
              /\ key = connection_key(connection.connection_id)
              /\ connection \in StorageConnection /\ connection.created_at <= connection.updated_at
              /\ connection.status = "active" =>
                    /\ active_key(connection.user_id) \in DOMAIN map
                    /\ map[active_key(connection.user_id)].connection_id = connection.connection_id
        /\ key[1] = "active" =>
              LET record == connection_key(map[key].connection_id) IN
              /\ record \in DOMAIN map
              /\ map[record].status = "active" /\ key = active_key(map[record].user_id)
        /\ key[1] = "user" => connection_key(key[3]) \in DOMAIN map
        /\ key[1] = "credentials" =>
              /\ key = credentials_key(key[2]) /\ map[key] \in OAuthCredentials
              /\ connection_key(key[2]) \in DOMAIN map
              /\ map[connection_key(key[2])].status = "active"

(* Tokens of an account, by what each grant was given by. *)
TokensOf(credentials, subject, giver) ==
    /\ giver[credentials.access.grant] = subject
    /\ credentials.refresh # None => giver[credentials.refresh] = subject

RequestOK(req) ==
    /\ req.kind \in {"start", "callback", "disconnect", "content"}
    /\ req.kind \in {"start", "callback"} => req.state \in States
    /\ req.kind \in {"callback", "disconnect"} => req.user \in Users
    /\ req.kind = "callback" => req.subject \in Subjects

(* A state is drawn once. *)
Asks(req, state) == req.kind = "start" /\ req.state = state

DrawnOnce(s) ==
    /\ \A p, q \in s.requests : p.kind = "start" /\ Asks(q, p.state) => p = q
    /\ \A state \in States : attempt_key(state) \in DOMAIN s.entries =>
          state \notin DOMAIN s.grants /\ \A req \in s.requests : ~Asks(req, state)
    /\ \A state \in DOMAIN s.grants : \A req \in s.requests : ~Asks(req, state)

ScenarioOK(s) ==
    /\ s.ticks \in Nat /\ s.withdrawals \in Nat
    /\ IsFiniteSet(DOMAIN s.grants) /\ DOMAIN s.grants \subseteq States
    /\ \A state \in DOMAIN s.grants : s.grants[state] \in Subjects
    /\ StoredTogether(s.entries)
    /\ \A id \in States : credentials_key(id) \in DOMAIN s.entries =>
          LET credentials == s.entries[credentials_key(id)] IN
          /\ {credentials.access.grant, credentials.refresh} \subseteq DOMAIN s.grants \cup {None}
          /\ TokensOf(credentials, s.entries[connection_key(id)].provider_subject, s.grants)
    /\ \A req \in s.requests : RequestOK(req)
    /\ DrawnOnce(s)

ASSUME ScenariosAssumption == \A s \in Scenarios : ScenarioOK(s)

vars == <<kv, clock, now, client, process, requests, ticks, grants, issued, withdrawals, exchanged>>

(* connection, credentials: what the request has read or was granted.      *)
(* second: it has been refused once.                                       *)
Idle == [step |-> "idle", req |-> None, time |-> 0, connection |-> None, credentials |-> None,
         second |-> FALSE, repo |-> NoCall]

NoGrant == [subject |-> None, stands |-> FALSE, refused |-> FALSE]

Init ==
    \E s \in Scenarios :
        /\ kv = Stamped(s.entries, 1) /\ clock = 1
        /\ now = 0 /\ ticks = s.ticks
        /\ requests = s.requests
        /\ grants = [state \in States |-> IF state \in DOMAIN s.grants
                        THEN [subject |-> s.grants[state], stands |-> TRUE, refused |-> FALSE] ELSE NoGrant]
        /\ issued = Cardinality(DOMAIN s.grants)
        /\ withdrawals = s.withdrawals
        /\ exchanged = [state \in States |-> 0]
        /\ client = [c \in Clients |-> Idle]
        /\ process \in [Clients -> Processes]

Become(c, f) == client' = [client EXCEPT ![c] = f]
Done(c) == Become(c, Idle)
Replied(c, step) == client[c].step = step /\ client[c].repo.at = "answered"
reply(c) == client[c].repo.reply
status(c) == reply(c).status
At(f, step) == [f EXCEPT !.step = step, !.repo = NoCall]

(* The service goes on; nothing is stored and Google is not asked.         *)
ServiceOnly ==
    UNCHANGED <<kv, clock, now, process, requests, ticks, grants, issued, withdrawals, exchanged>>

-----------------------------------------------------------------------------
(* The calls of the services. *)

GetCredentialsOf(f, step, id) ==
    Calling([f EXCEPT !.step = step], [op |-> "get", id |-> id], "get_credentials")
PutCredentialsOf(f, step, id, credentials) ==
    Calling([f EXCEPT !.step = step, !.credentials = credentials],
            [op |-> "put", id |-> id, credentials |-> credentials], "put_credentials")
RevokeConnection(f, step, connection) ==
    Calling([f EXCEPT !.step = step],
            [op |-> "revoke", id |-> connection.connection_id, user |-> connection.user_id,
             time |-> now], "revoke")
FindActive(f, step, user) ==
    Calling([f EXCEPT !.step = step], [op |-> "find", user |-> user], "find_active")

(* An access token Google has just given out. *)
token(grant) == [grant |-> grant, number |-> issued]

Receive(c, req) ==
    LET f == [Idle EXCEPT !.req = req, !.time = now] IN
    /\ client[c].step = "idle"
    /\ requests' = requests \ {req}
    /\ \/ req.kind = "start"
          /\ Become(c, Calling([f EXCEPT !.step = "start"],
                [op |-> "save", state |-> req.state,
                 attempt |-> [session_id |-> req.session, user_id |-> req.user,
                              expires_at |-> now + attempt_lifetime]], "save_attempt"))
       \/ req.kind = "callback"
          /\ Become(c, Calling([f EXCEPT !.step = "consume"],
                [op |-> "consume", state |-> req.state, session |-> req.session,
                 user |-> req.user, time |-> now], "consume"))
       \/ req.kind = "disconnect" /\ Become(c, FindActive(f, "disconnect", req.user))
       \/ req.kind = "content"
          /\ Become(c, Calling([f EXCEPT !.step = "content"],
                               [op |-> "find", id |-> req.id], "find_by_id"))
    /\ UNCHANGED <<kv, clock, now, process, ticks, grants, issued, withdrawals, exchanged>>

(* start has saved its attempt, or a call was the last one of its request. *)
Finished(c) ==
    /\ \E step \in {"start", "reauthorized", "undone", "disconnected", "refused"} : Replied(c, step)
    /\ Done(c)
    /\ ServiceOnly

-----------------------------------------------------------------------------
(* complete and #save_grant. *)

Consumed(c) ==
    /\ Replied(c, "consume")
    /\ \/ (status(c) # "ok" \/ ~client[c].req.has_code) /\ Done(c)
       \/ status(c) = "ok" /\ client[c].req.has_code /\ Become(c, At(client[c], "exchange"))
    /\ ServiceOnly

(* Google takes the code for a grant; a refresh token comes with it unless *)
(* it is omitted.                                                          *)
Exchange(c) ==
    LET f == client[c]
        state == f.req.state
        granted == [access |-> token(state), expires |-> now + token_lifetime,
                    refresh |-> IF f.req.omits_refresh THEN None ELSE state]
    IN
    /\ f.step = "exchange"
    /\ \/ Done(c) /\ UNCHANGED <<grants, issued>>
       \/ /\ grants' = [grants EXCEPT ![state] =
                           [subject |-> f.req.subject, stands |-> TRUE, refused |-> FALSE]]
          /\ issued' = issued + 1
          /\ Become(c, FindActive([f EXCEPT !.credentials = granted, !.time = now],
                                  "grant", f.req.user))
    /\ exchanged' = [exchanged EXCEPT ![state] = @ + 1]
    /\ UNCHANGED <<kv, clock, now, process, requests, ticks, withdrawals>>

SameConnection(c, f, connection) ==
    Become(c, GetCredentialsOf([f EXCEPT !.connection = connection], "previous",
                               connection.connection_id))

(* Mutant: whatever connection is active takes the grant. *)
SameAccount_any(connection, subject) == TRUE

SameAccount(connection, subject) == connection.provider_subject = subject

GrantActive(c) ==
    LET f == client[c]
        active == reply(c).connection
    IN
    /\ Replied(c, "grant")
    /\ \/ status(c) \in {"threw", "invalid"} /\ Done(c)
       \/ status(c) = "ok" /\ ~SameAccount(active, f.req.subject) /\ Done(c)
       \/ status(c) = "ok" /\ SameAccount(active, f.req.subject) /\ SameConnection(c, f, active)
       \/ status(c) = "null"
          /\ Become(c, Calling([f EXCEPT !.step = "prior"], [op |-> "list", user |-> f.req.user],
                               "list"))
    /\ ServiceOnly

(* The newest connection of the same account, or a new one. *)
GrantPrior(c) ==
    LET f == client[c]
        same == {connection \in reply(c).list : SameAccount(connection, f.req.subject)}
    IN
    /\ Replied(c, "prior")
    /\ \/ status(c) # "ok" /\ Done(c)
       \/ /\ status(c) = "ok"
          /\ \E prior \in same : /\ \A other \in same : other.updated_at <= prior.updated_at
                                 /\ SameConnection(c, f, prior)
       \/ /\ status(c) = "ok" /\ same = {}
          /\ Become(c, Calling([f EXCEPT !.step = "create"],
                [op |-> "create",
                 connection |-> [connection_id |-> f.req.state, user_id |-> f.req.user,
                                 provider_subject |-> f.req.subject, status |-> "active",
                                 created_at |-> f.time, updated_at |-> f.time]], "create_read"))
    /\ ServiceOnly

(* #reauthorize keeps a refresh token that Google omits. *)
Merged(granted, previous) ==
    IF granted.refresh = None /\ previous # None
    THEN [granted EXCEPT !.refresh = previous.refresh] ELSE granted

Previous(c) ==
    LET f == client[c] IN
    /\ Replied(c, "previous")
    /\ \/ status(c) # "ok" /\ Done(c)
       \/ /\ status(c) = "ok"
          /\ Become(c, Calling([f EXCEPT !.step = "reauthorized"],
                [op |-> "reauthorize", id |-> f.connection.connection_id,
                 user |-> f.connection.user_id, subject |-> f.connection.provider_subject,
                 credentials |-> Merged(f.credentials, reply(c).credentials),
                 time |-> f.time], "reauthorize"))
    /\ ServiceOnly

Created(c) ==
    LET f == [client[c] EXCEPT !.connection = reply(c).connection] IN
    /\ Replied(c, "create")
    /\ \/ status(c) # "ok" /\ Done(c)
       \/ /\ status(c) = "ok"
          /\ Become(c, PutCredentialsOf(f, "put", f.connection.connection_id, f.credentials))
    /\ ServiceOnly

CredentialsPut(c) ==
    /\ Replied(c, "put")
    /\ \/ status(c) \in {"ok", "threw"} /\ Done(c)
       \/ status(c) = "false"
          /\ Become(c, RevokeConnection(client[c], "undone", client[c].connection))
    /\ ServiceOnly

-----------------------------------------------------------------------------
(* disconnect. *)

DisconnectFound(c) ==
    /\ Replied(c, "disconnect")
    /\ \/ status(c) # "ok" /\ Done(c)
       \/ status(c) = "ok"
          /\ Become(c, GetCredentialsOf([client[c] EXCEPT !.connection = reply(c).connection],
                                        "disconnect_credentials", reply(c).connection.connection_id))
    /\ ServiceOnly

DisconnectCredentials(c) ==
    LET f == [client[c] EXCEPT !.credentials = reply(c).credentials] IN
    /\ Replied(c, "disconnect_credentials")
    /\ \/ status(c) # "ok" /\ Done(c)
       \/ status(c) = "ok" /\ f.credentials = None
          /\ Become(c, RevokeConnection(f, "disconnected", f.connection))
       \/ status(c) = "ok" /\ f.credentials # None /\ Become(c, At(f, "revoke_at_Google"))
    /\ ServiceOnly

Withdrawn(subject) ==
    [g \in States |-> IF grants[g].subject = subject THEN [grants[g] EXCEPT !.stands = FALSE]
                      ELSE grants[g]]

(* Best effort: Google forgets what the account granted, or does not answer. *)
RemoteRevoke(c) ==
    LET f == client[c] IN
    /\ f.step = "revoke_at_Google"
    /\ grants' \in {grants, Withdrawn(grants[f.credentials.access.grant].subject)}
    /\ Become(c, RevokeConnection(f, "disconnected", f.connection))
    /\ UNCHANGED <<kv, clock, now, process, requests, ticks, issued, withdrawals, exchanged>>

-----------------------------------------------------------------------------
(* GoogleDriveExternalStorageProvider.#execute: fetch, stat and put.       *)

need_refresh(credentials) == credentials.expires <= now + refresh_leeway

ContentFound(c) ==
    /\ Replied(c, "content")
    /\ Become(c, GetCredentialsOf([client[c] EXCEPT !.connection = reply(c).connection],
                                  "credentials", client[c].req.id))
    /\ ServiceOnly

Refreshing(c) == client[c].step \in {"refresh", "refresh_stored", "refresh_refused"}

(* #refresh: whoever finds the tokens of its connection being refreshed in *)
(* its process waits for that refresh.                                     *)
Refresh(c, f) ==
    LET busy == \E d \in Clients \ {c} :
                    process[d] = process[c] /\ Refreshing(d) /\ client[d].req.id = f.req.id
    IN
    \/ busy /\ Become(c, At(f, "await"))
    \/ ~busy /\ f.credentials.refresh = None
       /\ Become(c, RevokeConnection(f, "refresh_refused", f.connection))
    \/ ~busy /\ f.credentials.refresh # None /\ Become(c, At(f, "refresh"))

HaveCredentials(c) ==
    LET f == [client[c] EXCEPT !.credentials = reply(c).credentials]
        usable == /\ status(c) = "ok" /\ f.connection # None
                  /\ f.connection.status = "active" /\ f.credentials # None
    IN
    /\ Replied(c, "credentials")
    /\ \/ ~usable /\ Done(c)
       \/ usable /\ need_refresh(f.credentials) /\ Refresh(c, f)
       \/ usable /\ ~need_refresh(f.credentials) /\ Become(c, At(f, "operation"))
    /\ ServiceOnly

Accepts(credentials) ==
    grants[credentials.access.grant].stands /\ credentials.expires > now

(* Google does what it is asked to, or fails, or refuses the token.        *)
Operation(c) ==
    LET f == client[c]
        unauthorized == ~Accepts(f.credentials)
    IN
    /\ f.step = "operation"
    /\ \/ Done(c)
       \/ unauthorized /\ ~f.second /\ Become(c, GetCredentialsOf(f, "reread", f.req.id))
       \/ unauthorized /\ f.second /\ Become(c, RevokeConnection(f, "refused", f.connection))
    /\ ServiceOnly

(* The tokens are read again: another request may have refreshed them.     *)
Reread(c) ==
    LET f == [client[c] EXCEPT !.second = TRUE]
        current == reply(c).credentials
        newer == current # None /\ current.access # f.credentials.access
    IN
    /\ Replied(c, "reread")
    /\ \/ status(c) # "ok" /\ Done(c)
       \/ status(c) = "ok" /\ newer /\ Become(c, At([f EXCEPT !.credentials = current], "operation"))
       \/ status(c) = "ok" /\ ~newer /\ Refresh(c, f)
    /\ ServiceOnly

(* Mutant: a refresh that got no answer is taken for a refusal. *)
Definitive_any(credentials) == TRUE

(* Google refuses the refresh token for good. *)
Definitive(credentials) == ~grants[credentials.refresh].stands

(* The refresh is over for all who share it. *)
Shares(c, d) ==
    client[d].step = "await" /\ process[d] = process[c] /\ client[d].req.id = client[c].req.id

Share(c, outcome(_)) ==
    client' = [d \in Clients |-> IF d = c \/ Shares(c, d) THEN outcome(client[d]) ELSE client[d]]

(* Google does not answer as hoped, refuses the token for good, turns the  *)
(* site itself away ("unauthorized"), or gives a new access token.         *)
AskRefresh(c) ==
    LET f == client[c]
        grant == f.credentials.refresh
        refreshed == [access |-> token(grant), expires |-> now + token_lifetime, refresh |-> grant]
    IN
    /\ f.step = "refresh"
    /\ \/ Share(c, LAMBDA g : Idle) /\ UNCHANGED <<issued, grants, withdrawals>>
       \/ /\ Definitive(f.credentials)
          /\ Become(c, RevokeConnection(f, "refresh_refused", f.connection))
          /\ UNCHANGED <<issued, grants, withdrawals>>
       \/ /\ withdrawals > 0 /\ withdrawals' = withdrawals - 1
          /\ grants' = [grants EXCEPT ![grant].refused = TRUE]
          /\ Become(c, RevokeConnection(f, "refresh_refused", f.connection))
          /\ UNCHANGED issued
       \/ /\ grants[grant].stands
          /\ Become(c, PutCredentialsOf(f, "refresh_stored", f.req.id, refreshed))
          /\ issued' = issued + 1 /\ UNCHANGED <<grants, withdrawals>>
    /\ UNCHANGED <<kv, clock, now, process, requests, ticks, exchanged>>

RefreshStored(c) ==
    LET refreshed == client[c].credentials IN
    /\ Replied(c, "refresh_stored")
    /\ \/ status(c) # "ok" /\ Share(c, LAMBDA g : Idle)
       \/ status(c) = "ok"
          /\ Share(c, LAMBDA g : At([g EXCEPT !.credentials = refreshed], "operation"))
    /\ ServiceOnly

RefreshRefused(c) ==
    /\ Replied(c, "refresh_refused")
    /\ Share(c, LAMBDA g : Idle)
    /\ ServiceOnly

-----------------------------------------------------------------------------
(* The process stops, and with it all it serves. *)
Crash(p) ==
    /\ \E c \in Clients : process[c] = p /\ client[c].step # "idle"
    /\ client' = [c \in Clients |-> IF process[c] = p THEN Idle ELSE client[c]]
    /\ ServiceOnly

(* The creator withdraws a consent on Google's pages. *)
Withdraw ==
    /\ withdrawals > 0 /\ withdrawals' = withdrawals - 1
    /\ \E g \in States : grants[g].stands /\ grants' = Withdrawn(grants[g].subject)
    /\ UNCHANGED <<kv, clock, now, client, process, requests, ticks, issued, exchanged>>

Tick ==
    /\ ticks > 0 /\ ticks' = ticks - 1
    /\ now' = now + 1
    /\ UNCHANGED <<kv, clock, client, process, requests, grants, issued, withdrawals, exchanged>>

Repository(c) ==
    /\ RepositoryStep(c)
    /\ UNCHANGED <<process, requests, ticks, grants, issued, withdrawals, exchanged>>

Next ==
    \/ \E c \in Clients :
          \/ \E req \in requests : Receive(c, req)
          \/ Repository(c) \/ Finished(c)
          \/ Consumed(c) \/ Exchange(c) \/ GrantActive(c) \/ GrantPrior(c) \/ Previous(c)
          \/ Created(c) \/ CredentialsPut(c)
          \/ DisconnectFound(c) \/ DisconnectCredentials(c) \/ RemoteRevoke(c)
          \/ ContentFound(c) \/ HaveCredentials(c) \/ Operation(c) \/ Reread(c)
          \/ AskRefresh(c) \/ RefreshStored(c) \/ RefreshRefused(c)
    \/ \E p \in Processes : Crash(p)
    \/ Withdraw \/ Tick

Spec == Init /\ [][Next]_vars

-----------------------------------------------------------------------------
(* Properties. *)

Connections == [id \in States |-> stored(connection_key(id))]
ActiveConnections ==
    [user \in Users |-> IF present(get(active_key(user)))
                        THEN stored(active_key(user)).connection_id ELSE None]
Credentials == [id \in States |-> stored(credentials_key(id))]

(* What each variable holds. *)
TypeOK ==
    /\ clock \in Nat /\ now \in Nat /\ ticks \in Nat /\ issued \in Nat /\ withdrawals \in Nat
    /\ process \in [Clients -> Processes]
    /\ grants \in [States -> [subject : Subjects \cup {None}, stands : BOOLEAN, refused : BOOLEAN]]
    /\ exchanged \in [States -> 0..1]
    /\ \A id \in States : Connections[id] # None =>
          /\ Connections[id].connection_id = id /\ Connections[id].user_id \in Users
          /\ Connections[id].provider_subject \in Subjects
          /\ Connections[id].created_at <= Connections[id].updated_at

(* No interleaving makes the repository call what it stored invalid.       *)
NoFalseInvalidRecord == \A c \in Clients : client[c].repo.reply.status # "invalid"

(* However the callbacks of two Google accounts overlap, the tokens kept   *)
(* for a connection are those of its account: "A later new connection does *)
(* not silently retarget old object references."  No attempt is exchanged *)
(* twice, and connections stay in their types.                             *)
TokensOfOwnAccount ==
    TypeOK /\ \A id \in States : Credentials[id] # None =>
        grants[Credentials[id].access.grant].subject = Connections[id].provider_subject

(* What ends a request's use of its tokens: they cannot be renewed, Google *)
(* took back the consent behind them or turned the site away, or it        *)
(* refuses the access token of a request that it refused before.           *)
Refused(used, second) ==
    \/ used.refresh = None
    \/ ~grants[used.refresh].stands \/ grants[used.refresh].refused
    \/ second /\ ~Accepts(used)

(* A request for content takes a connection away only for a refusal of the *)
(* tokens it used, never for an outage, and for a refused access token     *)
(* only once it has tried with tokens read again or renewed.  The tokens   *)
(* that are refused need not be those kept by then: a callback or another  *)
(* process may have replaced them, and the connection goes nevertheless.   *)
RevokedOnlyOnRefusal ==
    [][\A c \in Clients : \A id \in States :
          client[c].req # None /\ client[c].req.kind = "content" /\ client'[c] # client[c]
          /\ Connections[id] # None /\ Connections[id].status = "active"
          /\ Connections[id]'.status = "revoked" =>
             Refused(client[c].credentials, client[c].second)]_vars

Abstract == INSTANCE StorageConnectionStore WITH
                ConnectionIds <- States, Tokens <- OAuthCredentials, connections <- Connections,
                active <- ActiveConnections, credentials <- Credentials

RequestedOperation(repo) ==
    \/ repo.at = "create_commit" /\ Abstract!create(repo.call.connection)
    \/ repo.at = "reauthorize_commit"
       /\ Abstract!reauthorize(repo.call.id, repo.call.subject, repo.call.credentials, repo.call.time)
    \/ repo.at = "revoke_commit" /\ Abstract!revoke(repo.call.id, repo.call.time)
    \/ repo.at = "put_commit" /\ Abstract!put_credentials(repo.call.id, repo.call.credentials)

(* Every commit is the operation that was called, as the in-memory         *)
(* repository does it on the connections of that step.                     *)
ImplementsConnectionStore ==
    [][<<Connections, ActiveConnections, Credentials>>'
            # <<Connections, ActiveConnections, Credentials>>
       => \E c \in Clients : client'[c] # client[c] /\ RequestedOperation(client[c].repo)]_vars
=============================================================================
