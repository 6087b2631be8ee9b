--------------------------------- MODULE SignIn ---------------------------------
(***************************************************************************)
(* A browser signs in and out: lib/request-context.ts and the handlers of  *)
(* lib/auth/http.ts over lib/session/service.ts and lib/auth/service.ts,   *)
(* which call the repositories of KvSessions and KvIdentities.             *)
(*                                                                         *)
(* Requests of one browser (its tabs) are served concurrently, each with   *)
(* the cookie the browser had when it was sent; the responses arrive in    *)
(* any order.                                                              *)
(***************************************************************************)
EXTENDS KvIdentities

CONSTANTS Credentials, States, Scenarios,
          guest_absolute_lifetime, authenticated_idle_lifetime,
          authenticated_absolute_lifetime, renewal_threshold, authentication_attempt_lifetime,
          MAX_GENERATION_ATTEMPTS

VARIABLES requests,  \* those the browser has still to send
          ticks,     \* how far the time of day still goes
          pool,      \* credentials the generators may draw
          cookie,    \* the bearer the browser holds
          exchanged  \* state -> how often its code was exchanged, for a property

ASSUME SignInAssumption ==
    /\ max_pending_attempts \in Nat \ {0} /\ max_update_attempts \in Nat \ {0}
    /\ authentication_attempt_lifetime \in Nat /\ guest_absolute_lifetime \in Nat
    /\ authenticated_idle_lifetime \in Nat /\ authenticated_absolute_lifetime \in Nat
    /\ renewal_threshold < guest_absolute_lifetime
    /\ renewal_threshold < authenticated_idle_lifetime
    /\ None \notin Credentials \cup States \cup Subjects \cup UserIds
    /\ None \notin {"not_guest", "state_collision"}

(* What is stored when the requests begin is what earlier ones left: a      *)
(* session is a guest's in its first version and signed in or revoked from *)
(* the next one on, its pending attempts have different states, an index   *)
(* entry leads to the session of its bearer as long as either lasts, and   *)
(* identities and users come in pairs.                                     *)
Attempt == [state : States, expires : Nat]

SessionRecord ==
    [kind : {"guest", "authenticated"}, version : Nat \ {0}, user_id : UserIds \cup {None},
     csrf_token : Credentials \cup {None}, credential : Credentials, last_seen : Nat,
     idle_expires : Nat, absolute_expires : Nat, revoked : BOOLEAN, attempts : Seq(Attempt)]

StoredAttempts(attempts) ==
    /\ attempts \in Seq(Attempt) /\ Len(attempts) <= max_pending_attempts
    /\ \A i, j \in DOMAIN attempts : attempts[i].state = attempts[j].state => i = j

StoredSession(record) ==
    /\ record \in SessionRecord /\ StoredAttempts(record.attempts)
    /\ record.version = 1 =>
          record.kind = "guest" /\ record.user_id = None /\ ~record.revoked
    /\ record.version > 1 => record.kind = "authenticated" \/ record.revoked

StoredIdentity == [user_id : UserIds, updated_at : Nat]

Starts(req, state) == req.kind = "start" /\ state \in req.states
Returns(req, state) == req.kind = "callback" /\ req.state = state

(* Who may come to exchange a code for a state, among requests and stored  *)
(* sessions.                                                               *)
Drawn(reqs, entries, state) ==
    {<<"asked", req>> : req \in {r \in reqs : Starts(r, state)}}
    \cup {<<"stored", key>> : key \in {k \in DOMAIN entries :
                                    k[1] = "session" /\ HasState(entries[k].attempts, state)}}

Indexes(key, entries) ==
    LET index == entries[key]
        own == record_key(index.session_id)
    IN
    /\ index.expires \in Nat
    /\ index.expires > 0 =>
          /\ own \in DOMAIN entries /\ entries[own].absolute_expires = index.expires
          /\ key = credential_key(entries[own].credential)

IsRequest(req) ==
    /\ req.kind = "callback" => req.state \in States /\ req.subject \in Subjects
    /\ req.kind = "start" => req.states \subseteq States

(* A state the provider returns with has been drawn once: 256 random bits. *)
ScenarioOK(s) ==
    LET has(key) == key \in DOMAIN s.entries
        user_of(subject) == s.entries[identity_key(subject)].user_id
    IN
    /\ \A key \in DOMAIN s.entries : key[1] = "session" =>
          StoredSession(s.entries[key]) /\ \E id \in Credentials : key = record_key(id)
    /\ \A key \in DOMAIN s.entries : key[1] = "credential" => Indexes(key, s.entries)
    /\ \A a \in Subjects : has(identity_key(a)) =>
          s.entries[identity_key(a)] \in StoredIdentity /\ has(user_key(user_of(a)))
    /\ \A u \in UserIds : has(user_key(u)) =>
          \E a \in Subjects : has(identity_key(a)) /\ user_of(a) = u
    /\ \A a, b \in Subjects :
          has(identity_key(a)) /\ has(identity_key(b)) /\ user_of(a) = user_of(b) => a = b
    /\ \A req \in s.requests : IsRequest(req)
    /\ s.ticks \in Nat /\ s.pool \subseteq Credentials /\ s.cookie \in Credentials \cup {None}
    /\ \A state \in States : (\E req \in s.requests : Returns(req, state)) =>
          \A t, u \in Drawn(s.requests, s.entries, state) : t = u

ASSUME StoredBefore ==
    /\ None \notin StoredIdentity /\ None \notin SessionRecord
    /\ \A s \in Scenarios : ScenarioOK(s)

vars == <<kv, clock, now, client, requests, ticks, pool, cookie, exchanged>>

(* session: what the request knows of its session.  sent: the bearer it    *)
(* came with.  set_cookie: the one its response carries.  at: the time a   *)
(* service took before its calls.                                          *)
Idle == [step |-> "idle", req |-> None, sent |-> None, session |-> None, set_cookie |-> None,
         at |-> 0, tries |-> 0, user |-> None, failed |-> FALSE, repo |-> NoCall]

Init ==
    \E s \in Scenarios :
        /\ kv = Stamped(s.entries, 1)
        /\ clock = 1 /\ now = 0
        /\ requests = s.requests /\ ticks = s.ticks
        /\ pool = s.pool
        /\ cookie = s.cookie
        /\ client = [c \in Clients |-> Idle]
        /\ exchanged = [state \in States |-> 0]

-----------------------------------------------------------------------------
(* Sessions. *)

public_session(id, record) ==
    [id |-> id, version |-> record.version, kind |-> record.kind, user_id |-> record.user_id,
     absolute_expires |-> record.absolute_expires, idle_expires |-> record.idle_expires]

earlier(left, right) == IF left < right THEN left ELSE right

session_expiry(session) ==
    IF session.kind = "guest" THEN session.absolute_expires
    ELSE earlier(session.idle_expires, session.absolute_expires)

is_unusable(record) == record.revoked \/ session_expiry(record) <= now

due_for_renewal(record) == now >= record.last_seen + renewal_threshold

guest(credential, at) ==
    [kind |-> "guest", version |-> 1, user_id |-> None, csrf_token |-> None,
     credential |-> credential, last_seen |-> at, idle_expires |-> 0,
     absolute_expires |-> at + guest_absolute_lifetime, revoked |-> FALSE, attempts |-> <<>>]

revoke(session) ==
    [op |-> "revoke", id |-> session.id, expected_version |-> session.version, time |-> now]

Respond(c, f) == Become(c, [f EXCEPT !.step = "respond", !.repo = NoCall])
Fail(c, f) == Respond(c, [f EXCEPT !.failed = TRUE])

(* #create_guest: a session and a bearer are drawn; the session is named   *)
(* after the bearer it starts with.                                        *)
CreateGuest(c, f, tries) ==
    \/ /\ tries < MAX_GENERATION_ATTEMPTS
       /\ \E drawn \in pool :
             Become(c, Calling([f EXCEPT !.step = "create guest", !.tries = tries],
                               [op |-> "create", id |-> drawn, record |-> guest(drawn, f.at)],
                               "read new"))
    \/ tries >= MAX_GENERATION_ATTEMPTS /\ Fail(c, f)

-----------------------------------------------------------------------------
(* RequestContextMiddleware.handle and SessionService.resolve.             *)

(* A request with an Authorization header touches no stored session.       *)
Receive(c, req) ==
    LET f == [Idle EXCEPT !.req = req, !.sent = cookie, !.at = now] IN
    /\ client[c].step = "idle"
    /\ requests' = requests \ {req}
    /\ \/ req.kind = "bearer" /\ Respond(c, f)
       \/ req.kind # "bearer" /\ cookie = None /\ CreateGuest(c, f, 0)
       \/ req.kind # "bearer" /\ cookie # None
          /\ Become(c, Calling([f EXCEPT !.step = "find"],
                               [op |-> "find", credential |-> cookie], "find index"))
    /\ UNCHANGED <<kv, clock, now, ticks, pool, cookie, exchanged>>

(* The service goes on with the reply to its call. *)
Replied(c, step) == client[c].step = step /\ client[c].repo.at = "answered"
status(c) == client[c].repo.reply.status
replied_session(c) == public_session(client[c].repo.reply.id, client[c].repo.reply.record)
ServiceOnly == UNCHANGED <<kv, clock, now, requests, ticks, pool, cookie, exchanged>>

(* The route is called with the session found.                             *)
save_attempt(f, state) ==
    [op |-> "save", id |-> f.session.id, expected_version |-> f.session.version, time |-> now,
     state |-> state, expires |-> now + authentication_attempt_lifetime]

consume_attempt(f) ==
    [op |-> "consume", id |-> f.session.id, expected_version |-> f.session.version, time |-> now,
     state |-> f.req.state]

(* Before it uses a guest's session the service revokes it if it is over.  *)
Unexpired(c, f, call, step) ==
    \/ /\ session_expiry(f.session) <= now
       /\ Become(c, Calling([f EXCEPT !.step = "expired"], revoke(f.session), "load"))
    \/ /\ session_expiry(f.session) > now
       /\ Become(c, Calling([f EXCEPT !.step = step], call, "load"))

Route(c, f) ==
    LET kind == f.req.kind
        is_guest == f.session.kind = "guest"
    IN
    \/ kind = "page" /\ Respond(c, f)
    \/ kind = "start" /\ is_guest /\ Become(c, [f EXCEPT !.step = "begin", !.repo = NoCall])
    \/ kind = "callback" /\ is_guest /\ Unexpired(c, f, consume_attempt(f), "consume")
    \/ kind \in {"start", "callback"} /\ ~is_guest /\ Fail(c, f)
    \/ kind = "logout" /\ is_guest /\ Fail(c, f)
    \/ kind = "logout" /\ ~is_guest
       /\ Become(c, Calling([f EXCEPT !.step = "logout", !.at = now],
                            [op |-> "logout", id |-> f.session.id,
                             expected_version |-> f.session.version, time |-> now,
                             csrf_token |-> f.req.csrf_token], "load"))

renewal(record) ==
    IF record.kind = "guest" THEN 0
    ELSE earlier(now + authenticated_idle_lifetime, record.absolute_expires)

Found(c) ==
    LET f == [client[c] EXCEPT !.at = now]
        record == f.repo.reply.record
        session == replied_session(c)
    IN
    /\ Replied(c, "find")
    /\ \/ status(c) = "threw" /\ Fail(c, f)
       \/ status(c) = "null" /\ CreateGuest(c, f, 0)
       \/ /\ status(c) = "ok" /\ is_unusable(record)
          /\ Become(c, Calling([f EXCEPT !.step = "revoke"], revoke(session), "load"))
       \/ /\ status(c) = "ok" /\ ~is_unusable(record) /\ due_for_renewal(record)
          /\ Become(c, Calling([f EXCEPT !.step = "renew"],
                [op |-> "renew", id |-> session.id, expected_version |-> session.version,
                 time |-> now, idle_expires |-> renewal(record)], "load"))
       \/ /\ status(c) = "ok" /\ ~is_unusable(record) /\ ~due_for_renewal(record)
          /\ Route(c, [f EXCEPT !.session = session])
    /\ ServiceOnly

Revoked(c) ==
    /\ Replied(c, "revoke")
    /\ IF status(c) = "threw" THEN Fail(c, client[c]) ELSE CreateGuest(c, client[c], 0)
    /\ ServiceOnly

Renewed(c) ==
    LET f == client[c] IN
    /\ Replied(c, "renew")
    /\ \/ status(c) = "threw" /\ Fail(c, f)
       \/ status(c) = "stale_session" /\ CreateGuest(c, f, 0)
       \/ status(c) = "ok"
          /\ Route(c, [f EXCEPT !.session = replied_session(c), !.set_cookie = f.sent])
    /\ ServiceOnly

(* The guest of a request without a usable session, or that of a logout.   *)
GuestCreated(c) ==
    LET f == client[c]
        created == [f EXCEPT !.session = replied_session(c),
                             !.set_cookie = f.repo.reply.record.credential]
    IN
    /\ Replied(c, "create guest")
    /\ \/ status(c) = "taken" /\ CreateGuest(c, f, f.tries + 1)
       \/ status(c) = "ok" /\ f.session = None /\ Route(c, created)
       \/ status(c) = "ok" /\ f.session # None /\ Respond(c, created)
    /\ ServiceOnly

-----------------------------------------------------------------------------
(* AuthenticationService.start. *)

(* Begin asks the provider for an authorization URL. *)
Begin(c) ==
    LET f == client[c] IN
    /\ f.step = "begin"
    /\ \/ Fail(c, f)
       \/ \E state \in f.req.states : Unexpired(c, f, save_attempt(f, state), "save")
    /\ ServiceOnly

Saved(c) ==
    LET f == client[c] IN
    /\ Replied(c, "save")
    /\ \/ status(c) = "ok" /\ Respond(c, f)
       \/ status(c) = "state_collision" /\ f.tries + 1 < MAX_GENERATION_ATTEMPTS
          /\ Become(c, [f EXCEPT !.step = "begin", !.tries = @ + 1, !.repo = NoCall])
       \/ status(c) = "state_collision" /\ f.tries + 1 >= MAX_GENERATION_ATTEMPTS /\ Fail(c, f)
       \/ status(c) \notin {"ok", "state_collision"} /\ Fail(c, f)
    /\ ServiceOnly

ExpiredRevoked(c) == Replied(c, "expired") /\ Fail(c, client[c]) /\ ServiceOnly

-----------------------------------------------------------------------------
(* AuthenticationService.complete. *)

Consumed(c) ==
    LET f == client[c] IN
    /\ Replied(c, "consume")
    /\ \/ status(c) # "ok" /\ Fail(c, f)
       \/ status(c) = "ok" /\ ~f.req.has_code /\ Fail(c, f)
       \/ status(c) = "ok" /\ f.req.has_code
          /\ Become(c, [f EXCEPT !.step = "exchange", !.repo = NoCall])
    /\ ServiceOnly

(* The provider takes the code for a verified identity, or refuses it.     *)
Exchange(c) ==
    LET f == client[c] IN
    /\ f.step = "exchange"
    /\ \/ Fail(c, f)
       \/ Become(c, Calling([f EXCEPT !.step = "identify"],
                            [op |-> "find_or_create", subject |-> f.req.subject, time |-> now],
                            "read identity"))
    /\ exchanged' = [exchanged EXCEPT ![f.req.state] = @ + 1]
    /\ UNCHANGED <<kv, clock, now, requests, ticks, pool, cookie>>

DrawCredential(c, f, tries) ==
    LET absolute == f.at + authenticated_absolute_lifetime IN
    \/ /\ tries < MAX_GENERATION_ATTEMPTS
       /\ \E drawn \in pool :
             Become(c, Calling([f EXCEPT !.step = "upgrade", !.tries = tries],
                [op |-> "upgrade", id |-> f.session.id, expected_version |-> f.session.version,
                 credential |-> drawn, user_id |-> f.user, time |-> f.at,
                 absolute_expires |-> absolute,
                 idle_expires |-> earlier(f.at + authenticated_idle_lifetime, absolute)], "load"))
    \/ tries >= MAX_GENERATION_ATTEMPTS /\ Fail(c, f)

Identified(c) ==
    LET f == [client[c] EXCEPT !.user = client[c].repo.reply.id, !.at = now] IN
    /\ Replied(c, "identify")
    /\ \/ status(c) # "ok" /\ Fail(c, f)
       \/ /\ status(c) = "ok" /\ session_expiry(f.session) <= now
          /\ Become(c, Calling([f EXCEPT !.step = "expired"], revoke(f.session), "load"))
       \/ status(c) = "ok" /\ session_expiry(f.session) > now /\ DrawCredential(c, f, 0)
    /\ ServiceOnly

(* The new bearer supersedes a renewal staged when the request began.      *)
Upgraded(c) ==
    LET f == client[c] IN
    /\ Replied(c, "upgrade")
    /\ \/ status(c) = "ok"
          /\ Respond(c, [f EXCEPT !.session = replied_session(c),
                                  !.set_cookie = f.repo.reply.record.credential])
       \/ status(c) = "credential_collision" /\ DrawCredential(c, f, f.tries + 1)
       \/ status(c) \in {"stale_session", "threw"} /\ Fail(c, f)
    /\ ServiceOnly

LoggedOut(c) ==
    LET f == client[c] IN
    /\ Replied(c, "logout")
    /\ IF status(c) = "ok" THEN CreateGuest(c, f, 0) ELSE Fail(c, f)
    /\ ServiceOnly

-----------------------------------------------------------------------------
(* The response reaches the browser. *)
Receipt(c) ==
    /\ client[c].step = "respond"
    /\ cookie' = IF client[c].set_cookie # None THEN client[c].set_cookie ELSE cookie
    /\ Become(c, Idle)
    /\ UNCHANGED <<kv, clock, now, requests, ticks, pool, exchanged>>

(* The process that serves the request stops. *)
Crash(c) ==
    /\ client[c].step # "idle"
    /\ Become(c, Idle)
    /\ UNCHANGED <<kv, clock, now, requests, ticks, pool, cookie, exchanged>>

Tick ==
    /\ ticks > 0
    /\ ticks' = ticks - 1
    /\ now' = now + 1
    /\ UNCHANGED <<kv, clock, client, requests, pool, cookie, exchanged>>

(* What has been stored is not drawn again: a draw is 256 random bits.     *)
Repositories(c) ==
    /\ RepositoryStep(c) \/ IdentityStep(c)
    /\ pool' = {drawn \in pool : credential_key(drawn) \notin DOMAIN kv'}
    /\ UNCHANGED <<requests, ticks, cookie, exchanged>>

Next ==
    \/ \E c \in Clients :
          \/ \E req \in requests : Receive(c, req)
          \/ Repositories(c)
          \/ Found(c) \/ Revoked(c) \/ Renewed(c) \/ GuestCreated(c)
          \/ Begin(c) \/ Saved(c) \/ ExpiredRevoked(c)
          \/ Consumed(c) \/ Exchange(c) \/ Identified(c) \/ Upgraded(c) \/ LoggedOut(c)
          \/ Receipt(c) \/ Crash(c)
    \/ Expire /\ UNCHANGED <<requests, ticks, pool, cookie, exchanged>>
    \/ Tick

Spec == Init /\ [][Next]_vars

-----------------------------------------------------------------------------
(* Properties. *)

Sessions == [id \in Credentials |-> get(record_key(id)).val]

Bearers ==
    [credential \in Credentials |->
        IF credential_key(credential) \in DOMAIN kv
        THEN get(credential_key(credential)).val.session_id ELSE None]

TypeOK ==
    /\ clock \in Nat /\ now \in Nat /\ ticks \in Nat
    /\ requests \subseteq UNION {s.requests : s \in Scenarios}
    /\ pool \subseteq Credentials /\ cookie \in Credentials \cup {None}
    /\ exchanged \in [States -> Nat]
    /\ \A id \in Credentials : Sessions[id] # None =>
          /\ Sessions[id].kind \in {"guest", "authenticated"}
          /\ Sessions[id].version \in Nat \ {0}
          /\ Sessions[id].credential \in Credentials
          /\ Sessions[id].user_id \in UserIds \cup {None}
          /\ Len(Sessions[id].attempts) <= max_pending_attempts

(* "malformed codes, provider failures, and callback replays must never    *)
(* get another exchange attempt for the same state" (lib/auth/service.ts), *)
(* and no session holds more pending attempts than its bound.              *)
OneExchangePerAttempt ==
    /\ TypeOK
    /\ \A state \in States : exchanged[state] <= 1

Identity(subject) == get(identity_key(subject)).val

(* First sign-ins that race end in one user for an external identity, and  *)
(* a user is never without its identity.                                   *)
OneUserPerIdentity ==
    /\ \A s \in Subjects : Identity(s) # None => user_key(Identity(s).user_id) \in DOMAIN kv
    /\ \A u \in UserIds : user_key(u) \in DOMAIN kv =>
          Cardinality({s \in Subjects : Identity(s) # None /\ Identity(s).user_id = u}) = 1

(* "stale observations cannot overwrite newer data", and an identity never *)
(* changes its user.                                                       *)
IdentitiesNeverGoBack ==
    [][\A s \in Subjects : Identity(s) # None =>
          /\ Identity(s)' # None
          /\ Identity(s)'.user_id = Identity(s).user_id
          /\ Identity(s)'.updated_at >= Identity(s).updated_at]_vars

(* A session signs in once: whatever callbacks overlap, its user never     *)
(* changes afterwards, and what was revoked stays revoked.                 *)
SessionsSignInOnce ==
    [][\A id \in Credentials : Sessions[id] # None /\ Sessions[id]' # None =>
          /\ Sessions[id].user_id # None => Sessions[id]'.user_id = Sessions[id].user_id
          /\ Sessions[id].revoked => Sessions[id]' = Sessions[id]
          /\ Sessions[id]'.version >= Sessions[id].version]_vars

Abstract == INSTANCE SessionStore WITH
                SessionIds <- Credentials, sessions <- Sessions, credentials <- Bearers

RequestedOperation(repo) ==
    \/ repo.at = "create" /\ Abstract!create(repo.call.id, repo.call.record)
    \/ repo.at = "commit" /\ Abstract!update(repo.call.id, repo.call)

(* Entries that have expired go, nothing else. *)
Forgetting ==
    /\ \A id \in Credentials : Sessions[id]' # Sessions[id] =>
          Sessions[id]' = None /\ Sessions[id].absolute_expires <= now
    /\ \A h \in Credentials : Bearers[h]' # Bearers[h] =>
          Bearers[h]' = None /\ get(credential_key(h)).val.expires <= now

(* Every commit is one operation of the in-memory repository, on the       *)
(* sessions of that step; other steps only forget what is over.            *)
ImplementsSessionStore ==
    [][<<Sessions, Bearers>>' # <<Sessions, Bearers>> =>
          \/ \E c \in Clients : client'[c] # client[c] /\ RequestedOperation(client[c].repo)
          \/ Forgetting]_vars
=============================================================================
