-------------------------------- MODULE MCSignIn --------------------------------
(* TLC values for SignIn. *)
EXTENDS SignIn, TLC

CONSTANTS c1, c2

MCClients == {c1, c2}
Symmetry == Permutations(MCClients)

PendingAttempt(state) == [state |-> state, expires |-> 1]

Guest(attempts) ==
    [kind |-> "guest", version |-> 1, user_id |-> None, csrf_token |-> None,
     credential |-> "h1", last_seen |-> 0, idle_expires |-> 0, absolute_expires |-> 2,
     revoked |-> FALSE, attempts |-> attempts]

Authenticated ==
    [Guest(<<>>) EXCEPT !.kind = "authenticated", !.version = 2, !.user_id = "u1",
                        !.csrf_token = "h1", !.idle_expires = 2, !.absolute_expires = 3]

User == (user_key("u1") :> [created_at |-> 0])
        @@ (identity_key("a") :> [user_id |-> "u1", updated_at |-> 0])

page == [kind |-> "page"]
bearer == [kind |-> "bearer"]
start(states) == [kind |-> "start", states |-> states]
callback(state, subject) ==
    [kind |-> "callback", state |-> state, subject |-> subject, has_code |-> TRUE]
logout(token) == [kind |-> "logout", csrf_token |-> token]

(* Two tabs come back from the provider. *)
TwoCallbacks ==
    [entries |-> SessionEntries("h1", Guest(<<PendingAttempt("s1"), PendingAttempt("s2")>>)),
     cookie |-> "h1", pool |-> {"h2", "h3"}, ticks |-> 0,
     requests |-> {callback("s1", "a"), callback("s2", "b"), page}]

(* A callback is replayed, once with the provider's refusal.               *)
Replay ==
    [TwoCallbacks EXCEPT !.requests = {callback("s1", "a"), callback("s1", "b"),
                                       [callback("s1", "a") EXCEPT !.has_code = FALSE]}]

(* Both sign in the same identity, which may be new or a user's already.   *)
SameIdentity ==
    [TwoCallbacks EXCEPT !.requests = {callback("s1", "a"), callback("s2", "a")}, !.ticks = 1]

KnownIdentity == [SameIdentity EXCEPT !.entries = @ @@ User]

(* A guest starts more sign-ins than a session keeps.                      *)
FirstVisit ==
    [entries |-> SessionEntries("h1", Guest(<<PendingAttempt("s1")>>)), cookie |-> "h1",
     pool |-> {"h2"}, ticks |-> 1,
     requests |-> {start({"s2"}), start({"s2", "s3"}), callback("s1", "a"), bearer}]

(* A browser without a cookie: its tabs get a session each.                *)
NoCookie ==
    [FirstVisit EXCEPT !.entries = User, !.cookie = None, !.pool = {"h1", "h2"}, !.ticks = 0,
                       !.requests = {page, start({"s1"}), logout("h1")}]

(* A signed-in browser; its session ages, is renewed and ends.             *)
LeavingUser ==
    [entries |-> SessionEntries("h1", Authenticated) @@ User, cookie |-> "h1",
     pool |-> {"h2", "h3"}, ticks |-> 2, requests |-> {page, logout("h1"), logout("h2")}]

(* A guest's session is over before its callback comes.                    *)
LateCallback ==
    [TwoCallbacks EXCEPT !.requests = {callback("s1", "a"), start({"s3"})}, !.ticks = 2]

AllScenarios ==
    {TwoCallbacks, Replay, SameIdentity, KnownIdentity, FirstVisit,
     NoCookie, LeavingUser, LateCallback}
=============================================================================
