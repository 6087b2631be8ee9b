----------------------------- MODULE MCDriveStorage -----------------------------
(* TLC values for DriveStorage. *)
EXTENDS DriveStorage, TLC

CONSTANTS c1, c2, p1, p2

MCClients == {c1, c2}
MCProcesses == {p1, p2}
Symmetry == Permutations(MCClients) \cup Permutations(MCProcesses)

Attempt == [session_id |-> "tab", user_id |-> "u", expires_at |-> 2]

Connection(id, subject, state) ==
    [connection_id |-> id, user_id |-> "u", provider_subject |-> subject, status |-> state,
     created_at |-> 0, updated_at |-> 0]

Tokens(grant, number, expires, refresh) ==
    [access |-> [grant |-> grant, number |-> number], expires |-> expires, refresh |-> refresh]

Connected(credentials) ==
    ConnectionEntries(Connection("s0", "a", "active")) @@ (credentials_key("s0") :> credentials)

Disconnected ==
    (connection_key("s0") :> Connection("s0", "a", "revoked"))
    @@ (user_key("u", "s0") :> [connection_id |-> "s0"])

Attempts(states) == [key \in {attempt_key(s) : s \in states} |-> Attempt]

start(state) == [kind |-> "start", session |-> "tab", user |-> "u", state |-> state]
callback(state, subject, omits) ==
    [kind |-> "callback", session |-> "tab", user |-> "u", state |-> state, subject |-> subject,
     omits_refresh |-> omits, has_code |-> TRUE]
foreign(state) == [callback(state, "b", FALSE) EXCEPT !.session = "other"]
malformed(state) == [callback(state, "a", FALSE) EXCEPT !.has_code = FALSE]
disconnect == [kind |-> "disconnect", session |-> "tab", user |-> "u"]
content == [kind |-> "content", id |-> "s0", n |-> 1]
again == [content EXCEPT !.n = 2]

(* Two accounts are connected from two tabs, and one is disconnected.      *)
FirstConsents ==
    [entries |-> Attempts({"s1", "s2"}), grants |-> <<>>, ticks |-> 0, withdrawals |-> 0,
     requests |-> {callback("s1", "a", FALSE), callback("s2", "b", FALSE), disconnect}]

(* The same account again, one code twice. *)
Twice ==
    [FirstConsents EXCEPT !.requests =
        {callback("s1", "a", FALSE), callback("s1", "a", TRUE), callback("s2", "a", FALSE), disconnect}]

(* A connection that was revoked is restored, while another account comes. *)
Restored ==
    [entries |-> Disconnected @@ Attempts({"s1", "s2"}), grants |-> <<>>, ticks |-> 1,
     withdrawals |-> 0,
     requests |-> {callback("s1", "a", TRUE), callback("s2", "b", FALSE), disconnect}]

(* Content is read with tokens that age, are withdrawn and are replaced.   *)
Aging ==
    [entries |-> Connected(Tokens("s0", 0, 2, "s0")) @@ Attempts({"s1"}),
     grants |-> "s0" :> "a", ticks |-> 1, withdrawals |-> 1,
     requests |-> {content, again, callback("s1", "a", TRUE)}]

Leaving ==
    [entries |-> Connected(Tokens("s0", 0, 1, "s0")), grants |-> "s0" :> "a",
     ticks |-> 0, withdrawals |-> 1, requests |-> {content, again, disconnect}]

(* A consent begins to end; an attempt expires, another browser answers it. *)
Starting ==
    [entries |-> Connected(Tokens("s0", 0, 1, None)), grants |-> "s0" :> "a",
     ticks |-> 2, withdrawals |-> 0,
     requests |-> {start("s1"), callback("s1", "a", TRUE), foreign("s1"), malformed("s1"), content}]

AllScenarios == {FirstConsents, Twice, Restored, Aging, Leaving, Starting}
=============================================================================
