------------------------------ MODULE SessionStore ------------------------------
(***************************************************************************)
(* lib/session/memory-repository.ts: what a SessionRepository promises.    *)
(* Each operation is one step on the records and the credential index.     *)
(***************************************************************************)
EXTENDS SessionRecords

CONSTANTS SessionIds, Credentials, UserIds, States

VARIABLES sessions,   \* session -> its record, or None
          credentials \* credential -> the session it is a bearer of, or None

NewSession ==
    [kind : {"guest"}, version : {1}, user_id : {None}, csrf_token : {None},
     credential : Credentials, last_seen : Nat, idle_expires : Nat, absolute_expires : Nat,
     revoked : {FALSE}, attempts : {<<>>}]

Call ==
    [op : {"renew", "save", "consume", "upgrade", "logout", "revoke"},
     expected_version : Nat, time : Nat, expires : Nat, state : States, csrf_token : Credentials,
     credential : Credentials, user_id : UserIds, idle_expires : Nat, absolute_expires : Nat]

Init ==
    /\ sessions = [id \in SessionIds |-> None]
    /\ credentials = [h \in Credentials |-> None]

create(id, record) ==
    /\ sessions[id] = None
    /\ credentials[record.credential] = None
    /\ sessions' = [sessions EXCEPT ![id] = record]
    /\ credentials' = [credentials EXCEPT ![record.credential] = id]

(* renew, save_authentication_attempt, consume_authentication_attempt,     *)
(* upgrade, logout and revoke: the record changes, and with it the         *)
(* credentials that lead to it.                                            *)
update(id, call) ==
    LET record == sessions[id]
        without == IF call.op \in {"upgrade", "logout", "revoke"}
                   THEN [credentials EXCEPT ![record.credential] = None] ELSE credentials
    IN
    /\ record # None
    /\ ~StaleVersion(record, call)
    /\ Refusal(record, call) = None
    /\ call.op = "upgrade" => credentials[call.credential] = None
    /\ sessions' = [sessions EXCEPT ![id] = Updated(record, call)]
    /\ credentials' = IF call.op = "upgrade"
                      THEN [without EXCEPT ![call.credential] = id] ELSE without

Next ==
    \E id \in SessionIds :
        \/ \E record \in NewSession : create(id, record)
        \/ \E call \in Call : update(id, call)

vars == <<sessions, credentials>>

Spec == Init /\ [][Next]_vars

-----------------------------------------------------------------------------
(* Through all creations, rotations, logouts and revocations a credential  *)
(* that resolves is the credential of a session that is not revoked ...    *)
BearersLead ==
    \A h \in Credentials : credentials[h] # None =>
        LET record == sessions[credentials[h]] IN
        record # None /\ record.credential = h /\ ~record.revoked

(* ... and every such session is found by its credential and by no other:  *)
(* "The previous bearer stops resolving immediately."                      *)
BearersFind ==
    \A id \in SessionIds : sessions[id] # None /\ ~sessions[id].revoked =>
        credentials[sessions[id].credential] = id

BearersCoherent == BearersLead /\ BearersFind

(* What was revoked stays as it was, and a version is never taken back, so *)
(* that a call held up since then stays refused.                           *)
VersionsOnlyGrow ==
    [][\A id \in SessionIds : sessions[id] # None =>
          /\ sessions[id]' # None
          /\ sessions[id].revoked => sessions[id]' = sessions[id]
          /\ sessions[id]'.version >= sessions[id].version]_vars
=============================================================================
