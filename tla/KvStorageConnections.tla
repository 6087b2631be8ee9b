-------------------------- MODULE KvStorageConnections --------------------------
(***************************************************************************)
(* lib/storage/kv-storage-connection-repository.ts and the Deno KV half of *)
(* lib/external-storage/storage-oauth-attempt-repository.ts.  The call a   *)
(* request makes is in client[c].repo; a step of it is one read (of one    *)
(* key, or of several with one get_many) or one atomic operation.          *)
(*                                                                         *)
(* The provider is Google Drive, and of a connection's metadata the scopes *)
(* are left out.                                                           *)
(***************************************************************************)
EXTENDS Naturals

CONSTANTS None, Clients, max_commit_attempts

VARIABLES kv, clock,
          now,     \* the time of day
          client   \* client -> the frame of the request it serves

INSTANCE DenoKv

connection_key(id) == <<"connection", id>>
active_key(user) == <<"active", user>>
user_key(user, id) == <<"user", user, id>>
credentials_key(id) == <<"credentials", id>>
attempt_key(state) == <<"attempt", state>>

NoReply == [status |-> "none", connection |-> None, credentials |-> None, list |-> {}]

NoCall == [at |-> "none", call |-> None, start |-> "none", round |-> 0,
           entry |-> Absent, index |-> Absent, left |-> {}, found |-> {}, reply |-> NoReply]

Goto(c, at) == client' = [client EXCEPT ![c].repo.at = at]
Answered(reply) == [NoCall EXCEPT !.at = "answered", !.reply = reply]
Answer(c, status) ==
    client' = [client EXCEPT ![c].repo = Answered([NoReply EXCEPT !.status = status])]
AnswerConnection(c, connection) ==
    client' = [client EXCEPT ![c].repo =
        Answered([NoReply EXCEPT !.status = "ok", !.connection = connection])]
AnswerCredentials(c, credentials) ==
    client' = [client EXCEPT ![c].repo =
        Answered([NoReply EXCEPT !.status = "ok", !.credentials = credentials])]

(* invalid_record(): what is stored is not what a commit may leave.        *)
Invalid(c) == Answer(c, "invalid")

Calling(f, call, start) ==
    [f EXCEPT !.repo = [NoCall EXCEPT !.call = call, !.start = start, !.at = start]]

Retry(c) ==
    LET repo == client[c].repo IN
    IF repo.round + 1 < max_commit_attempts
    THEN client' = [client EXCEPT ![c].repo =
            [NoCall EXCEPT !.call = repo.call, !.start = repo.start, !.at = repo.start,
                           !.round = repo.round + 1]]
    ELSE Answer(c, "threw")

Reads == UNCHANGED <<kv, clock, now>>

call(c) == client[c].repo.call
at(c, step) == client[c].repo.at = step
stored(key) == get(key).val

-----------------------------------------------------------------------------
(* create. *)

ConnectionEntries(connection) ==
    LET id == connection.connection_id
        pointers == {active_key(connection.user_id), user_key(connection.user_id, id)}
    IN Overlay(Single(connection_key(id), connection),
               [key \in pointers |-> [connection_id |-> id]])

CreateRead(c) ==
    LET connection == call(c).connection
        id == connection.connection_id
        taken == present(get(connection_key(id)))
        active == present(get(active_key(connection.user_id)))
    IN
    /\ at(c, "create_read")
    /\ \/ taken /\ Answer(c, "connection_id_conflict")
       \/ ~taken /\ active /\ Answer(c, "active_connection_conflict")
       \/ ~taken /\ ~active /\ present(get(user_key(connection.user_id, id))) /\ Invalid(c)
       \/ ~taken /\ ~active /\ ~present(get(user_key(connection.user_id, id)))
          /\ Goto(c, "create_commit")
    /\ Reads

CreateCommit(c) ==
    LET entries == ConnectionEntries(call(c).connection)
        absent == AllCurrent({<<key, Absent.vs>> : key \in DOMAIN entries})
    IN
    /\ at(c, "create_commit")
    /\ \/ absent /\ Write(entries, {}) /\ AnswerConnection(c, call(c).connection)
       \/ ~absent /\ Retry(c) /\ UNCHANGED <<kv, clock>>
    /\ UNCHANGED now

-----------------------------------------------------------------------------
(* find_by_id, find_active_by_user_provider, list_by_user. *)

FindById(c) ==
    LET entry == get(connection_key(call(c).id)) IN
    /\ at(c, "find_by_id")
    /\ IF present(entry) THEN AnswerConnection(c, entry.val) ELSE Answer(c, "null")
    /\ Reads

FindActiveIndex(c) ==
    LET index == get(active_key(call(c).user)) IN
    /\ at(c, "find_active")
    /\ \/ ~present(index) /\ Answer(c, "null")
       \/ present(index)
          /\ client' = [client EXCEPT ![c].repo.at = "find_active_record", ![c].repo.index = index]
    /\ Reads

FindActiveRecord(c) ==
    LET entry == get(connection_key(client[c].repo.index.val.connection_id))
        live == present(entry) /\ entry.val.status = "active"
    IN
    /\ at(c, "find_active_record")
    /\ \/ live /\ AnswerConnection(c, entry.val)
       \/ ~live /\ Goto(c, "find_active_again")
    /\ Reads

(* Mutant: an index entry without its connection is never read again. *)
IndexMoved_never(c) == FALSE

(* A concurrent revoke or reactivation may change the index between reads. *)
IndexMoved(c) == get(active_key(call(c).user)).vs # client[c].repo.index.vs

FindActiveAgain(c) ==
    /\ at(c, "find_active_again")
    /\ \/ IndexMoved(c) /\ Retry(c)
       \/ ~IndexMoved(c) /\ Invalid(c)
    /\ Reads

(* The listing reads its index, then each record. *)
ListIndex(c) ==
    LET ids == {key[3] : key \in {k \in DOMAIN kv : k[1] = "user" /\ k[2] = call(c).user}} IN
    /\ at(c, "list")
    /\ client' = [client EXCEPT ![c].repo.at = "list_records", ![c].repo.left = ids]
    /\ Reads

ListRecord(c) ==
    LET repo == client[c].repo IN
    /\ at(c, "list_records")
    /\ \/ /\ repo.left = {}
          /\ client' = [client EXCEPT ![c].repo =
                Answered([NoReply EXCEPT !.status = "ok", !.list = repo.found])]
       \/ \E id \in repo.left :
             IF present(get(connection_key(id)))
             THEN client' = [client EXCEPT ![c].repo.left = @ \ {id},
                                           ![c].repo.found = @ \cup {stored(connection_key(id))}]
             ELSE Invalid(c)
    /\ Reads

-----------------------------------------------------------------------------
(* reauthorize and revoke: the record and the active index are checked.    *)

ReauthorizeRead(c) ==
    LET entry == get(connection_key(call(c).id))
        own == present(entry) /\ entry.val.user_id = call(c).user
        same == own /\ entry.val.provider_subject = call(c).subject
    IN
    /\ at(c, "reauthorize")
    /\ \/ ~own /\ Answer(c, "not_found")
       \/ own /\ ~same /\ Answer(c, "provider_subject_mismatch")
       \/ same /\ call(c).time < entry.val.updated_at /\ Answer(c, "threw")
       \/ /\ same /\ call(c).time >= entry.val.updated_at
          /\ client' = [client EXCEPT ![c].repo.at = "reauthorize_active",
                                      ![c].repo.entry = entry]
    /\ Reads

ReauthorizeActive(c) ==
    LET index == get(active_key(call(c).user))
        other == present(index) /\ index.val.connection_id # call(c).id
    IN
    /\ at(c, "reauthorize_active")
    /\ \/ other /\ Answer(c, "active_connection_conflict")
       \/ ~other /\ client' = [client EXCEPT ![c].repo.at = "reauthorize_commit",
                                             ![c].repo.index = index]
    /\ Reads

ConnectionChecks(c) ==
    {<<connection_key(call(c).id), client[c].repo.entry.vs>>,
     <<active_key(call(c).user), client[c].repo.index.vs>>}

ReauthorizeCommit(c) ==
    LET id == call(c).id
        connection == [client[c].repo.entry.val EXCEPT !.status = "active",
                                                       !.updated_at = call(c).time]
    IN
    /\ at(c, "reauthorize_commit")
    /\ \/ /\ AllCurrent(ConnectionChecks(c))
          /\ Write(Overlay(Overlay(Single(connection_key(id), connection),
                                   Single(active_key(call(c).user), [connection_id |-> id])),
                           Single(credentials_key(id), call(c).credentials)), {})
          /\ AnswerConnection(c, connection)
       \/ ~AllCurrent(ConnectionChecks(c)) /\ Retry(c) /\ UNCHANGED <<kv, clock>>
    /\ UNCHANGED now

RevokeRead(c) ==
    LET entry == get(connection_key(call(c).id))
        own == present(entry) /\ entry.val.user_id = call(c).user
        active == own /\ entry.val.status = "active"
    IN
    /\ at(c, "revoke")
    /\ \/ ~own /\ Answer(c, "null")
       \/ own /\ ~active /\ AnswerConnection(c, entry.val)
       \/ active /\ call(c).time < entry.val.updated_at /\ Answer(c, "threw")
       \/ /\ active /\ call(c).time >= entry.val.updated_at
          /\ client' = [client EXCEPT ![c].repo.at = "revoke_active", ![c].repo.entry = entry]
    /\ Reads

RevokeActive(c) ==
    LET index == get(active_key(call(c).user))
        this == present(index) /\ index.val.connection_id = call(c).id
    IN
    /\ at(c, "revoke_active")
    /\ \/ ~this /\ Goto(c, "revoke_again")
       \/ this /\ client' = [client EXCEPT ![c].repo.at = "revoke_commit", ![c].repo.index = index]
    /\ Reads

RevokeAgain(c) ==
    LET moved == get(connection_key(call(c).id)).vs # client[c].repo.entry.vs IN
    /\ at(c, "revoke_again")
    /\ \/ moved /\ Retry(c)
       \/ ~moved /\ Invalid(c)
    /\ Reads

(* What a revocation deletes. *)
Revocation(c) == {active_key(call(c).user), credentials_key(call(c).id)}

RevokeCommit(c) ==
    LET revoked == [client[c].repo.entry.val EXCEPT !.status = "revoked",
                                                    !.updated_at = call(c).time]
    IN
    /\ at(c, "revoke_commit")
    /\ \/ /\ AllCurrent(ConnectionChecks(c))
          /\ Write(Single(connection_key(call(c).id), revoked), Revocation(c))
          /\ AnswerConnection(c, revoked)
       \/ ~AllCurrent(ConnectionChecks(c)) /\ Retry(c) /\ UNCHANGED <<kv, clock>>
    /\ UNCHANGED now

-----------------------------------------------------------------------------
(* get_credentials and put_credentials. *)

GetCredentials(c) ==
    LET connection == get(connection_key(call(c).id))
        credentials == get(credentials_key(call(c).id))
        active == present(connection) /\ connection.val.status = "active"
    IN
    /\ at(c, "get_credentials")
    /\ \/ ~present(connection) /\ AnswerCredentials(c, None)
       \/ present(connection) /\ ~active /\ present(credentials) /\ Invalid(c)
       \/ present(connection) /\ ~active /\ ~present(credentials) /\ AnswerCredentials(c, None)
       \/ active /\ AnswerCredentials(c, credentials.val)
    /\ Reads

PutRead(c) ==
    LET entry == get(connection_key(call(c).id))
        active == present(entry) /\ entry.val.status = "active"
    IN
    /\ at(c, "put_credentials")
    /\ \/ ~active /\ Answer(c, "false")
       \/ active /\ client' = [client EXCEPT ![c].repo.at = "put_commit", ![c].repo.entry = entry]
    /\ Reads

(* Mutant: credentials are stored without checking their connection. *)
PutCheck_none(c) == {}

PutCheck(c) == {<<connection_key(call(c).id), client[c].repo.entry.vs>>}

PutCommit(c) ==
    /\ at(c, "put_commit")
    /\ \/ /\ AllCurrent(PutCheck(c))
          /\ Write(Single(credentials_key(call(c).id), call(c).credentials), {})
          /\ Answer(c, "ok")
       \/ ~AllCurrent(PutCheck(c)) /\ Retry(c) /\ UNCHANGED <<kv, clock>>
    /\ UNCHANGED now

-----------------------------------------------------------------------------
(* The OAuth attempts: save and consume.  A state is drawn once, so that   *)
(* save never finds it taken.                                              *)

SaveAttempt(c) ==
    /\ at(c, "save_attempt")
    /\ Write(Single(attempt_key(call(c).state), call(c).attempt), {})
    /\ Answer(c, "ok")
    /\ UNCHANGED now

ConsumeRead(c) ==
    LET entry == get(attempt_key(call(c).state))
        usable == /\ present(entry)
                  /\ entry.val.session_id = call(c).session /\ entry.val.user_id = call(c).user
                  /\ call(c).time < entry.val.expires_at
    IN
    /\ at(c, "consume")
    /\ \/ ~usable /\ Answer(c, "null")
       \/ usable /\ client' = [client EXCEPT ![c].repo.at = "consume_commit",
                                             ![c].repo.entry = entry]
    /\ Reads

AttemptCheck(c) == {<<attempt_key(call(c).state), client[c].repo.entry.vs>>}

ConsumeCommit(c) ==
    /\ at(c, "consume_commit")
    /\ \/ /\ AllCurrent(AttemptCheck(c))
          /\ Write(NoEntries, {attempt_key(call(c).state)})
          /\ Answer(c, "ok")
       \/ ~AllCurrent(AttemptCheck(c)) /\ Retry(c) /\ UNCHANGED <<kv, clock>>
    /\ UNCHANGED now

RepositoryStep(c) ==
    \/ CreateRead(c) \/ CreateCommit(c)
    \/ FindById(c) \/ FindActiveIndex(c) \/ FindActiveRecord(c) \/ FindActiveAgain(c)
    \/ ListIndex(c) \/ ListRecord(c)
    \/ ReauthorizeRead(c) \/ ReauthorizeActive(c) \/ ReauthorizeCommit(c)
    \/ RevokeRead(c) \/ RevokeActive(c) \/ RevokeAgain(c) \/ RevokeCommit(c)
    \/ GetCredentials(c) \/ PutRead(c) \/ PutCommit(c)
    \/ SaveAttempt(c) \/ ConsumeRead(c) \/ ConsumeCommit(c)
=============================================================================
