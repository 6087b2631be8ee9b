------------------------------- MODULE KvSessions -------------------------------
(***************************************************************************)
(* lib/session/kv-repository.ts: sessions over Deno KV, a record by        *)
(* session and an index entry by credential.  The call a request makes is  *)
(* in client[c].repo; a step of it is one read or one atomic operation,    *)
(* and the last one leaves the reply there for the service.                *)
(***************************************************************************)
EXTENDS SessionRecords, FiniteSets

CONSTANTS Clients, max_update_attempts

VARIABLES kv, clock,
          now,     \* the time of day
          client   \* client -> the frame of the request it serves

INSTANCE DenoKv

record_key(id) == <<"session", id>>
credential_key(credential) == <<"credential", credential>>

NoReply == [status |-> "none", id |-> None, record |-> None]

NoCall == [at |-> "none", call |-> None, start |-> "none", round |-> 0,
           entry |-> Absent, index |-> Absent, reply |-> NoReply]

Become(c, f) == client' = [client EXCEPT ![c] = f]
Goto(c, at) == client' = [client EXCEPT ![c].repo.at = at]
Answer(c, status) ==
    client' = [client EXCEPT ![c].repo =
        [NoCall EXCEPT !.at = "answered", !.reply.status = status]]
AnswerWith(c, id, record) ==
    client' = [client EXCEPT ![c].repo =
        [NoCall EXCEPT !.at = "answered",
                       !.reply = [status |-> "ok", id |-> id, record |-> record]]]

(* f, having called the repository; the call starts at a step. *)
Calling(f, call, start) ==
    [f EXCEPT !.repo = [NoCall EXCEPT !.call = call, !.start = start, !.at = start]]

(* The next round of the for loop, or "remained contended". *)
Retry(c) ==
    LET repo == client[c].repo IN
    IF repo.round + 1 < max_update_attempts
    THEN client' = [client EXCEPT ![c].repo =
            [NoCall EXCEPT !.call = repo.call, !.start = repo.start, !.at = repo.start,
                           !.round = repo.round + 1]]
    ELSE Answer(c, "threw")

Reads == UNCHANGED <<kv, clock, now>>

-----------------------------------------------------------------------------
(* find_by_credential_hash. *)

FindIndex(c) ==
    LET index == get(credential_key(client[c].repo.call.credential)) IN
    /\ client[c].repo.at = "find index"
    /\ \/ ~present(index) /\ Answer(c, "null")
       \/ /\ present(index)
          /\ client' = [client EXCEPT ![c].repo.at = "find record", ![c].repo.index = index]
    /\ Reads

FindRecord(c) ==
    LET repo == client[c].repo
        index == get(credential_key(repo.call.credential))
        id == repo.index.val.session_id
        entry == get(record_key(id))
    IN
    /\ repo.at = "find record"
    /\ \/ index.vs # repo.index.vs /\ Retry(c)
       \/ index.vs = repo.index.vs /\ ~present(entry) /\ Goto(c, "drop index")
       \/ /\ index.vs = repo.index.vs /\ present(entry)
          /\ IF entry.val.credential = repo.call.credential
             THEN AnswerWith(c, id, entry.val) ELSE Answer(c, "threw")
    /\ Reads

DropIndex(c) ==
    LET key == credential_key(client[c].repo.call.credential) IN
    /\ client[c].repo.at = "drop index"
    /\ \/ AllCurrent({<<key, client[c].repo.index.vs>>}) /\ Write(NoEntries, {key})
       \/ ~AllCurrent({<<key, client[c].repo.index.vs>>}) /\ UNCHANGED <<kv, clock>>
    /\ Answer(c, "null")
    /\ UNCHANGED now

-----------------------------------------------------------------------------
(* create: one try. *)

(* The entries of a session; Deno KV keeps each until it expires. *)
Index(id, record) == [session_id |-> id, expires |-> record.absolute_expires]

SessionEntries(id, record) ==
    Overlay(Single(record_key(id), record),
            Single(credential_key(record.credential), Index(id, record)))

ReadNew(c) ==
    LET call == client[c].repo.call
        taken == \E key \in DOMAIN SessionEntries(call.id, call.record) : key \in DOMAIN kv
    IN
    /\ client[c].repo.at = "read new"
    /\ \/ taken /\ Answer(c, "taken")
       \/ ~taken /\ Goto(c, "create")
    /\ Reads

CreateCommit(c) ==
    LET call == client[c].repo.call
        entries == SessionEntries(call.id, call.record)
        absent == AllCurrent({<<key, Absent.vs>> : key \in DOMAIN entries})
    IN
    /\ client[c].repo.at = "create"
    /\ \/ absent /\ Write(entries, {}) /\ AnswerWith(c, call.id, call.record)
       \/ ~absent /\ UNCHANGED <<kv, clock>> /\ Answer(c, "taken")
    /\ UNCHANGED now

-----------------------------------------------------------------------------
(* renew, save_authentication_attempt, consume_authentication_attempt,     *)
(* upgrade, logout and revoke: #load_record, then a checked commit.        *)

Load(c) ==
    LET call == client[c].repo.call
        entry == get(record_key(call.id))
        next == IF call.op = "upgrade" THEN "read credential" ELSE "commit"
    IN
    /\ client[c].repo.at = "load"
    /\ \/ ~present(entry) /\ Answer(c, "stale_session")
       \/ present(entry) /\ StaleVersion(entry.val, call) /\ Answer(c, "stale_session")
       \/ /\ present(entry) /\ ~StaleVersion(entry.val, call)
          /\ IF Refusal(entry.val, call) # None
             THEN Answer(c, Refusal(entry.val, call))
             ELSE client' = [client EXCEPT ![c].repo.at = next, ![c].repo.entry = entry]
    /\ Reads

CredentialTaken(credential) == credential_key(credential) \in DOMAIN kv

ReadCredential(c) ==
    /\ client[c].repo.at = "read credential"
    /\ \/ CredentialTaken(client[c].repo.call.credential) /\ Goto(c, "recheck")
       \/ ~CredentialTaken(client[c].repo.call.credential) /\ Goto(c, "commit")
    /\ Reads

Recheck(c) ==
    LET repo == client[c].repo
        moved == get(record_key(repo.call.id)).vs # repo.entry.vs
    IN
    /\ repo.at = "recheck"
    /\ \/ moved /\ Retry(c)
       \/ ~moved /\ Answer(c, "credential_collision")
    /\ Reads

(* Mutant: a commit does not check the record it read. *)
RecordCheck_none(repo) == {}

RecordCheck(repo) == {<<record_key(repo.call.id), repo.entry.vs>>}

(* The index entry of the credential that stops resolving. *)
OldCredential(repo) ==
    IF repo.call.op \in {"upgrade", "logout", "revoke"}
    THEN {credential_key(repo.entry.val.credential)} ELSE {}

Commit(c) ==
    LET repo == client[c].repo
        call == repo.call
        updated == Updated(repo.entry.val, call)
        current == AllCurrent(RecordCheck(repo)
                              \cup (IF call.op = "upgrade"
                                    THEN {<<credential_key(call.credential), Absent.vs>>} ELSE {}))
    IN
    /\ repo.at = "commit"
    /\ \/ /\ current
          /\ Write(IF call.op = "upgrade" THEN SessionEntries(call.id, updated)
                   ELSE Single(record_key(call.id), updated), OldCredential(repo))
          /\ IF Missed(repo.entry.val, call)
             THEN Answer(c, "not_found") ELSE AnswerWith(c, call.id, updated)
       \/ ~current /\ Retry(c) /\ UNCHANGED <<kv, clock>>
    /\ UNCHANGED now

RepositoryStep(c) ==
    \/ FindIndex(c) \/ FindRecord(c) \/ DropIndex(c)
    \/ ReadNew(c) \/ CreateCommit(c)
    \/ Load(c) \/ ReadCredential(c) \/ Recheck(c) \/ Commit(c)

(* Deno KV drops an entry some time after it has expired. *)
Expire ==
    /\ \E key \in DOMAIN kv :
          /\ \/ key[1] = "session" /\ kv[key].val.absolute_expires <= now
             \/ key[1] = "credential" /\ kv[key].val.expires <= now
          /\ kv' = [k \in DOMAIN kv \ {key} |-> kv[k]]
    /\ UNCHANGED <<clock, now, client>>
=============================================================================
