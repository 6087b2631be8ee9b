------------------------------ MODULE KvIdentities ------------------------------
(***************************************************************************)
(* lib/auth/kv-identity-repository.ts: find_or_create, which answers with  *)
(* the user of an external identity.  Of a profile only the time it was    *)
(* observed is kept.                                                       *)
(***************************************************************************)
EXTENDS KvSessions

CONSTANTS Subjects, UserIds, max_id_generation_attempts

user_key(user) == <<"user", user>>
identity_key(subject) == <<"identity", subject>>

ThisIdentity(c) == identity_key(client[c].repo.call.subject)

(* A user id is drawn for an identity nobody has. *)
DrawUser(c, round) ==
    \/ /\ round < max_id_generation_attempts
       /\ \E user \in UserIds :
             client' = [client EXCEPT ![c].repo.at = "read new user", ![c].repo.index = user,
                                      ![c].repo.round = round]
    \/ round >= max_id_generation_attempts /\ Answer(c, "threw")

(* #resolve_existing with the entry just read. *)
Existing(c, entry, round) ==
    client' = [client EXCEPT ![c].repo.at = "read user", ![c].repo.entry = entry,
                             ![c].repo.round = round]

ReadIdentity(c) ==
    LET entry == get(ThisIdentity(c)) IN
    /\ client[c].repo.at = "read identity"
    /\ \/ present(entry) /\ Existing(c, entry, 0)
       \/ ~present(entry) /\ DrawUser(c, 0)
    /\ Reads

ReadNewUser(c) ==
    /\ client[c].repo.at = "read new user"
    /\ \/ present(get(user_key(client[c].repo.index))) /\ Goto(c, "read identity again")
       \/ ~present(get(user_key(client[c].repo.index))) /\ Goto(c, "create identity")
    /\ Reads

(* After a taken user id or a refused creation. *)
ReadIdentityAgain(c) ==
    LET entry == get(ThisIdentity(c)) IN
    /\ client[c].repo.at = "read identity again"
    /\ \/ present(entry) /\ Existing(c, entry, 0)
       \/ ~present(entry) /\ DrawUser(c, client[c].repo.round + 1)
    /\ Reads

(* Mutant: an identity is created without checking that there is none. *)
CreationChecks_user_only(c) == {<<user_key(client[c].repo.index), Absent.vs>>}

CreationChecks(c) ==
    {<<user_key(client[c].repo.index), Absent.vs>>, <<ThisIdentity(c), Absent.vs>>}

CreateIdentity(c) ==
    LET user == client[c].repo.index
        observed_at == client[c].repo.call.time
    IN
    /\ client[c].repo.at = "create identity"
    /\ \/ /\ AllCurrent(CreationChecks(c))
          /\ Write(Overlay(Single(user_key(user), [created_at |-> observed_at]),
                           Single(ThisIdentity(c),
                                  [user_id |-> user, updated_at |-> observed_at])), {})
          /\ AnswerWith(c, user, None)
       \/ ~AllCurrent(CreationChecks(c)) /\ Goto(c, "read identity again") /\ UNCHANGED <<kv, clock>>
    /\ UNCHANGED now

(* Mutant: an observation is stored whatever is there. *)
Outdated_never(identity, observed_at) == FALSE

(* An observation older than the stored profile is not stored. *)
Outdated(identity, observed_at) == observed_at < identity.updated_at

ReadUser(c) ==
    LET identity == client[c].repo.entry.val IN
    /\ client[c].repo.at = "read user"
    /\ \/ ~present(get(user_key(identity.user_id))) /\ Answer(c, "threw")
       \/ /\ present(get(user_key(identity.user_id)))
          /\ IF Outdated(identity, client[c].repo.call.time)
             THEN AnswerWith(c, identity.user_id, None) ELSE Goto(c, "update identity")
    /\ Reads

UpdateIdentity(c) ==
    LET entry == client[c].repo.entry
        current == AllCurrent({<<ThisIdentity(c), entry.vs>>})
    IN
    /\ client[c].repo.at = "update identity"
    /\ \/ /\ current
          /\ Write(Single(ThisIdentity(c),
                          [entry.val EXCEPT !.updated_at = client[c].repo.call.time]), {})
          /\ AnswerWith(c, entry.val.user_id, None)
       \/ ~current /\ Goto(c, "reread identity") /\ UNCHANGED <<kv, clock>>
    /\ UNCHANGED now

RereadIdentity(c) ==
    LET entry == get(ThisIdentity(c))
        round == client[c].repo.round + 1
    IN
    /\ client[c].repo.at = "reread identity"
    /\ IF present(entry) /\ round < max_update_attempts
       THEN Existing(c, entry, round) ELSE Answer(c, "threw")
    /\ Reads

IdentityStep(c) ==
    \/ ReadIdentity(c) \/ ReadNewUser(c) \/ ReadIdentityAgain(c) \/ CreateIdentity(c)
    \/ ReadUser(c) \/ UpdateIdentity(c) \/ RereadIdentity(c)
=============================================================================
