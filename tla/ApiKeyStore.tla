----------------------------- MODULE ApiKeyStore -----------------------------
(***************************************************************************)
(* What an API-key repository promises (lib/api-key/interfaces.ts), in the *)
(* shape of MemoryApiKeyRepository: every call is one synchronous step     *)
(* over the live keys, and revoke_all_by_owner takes every key of an owner *)
(* at once.                                                                *)
(*                                                                         *)
(* Permissions, expiry and label are one datum, the metadata an update     *)
(* replaces.                                                               *)
(***************************************************************************)
EXTENDS Naturals

CONSTANTS KeyIds, Owners, Hashes, Metadata, MaxRevision, None

VARIABLE keys  \* #records: id -> live key or None

ApiKeyRecord ==
    [owner_user_id : Owners, secret_hash : Hashes, metadata : Metadata,
     revision : 1 .. MaxRevision]

(* A repository without keys, or what earlier calls left in one. *)
Init ==
    /\ keys \in [KeyIds -> ApiKeyRecord \cup {None}]
    /\ \A i, j \in KeyIds :
          i # j /\ keys[i] # None /\ keys[j] # None =>
              keys[i].secret_hash # keys[j].secret_hash

create(id, record) ==
    /\ keys[id] = None /\ record.revision = 1
    /\ \A other \in KeyIds : keys[other] # None => keys[other].secret_hash # record.secret_hash
    /\ keys' = [keys EXCEPT ![id] = record]

update(id, owner, expected_revision, metadata) ==
    /\ keys[id] # None
    /\ keys[id].owner_user_id = owner
    /\ keys[id].revision = expected_revision
    /\ keys' = [keys EXCEPT ![id].metadata = metadata, ![id].revision = @ + 1]

revoke(id, owner, expected_revision) ==
    /\ keys[id] # None
    /\ keys[id].owner_user_id = owner
    /\ keys[id].revision = expected_revision
    /\ keys' = [keys EXCEPT ![id] = None]

revoke_all_by_owner(owner) ==
    keys' = [id \in KeyIds |->
                IF keys[id] # None /\ keys[id].owner_user_id = owner THEN None ELSE keys[id]]

Next ==
    \/ \E id \in KeyIds, record \in ApiKeyRecord : create(id, record)
    \/ \E id \in KeyIds, owner \in Owners, expected \in 1 .. MaxRevision :
          \/ \E metadata \in Metadata : update(id, owner, expected, metadata)
          \/ revoke(id, owner, expected)
    \/ \E owner \in Owners : revoke_all_by_owner(owner)

Spec == Init /\ [][Next]_keys
=============================================================================
