------------------------------ MODULE KvApiKeys ------------------------------
(***************************************************************************)
(* lib/api-key/kv-repository.ts: API keys over Deno KV.  A key is a record *)
(* with the owner's generation at its creation, an index entry by secret   *)
(* hash and an owner row.  It is live while its generation is its owner's; *)
(* revoke_all_by_owner bumps the generation and then purges what is dead.  *)
(*                                                                         *)
(* One client runs one repository call at a time, a single-key read or an  *)
(* atomic operation per step; a process can stop between any two.          *)
(***************************************************************************)
EXTENDS Naturals, FiniteSets

CONSTANTS KeyIds, Owners, Hashes, Metadata, MaxRevision, None,
          Clients,            \* concurrent callers
          Scenarios,          \* entries to start from, each with calls to come
          max_commit_attempts

VARIABLES kv, clock,
          requests, \* the calls still to come
          client    \* client -> frame of its current call

INSTANCE DenoKv

vars == <<kv, clock, requests, client>>

record_key(id) == <<"by-id", id>>
secret_key(hash) == <<"by-secret-hash", hash>>
owner_key(owner, id) == <<"by-owner", owner, id>>
generation_key(owner) == <<"owner-generation", owner>>

StoredRecord ==
    [owner_user_id : Owners, secret_hash : Hashes, metadata : Metadata,
     revision : 1 .. MaxRevision, owner_generation : Nat]

(* What can be stored at a key. *)
ValuesAt(key) ==
    IF key[1] = "by-id" THEN StoredRecord
    ELSE IF key[1] = "owner-generation" THEN Nat \ {0} ELSE KeyIds

generation_of(entry) == IF present(entry) THEN entry.val ELSE 0

Generation(owner) == generation_of(get(generation_key(owner)))

(* The entries of a key whose record is stored. *)
KeyEntries(id, stored) ==
    [key \in {record_key(id), secret_key(stored.secret_hash), owner_key(stored.owner_user_id, id)}
        |-> IF key = record_key(id) THEN stored ELSE id]

(* One call of the repository; n tells apart calls that are alike.         *)
Request ==
         [kind : {"create"}, id : KeyIds, owner : Owners, hash : Hashes, metadata : Metadata]
    \cup [kind : {"find_by_id"}, id : KeyIds]
    \cup [kind : {"find_by_secret_hash"}, hash : Hashes]
    \cup [kind : {"list_by_owner"}, owner : Owners]
    \cup [kind : {"revoke_all"}, owner : Owners, n : Nat]
    \cup [kind : {"update"}, id : KeyIds, owner : Owners, metadata : Metadata,
          expected_revision : 1 .. MaxRevision - 1]
    \cup [kind : {"revoke"}, id : KeyIds, owner : Owners, expected_revision : 1 .. MaxRevision]

(* Entries that earlier calls can have left: each record with its index    *)
(* entry and its owner row, of a generation its owner has had.             *)
EntriesOK(entries) ==
    LET stored(key) == key \in DOMAIN entries
        record(id) == entries[record_key(id)]
        generation(o) == IF stored(generation_key(o)) THEN entries[generation_key(o)] ELSE 0
    IN
    /\ \A key \in DOMAIN entries : entries[key] \in ValuesAt(key)
    /\ \A id \in KeyIds : stored(record_key(id)) =>
          /\ stored(owner_key(record(id).owner_user_id, id))
          /\ stored(secret_key(record(id).secret_hash))
          /\ entries[secret_key(record(id).secret_hash)] = id
          /\ record(id).owner_generation <= generation(record(id).owner_user_id)
    /\ \A o \in Owners, id \in KeyIds : stored(owner_key(o, id)) =>
          stored(record_key(id)) /\ record(id).owner_user_id = o
    /\ \A h \in Hashes : stored(secret_key(h)) =>
          LET id == entries[secret_key(h)]
          IN stored(record_key(id)) /\ record(id).secret_hash = h

ASSUME ApiKeyAssumption ==
    /\ MaxRevision \in Nat \ {0} /\ max_commit_attempts \in Nat \ {0}
    /\ None \notin KeyIds \cup Owners \cup Hashes \cup StoredRecord \cup {"found"}
    /\ \A s \in Scenarios : EntriesOK(s.entries) /\ s.requests \subseteq Request

(* id, entry: the record at hand.  was_live: whether it was live when it   *)
(* was read, for a property; no step reads it.                             *)
Idle == [at |-> "idle", req |-> None, attempt |-> 0, reply |-> None,
         id |-> None, entry |-> Absent, was_live |-> FALSE, generation |-> Absent,
         id_entry |-> Absent, hash_entry |-> Absent, secret_entry |-> Absent,
         stale |-> {}, secrets |-> NoEntries, rows |-> {}, live |-> {}]

Init ==
    \E s \in Scenarios :
        /\ kv = Stamped(s.entries, 1)
        /\ clock = 1
        /\ requests = s.requests
        /\ client = [c \in Clients |-> Idle]

-----------------------------------------------------------------------------
(* The frame of a call. *)

Become(c, f) == client' = [client EXCEPT ![c] = f]
Return(c, reply) == Become(c, [Idle EXCEPT !.reply = reply])
Throw(c, f, error) == Become(c, [f EXCEPT !.at = error])
invalid_record(c, f) == Throw(c, f, "invalid record")

Begin(c, f) ==
    LET kind == f.req.kind IN
    \/ kind \in {"create", "list_by_owner", "revoke_all"}
       /\ Become(c, [f EXCEPT !.at = "generation"])
    \/ kind \in {"find_by_id", "update", "revoke"}
       /\ Become(c, [f EXCEPT !.at = "record", !.id = f.req.id])
    \/ kind = "find_by_secret_hash" /\ Become(c, [f EXCEPT !.at = "secret"])

Call(c, req) ==
    /\ client[c].at \in {"idle", "invalid record", "remained contended"}
    /\ requests' = requests \ {req}
    /\ Begin(c, [Idle EXCEPT !.req = req])
    /\ UNCHANGED <<kv, clock>>

(* An atomic operation refused: the next round of the for loop. *)
Retry(c, f) ==
    LET again == [Idle EXCEPT !.req = f.req, !.attempt = f.attempt + 1]
    IN IF again.attempt < max_commit_attempts
       THEN Begin(c, again) ELSE Throw(c, again, "remained contended")

(* A step that reads the entry of key and then Continues. *)
Read(c, at, key, Continue(_, _, _)) ==
    /\ client[c].at = at
    /\ Continue(c, client[c], get(key))
    /\ UNCHANGED <<kv, clock, requests>>

-----------------------------------------------------------------------------
(* Walks over the owner's rows, and purges.                                *)

NextRow(c, f) ==
    \/ \E id \in f.rows : Become(c, [f EXCEPT !.at = "record", !.id = id, !.rows = @ \ {id}])
    \/ /\ f.rows = {}
       /\ \/ f.req.kind = "list_by_owner" /\ Return(c, "listed")
          \/ f.req.kind = "revoke_all" /\ Become(c, [f EXCEPT !.at = "commit"])

Purge(c, f) == Become(c, [f EXCEPT !.at = "purge"])

NextDead(c, f) ==
    \/ \E dead \in f.live :
          Purge(c, [f EXCEPT !.id = dead[1], !.entry = dead[2], !.live = @ \ {dead}])
    \/ f.live = {} /\ Return(c, "revoked all")

AfterPurge(c, f) ==
    \/ f.req.kind = "list_by_owner" /\ NextRow(c, f)
    \/ f.req.kind = "revoke_all" /\ NextDead(c, f)
    \/ f.req.kind \notin {"list_by_owner", "revoke_all"} /\ Return(c, "not_found")

SecretRead(c, f, entry) ==
    Become(c, [f EXCEPT !.secret_entry = entry,
                        !.at = IF f.at = "purge" THEN "purge commit" ELSE "commit"])

(* A removal: the record and its rows, with the index entry if it is this  *)
(* key's.                                                                  *)
OwnSecret(f) == present(f.secret_entry) /\ f.secret_entry.val = f.id

RemovalChecks(f) ==
    {<<record_key(f.id), f.entry.vs>>} \cup
    (IF OwnSecret(f) THEN {<<secret_key(f.entry.val.secret_hash), f.secret_entry.vs>>} ELSE {})

Removal(f) ==
    {record_key(f.id), owner_key(f.entry.val.owner_user_id, f.id)} \cup
    (IF OwnSecret(f) THEN {secret_key(f.entry.val.secret_hash)} ELSE {})

(* #purge: best effort, its outcome is not looked at. *)
PurgeCommit(c) ==
    LET f == client[c] IN
    /\ f.at = "purge commit"
    /\ \/ AllCurrent(RemovalChecks(f)) /\ Write(NoEntries, Removal(f))
       \/ ~AllCurrent(RemovalChecks(f)) /\ UNCHANGED <<kv, clock>>
    /\ AfterPurge(c, f)
    /\ UNCHANGED requests

-----------------------------------------------------------------------------
(* Reads of every call but create.                                         *)

GenerationRead(c, f, entry) ==
    \/ /\ f.req.kind = "create"
       /\ Become(c, [f EXCEPT !.generation = entry, !.at = "record", !.id = f.req.id])
    \/ /\ f.req.kind \in {"list_by_owner", "revoke_all"}
       /\ Become(c, [f EXCEPT !.generation = entry, !.at = "rows"])

ListRows(c) ==
    LET f == client[c]
        owned == {id \in KeyIds : owner_key(f.req.owner, id) \in DOMAIN kv}
    IN
    /\ f.at = "rows"
    /\ NextRow(c, [f EXCEPT !.rows = owned])
    /\ UNCHANGED <<kv, clock, requests>>

IndexRead(c, f, entry) ==
    \/ ~present(entry) /\ Return(c, "not_found")
    \/ present(entry) /\ Become(c, [f EXCEPT !.at = "record", !.id = entry.val])

(* The keys a walk keeps: those of the generation read before the rows.    *)
SameGeneration(f, entry) == entry.val.owner_generation = generation_of(f.generation)

RecordRead(c, f, entry) ==
    LET kind == f.req.kind
        next == [f EXCEPT !.entry = entry,
                          !.was_live = present(entry) /\
                              entry.val.owner_generation = Generation(entry.val.owner_user_id)]
    IN
    \/ kind = "create" /\ Become(c, [f EXCEPT !.id_entry = entry, !.at = "hash"])
    \/ /\ ~present(entry)
       /\ \/ kind \in {"find_by_id", "update", "revoke"} /\ Return(c, "not_found")
          \/ kind \in {"find_by_secret_hash", "list_by_owner", "revoke_all"} /\ invalid_record(c, f)
    \/ /\ present(entry) /\ kind = "find_by_secret_hash"
       /\ \/ entry.val.secret_hash # f.req.hash /\ invalid_record(c, f)
          \/ entry.val.secret_hash = f.req.hash /\ Become(c, [next EXCEPT !.at = "live"])
    \/ /\ present(entry) /\ kind \in {"find_by_id", "update", "revoke"}
       /\ Become(c, [next EXCEPT !.at = "live"])
    \/ /\ present(entry) /\ kind \in {"list_by_owner", "revoke_all"}
       /\ entry.val.owner_user_id # f.req.owner /\ invalid_record(c, f)
    \/ /\ present(entry) /\ kind = "list_by_owner" /\ entry.val.owner_user_id = f.req.owner
       /\ \/ SameGeneration(f, entry) /\ NextRow(c, f)
          \/ ~SameGeneration(f, entry) /\ Purge(c, next)
    \/ /\ present(entry) /\ kind = "revoke_all" /\ entry.val.owner_user_id = f.req.owner
       /\ \/ SameGeneration(f, entry) /\ NextRow(c, [f EXCEPT !.live = @ \cup {<<f.id, entry>>}])
          \/ ~SameGeneration(f, entry) /\ NextRow(c, f)

(* Mutant: find does not ask for the owner's generation. *)
LiveEntry_any(f, generation) == TRUE

LiveEntry(f, generation) == f.entry.val.owner_generation = generation_of(generation)

AtExpectedRevision(f) == f.entry.val.revision = f.req.expected_revision

LiveRead(c, f, generation) ==
    LET kind == f.req.kind
        mine == f.entry.val.owner_user_id = f.req.owner
    IN
    \/ ~LiveEntry(f, generation) /\ Purge(c, f)
    \/ /\ LiveEntry(f, generation)
       /\ kind \in {"find_by_id", "find_by_secret_hash"}
       /\ Become(c, [Idle EXCEPT !.reply = "found", !.was_live = f.was_live])
    \/ /\ LiveEntry(f, generation) /\ kind \in {"update", "revoke"}
       /\ \/ ~mine /\ Return(c, "not_found")
          \/ mine /\ ~AtExpectedRevision(f) /\ Return(c, "stale_revision")
          \/ /\ mine /\ AtExpectedRevision(f)
             /\ Become(c, [f EXCEPT !.generation = generation,
                                    !.at = IF kind = "update" THEN "commit" ELSE "own secret"])

-----------------------------------------------------------------------------
(* Reads of create: who holds the id and the hash, and is it dead.         *)

(* Dead occupants still hold index entries of their own hashes. *)
ReadSecrets(c, f) ==
    LET left == {s \in f.stale : s[2].secret_hash # f.req.hash
                                 /\ secret_key(s[2].secret_hash) \notin DOMAIN f.secrets}
    IN \/ \E s \in left : Become(c, [f EXCEPT !.at = "stale secret", !.id = s[1],
                                              !.entry = [Absent EXCEPT !.val = s[2]]])
       \/ left = {} /\ Become(c, [f EXCEPT !.at = "commit"])

StaleSecretRead(c, f, entry) ==
    LET read == Single(secret_key(f.entry.val.secret_hash), entry)
    IN ReadSecrets(c, [f EXCEPT !.secrets = Overlay(@, read)])

HashOccupant(c, f) ==
    \/ present(f.hash_entry) /\ Become(c, [f EXCEPT !.at = "occupant", !.id = f.hash_entry.val])
    \/ ~present(f.hash_entry) /\ ReadSecrets(c, f)

HashRead(c, f, entry) ==
    LET next == [f EXCEPT !.hash_entry = entry] IN
    \/ /\ present(f.id_entry)
       /\ Become(c, [next EXCEPT !.at = "id occupant live", !.entry = f.id_entry])
    \/ ~present(f.id_entry) /\ HashOccupant(c, next)

OccupantRead(c, f, entry) ==
    LET coherent == present(entry) /\ entry.val.secret_hash = f.req.hash IN
    \/ coherent /\ Become(c, [f EXCEPT !.at = "occupant live", !.entry = entry])
    \/ ~coherent /\ invalid_record(c, f)

OccupantLive(c, f, generation) ==
    LET next == [f EXCEPT !.stale = @ \cup {<<f.id, f.entry.val>>}] IN
    \/ LiveEntry(f, generation) /\ Return(c, "collision")
    \/ /\ ~LiveEntry(f, generation)
       /\ \/ f.at = "id occupant live" /\ HashOccupant(c, next)
          \/ f.at = "occupant live" /\ ReadSecrets(c, next)

-----------------------------------------------------------------------------
(* The atomic operations.                                                  *)

(* The index entries of dead occupants that are still theirs. *)
StaleSecrets(f) ==
    {k \in DOMAIN f.secrets :
        \E s \in f.stale : present(f.secrets[k]) /\ f.secrets[k].val = s[1]
                           /\ k = secret_key(s[2].secret_hash)}

(* Mutant: a key is created or updated without looking at the generation.  *)
GenerationCheck_none(f, owner) == {}

GenerationCheck(f, owner) == {<<generation_key(owner), f.generation.vs>>}

(* Mutant: an update does not check the record it read. *)
RecordCheck_none(f) == {}

RecordCheck(f) == {<<record_key(f.id), f.entry.vs>>}

Checks(f) ==
    CASE f.req.kind = "create" ->
            GenerationCheck(f, f.req.owner)
            \cup {<<record_key(f.req.id), f.id_entry.vs>>,
                  <<secret_key(f.req.hash), f.hash_entry.vs>>}
            \cup {<<k, f.secrets[k].vs>> : k \in StaleSecrets(f)}
      [] f.req.kind = "update" -> RecordCheck(f) \cup GenerationCheck(f, f.entry.val.owner_user_id)
      [] f.req.kind = "revoke" -> RemovalChecks(f)
      [] f.req.kind = "revoke_all" -> {<<generation_key(f.req.owner), f.generation.vs>>}

Written(f) ==
    CASE f.req.kind = "create" ->
            KeyEntries(f.req.id,
                [owner_user_id |-> f.req.owner, secret_hash |-> f.req.hash,
                 metadata |-> f.req.metadata, revision |-> 1,
                 owner_generation |-> generation_of(f.generation)])
      [] f.req.kind = "update" ->
            Single(record_key(f.id),
                   [f.entry.val EXCEPT !.metadata = f.req.metadata, !.revision = @ + 1])
      [] f.req.kind = "revoke" -> NoEntries
      [] f.req.kind = "revoke_all" ->
            Single(generation_key(f.req.owner), generation_of(f.generation) + 1)

(* Mutant: the owner row of a dead occupant is forgotten. *)
Removed_keeps_rows(f) ==
    CASE f.req.kind = "create" -> {record_key(s[1]) : s \in f.stale} \cup StaleSecrets(f)
      [] f.req.kind = "revoke" -> Removal(f)
      [] OTHER -> {}

Removed(f) ==
    CASE f.req.kind = "create" ->
            (UNION {{record_key(s[1]), owner_key(s[2].owner_user_id, s[1])} : s \in f.stale})
            \cup StaleSecrets(f)
      [] f.req.kind = "revoke" -> Removal(f)
      [] OTHER -> {}

Commit(c) ==
    LET f == client[c] IN
    /\ f.at = "commit"
    /\ \/ /\ AllCurrent(Checks(f))
          /\ Write(Written(f), Removed(f))
          /\ \/ f.req.kind # "revoke_all" /\ Return(c, "ok")
             \/ f.req.kind = "revoke_all" /\ NextDead(c, f)
       \/ ~AllCurrent(Checks(f)) /\ Retry(c, f) /\ UNCHANGED <<kv, clock>>
    /\ UNCHANGED requests

(* The process that runs the call stops. *)
Crash(c) ==
    /\ client[c].at # "idle"
    /\ client' = [client EXCEPT ![c] = Idle]
    /\ UNCHANGED <<kv, clock, requests>>

-----------------------------------------------------------------------------
OwnSecretKey(c) == secret_key(client[c].entry.val.secret_hash)
OwnerGeneration(c) == generation_key(client[c].entry.val.owner_user_id)

ReadGeneration(c) == Read(c, "generation", generation_key(client[c].req.owner), GenerationRead)
ReadIndex(c) == Read(c, "secret", secret_key(client[c].req.hash), IndexRead)
ReadRecord(c) == Read(c, "record", record_key(client[c].id), RecordRead)
ReadLive(c) == Read(c, "live", OwnerGeneration(c), LiveRead)
ReadOwnSecret(c) == Read(c, "own secret", OwnSecretKey(c), SecretRead)
ReadPurged(c) == Read(c, "purge", OwnSecretKey(c), SecretRead)
ReadHash(c) == Read(c, "hash", secret_key(client[c].req.hash), HashRead)
ReadOccupant(c) == Read(c, "occupant", record_key(client[c].id), OccupantRead)
ReadIdOccupantLive(c) == Read(c, "id occupant live", OwnerGeneration(c), OccupantLive)
ReadOccupantLive(c) == Read(c, "occupant live", OwnerGeneration(c), OccupantLive)
ReadStaleSecret(c) == Read(c, "stale secret", OwnSecretKey(c), StaleSecretRead)

Next ==
    \E c \in Clients :
        \/ \E req \in requests : Call(c, req)
        \/ ReadGeneration(c) \/ ReadIndex(c) \/ ReadRecord(c) \/ ReadLive(c)
        \/ ReadOwnSecret(c) \/ ReadPurged(c)
        \/ ReadHash(c) \/ ReadOccupant(c) \/ ReadIdOccupantLive(c) \/ ReadOccupantLive(c)
        \/ ReadStaleSecret(c)
        \/ ListRows(c)
        \/ Commit(c) \/ PurgeCommit(c)
        \/ Crash(c)

Spec == Init /\ [][Next]_vars

-----------------------------------------------------------------------------
(* Properties. *)

Record(id) == get(record_key(id)).val

Live(id) == Record(id) # None /\ Record(id).owner_generation = Generation(Record(id).owner_user_id)

Places == {"idle", "generation", "secret", "record", "rows", "live", "own secret", "purge",
           "purge commit", "hash", "occupant", "id occupant live", "occupant live",
           "stale secret", "commit", "invalid record", "remained contended"}

TypeOK ==
    /\ clock \in Nat /\ requests \subseteq Request
    /\ \A k \in DOMAIN kv : kv[k] \in [vs : 1 .. clock, val : ValuesAt(k)]
    /\ \A c \in Clients : client[c].at \in Places

(* Whatever creations, removals and half-finished purges happened, a live  *)
(* key can be found by its bearer and in its owner's list, and no index    *)
(* entry points to a record that is not there or of another type.          *)
IndexesCoherent ==
    /\ TypeOK
    /\ \A id \in KeyIds : Record(id) # None =>
          /\ owner_key(Record(id).owner_user_id, id) \in DOMAIN kv
          /\ Live(id) => get(secret_key(Record(id).secret_hash)).val = id
    /\ \A o \in Owners, id \in KeyIds :
          owner_key(o, id) \in DOMAIN kv => Record(id) # None /\ Record(id).owner_user_id = o
    /\ \A h \in Hashes : secret_key(h) \in DOMAIN kv =>
          LET id == get(secret_key(h)).val
          IN Record(id) # None /\ Record(id).secret_hash = h

(* "a revoked key never resolves again" (lib/api-key/interfaces.ts): a     *)
(* bearer or an id is answered with a key only if the key was live at some *)
(* moment of the call.                                                     *)
FoundKeysWereLive ==
    \A c \in Clients : client[c].reply = "found" => client[c].was_live

(* A key reported as created is live: a revoke-all that the creation       *)
(* overlaps makes it start over instead of leaving a key dead on arrival.  *)
CreatedKeysAreLive ==
    [][\A id \in KeyIds :
          Record(id)' # None /\ (Record(id) = None \/ Record(id)'.revision < Record(id).revision
                                 \/ Record(id)'.owner_generation # Record(id).owner_generation)
          => Live(id)']_vars

(* #purge is "Best-effort removal of a key that is already dead".          *)
PurgesOnlyDeadKeys ==
    [][\A c \in Clients, id \in KeyIds :
          client[c].at = "purge commit" /\ client[c].id = id /\ client'[c] # client[c]
          /\ Live(id) => Live(id)']_vars

(* "malformed, unknown, expired, and revoked bearers all produce one       *)
(* non-disclosing 401" (docs/api/api-keys.md): a lookup by secret hash     *)
(* answers, it does not throw.                                             *)
BearerLookupAnswers ==
    \A c \in Clients :
        client[c].at = "invalid record" => client[c].req.kind # "find_by_secret_hash"

LiveKeys ==
    [id \in KeyIds |->
        IF Live(id)
        THEN [f \in {"owner_user_id", "secret_hash", "metadata", "revision"} |-> Record(id)[f]]
        ELSE None]

Abstract == INSTANCE ApiKeyStore WITH keys <- LiveKeys

ASSUME NoneIsNoKey == None \notin Abstract!ApiKeyRecord

(* The operation of the abstract store that a call asks for, a disjunct of *)
(* its next-state relation.                                                *)
RequestedOperation(req) ==
    CASE req.kind = "create" ->
            Abstract!create(req.id, [owner_user_id |-> req.owner, secret_hash |-> req.hash,
                                     metadata |-> req.metadata, revision |-> 1])
      [] req.kind = "update" ->
            Abstract!update(req.id, req.owner, req.expected_revision, req.metadata)
      [] req.kind = "revoke" -> Abstract!revoke(req.id, req.owner, req.expected_revision)
      [] req.kind = "revoke_all" -> Abstract!revoke_all_by_owner(req.owner)

(* A commit is the very operation the caller asked for, on the keys live   *)
(* at that step: a revoke-all takes all of an owner's keys at once, an     *)
(* update applies to the revision it expects.  No other step, a purge in   *)
(* particular, changes the live keys.  (This implies Abstract!Spec.)       *)
ImplementsApiKeyStore ==
    /\ Abstract!Init
    /\ [][LiveKeys' # LiveKeys =>
             \E c \in Clients :
                /\ client[c].at = "commit" /\ client'[c] # client[c]
                /\ RequestedOperation(client[c].req)]_vars
=============================================================================
