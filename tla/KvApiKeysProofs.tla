---------------------------- MODULE KvApiKeysProofs ----------------------------
(***************************************************************************)
(* KvApiKeys keeps its indexes coherent and implements ApiKeyStore, for    *)
(* any number of clients, keys, owners and crashes.  The argument is one   *)
(* of versionstamps: an entry that has the stamp it was read with is the   *)
(* entry read, a record and its index entry live and die together, and a   *)
(* generation only grows, so that a key seen dead stays dead.              *)
(***************************************************************************)
EXTENDS KvApiKeys, TLAPS

(* The entries of the four families of keys. *)
R(id) == get(record_key(id))
S(h) == get(secret_key(h))
O(o, id) == get(owner_key(o, id))
G(o) == get(generation_key(o))

(* Keys of different families, or of different data, are different keys.   *)
LEMMA KeysDiffer ==
    /\ \A i, j : record_key(i) = record_key(j) => i = j
    /\ \A i, j : secret_key(i) = secret_key(j) => i = j
    /\ \A i, j : generation_key(i) = generation_key(j) => i = j
    /\ \A i, j, o, p : owner_key(o, i) = owner_key(p, j) => o = p /\ i = j
    /\ \A i, j : /\ record_key(i) # secret_key(j) /\ record_key(i) # generation_key(j)
                 /\ secret_key(i) # generation_key(j)
    /\ \A i, j, o : /\ record_key(i) # owner_key(o, j) /\ secret_key(i) # owner_key(o, j)
                    /\ generation_key(i) # owner_key(o, j)
  <1>1. /\ \A i, j : record_key(i) = record_key(j) => i = j
        /\ \A i, j : secret_key(i) = secret_key(j) => i = j
        /\ \A i, j : generation_key(i) = generation_key(j) => i = j
    BY DEF record_key, secret_key, generation_key
  <1>2. \A i, j, o, p : owner_key(o, i) = owner_key(p, j) => o = p /\ i = j
    BY DEF owner_key
  <1>3. \A i, j : /\ record_key(i) # secret_key(j) /\ record_key(i) # generation_key(j)
                  /\ secret_key(i) # generation_key(j)
    BY DEF record_key, secret_key, generation_key
  <1>4. \A i, j, o : /\ record_key(i) # owner_key(o, j) /\ secret_key(i) # owner_key(o, j)
                     /\ generation_key(i) # owner_key(o, j)
    <2> SUFFICES ASSUME NEW i, NEW j, NEW o
                 PROVE  /\ record_key(i) # owner_key(o, j) /\ secret_key(i) # owner_key(o, j)
                        /\ generation_key(i) # owner_key(o, j)
      OBVIOUS
    <2>1. \A a, b, u, v, w : <<a, b>> # <<u, v, w>>
      OBVIOUS
    <2> QED BY <2>1 DEF record_key, secret_key, generation_key, owner_key
  <1> QED BY <1>1, <1>2, <1>3, <1>4

(* What a committed atomic operation leaves at each key.                   *)
LEMMA WriteGets ==
    ASSUME NEW written, NEW removed, Write(written, removed)
    PROVE  \A key : get(key)' = IF key \in DOMAIN written
                                THEN [vs |-> clock + 1, val |-> written[key]]
                                ELSE IF key \in removed THEN Absent ELSE get(key)
  <1> DEFINE kept == [k \in DOMAIN kv \ removed |-> kv[k]]
             fresh == [k \in DOMAIN written |-> [vs |-> clock + 1, val |-> written[k]]]
  <1>1. kv' = Overlay(fresh, kept)
    BY DEF Write, Stamped
  <1>2. kv' = [k \in DOMAIN fresh \cup DOMAIN kept |->
                  IF k \in DOMAIN fresh THEN fresh[k] ELSE kept[k]]
    BY <1>1 DEF Overlay
  <1>3. \A key : get(key)' = IF key \in DOMAIN kv' THEN kv'[key] ELSE Absent
    BY DEF get, Absent
  <1> QED BY <1>2, <1>3 DEF get

-----------------------------------------------------------------------------
(* The inductive invariant. *)

Entry(Values) == [vs : Nat, val : Values \cup {None}]

(* The stored entries: typed, with stamps given out, and three that belong *)
(* together for each key.                                                  *)
EntryOK(entry, Values) ==
    /\ entry \in Entry(Values) /\ entry.vs <= clock
    /\ IF present(entry) THEN entry.val \in Values ELSE entry = Absent

EntriesTyped ==
    /\ clock \in Nat
    /\ \A id \in KeyIds : EntryOK(R(id), StoredRecord)
    /\ \A h \in Hashes : EntryOK(S(h), KeyIds)
    /\ \A o \in Owners : EntryOK(G(o), Nat \ {0})
    /\ \A o \in Owners, id \in KeyIds : EntryOK(O(o, id), KeyIds)

RecordIndexed(id) ==
    LET stored == R(id).val IN
    /\ present(O(stored.owner_user_id, id))
    /\ present(S(stored.secret_hash)) /\ S(stored.secret_hash).val = id
    /\ stored.owner_generation <= generation_of(G(stored.owner_user_id))

Coherent ==
    /\ \A id \in KeyIds : present(R(id)) => RecordIndexed(id)
    /\ \A o \in Owners, id \in KeyIds :
          present(O(o, id)) => present(R(id)) /\ R(id).val.owner_user_id = o
    /\ \A h \in Hashes :
          present(S(h)) => present(R(S(h).val)) /\ R(S(h).val).val.secret_hash = h

-----------------------------------------------------------------------------
(* What a call knows at each await. *)

(* An entry read earlier: it is the one stored now if the stamps agree.    *)
Seen(entry, now) ==
    /\ entry.vs <= clock
    /\ ~present(entry) => entry = Absent
    /\ now.vs = entry.vs => now = entry

(* A record whose generation was or has become another. *)
Aged(stored) == stored.owner_generation <= generation_of(G(stored.owner_user_id))
Dead(stored) == stored.owner_generation < generation_of(G(stored.owner_user_id))

SeenRecord(entry, id) ==
    /\ Seen(entry, R(id))
    /\ present(entry) => entry.val \in StoredRecord /\ Aged(entry.val)

(* The record of one key, however often its metadata were updated. *)
SameKey(entry, stored) ==
    /\ present(entry)
    /\ entry.val.owner_user_id = stored.owner_user_id
    /\ entry.val.secret_hash = stored.secret_hash
    /\ entry.val.owner_generation = stored.owner_generation

(* The calls there are, and the owners whose keys none of them revokes all *)
(* at once.                                                                *)
Requested == UNION {s.requests : s \in Scenarios}

Quiet(owner) == \A r \in Requested : r.kind = "revoke_all" => r.owner # owner

Walking == {"list_by_owner", "revoke_all"}
Finding == {"find_by_id", "find_by_secret_hash"}
Changing == {"update", "revoke"}
Ended == {"idle", "invalid record", "remained contended"}
Occupied == {"hash", "id occupant live", "occupant", "occupant live", "stale secret"}

Pairs(Values) == KeyIds \X Values

Frame ==
    [at : Places, req : Requested \cup {None}, attempt : Nat, reply : {None, "found", "ok",
         "not_found", "stale_revision", "collision", "listed", "revoked all"},
     id : KeyIds \cup {None}, entry : Entry(StoredRecord), was_live : BOOLEAN,
     generation : Entry(Nat), id_entry : Entry(StoredRecord), hash_entry : Entry(KeyIds),
     secret_entry : Entry(KeyIds), stale : SUBSET Pairs(StoredRecord),
     secrets : {NoEntries} \cup UNION {[{secret_key(h)} -> Entry(KeyIds)] : h \in Hashes},
     rows : SUBSET KeyIds, live : SUBSET Pairs(Entry(StoredRecord))]

(* Which calls are where. *)
Route(f) ==
    LET kind == f.req.kind IN
    /\ f.req \in Requested /\ f.reply = None
    /\ f.at = "generation" => kind \in Walking \cup {"create"}
    /\ f.at = "secret" => kind = "find_by_secret_hash"
    /\ f.at = "rows" => kind \in Walking
    /\ f.at = "record" =>
          f.id \in KeyIds /\ (kind \in Changing \cup {"create", "find_by_id"} => f.id = f.req.id)
    /\ f.at = "live" => kind \in Finding \cup Changing
    /\ f.at = "own secret" => kind = "revoke"
    /\ f.at \in {"purge", "purge commit"} => kind # "create"
    /\ f.at \in Occupied => kind = "create"
    /\ f.at = "commit" => kind \in Changing \cup {"create", "revoke_all"}

(* The generation that a creation, a walk or an update goes by. *)
GenerationKnown(f) ==
    LET kind == f.req.kind IN
    \/ kind = "create" /\ f.at \in Occupied \cup {"record", "commit"}
    \/ kind \in Walking /\ f.at \in {"rows", "record", "commit", "purge", "purge commit"}
    \/ kind = "update" /\ f.at = "commit"

(* A record at hand, to be judged, replaced or removed. *)
AtHand(f) ==
    \/ f.at \in {"live", "own secret", "purge", "purge commit"}
    \/ f.at = "commit" /\ f.req.kind \in Changing

Judged(f) == f.at = "own secret" \/ (f.at = "commit" /\ f.req.kind \in Changing)

SecretKnown(f) == f.at = "purge commit" \/ (f.at = "commit" /\ f.req.kind = "revoke")

(* A listing takes for dead what is not of the generation it has read: an  *)
(* owner's next one too, if there can be one.                              *)
Condemned(f) == Dead(f.entry.val) \/ (f.req.kind = "list_by_owner" /\ ~Quiet(f.req.owner))

Calm(f) == GenerationKnown(f) /\ Quiet(f.req.owner) => G(f.req.owner) = f.generation

RecordOK(f) ==
    /\ AtHand(f) => f.id \in KeyIds /\ present(f.entry) /\ SeenRecord(f.entry, f.id)
    /\ f.at = "live" => f.was_live \/ Dead(f.entry.val)
    /\ f.at = "live" /\ f.req.kind \in Changing => f.id = f.req.id
    /\ Judged(f) =>
          /\ f.id = f.req.id /\ f.entry.val.owner_user_id = f.req.owner
          /\ f.entry.val.revision = f.req.expected_revision
    /\ f.at = "commit" /\ f.req.kind = "update" =>
          f.entry.val.owner_generation = generation_of(f.generation)
    /\ f.at \in {"purge", "purge commit"} => Condemned(f)
    /\ SecretKnown(f) =>
          (R(f.id) = f.entry => S(f.entry.val.secret_hash) = f.secret_entry)

(* The keys a revoke-all purges: of its generation before the commit, dead *)
(* after it.                                                               *)
LiveOK(f) ==
    /\ f.at \in {"generation", "rows"} => f.live = {}
    /\ \A d \in f.live :
          /\ present(d[2]) /\ SeenRecord(d[2], d[1])
          /\ d[2].val.owner_user_id = f.req.owner
          /\ IF f.at \in {"record", "commit"}
             THEN d[2].val.owner_generation = generation_of(f.generation)
             ELSE Dead(d[2].val)

(* The occupants of a creation's id and hash. *)
IdOccupant(f, s) == present(f.id_entry) /\ s = <<f.req.id, f.id_entry.val>>

HashOccupied(f, id, stored) ==
    /\ present(f.hash_entry) /\ id = f.hash_entry.val
    /\ stored.secret_hash = f.req.hash
    /\ S(f.req.hash) = f.hash_entry => SameKey(R(id), stored)

SecretsOK(f) ==
    LET hash == f.id_entry.val.secret_hash IN
    f.secrets # NoEntries =>
        /\ present(f.id_entry) /\ hash # f.req.hash
        /\ DOMAIN f.secrets = {secret_key(hash)}
        /\ R(f.req.id) = f.id_entry => S(hash) = f.secrets[secret_key(hash)]

Gathered(f) == f.at \in {"stale secret", "commit"}
CreateOK(f) ==
    /\ f.at \in Occupied \cup {"commit"} => SeenRecord(f.id_entry, f.req.id)
    /\ f.at \in (Occupied \ {"hash"}) \cup {"commit"} =>
          /\ Seen(f.hash_entry, S(f.req.hash))
          /\ present(f.hash_entry) => f.hash_entry.val \in KeyIds
    /\ f.at \in {"generation", "record", "hash", "id occupant live"} => f.stale = {}
    /\ ~Gathered(f) => f.secrets = NoEntries
    /\ f.at \in {"occupant", "occupant live"} =>
          present(f.hash_entry) /\ f.id = f.hash_entry.val /\ f.id \in KeyIds
    /\ f.at \in {"hash", "id occupant live"} => f.id = f.req.id
    /\ f.at = "id occupant live" => present(f.id_entry) /\ f.entry = f.id_entry
    /\ f.at = "occupant live" =>
          /\ present(f.entry) /\ f.entry.val \in StoredRecord /\ Aged(f.entry.val)
          /\ HashOccupied(f, f.id, f.entry.val)
    /\ f.at = "stale secret" =>
          /\ present(f.id_entry) /\ f.id = f.req.id /\ f.entry.val = f.id_entry.val
          /\ f.entry.val.secret_hash # f.req.hash /\ f.secrets = NoEntries
    /\ \A s \in f.stale :
          Dead(s[2]) /\ (IdOccupant(f, s) \/ HashOccupied(f, s[1], s[2]))
    /\ f.at \in {"occupant", "occupant live", "stale secret", "commit"} /\ present(f.id_entry) =>
          <<f.req.id, f.id_entry.val>> \in f.stale
    /\ Gathered(f) /\ present(f.hash_entry) => \E s \in f.stale : HashOccupied(f, s[1], s[2])
    /\ SecretsOK(f)
    /\ f.at = "commit" /\ present(f.id_entry) /\ f.id_entry.val.secret_hash # f.req.hash =>
          f.secrets # NoEntries

FrameOK(f) ==
    /\ f \in Frame /\ (f.reply = "found" => f.was_live)
    /\ f.at \notin Ended =>
          /\ Route(f)
          /\ GenerationKnown(f) => Seen(f.generation, G(f.req.owner))
          /\ RecordOK(f)
          /\ f.req.kind = "list_by_owner" => Calm(f)
          /\ f.req.kind = "revoke_all" => LiveOK(f)
          /\ f.req.kind = "create" => CreateOK(f)

CallsOK ==
    /\ client \in [Clients -> Frame]
    /\ \A c \in Clients : FrameOK(client[c])

Inv ==
    /\ requests \subseteq Requested
    /\ TypeOK /\ EntriesTyped /\ Coherent /\ CallsOK

-----------------------------------------------------------------------------
(* What a step of the store leaves of what calls have seen.                *)

Renewed(old, new) == new \in {old, Absent} \/ new.vs > clock

(* Entries are kept, removed or given a new stamp; a generation does not   *)
(* decrease; a record that is kept keeps its index entry, and as long as   *)
(* an index entry is kept its key is the same.                             *)
StoreGrows ==
    /\ clock' \in Nat /\ clock <= clock'
    /\ \A id \in KeyIds : Renewed(R(id), R(id)')
    /\ \A h \in Hashes : Renewed(S(h), S(h)')
    /\ \A o \in Owners : /\ Renewed(G(o), G(o)')
                         /\ generation_of(G(o)') \in Nat
                         /\ generation_of(G(o)) <= generation_of(G(o)')
                         /\ Quiet(o) => G(o)' = G(o)
    /\ \A id \in KeyIds, h \in Hashes :
          present(R(id)) /\ R(id).val.secret_hash = h /\ R(id)' = R(id) => S(h)' = S(h)
    /\ \A h \in Hashes, id \in KeyIds :
          present(S(h)) /\ S(h).val = id /\ S(h)' = S(h) => SameKey(R(id)', R(id).val)

(* The null entry, and what tells an entry from it.                        *)
LEMMA Absence ==
    /\ Absent.vs = 0 /\ Absent.val = None /\ ~present(Absent)
    /\ \A Values : Absent \in Entry(Values)
  <1>1. Absent.vs = 0 /\ Absent.val = None /\ \A Values : Absent \in Entry(Values)
    BY DEF Absent, Entry
  <1> QED BY <1>1 DEF present

(* Generations are numbers. *)
LEMMA Generations ==
    ASSUME EntriesTyped
    PROVE  \A o \in Owners : generation_of(G(o)) \in Nat
  BY DEF EntriesTyped, EntryOK, generation_of

(* An entry seen stays seen, and what is stored again later was not        *)
(* replaced in between.                                                    *)
LEMMA SeenStays ==
    ASSUME EntriesTyped, StoreGrows, NEW entry, entry.vs \in Nat
    PROVE  /\ \A id \in KeyIds : Seen(entry, R(id)) =>
                 Seen(entry, R(id))' /\ (present(entry) /\ R(id)' = entry => R(id) = entry)
           /\ \A h \in Hashes : Seen(entry, S(h)) =>
                 Seen(entry, S(h))' /\ (present(entry) /\ S(h)' = entry => S(h) = entry)
           /\ \A o \in Owners : Seen(entry, G(o)) => Seen(entry, G(o))'
  <1>1. clock \in Nat /\ clock' \in Nat /\ clock <= clock'
    BY DEF EntriesTyped, StoreGrows
  <1>2. ASSUME NEW now, NEW next, Renewed(now, next), entry.vs <= clock,
               ~present(entry) => entry = Absent, now.vs = entry.vs => now = entry
        PROVE  /\ entry.vs <= clock' /\ (next.vs = entry.vs => next = entry)
               /\ present(entry) /\ next = entry => now = entry
    <2>1. CASE next = now
      BY <1>1, <1>2, <2>1
    <2>2. CASE next = Absent
      BY <1>1, <1>2, <2>2, Absence DEF present
    <2>3. CASE next.vs > clock
      BY <1>1, <1>2, <2>3
    <2> QED BY <1>2, <2>1, <2>2, <2>3 DEF Renewed
  <1>3. ASSUME NEW id \in KeyIds, Seen(entry, R(id))
        PROVE  Seen(entry, R(id))' /\ (present(entry) /\ R(id)' = entry => R(id) = entry)
    <2>1. Renewed(R(id), R(id)')
      BY DEF StoreGrows
    <2> QED BY <1>2, <1>3, <2>1 DEF Seen
  <1>4. ASSUME NEW h \in Hashes, Seen(entry, S(h))
        PROVE  Seen(entry, S(h))' /\ (present(entry) /\ S(h)' = entry => S(h) = entry)
    <2>1. Renewed(S(h), S(h)')
      BY DEF StoreGrows
    <2> QED BY <1>2, <1>4, <2>1 DEF Seen
  <1>5. ASSUME NEW o \in Owners, Seen(entry, G(o)) PROVE Seen(entry, G(o))'
    <2>1. Renewed(G(o), G(o)')
      BY DEF StoreGrows
    <2> QED BY <1>2, <1>5, <2>1 DEF Seen
  <1> QED BY <1>3, <1>4, <1>5

(* What is dead stays dead, and no generation is taken back.               *)
LEMMA AgeStays ==
    ASSUME EntriesTyped, StoreGrows, NEW stored \in StoredRecord
    PROVE  (Aged(stored) => Aged(stored)') /\ (Dead(stored) => Dead(stored)')
  <1> DEFINE o == stored.owner_user_id
             n == stored.owner_generation
  <1>1. o \in Owners /\ n \in Nat
    BY DEF StoredRecord
  <1>2. /\ generation_of(G(o)) \in Nat /\ generation_of(G(o)') \in Nat
        /\ generation_of(G(o)) <= generation_of(G(o)')
    BY <1>1, Generations DEF StoreGrows
  <1>3. \A a, b, d \in Nat : a <= b => (d <= a => d <= b) /\ (d < a => d < b)
    OBVIOUS
  <1> QED BY <1>1, <1>2, <1>3 DEF Aged, Dead

(* A record seen stays of a generation its owner has had.                  *)
LEMMA SeenRecordStays ==
    ASSUME EntriesTyped, StoreGrows, NEW entry, entry.vs \in Nat, NEW id \in KeyIds,
           SeenRecord(entry, id)
    PROVE  SeenRecord(entry, id)'
  <1>1. Seen(entry, R(id))'
    BY SeenStays DEF SeenRecord
  <1>2. present(entry) => entry.val \in StoredRecord /\ Aged(entry.val)'
    BY AgeStays DEF SeenRecord
  <1> QED BY <1>1, <1>2 DEF SeenRecord

(* The entries of a frame are entries. *)
LEMMA FrameEntries ==
    ASSUME NEW f \in Frame
    PROVE  /\ f.entry.vs \in Nat /\ f.generation.vs \in Nat
           /\ f.id_entry.vs \in Nat /\ f.hash_entry.vs \in Nat /\ f.secret_entry.vs \in Nat
           /\ \A s \in f.stale : s = <<s[1], s[2]>> /\ s[1] \in KeyIds /\ s[2] \in StoredRecord
           /\ \A d \in f.live : /\ d = <<d[1], d[2]>> /\ d[1] \in KeyIds
                                /\ d[2] \in Entry(StoredRecord) /\ d[2].vs \in Nat
  <1>1. \A Values, e : e \in Entry(Values) => e.vs \in Nat
    BY DEF Entry
  <1>2. /\ f.entry \in Entry(StoredRecord) /\ f.generation \in Entry(Nat)
        /\ f.id_entry \in Entry(StoredRecord) /\ f.hash_entry \in Entry(KeyIds)
        /\ f.secret_entry \in Entry(KeyIds)
        /\ f.stale \in SUBSET Pairs(StoredRecord) /\ f.live \in SUBSET Pairs(Entry(StoredRecord))
    BY DEF Frame
  <1>3. \A Values : \A s \in Pairs(Values) : s = <<s[1], s[2]>> /\ s[1] \in KeyIds /\ s[2] \in Values
    BY DEF Pairs
  <1>4. \A s \in f.stale : s = <<s[1], s[2]>> /\ s[1] \in KeyIds /\ s[2] \in StoredRecord
    BY <1>2, <1>3
  <1>5. \A d \in f.live : d = <<d[1], d[2]>> /\ d[1] \in KeyIds /\ d[2] \in Entry(StoredRecord)
    BY <1>2, <1>3
  <1> QED BY <1>1, <1>2, <1>4, <1>5

(* The owner, id and hash of a call. *)
LEMMA Asked ==
    ASSUME NEW r \in Requested
    PROVE  /\ r.kind \in Walking \cup {"create", "update", "revoke"} => r.owner \in Owners
           /\ r.kind \in {"create", "find_by_id", "update", "revoke"} => r.id \in KeyIds
           /\ r.kind \in {"create", "find_by_secret_hash"} => r.hash \in Hashes
           /\ r.kind \in {"create", "update"} => r.metadata \in Metadata
           /\ r.kind = "update" => r.expected_revision \in 1 .. MaxRevision - 1
           /\ r \in Request
           /\ r.kind \in Walking \cup Finding \cup Changing \cup {"create"}
  <1>1. r \in Request
    BY ApiKeyAssumption DEF Requested
  <1>2. r.kind \in Walking \cup {"create", "update", "revoke"} => r.owner \in Owners
    BY <1>1 DEF Request, Walking
  <1> QED BY <1>1, <1>2 DEF Request, Walking, Finding, Changing

(* What a call knows of the record at hand stays true.                     *)
LEMMA RecordStays ==
    ASSUME EntriesTyped, StoreGrows, NEW f \in Frame, RecordOK(f)
    PROVE  RecordOK(f)'
  <1>1. AtHand(f) => SeenRecord(f.entry, f.id)'
    BY FrameEntries, SeenRecordStays DEF RecordOK
  <1>2. f.entry.val \in StoredRecord /\ Dead(f.entry.val) => Dead(f.entry.val)'
    BY AgeStays
  <1>3. AtHand(f) => f.entry.val \in StoredRecord
    BY DEF RecordOK, SeenRecord
  <1>4. f.at \in {"live", "purge", "purge commit"} => AtHand(f)
    BY DEF AtHand
  <1>5. SecretKnown(f) => (R(f.id)' = f.entry => S(f.entry.val.secret_hash)' = f.secret_entry)
    <2> SUFFICES ASSUME SecretKnown(f), R(f.id)' = f.entry
                 PROVE  S(f.entry.val.secret_hash)' = f.secret_entry
      OBVIOUS
    <2>1. AtHand(f)
      BY DEF SecretKnown, AtHand, Changing
    <2>2. f.id \in KeyIds /\ present(f.entry) /\ Seen(f.entry, R(f.id)) /\ f.entry.vs \in Nat
      BY <2>1, FrameEntries DEF RecordOK, SeenRecord
    <2>3. R(f.id) = f.entry
      BY <2>2, SeenStays
    <2>4. f.entry.val.secret_hash \in Hashes
      BY <2>1, <1>3 DEF StoredRecord
    <2>5. S(f.entry.val.secret_hash) = f.secret_entry
      BY <2>3 DEF RecordOK
    <2> QED BY <2>2, <2>3, <2>4, <2>5 DEF StoreGrows
  <1> QED BY <1>1, <1>2, <1>3, <1>4, <1>5 DEF RecordOK, Condemned

(* What a revoke-all knows of the keys it kills stays true.                *)
LEMMA LiveStays ==
    ASSUME EntriesTyped, StoreGrows, NEW f \in Frame, LiveOK(f)
    PROVE  LiveOK(f)'
  <1> SUFFICES ASSUME NEW d \in f.live
               PROVE  SeenRecord(d[2], d[1])' /\ (Dead(d[2].val) => Dead(d[2].val)')
    BY DEF LiveOK
  <1>1. d[1] \in KeyIds /\ d[2].vs \in Nat /\ present(d[2]) /\ SeenRecord(d[2], d[1])
    BY FrameEntries DEF LiveOK
  <1>2. d[2].val \in StoredRecord
    BY <1>1 DEF SeenRecord
  <1> QED BY <1>1, <1>2, SeenRecordStays, AgeStays

(* An occupant of a hash stays the same key, however it is updated, while  *)
(* the index entry of the hash is the one read.                            *)
LEMMA OccupantStays ==
    ASSUME EntriesTyped, StoreGrows, NEW f \in Frame, f.req.hash \in Hashes,
           Seen(f.hash_entry, S(f.req.hash)), NEW id \in KeyIds, NEW stored,
           HashOccupied(f, id, stored)
    PROVE  HashOccupied(f, id, stored)'
  <1> SUFFICES ASSUME S(f.req.hash)' = f.hash_entry
               PROVE  SameKey(R(id)', stored)
    BY DEF HashOccupied
  <1>1. S(f.req.hash) = f.hash_entry /\ present(f.hash_entry) /\ f.hash_entry.val = id
    BY FrameEntries, SeenStays DEF HashOccupied
  <1>2. SameKey(R(id), stored)
    BY <1>1 DEF HashOccupied
  <1>3. SameKey(R(id)', R(id).val)
    BY <1>1 DEF StoreGrows
  <1> QED BY <1>2, <1>3 DEF SameKey

(* What a creation knows of the occupants of its id and hash stays true.   *)
LEMMA CreateStays ==
    ASSUME EntriesTyped, StoreGrows, NEW f \in Frame, f.req \in Requested, f.req.kind = "create",
           f.at \in Places \ Ended, Route(f), CreateOK(f)
    PROVE  CreateOK(f)'
  <1>1. f.req.id \in KeyIds /\ f.req.hash \in Hashes
    BY Asked
  <1>2. f.at \in Occupied \cup {"commit"} => SeenRecord(f.id_entry, f.req.id)'
    BY <1>1, FrameEntries, SeenRecordStays DEF CreateOK
  <1>3. f.at \in (Occupied \ {"hash"}) \cup {"commit"} => Seen(f.hash_entry, S(f.req.hash))'
    BY <1>1, FrameEntries, SeenStays DEF CreateOK
  <1>4. f.at = "occupant live" =>
            f.entry.val \in StoredRecord /\ Aged(f.entry.val)' /\ HashOccupied(f, f.id, f.entry.val)'
    BY <1>1, AgeStays, OccupantStays DEF CreateOK, Occupied
  <1>5. ASSUME NEW s \in f.stale
        PROVE  /\ Dead(s[2])' /\ (IdOccupant(f, s) \/ HashOccupied(f, s[1], s[2])')
               /\ HashOccupied(f, s[1], s[2]) => HashOccupied(f, s[1], s[2])'
    <2>1. s[1] \in KeyIds /\ s[2] \in StoredRecord /\ Dead(s[2])
      BY <1>5, FrameEntries DEF CreateOK
    <2>2. f.at \notin {"generation", "record", "hash", "id occupant live"}
      BY <1>5 DEF CreateOK
    <2>3. f.at \in (Occupied \ {"hash"}) \cup {"commit"}
      BY <2>2 DEF Route, Places, Ended, Occupied, Walking, Finding, Changing
    <2>4. HashOccupied(f, s[1], s[2]) => HashOccupied(f, s[1], s[2])'
      BY <1>1, <2>1, <2>3, OccupantStays DEF CreateOK
    <2> QED BY <2>1, <2>4, AgeStays DEF CreateOK
  <1>6. Gathered(f) /\ present(f.hash_entry) => \E s \in f.stale : HashOccupied(f, s[1], s[2])'
    BY <1>5 DEF CreateOK
  <1>7. SecretsOK(f)'
    <2> SUFFICES ASSUME f.secrets # NoEntries PROVE SecretsOK(f)'
      BY DEF SecretsOK
    <2> DEFINE hash == f.id_entry.val.secret_hash
    <2>1. /\ present(f.id_entry) /\ hash # f.req.hash /\ DOMAIN f.secrets = {secret_key(hash)}
          /\ R(f.req.id) = f.id_entry => S(hash) = f.secrets[secret_key(hash)]
      BY DEF CreateOK, SecretsOK
    <2>2. f.at \in {"stale secret", "commit"}
      BY DEF CreateOK, Gathered
    <2>3. Seen(f.id_entry, R(f.req.id)) /\ f.id_entry.val \in StoredRecord
      BY <2>1, <2>2 DEF CreateOK, SeenRecord, Occupied
    <2>4. hash \in Hashes
      BY <2>3 DEF StoredRecord
    <2>5. ASSUME R(f.req.id)' = f.id_entry PROVE S(hash)' = f.secrets[secret_key(hash)]
      <3>1. R(f.req.id) = f.id_entry
        BY <1>1, <2>1, <2>3, <2>5, FrameEntries, SeenStays
      <3> QED BY <1>1, <2>1, <2>4, <2>5, <3>1 DEF StoreGrows
    <2> QED BY <2>1, <2>5 DEF SecretsOK
  <1> QED BY <1>2, <1>3, <1>4, <1>5, <1>6, <1>7 DEF CreateOK

(* A frame in order stays in order whatever the store has become.          *)
LEMMA FrameStays ==
    ASSUME EntriesTyped, StoreGrows, NEW f, FrameOK(f)
    PROVE  FrameOK(f)'
  <1> SUFFICES ASSUME f.at \notin Ended
               PROVE  /\ GenerationKnown(f) => Seen(f.generation, G(f.req.owner))'
                      /\ RecordOK(f)'
                      /\ f.req.kind = "list_by_owner" => Calm(f)'
                      /\ f.req.kind = "revoke_all" => LiveOK(f)'
                      /\ f.req.kind = "create" => CreateOK(f)'
    BY DEF FrameOK
  <1>1. /\ f \in Frame /\ Route(f) /\ RecordOK(f)
        /\ GenerationKnown(f) => Seen(f.generation, G(f.req.owner))
        /\ f.req.kind = "revoke_all" => LiveOK(f)
        /\ f.req.kind = "create" => CreateOK(f)
    BY DEF FrameOK
  <1>2. f.req \in Requested /\ f.at \in Places \ Ended
    BY <1>1 DEF Route, Frame
  <1>3. GenerationKnown(f) => f.req.owner \in Owners
    BY <1>2, Asked DEF GenerationKnown
  <1>4. GenerationKnown(f) => Seen(f.generation, G(f.req.owner))'
    BY <1>1, <1>3, FrameEntries, SeenStays
  <1>5. f.req.kind = "list_by_owner" => Calm(f)'
    <2>1. \A o \in Owners : Quiet(o) => G(o)' = G(o)
      BY DEF StoreGrows
    <2> QED BY <1>3, <2>1 DEF FrameOK, Calm
  <1> QED BY <1>1, <1>2, <1>4, <1>5, RecordStays, LiveStays, CreateStays

-----------------------------------------------------------------------------
(* Steps of a call that leave the store alone. *)

Moves(c) == \E g : Become(c, g) /\ FrameOK(g)

(* Between calls a client knows nothing.                                   *)
LEMMA IdleOK ==
    /\ Idle \in Frame /\ Idle.at = "idle" /\ Idle.reply = None /\ Idle.attempt = 0
    /\ Idle.stale = {} /\ Idle.secrets = NoEntries /\ Idle.rows = {} /\ Idle.live = {}
    /\ FrameOK(Idle)
  <1>1. \A Values : Absent \in Entry(Values)
    BY Absence
  <1>2. Idle \in Frame /\ Idle.at = "idle" /\ Idle.reply = None
    BY <1>1 DEF Idle, Frame, Places
  <1>3. /\ Idle.attempt = 0 /\ Idle.stale = {} /\ Idle.secrets = NoEntries
        /\ Idle.rows = {} /\ Idle.live = {}
    BY DEF Idle
  <1>4. None # "found"
    BY ApiKeyAssumption
  <1> QED BY <1>2, <1>3, <1>4 DEF FrameOK, Ended

Replies == {"ok", "not_found", "stale_revision", "collision", "listed", "revoked all"}

(* A call that returns leaves its client between calls.                    *)
LEMMA ReturnMoves ==
    ASSUME NEW c, NEW reply \in Replies, Return(c, reply)
    PROVE  Moves(c)
  <1> DEFINE g == [Idle EXCEPT !.reply = reply]
  <1>1. Become(c, g)
    BY DEF Return
  <1>2. g \in Frame
    BY IdleOK DEF Frame, Replies
  <1>3. g.at = "idle" /\ g.reply = reply /\ reply # "found"
    BY IdleOK DEF Frame, Replies
  <1> HIDE DEF g
  <1>4. FrameOK(g)
    BY <1>2, <1>3 DEF FrameOK, Ended
  <1> QED BY <1>1, <1>4 DEF Moves

(* A call that throws is over. *)
LEMMA ThrowMoves ==
    ASSUME NEW c, NEW f \in Frame, f.reply = None, NEW error \in Ended, Throw(c, f, error)
    PROVE  Moves(c)
  <1> DEFINE g == [f EXCEPT !.at = error]
  <1>1. Become(c, g)
    BY DEF Throw
  <1>2. g \in Frame
    <2>1. error \in Places
      BY DEF Ended, Places
    <2> QED BY <2>1 DEF Frame
  <1>3. g.at = error /\ g.reply = None
    BY DEF Frame
  <1> HIDE DEF g
  <1>4. FrameOK(g)
    <2>1. None # "found"
      BY ApiKeyAssumption
    <2> QED BY <1>2, <1>3, <2>1 DEF FrameOK
  <1> QED BY <1>1, <1>4 DEF Moves

(* A call, or another attempt of it, begins with its first read.           *)
LEMMA BeginMoves ==
    ASSUME NEW c, NEW req \in Requested, NEW n \in Nat,
           Begin(c, [Idle EXCEPT !.req = req, !.attempt = n])
    PROVE  Moves(c)
  <1> DEFINE f == [Idle EXCEPT !.req = req, !.attempt = n]
  <1>1. /\ f \in Frame /\ f.req = req /\ f.reply = None /\ f.stale = {}
        /\ f.secrets = NoEntries /\ f.live = {}
    BY IdleOK DEF Frame
  <1>2. Begin(c, f)
    OBVIOUS
  <1> HIDE DEF f
  <1>3. CASE req.kind \in {"create", "list_by_owner", "revoke_all"}
             /\ Become(c, [f EXCEPT !.at = "generation"])
    <2> DEFINE g == [f EXCEPT !.at = "generation"]
    <2>1. /\ g \in Frame /\ g.at = "generation" /\ g.req = req /\ g.reply = None
          /\ g.stale = {} /\ g.secrets = NoEntries /\ g.live = {}
      BY <1>1 DEF Frame, Places
    <2>2. Become(c, g)
      BY <1>3
    <2> HIDE DEF g
    <2>3. Route(g) /\ ~GenerationKnown(g)
      BY <1>3, <2>1 DEF Route, GenerationKnown, Walking, Finding, Changing, Occupied
    <2>4. RecordOK(g)
      BY <2>1 DEF RecordOK, AtHand, Judged, SecretKnown
    <2>5. LiveOK(g)
      BY <2>1 DEF LiveOK
    <2>6. CreateOK(g)
      BY <2>1 DEF CreateOK, Occupied, Gathered, SecretsOK
    <2>7. FrameOK(g)
      BY <2>1, <2>3, <2>4, <2>5, <2>6, ApiKeyAssumption DEF FrameOK, Calm
    <2> QED BY <2>2, <2>7 DEF Moves
  <1>4. CASE req.kind \in {"find_by_id", "update", "revoke"}
             /\ Become(c, [f EXCEPT !.at = "record", !.id = req.id])
    <2> DEFINE g == [f EXCEPT !.at = "record", !.id = req.id]
    <2>1. req.id \in KeyIds
      BY <1>4, Asked
    <2>2. g \in Frame /\ g.at = "record" /\ g.req = req /\ g.reply = None /\ g.id = req.id
      <3>1. "record" \in Places /\ req.id \in KeyIds \cup {None}
        BY <2>1 DEF Places
      <3> QED BY <1>1, <3>1 DEF Frame
    <2>3. Become(c, g)
      BY <1>4
    <2> HIDE DEF g
    <2>4. Route(g) /\ ~GenerationKnown(g)
      BY <1>4, <2>1, <2>2 DEF Route, GenerationKnown, Walking, Finding, Changing, Occupied
    <2>5. RecordOK(g)
      BY <2>2 DEF RecordOK, AtHand, Judged, SecretKnown
    <2>6. FrameOK(g)
      BY <1>4, <2>2, <2>4, <2>5, ApiKeyAssumption DEF FrameOK
    <2> QED BY <2>3, <2>6 DEF Moves
  <1>5. CASE req.kind = "find_by_secret_hash" /\ Become(c, [f EXCEPT !.at = "secret"])
    <2> DEFINE g == [f EXCEPT !.at = "secret"]
    <2>1. g \in Frame /\ g.at = "secret" /\ g.req = req /\ g.reply = None
      BY <1>1 DEF Frame, Places
    <2>2. Become(c, g)
      BY <1>5
    <2> HIDE DEF g
    <2>3. Route(g) /\ ~GenerationKnown(g)
      BY <1>5, <2>1 DEF Route, GenerationKnown, Walking, Finding, Changing, Occupied
    <2>4. RecordOK(g)
      BY <2>1 DEF RecordOK, AtHand, Judged, SecretKnown
    <2>5. FrameOK(g)
      BY <1>5, <2>1, <2>3, <2>4, ApiKeyAssumption DEF FrameOK
    <2> QED BY <2>2, <2>5 DEF Moves
  <1> QED BY <1>1, <1>2, <1>3, <1>4, <1>5 DEF Begin

(* Another attempt, or none left. *)
LEMMA RetryMoves ==
    ASSUME NEW c, NEW f \in Frame, f.req \in Requested, Retry(c, f)
    PROVE  Moves(c)
  <1> DEFINE again == [Idle EXCEPT !.req = f.req, !.attempt = f.attempt + 1]
  <1>1. f.attempt + 1 \in Nat
    <2>1. f.attempt \in Nat
      BY DEF Frame
    <2> QED BY <2>1
  <1>2. again \in Frame /\ again.reply = None
    BY <1>1, IdleOK DEF Frame
  <1>3. Begin(c, again) \/ Throw(c, again, "remained contended")
    BY DEF Retry
  <1> QED BY <1>1, <1>2, <1>3, BeginMoves, ThrowMoves DEF Ended

(* A walk that knows its generation, and of the keys it has kept that they *)
(* are of this generation.                                                 *)
WalkOK(f) ==
    /\ f \in Frame /\ f.req \in Requested /\ f.reply = None /\ f.req.kind \in Walking
    /\ Seen(f.generation, G(f.req.owner))
    /\ f.req.kind = "list_by_owner" /\ Quiet(f.req.owner) => G(f.req.owner) = f.generation
    /\ f.req.kind = "revoke_all" =>
          \A d \in f.live :
             /\ present(d[2]) /\ SeenRecord(d[2], d[1])
             /\ d[2].val.owner_user_id = f.req.owner
             /\ d[2].val.owner_generation = generation_of(f.generation)

(* A walk goes on to another row, to its commit or to its answer.          *)
LEMMA NextRowMoves ==
    ASSUME NEW c, NEW f, WalkOK(f), NextRow(c, f)
    PROVE  Moves(c)
  <1>1. ASSUME NEW id \in f.rows,
               Become(c, [f EXCEPT !.at = "record", !.id = id, !.rows = @ \ {id}])
        PROVE  Moves(c)
    <2> DEFINE g == [f EXCEPT !.at = "record", !.id = id, !.rows = @ \ {id}]
    <2>1. id \in KeyIds /\ f \in Frame
      BY DEF WalkOK, Frame
    <2>2. /\ g \in Frame /\ g.at = "record" /\ g.req = f.req /\ g.reply = f.reply /\ g.id = id
          /\ g.generation = f.generation /\ g.live = f.live
      BY <2>1 DEF Frame, Places
    <2>3. Become(c, g)
      BY <1>1
    <2> HIDE DEF g
    <2>4. Route(g)
      BY <2>1, <2>2 DEF WalkOK, Route, Walking, Finding, Changing, Occupied
    <2>5. RecordOK(g)
      BY <2>2 DEF RecordOK, AtHand, Judged, SecretKnown
    <2>6. g.req.kind = "revoke_all" => LiveOK(g)
      BY <2>2 DEF LiveOK, WalkOK
    <2>7. FrameOK(g)
      BY <2>2, <2>4, <2>5, <2>6, ApiKeyAssumption DEF FrameOK, WalkOK, Walking, Calm
    <2> QED BY <2>3, <2>7 DEF Moves
  <1>2. CASE Return(c, "listed")
    BY <1>2, ReturnMoves DEF Replies
  <1>3. CASE f.req.kind = "revoke_all" /\ Become(c, [f EXCEPT !.at = "commit"])
    <2> DEFINE g == [f EXCEPT !.at = "commit"]
    <2>1. /\ g \in Frame /\ g.at = "commit" /\ g.req = f.req /\ g.reply = f.reply
          /\ g.generation = f.generation /\ g.live = f.live
      BY DEF WalkOK, Frame, Places
    <2>2. Become(c, g)
      BY <1>3
    <2> HIDE DEF g
    <2>3. Route(g)
      BY <1>3, <2>1 DEF WalkOK, Route, Walking, Finding, Changing, Occupied
    <2>4. RecordOK(g)
      BY <1>3, <2>1 DEF RecordOK, AtHand, Judged, SecretKnown, Changing
    <2>5. LiveOK(g)
      BY <1>3, <2>1 DEF LiveOK, WalkOK
    <2>6. FrameOK(g)
      BY <1>3, <2>1, <2>3, <2>4, <2>5, ApiKeyAssumption DEF FrameOK, WalkOK
    <2> QED BY <2>2, <2>6 DEF Moves
  <1> QED BY <1>1, <1>2, <1>3 DEF NextRow

(* A removal of a record at hand begins: dead, unless a listing's.         *)
LEMMA PurgeMoves ==
    ASSUME NEW c, NEW f \in Frame, f.req \in Requested, f.reply = None, f.req.kind # "create",
           f.id \in KeyIds, present(f.entry), SeenRecord(f.entry, f.id),
           Condemned(f),
           f.req.kind = "list_by_owner" /\ Quiet(f.req.owner) => G(f.req.owner) = f.generation,
           f.req.kind \in Walking => Seen(f.generation, G(f.req.owner)),
           f.req.kind = "revoke_all" =>
               \A d \in f.live :
                  /\ present(d[2]) /\ SeenRecord(d[2], d[1])
                  /\ d[2].val.owner_user_id = f.req.owner /\ Dead(d[2].val),
           Purge(c, f)
    PROVE  Moves(c)
  <1> DEFINE g == [f EXCEPT !.at = "purge"]
  <1>1. /\ g \in Frame /\ g.at = "purge" /\ g.req = f.req /\ g.reply = None
        /\ g.id = f.id /\ g.entry = f.entry /\ g.generation = f.generation /\ g.live = f.live
    BY DEF Frame, Places
  <1>2. Become(c, g)
    BY DEF Purge
  <1> HIDE DEF g
  <1>3. Route(g)
    BY <1>1 DEF Route, Walking, Finding, Changing, Occupied
  <1>4. RecordOK(g)
    BY <1>1 DEF RecordOK, AtHand, Judged, SecretKnown, Condemned
  <1>5. GenerationKnown(g) => Seen(g.generation, G(g.req.owner))
    BY <1>1 DEF GenerationKnown
  <1>6. g.req.kind = "revoke_all" => LiveOK(g)
    BY <1>1 DEF LiveOK
  <1>7. FrameOK(g)
    BY <1>1, <1>3, <1>4, <1>5, <1>6, ApiKeyAssumption DEF FrameOK, Calm
  <1> QED BY <1>2, <1>7 DEF Moves

(* After its commit a revoke-all purges what it has killed.                *)
LEMMA NextDeadMoves ==
    ASSUME NEW c, NEW f \in Frame, f.req \in Requested, f.reply = None,
           f.req.kind = "revoke_all", Seen(f.generation, G(f.req.owner)),
           \A d \in f.live :
              /\ present(d[2]) /\ SeenRecord(d[2], d[1])
              /\ d[2].val.owner_user_id = f.req.owner /\ Dead(d[2].val),
           NextDead(c, f)
    PROVE  Moves(c)
  <1>1. ASSUME NEW dead \in f.live,
               Purge(c, [f EXCEPT !.id = dead[1], !.entry = dead[2], !.live = @ \ {dead}])
        PROVE  Moves(c)
    <2> DEFINE g == [f EXCEPT !.id = dead[1], !.entry = dead[2], !.live = @ \ {dead}]
    <2>1. dead[1] \in KeyIds /\ dead[2] \in Entry(StoredRecord)
      BY FrameEntries
    <2>2. /\ g \in Frame /\ g.req = f.req /\ g.reply = None /\ g.id = dead[1]
          /\ g.entry = dead[2] /\ g.generation = f.generation /\ g.live = f.live \ {dead}
      BY <2>1 DEF Frame
    <2>3. Purge(c, g)
      BY <1>1
    <2> HIDE DEF g
    <2>4. Condemned(g)
      BY <2>2 DEF Condemned
    <2> QED BY <2>1, <2>2, <2>3, <2>4, PurgeMoves
  <1>2. CASE Return(c, "revoked all")
    BY <1>2, ReturnMoves DEF Replies
  <1> QED BY <1>1, <1>2 DEF NextDead

(* What follows a purge. *)
LEMMA AfterPurgeMoves ==
    ASSUME NEW c, NEW f, FrameOK(f), f.at = "purge commit", AfterPurge(c, f)
    PROVE  Moves(c)
  <1>1. /\ f \in Frame /\ f.req \in Requested /\ f.reply = None /\ f.req.kind # "create"
        /\ GenerationKnown(f) => Seen(f.generation, G(f.req.owner))
        /\ f.req.kind = "list_by_owner" => Calm(f)
        /\ f.req.kind = "revoke_all" => LiveOK(f)
    BY DEF FrameOK, Route, Ended
  <1>2. CASE f.req.kind = "list_by_owner" /\ NextRow(c, f)
    <2>1. WalkOK(f)
      BY <1>1, <1>2 DEF WalkOK, Walking, GenerationKnown, Calm
    <2> QED BY <1>2, <2>1, NextRowMoves
  <1>3. CASE f.req.kind = "revoke_all" /\ NextDead(c, f)
    BY <1>1, <1>3, NextDeadMoves DEF LiveOK, GenerationKnown, Walking
  <1>4. CASE Return(c, "not_found")
    BY <1>4, ReturnMoves DEF Replies
  <1> QED BY <1>2, <1>3, <1>4 DEF AfterPurge

(* An entry just read is seen. *)
LEMMA ReadSeen ==
    ASSUME EntriesTyped, Coherent
    PROVE  /\ \A id \in KeyIds : R(id) \in Entry(StoredRecord) /\ SeenRecord(R(id), id)
           /\ \A h \in Hashes : /\ S(h) \in Entry(KeyIds) /\ Seen(S(h), S(h))
                                /\ present(S(h)) => S(h).val \in KeyIds
           /\ \A o \in Owners : /\ G(o) \in Entry(Nat) /\ Seen(G(o), G(o))
                                /\ generation_of(G(o)) \in Nat
  <1>1. \A Values, e : EntryOK(e, Values) =>
            e \in Entry(Values) /\ Seen(e, e) /\ (present(e) => e.val \in Values)
    BY DEF EntryOK, Seen
  <1>2. ASSUME NEW id \in KeyIds, present(R(id)) PROVE Aged(R(id).val)
    BY <1>2 DEF Coherent, RecordIndexed, Aged
  <1>3. \A id \in KeyIds : R(id) \in Entry(StoredRecord) /\ SeenRecord(R(id), id)
    BY <1>1, <1>2 DEF EntriesTyped, SeenRecord
  <1>4. Entry(Nat \ {0}) \subseteq Entry(Nat)
    BY DEF Entry
  <1> QED BY <1>1, <1>3, <1>4, Generations DEF EntriesTyped

(* The frame of a call in progress. *)
LEMMA FrameOf ==
    ASSUME Inv, NEW c \in Clients, NEW f, f = client[c], f.at \notin Ended
    PROVE  /\ f \in Frame /\ f.at \in Places /\ f.req \in Requested /\ f.reply = None
           /\ FrameOK(f) /\ Route(f) /\ RecordOK(f)
           /\ GenerationKnown(f) => Seen(f.generation, G(f.req.owner))
           /\ f.req.kind = "list_by_owner" => Calm(f)
           /\ f.req.kind = "revoke_all" => LiveOK(f)
           /\ f.req.kind = "create" => CreateOK(f)
           /\ EntriesTyped /\ Coherent
  <1>1. FrameOK(f) /\ EntriesTyped /\ Coherent
    BY DEF Inv, CallsOK
  <1>2. f \in Frame /\ Route(f)
    BY <1>1 DEF FrameOK
  <1> QED BY <1>1, <1>2 DEF FrameOK, Frame, Route

(* The owner's generation, read before a creation or a walk.               *)
LEMMA ReadGenerationMoves ==
    ASSUME Inv, NEW c \in Clients, ReadGeneration(c)
    PROVE  Moves(c)
  <1> SUFFICES ASSUME NEW f, f = client[c] PROVE Moves(c)
    OBVIOUS
  <1> DEFINE entry == G(f.req.owner)
  <1>1. f.at = "generation" /\ GenerationRead(c, f, entry)
    BY DEF ReadGeneration, Read, G
  <1>2. /\ f \in Frame /\ f.req \in Requested /\ f.reply = None /\ EntriesTyped /\ Coherent
        /\ Route(f) /\ (f.req.kind = "revoke_all" => LiveOK(f))
        /\ (f.req.kind = "create" => CreateOK(f))
    BY <1>1, FrameOf DEF Ended
  <1>3. f.req.kind \in Walking \cup {"create"} /\ f.req.owner \in Owners
    BY <1>1, <1>2, Asked DEF Route
  <1>4. entry \in Entry(Nat) /\ Seen(entry, G(f.req.owner)) /\ G(f.req.owner) = entry
    BY <1>2, <1>3, ReadSeen
  <1> HIDE DEF entry
  <1>5. CASE f.req.kind = "create"
             /\ Become(c, [f EXCEPT !.generation = entry, !.at = "record", !.id = f.req.id])
    <2> DEFINE g == [f EXCEPT !.generation = entry, !.at = "record", !.id = f.req.id]
    <2>1. f.req.id \in KeyIds /\ "record" \in Places
      BY <1>2, <1>5, Asked DEF Places
    <2>2. /\ g \in Frame /\ g.at = "record" /\ g.req = f.req /\ g.reply = None
          /\ g.id = f.req.id /\ g.generation = entry /\ g.stale = f.stale
          /\ g.secrets = f.secrets
      BY <1>2, <1>4, <2>1 DEF Frame
    <2>3. Become(c, g)
      BY <1>5
    <2>4. f.stale = {} /\ f.secrets = NoEntries
      BY <1>1, <1>2, <1>5 DEF CreateOK, Gathered
    <2> HIDE DEF g
    <2>5. Route(g)
      BY <1>2, <1>5, <2>1, <2>2 DEF Route, Walking, Finding, Changing, Occupied
    <2>6. RecordOK(g)
      BY <2>2 DEF RecordOK, AtHand, Judged, SecretKnown
    <2>7. CreateOK(g)
      BY <2>2, <2>4 DEF CreateOK, Occupied, Gathered, SecretsOK
    <2>8. FrameOK(g)
      BY <1>4, <1>5, <2>2, <2>5, <2>6, <2>7, ApiKeyAssumption DEF FrameOK
    <2> QED BY <2>3, <2>8 DEF Moves
  <1>6. CASE f.req.kind \in {"list_by_owner", "revoke_all"}
             /\ Become(c, [f EXCEPT !.generation = entry, !.at = "rows"])
    <2> DEFINE g == [f EXCEPT !.generation = entry, !.at = "rows"]
    <2>1. /\ g \in Frame /\ g.at = "rows" /\ g.req = f.req /\ g.reply = None
          /\ g.generation = entry /\ g.live = f.live
      <3>1. "rows" \in Places
        BY DEF Places
      <3> QED BY <1>2, <1>4, <3>1 DEF Frame
    <2>2. Become(c, g)
      BY <1>6
    <2> HIDE DEF g
    <2>3. Route(g)
      BY <1>2, <1>6, <2>1 DEF Route, Walking, Finding, Changing, Occupied
    <2>4. RecordOK(g)
      BY <2>1 DEF RecordOK, AtHand, Judged, SecretKnown
    <2>5. g.req.kind = "revoke_all" => LiveOK(g)
      BY <1>1, <1>2, <2>1 DEF LiveOK
    <2>6. FrameOK(g)
      BY <1>4, <1>6, <2>1, <2>3, <2>4, <2>5, ApiKeyAssumption DEF FrameOK, Calm
    <2> QED BY <2>2, <2>6 DEF Moves
  <1> QED BY <1>1, <1>5, <1>6 DEF GenerationRead

(* The owner's rows, listed. *)
LEMMA ListRowsMoves ==
    ASSUME Inv, NEW c \in Clients, ListRows(c)
    PROVE  Moves(c)
  <1> SUFFICES ASSUME NEW f, f = client[c] PROVE Moves(c)
    OBVIOUS
  <1> DEFINE owned == {id \in KeyIds : owner_key(f.req.owner, id) \in DOMAIN kv}
             g == [f EXCEPT !.rows = owned]
  <1>1. f.at = "rows" /\ NextRow(c, g)
    BY DEF ListRows
  <1>2. /\ f \in Frame /\ f.req \in Requested /\ f.reply = None /\ Route(f)
        /\ (GenerationKnown(f) => Seen(f.generation, G(f.req.owner)))
        /\ (f.req.kind = "list_by_owner" => Calm(f))
        /\ (f.req.kind = "revoke_all" => LiveOK(f))
    BY <1>1, FrameOf DEF Ended
  <1>3. f.req.kind \in Walking
    BY <1>1, <1>2 DEF Route
  <1> HIDE DEF owned
  <1>4. owned \subseteq KeyIds
    BY DEF owned
  <1>5. /\ g \in Frame /\ g.req = f.req /\ g.reply = None /\ g.generation = f.generation
        /\ g.live = f.live
    BY <1>2, <1>4 DEF Frame
  <1> HIDE DEF g
  <1>6. f.req.kind = "revoke_all" => f.live = {}
    BY <1>1, <1>2 DEF LiveOK
  <1>7. WalkOK(g)
    BY <1>1, <1>2, <1>3, <1>5, <1>6 DEF WalkOK, GenerationKnown, Calm
  <1> QED BY <1>1, <1>7, NextRowMoves

(* A record that is not of its owner's generation is dead.                 *)
LEMMA OlderIsDead ==
    ASSUME EntriesTyped, NEW stored \in StoredRecord, Aged(stored),
           stored.owner_generation # generation_of(G(stored.owner_user_id))
    PROVE  Dead(stored)
  <1>1. stored.owner_generation \in Nat /\ stored.owner_user_id \in Owners
    BY DEF StoredRecord
  <1>2. generation_of(G(stored.owner_user_id)) \in Nat
    BY <1>1, Generations
  <1>3. \A m, n \in Nat : m <= n /\ m # n => m < n
    OBVIOUS
  <1> QED BY <1>1, <1>2, <1>3 DEF Aged, Dead

(* The index entry of a bearer's hash.                                     *)
LEMMA ReadIndexMoves ==
    ASSUME Inv, NEW c \in Clients, ReadIndex(c)
    PROVE  Moves(c)
  <1> SUFFICES ASSUME NEW f, f = client[c] PROVE Moves(c)
    OBVIOUS
  <1> DEFINE entry == S(f.req.hash)
             g == [f EXCEPT !.at = "record", !.id = entry.val]
  <1>1. f.at = "secret" /\ IndexRead(c, f, entry)
    BY DEF ReadIndex, Read, S
  <1>2. f \in Frame /\ f.req \in Requested /\ f.reply = None /\ EntriesTyped /\ Coherent /\ Route(f)
    BY <1>1, FrameOf DEF Ended
  <1>3. f.req.kind = "find_by_secret_hash" /\ f.req.hash \in Hashes
    BY <1>1, <1>2, Asked DEF Route
  <1>4. present(entry) => entry.val \in KeyIds
    BY <1>2, <1>3, ReadSeen
  <1>5. CASE Return(c, "not_found")
    BY <1>5, ReturnMoves DEF Replies
  <1>6. CASE present(entry) /\ Become(c, g)
    <2>1. /\ g \in Frame /\ g.at = "record" /\ g.req = f.req /\ g.reply = None
          /\ g.id \in KeyIds
      <3>1. "record" \in Places /\ entry.val \in KeyIds
        BY <1>4, <1>6 DEF Places
      <3> QED BY <1>2, <3>1 DEF Frame
    <2> HIDE DEF g
    <2>2. Route(g) /\ ~GenerationKnown(g)
      BY <1>2, <1>3, <2>1 DEF Route, GenerationKnown, Walking, Finding, Changing, Occupied
    <2>3. RecordOK(g)
      BY <2>1 DEF RecordOK, AtHand, Judged, SecretKnown
    <2>4. FrameOK(g)
      BY <1>3, <2>1, <2>2, <2>3, ApiKeyAssumption DEF FrameOK
    <2> QED BY <1>6, <2>4 DEF Moves
  <1> QED BY <1>1, <1>5, <1>6 DEF IndexRead

(* A record to find or to change: it was live when it was read, or it is   *)
(* dead.                                                                   *)
LEMMA ToJudgeMoves ==
    ASSUME EntriesTyped, Coherent, NEW c, NEW f \in Frame, f.req \in Requested, f.reply = None,
           f.req.kind \in Finding \cup Changing, f.id \in KeyIds,
           f.req.kind \in Changing => f.id = f.req.id,
           present(R(f.id)), NEW was_live \in BOOLEAN,
           was_live <=> R(f.id).val.owner_generation
                            = generation_of(G(R(f.id).val.owner_user_id)),
           Become(c, [[f EXCEPT !.entry = R(f.id), !.was_live = was_live] EXCEPT !.at = "live"])
    PROVE  Moves(c)
  <1> DEFINE entry == R(f.id)
             g == [[f EXCEPT !.entry = entry, !.was_live = was_live] EXCEPT !.at = "live"]
  <1>1. entry \in Entry(StoredRecord) /\ SeenRecord(entry, f.id)
    BY ReadSeen
  <1>2. /\ g \in Frame /\ g.at = "live" /\ g.req = f.req /\ g.reply = None /\ g.id = f.id
        /\ g.entry = entry /\ g.was_live = was_live
    <2>1. "live" \in Places
      BY DEF Places
    <2> QED BY <1>1, <2>1 DEF Frame
  <1>3. Become(c, g)
    OBVIOUS
  <1>4. present(entry)
    OBVIOUS
  <1>5. was_live \/ Dead(entry.val)
    <2>1. entry.val \in StoredRecord /\ Aged(entry.val)
      BY <1>1, <1>4 DEF SeenRecord
    <2> QED BY <2>1, OlderIsDead
  <1> HIDE DEF g, entry
  <1>6. Route(g) /\ ~GenerationKnown(g)
    BY <1>2 DEF Route, GenerationKnown, Walking, Finding, Changing, Occupied
  <1>7. RecordOK(g)
    BY <1>1, <1>2, <1>4, <1>5 DEF RecordOK, AtHand, Judged, SecretKnown
  <1>8. FrameOK(g)
    BY <1>2, <1>6, <1>7, ApiKeyAssumption DEF FrameOK, Finding, Changing
  <1> QED BY <1>3, <1>8 DEF Moves

(* The record of a row, in a walk. *)
LEMMA WalkedMoves ==
    ASSUME EntriesTyped, Coherent, NEW c, NEW f, WalkOK(f), f.at = "record", f.id \in KeyIds,
           present(R(f.id)), R(f.id).val.owner_user_id = f.req.owner, NEW was_live \in BOOLEAN,
           \/ NextRow(c, f)
           \/ /\ f.req.kind = "list_by_owner" /\ ~SameGeneration(f, R(f.id))
              /\ Purge(c, [f EXCEPT !.entry = R(f.id), !.was_live = was_live])
           \/ /\ f.req.kind = "revoke_all" /\ SameGeneration(f, R(f.id))
              /\ NextRow(c, [f EXCEPT !.live = @ \cup {<<f.id, R(f.id)>>}])
    PROVE  Moves(c)
  <1> DEFINE entry == R(f.id)
  <1>1. entry \in Entry(StoredRecord) /\ SeenRecord(entry, f.id)
    BY ReadSeen
  <1>2. present(entry) /\ entry.val.owner_user_id = f.req.owner
    OBVIOUS
  <1>3. f \in Frame
    BY DEF WalkOK
  <1>4. CASE NextRow(c, f)
    BY <1>4, NextRowMoves
  <1>5. ASSUME f.req.kind = "list_by_owner", ~SameGeneration(f, entry),
               Purge(c, [f EXCEPT !.entry = entry, !.was_live = was_live])
        PROVE  Moves(c)
    <2> DEFINE g == [f EXCEPT !.entry = entry, !.was_live = was_live]
    <2>1. /\ g \in Frame /\ g.req = f.req /\ g.reply = f.reply /\ g.id = f.id
          /\ g.entry = entry /\ g.generation = f.generation
      BY <1>1, <1>3 DEF Frame
    <2>2. Purge(c, g)
      BY <1>5
    <2>3. Condemned(g)
      <3> HIDE DEF g, entry
      <3>1. SUFFICES ASSUME Quiet(f.req.owner) PROVE Dead(entry.val)
        BY <1>5, <2>1 DEF Condemned
      <3>2. G(f.req.owner) = f.generation
        BY <1>5, <3>1 DEF WalkOK
      <3>3. entry.val \in StoredRecord /\ Aged(entry.val) /\ EntriesTyped
        BY <1>1, <1>2 DEF SeenRecord
      <3>4. entry.val.owner_generation # generation_of(G(entry.val.owner_user_id))
        BY <1>2, <1>5, <3>2 DEF SameGeneration
      <3> QED BY <3>3, <3>4, OlderIsDead
    <2> HIDE DEF g, entry
    <2> QED BY <1>1, <1>2, <1>5, <2>1, <2>2, <2>3, PurgeMoves DEF WalkOK
  <1>6. ASSUME f.req.kind = "revoke_all", SameGeneration(f, entry),
               NextRow(c, [f EXCEPT !.live = @ \cup {<<f.id, entry>>}])
        PROVE  Moves(c)
    <2> DEFINE g == [f EXCEPT !.live = @ \cup {<<f.id, entry>>}]
    <2>1. /\ g \in Frame /\ g.req = f.req /\ g.reply = f.reply
          /\ g.generation = f.generation /\ g.live = f.live \cup {<<f.id, entry>>}
      <3>1. <<f.id, entry>> \in Pairs(Entry(StoredRecord))
        BY <1>1 DEF Pairs
      <3> QED BY <1>3, <3>1 DEF Frame
    <2>2. NextRow(c, g)
      BY <1>6
    <2> HIDE DEF g, entry
    <2>3. entry.val.owner_generation = generation_of(f.generation)
      BY <1>6 DEF SameGeneration
    <2>4. WalkOK(g)
      BY <1>1, <1>2, <2>1, <2>3 DEF WalkOK
    <2> QED BY <2>2, <2>4, NextRowMoves
  <1> QED BY <1>4, <1>5, <1>6

(* Any record read: for a creation, a call on one key, or a walk.          *)
LEMMA ReadRecordMoves ==
    ASSUME Inv, NEW c \in Clients, ReadRecord(c)
    PROVE  Moves(c)
  <1> SUFFICES ASSUME NEW f, f = client[c] PROVE Moves(c)
    OBVIOUS
  <1> DEFINE entry == R(f.id)
             was_live == present(entry) /\ entry.val.owner_generation
                                             = Generation(entry.val.owner_user_id)
             next == [f EXCEPT !.entry = entry, !.was_live = was_live]
  <1>1. f.at = "record" /\ RecordRead(c, f, entry)
    BY DEF ReadRecord, Read, R
  <1>2. /\ f \in Frame /\ f.req \in Requested /\ f.reply = None /\ EntriesTyped /\ Coherent
        /\ Route(f) /\ (GenerationKnown(f) => Seen(f.generation, G(f.req.owner)))
        /\ (f.req.kind = "list_by_owner" => Calm(f))
        /\ (f.req.kind = "revoke_all" => LiveOK(f)) /\ (f.req.kind = "create" => CreateOK(f))
    BY <1>1, FrameOf DEF Ended
  <1>3. f.id \in KeyIds /\ (f.req.kind \in Changing \cup {"create"} => f.id = f.req.id)
    BY <1>1, <1>2 DEF Route, Changing
  <1>4. entry \in Entry(StoredRecord) /\ SeenRecord(entry, f.id)
    BY <1>2, <1>3, ReadSeen
  <1>5. CASE f.req.kind = "create" /\ Become(c, [f EXCEPT !.id_entry = entry, !.at = "hash"])
    <2> DEFINE g == [f EXCEPT !.id_entry = entry, !.at = "hash"]
    <2>1. /\ g \in Frame /\ g.at = "hash" /\ g.req = f.req /\ g.reply = None
          /\ g.id_entry = entry /\ g.generation = f.generation /\ g.stale = f.stale
          /\ g.secrets = f.secrets /\ g.id = f.id
      <3>1. "hash" \in Places
        BY DEF Places
      <3> QED BY <1>2, <1>4, <3>1 DEF Frame
    <2>2. Become(c, g)
      BY <1>5
    <2>3. f.stale = {} /\ f.secrets = NoEntries
      BY <1>1, <1>2, <1>5 DEF CreateOK, Gathered
    <2>4. SeenRecord(entry, f.req.id) /\ Seen(f.generation, G(f.req.owner))
      BY <1>1, <1>2, <1>3, <1>4, <1>5 DEF GenerationKnown
    <2> HIDE DEF g, entry
    <2>5. Route(g)
      BY <1>2, <1>5, <2>1 DEF Route, Walking, Finding, Changing, Occupied
    <2>6. RecordOK(g)
      BY <2>1 DEF RecordOK, AtHand, Judged, SecretKnown
    <2>7. CreateOK(g)
      BY <1>3, <1>5, <2>1, <2>3, <2>4 DEF CreateOK, Occupied, Gathered, SecretsOK
    <2>8. FrameOK(g)
      BY <1>5, <2>1, <2>4, <2>5, <2>6, <2>7, ApiKeyAssumption DEF FrameOK
    <2> QED BY <2>2, <2>8 DEF Moves
  <1>6. CASE Return(c, "not_found")
    BY <1>6, ReturnMoves DEF Replies
  <1>7. CASE invalid_record(c, f)
    BY <1>2, <1>7, ThrowMoves DEF invalid_record, Ended
  <1>8. was_live \in BOOLEAN
    OBVIOUS
  <1>9. CASE present(entry) /\ f.req.kind \in Finding \cup Changing
             /\ Become(c, [next EXCEPT !.at = "live"])
    <2>1. was_live <=> entry.val.owner_generation = generation_of(G(entry.val.owner_user_id))
      BY <1>9 DEF Generation, G
    <2> QED BY <1>2, <1>3, <1>8, <1>9, <2>1, ToJudgeMoves
  <1>10. CASE /\ present(entry) /\ f.req.kind \in Walking
              /\ entry.val.owner_user_id = f.req.owner
              /\ \/ NextRow(c, f)
                 \/ /\ f.req.kind = "list_by_owner" /\ ~SameGeneration(f, entry)
                    /\ Purge(c, next)
                 \/ /\ f.req.kind = "revoke_all" /\ SameGeneration(f, entry)
                    /\ NextRow(c, [f EXCEPT !.live = @ \cup {<<f.id, entry>>}])
    <2>1. WalkOK(f)
      BY <1>1, <1>2, <1>10 DEF WalkOK, GenerationKnown, LiveOK, Calm
    <2> QED BY <1>1, <1>2, <1>3, <1>8, <1>10, <2>1, WalkedMoves
  <1> HIDE DEF was_live
  <1> QED BY <1>1, <1>5, <1>6, <1>7, <1>9, <1>10
          DEF RecordRead, Finding, Changing, Walking, was_live

(* The owner's generation, read to judge the record at hand.               *)
LEMMA ReadLiveMoves ==
    ASSUME Inv, NEW c \in Clients, ReadLive(c)
    PROVE  Moves(c)
  <1> SUFFICES ASSUME NEW f, f = client[c] PROVE Moves(c)
    OBVIOUS
  <1> DEFINE o == f.entry.val.owner_user_id
             generation == G(o)
  <1>1. f.at = "live" /\ LiveRead(c, f, generation)
    BY DEF ReadLive, Read, OwnerGeneration, G
  <1>2. /\ f \in Frame /\ f.req \in Requested /\ f.reply = None /\ EntriesTyped /\ Coherent
        /\ Route(f) /\ RecordOK(f)
    BY <1>1, FrameOf DEF Ended
  <1>3. /\ f.req.kind \in Finding \cup Changing
        /\ f.id \in KeyIds /\ present(f.entry) /\ SeenRecord(f.entry, f.id)
        /\ f.was_live \/ Dead(f.entry.val)
        /\ f.req.kind \in Changing => f.id = f.req.id
    BY <1>1, <1>2 DEF Route, RecordOK, AtHand
  <1>4. /\ f.entry.val \in StoredRecord /\ Aged(f.entry.val) /\ o \in Owners
        /\ f.entry.val.owner_generation \in Nat
    BY <1>3 DEF SeenRecord, StoredRecord
  <1>5. generation \in Entry(Nat) /\ Seen(generation, G(o)) /\ generation_of(generation) \in Nat
    BY <1>2, <1>4, ReadSeen
  <1>6. LiveEntry(f, generation) \/ Dead(f.entry.val)
    BY <1>2, <1>4, OlderIsDead DEF LiveEntry
  <1>7. ~(LiveEntry(f, generation) /\ Dead(f.entry.val))
    <2>1. \A n \in Nat : ~(n < n)
      OBVIOUS
    <2> QED BY <1>5, <2>1 DEF LiveEntry, Dead
  <1> HIDE DEF generation
  <1>8. CASE ~LiveEntry(f, generation) /\ Purge(c, f)
    <2>1. Condemned(f)
      BY <1>6, <1>8 DEF Condemned
    <2> QED BY <1>2, <1>3, <1>8, <2>1, PurgeMoves DEF Finding, Changing, Walking
  <1>9. CASE LiveEntry(f, generation)
             /\ Become(c, [Idle EXCEPT !.reply = "found", !.was_live = f.was_live])
    <2> DEFINE g == [Idle EXCEPT !.reply = "found", !.was_live = f.was_live]
    <2>1. f.was_live \in BOOLEAN
      BY <1>2 DEF Frame
    <2>2. g \in Frame /\ g.at = "idle" /\ g.was_live = f.was_live
      BY <2>1, IdleOK DEF Frame
    <2>3. f.was_live
      BY <1>3, <1>7, <1>9
    <2>4. Become(c, g)
      BY <1>9
    <2> HIDE DEF g
    <2>5. FrameOK(g)
      BY <2>2, <2>3 DEF FrameOK, Ended
    <2> QED BY <2>4, <2>5 DEF Moves
  <1>10. CASE Return(c, "not_found") \/ Return(c, "stale_revision")
    BY <1>10, ReturnMoves DEF Replies
  <1>11. CASE /\ LiveEntry(f, generation) /\ f.req.kind \in Changing
              /\ o = f.req.owner /\ AtExpectedRevision(f)
              /\ Become(c, [f EXCEPT !.generation = generation,
                                     !.at = IF f.req.kind = "update" THEN "commit"
                                            ELSE "own secret"])
    <2> DEFINE place == IF f.req.kind = "update" THEN "commit" ELSE "own secret"
               g == [f EXCEPT !.generation = generation, !.at = place]
    <2>2. Become(c, g)
      BY <1>11
    <2>8. /\ place \in Places
          /\ place = IF f.req.kind = "update" THEN "commit" ELSE "own secret"
      BY DEF Places
    <2> HIDE DEF place
    <2>1. /\ g \in Frame /\ g.at = place /\ g.req = f.req /\ g.reply = None
          /\ g.generation = generation /\ g.id = f.id /\ g.entry = f.entry
      BY <1>2, <1>5, <2>8 DEF Frame
    <2> HIDE DEF g
    <2>3. Route(g)
      BY <1>2, <1>11, <2>1, <2>8 DEF Route, Walking, Finding, Changing, Occupied
    <2>4. f.entry.val.owner_generation = generation_of(generation)
      BY <1>11 DEF LiveEntry
    <2>5. RecordOK(g)
      BY <1>3, <1>11, <2>1, <2>4, <2>8
         DEF RecordOK, AtHand, Judged, SecretKnown, Changing, AtExpectedRevision
    <2>6. Seen(g.generation, G(g.req.owner))
      BY <1>5, <1>11, <2>1
    <2>7. FrameOK(g)
      BY <1>11, <2>1, <2>3, <2>5, <2>6, <2>8, ApiKeyAssumption DEF FrameOK, Changing
    <2> QED BY <2>2, <2>7 DEF Moves
  <1> QED BY <1>1, <1>8, <1>9, <1>10, <1>11 DEF LiveRead, Finding, Changing


(* The index entry of a record to remove.                                  *)
LEMMA SecretReadMoves ==
    ASSUME Inv, NEW c \in Clients, NEW f, f = client[c], f.at \in {"own secret", "purge"},
           SecretRead(c, f, S(f.entry.val.secret_hash))
    PROVE  Moves(c)
  <1> DEFINE entry == S(f.entry.val.secret_hash)
             place == IF f.at = "purge" THEN "purge commit" ELSE "commit"
             g == [f EXCEPT !.secret_entry = entry, !.at = place]
  <1>1. /\ f \in Frame /\ f.req \in Requested /\ f.reply = None /\ EntriesTyped /\ Coherent
        /\ Route(f) /\ RecordOK(f) /\ (GenerationKnown(f) => Seen(f.generation, G(f.req.owner)))
        /\ (f.req.kind = "list_by_owner" => Calm(f))
        /\ (f.req.kind = "revoke_all" => LiveOK(f))
    BY FrameOf DEF Ended
  <1>2. f.id \in KeyIds /\ present(f.entry) /\ SeenRecord(f.entry, f.id)
    BY <1>1 DEF RecordOK, AtHand
  <1>3. f.entry.val.secret_hash \in Hashes
    BY <1>2 DEF SeenRecord, StoredRecord
  <1>4. entry \in Entry(KeyIds)
    BY <1>1, <1>3, ReadSeen
  <1>5. Become(c, g)
    BY DEF SecretRead
  <1>6. place \in Places /\ place = IF f.at = "purge" THEN "purge commit" ELSE "commit"
    BY DEF Places
  <1>7. entry = S(f.entry.val.secret_hash)
    OBVIOUS
  <1> HIDE DEF place, entry
  <1>8. /\ g \in Frame /\ g.at = place /\ g.req = f.req /\ g.reply = None /\ g.id = f.id
        /\ g.entry = f.entry /\ g.generation = f.generation /\ g.live = f.live
        /\ g.secret_entry = entry
    <2>1. f \in Frame /\ entry \in Entry(KeyIds) /\ place \in Places
      BY <1>1, <1>4, <1>6
    <2>2. g \in Frame
      BY <2>1 DEF Frame
    <2>3. /\ g.at = place /\ g.req = f.req /\ g.id = f.id /\ g.entry = f.entry
          /\ g.generation = f.generation /\ g.live = f.live /\ g.secret_entry = entry
          /\ g.reply = f.reply
      BY <2>1 DEF Frame
    <2> QED BY <1>1, <2>2, <2>3
  <1> HIDE DEF g
  <1>9. f.req.kind # "create" /\ (f.at = "own secret" => f.req.kind = "revoke")
    BY <1>1 DEF Route
  <1>10. Route(g)
    BY <1>1, <1>6, <1>8, <1>9 DEF Route, Walking, Finding, Changing, Occupied
  <1>11. GenerationKnown(g) => Seen(g.generation, G(g.req.owner))
    BY <1>1, <1>6, <1>8, <1>9 DEF GenerationKnown, Walking
  <1>12. RecordOK(g)
    BY <1>1, <1>2, <1>6, <1>7, <1>8, <1>9
       DEF RecordOK, AtHand, Judged, SecretKnown, Changing, Condemned
  <1>13. g.req.kind = "revoke_all" => LiveOK(g)
    BY <1>1, <1>6, <1>8, <1>9 DEF LiveOK
  <1>15. g.req.kind = "list_by_owner" => Calm(g)
    BY <1>1, <1>6, <1>8, <1>9 DEF Calm, GenerationKnown, Walking
  <1>14. FrameOK(g)
    BY <1>15, <1>8, <1>9, <1>10, <1>11, <1>12, <1>13, ApiKeyAssumption DEF FrameOK
  <1> QED BY <1>5, <1>14 DEF Moves

(* A revoke and a purge read the index entry of the record at hand.        *)
LEMMA ReadOwnSecretMoves ==
    ASSUME Inv, NEW c \in Clients, ReadOwnSecret(c)
    PROVE  Moves(c)
  BY SecretReadMoves DEF ReadOwnSecret, Read, OwnSecretKey, S

(* The same read, of a purge.                                              *)
LEMMA ReadPurgedMoves ==
    ASSUME Inv, NEW c \in Clients, ReadPurged(c)
    PROVE  Moves(c)
  BY SecretReadMoves DEF ReadPurged, Read, OwnSecretKey, S

-----------------------------------------------------------------------------
(* Reads of a creation. *)

(* A creation that knows the entries of its id and its hash, and has       *)
(* judged the occupants it lists dead.                                     *)
Creating(f) ==
    /\ f \in Frame /\ f.req \in Requested /\ f.reply = None /\ f.req.kind = "create"
    /\ Seen(f.generation, G(f.req.owner))
    /\ SeenRecord(f.id_entry, f.req.id) /\ Seen(f.hash_entry, S(f.req.hash))
    /\ present(f.hash_entry) => f.hash_entry.val \in KeyIds
    /\ \A s \in f.stale : Dead(s[2]) /\ (IdOccupant(f, s) \/ HashOccupied(f, s[1], s[2]))
    /\ present(f.id_entry) => <<f.req.id, f.id_entry.val>> \in f.stale

(* No entries have no keys.                                                *)
LEMMA NoKeys == DOMAIN NoEntries = {}
  BY DEF NoEntries

(* With all occupants judged, the index entry of the dead record at the id *)
(* is read, unless it is the hash's, and then the creation commits.        *)
LEMMA ReadSecretsMoves ==
    ASSUME NEW c, NEW f, Creating(f), SecretsOK(f),
           present(f.hash_entry) => \E s \in f.stale : HashOccupied(f, s[1], s[2]),
           ReadSecrets(c, f)
    PROVE  Moves(c)
  <1> DEFINE left == {s \in f.stale : s[2].secret_hash # f.req.hash
                                      /\ secret_key(s[2].secret_hash) \notin DOMAIN f.secrets}
  <1>1. f \in Frame /\ f.req \in Requested /\ f.reply = None /\ f.req.kind = "create"
    BY DEF Creating
  <1>2. ASSUME NEW s \in left,
               Become(c, [f EXCEPT !.at = "stale secret", !.id = s[1],
                                   !.entry = [Absent EXCEPT !.val = s[2]]])
        PROVE  Moves(c)
    <2> DEFINE stored == [Absent EXCEPT !.val = s[2]]
               g == [f EXCEPT !.at = "stale secret", !.id = s[1], !.entry = stored]
    <2>1. s \in f.stale /\ s[1] \in KeyIds /\ s[2] \in StoredRecord
      BY <1>1, <1>2, FrameEntries
    <2>2. IdOccupant(f, s)
      BY <1>2 DEF Creating, HashOccupied
    <2>3. present(f.id_entry) /\ s[1] = f.req.id /\ s[2] = f.id_entry.val
      BY <2>2 DEF IdOccupant
    <2>4. f.secrets = NoEntries
      BY <1>2, <2>3 DEF SecretsOK
    <2>5. stored \in Entry(StoredRecord) /\ stored.val = s[2]
      BY <2>1 DEF Absent, Entry
    <2>6. Become(c, g)
      BY <1>2
    <2>7. s[2].secret_hash # f.req.hash
      BY <1>2
    <2> HIDE DEF stored
    <2>8. /\ g \in Frame /\ g.at = "stale secret" /\ g.id = s[1] /\ g.entry = stored
          /\ g.req = f.req /\ g.reply = None /\ g.generation = f.generation
          /\ g.id_entry = f.id_entry /\ g.hash_entry = f.hash_entry /\ g.stale = f.stale
          /\ g.secrets = f.secrets
      <3>1. "stale secret" \in Places /\ s[1] \in KeyIds \cup {None}
        BY <2>1 DEF Places
      <3> QED BY <1>1, <2>5, <3>1 DEF Frame
    <2> HIDE DEF g
    <2>9. Route(g)
      BY <1>1, <2>8 DEF Route, Walking, Finding, Changing, Occupied
    <2>10. RecordOK(g)
      BY <2>8 DEF RecordOK, AtHand, Judged, SecretKnown
    <2>11. CreateOK(g)
      BY <2>3, <2>4, <2>5, <2>7, <2>8
         DEF CreateOK, Creating, Occupied, Gathered, SecretsOK, IdOccupant, HashOccupied
    <2>12. FrameOK(g)
      BY <1>1, <2>8, <2>9, <2>10, <2>11, ApiKeyAssumption DEF FrameOK, Creating
    <2> QED BY <2>6, <2>12 DEF Moves
  <1>3. CASE left = {} /\ Become(c, [f EXCEPT !.at = "commit"])
    <2> DEFINE g == [f EXCEPT !.at = "commit"]
    <2>1. Become(c, g)
      BY <1>3
    <2>2. /\ g \in Frame /\ g.at = "commit"
          /\ g.req = f.req /\ g.reply = None /\ g.generation = f.generation
          /\ g.id_entry = f.id_entry /\ g.hash_entry = f.hash_entry /\ g.stale = f.stale
          /\ g.secrets = f.secrets
      <3>1. "commit" \in Places
        BY DEF Places
      <3> QED BY <1>1, <3>1 DEF Frame
    <2>3. ASSUME present(f.id_entry), f.id_entry.val.secret_hash # f.req.hash
          PROVE  f.secrets # NoEntries
      <3>1. <<f.req.id, f.id_entry.val>> \in f.stale
        BY <2>3 DEF Creating
      <3>2. secret_key(f.id_entry.val.secret_hash) \in DOMAIN f.secrets
        BY <1>3, <2>3, <3>1
      <3> QED BY <3>2, NoKeys
    <2> HIDE DEF g
    <2>4. Route(g)
      BY <1>1, <2>2 DEF Route, Walking, Finding, Changing, Occupied
    <2>5. RecordOK(g)
      BY <1>1, <2>2 DEF RecordOK, AtHand, Judged, SecretKnown, Changing
    <2>6. CreateOK(g)
      BY <2>2, <2>3
         DEF CreateOK, Creating, Occupied, Gathered, SecretsOK, IdOccupant, HashOccupied
    <2>7. FrameOK(g)
      BY <1>1, <2>2, <2>4, <2>5, <2>6, ApiKeyAssumption DEF FrameOK, Creating
    <2> QED BY <2>1, <2>7 DEF Moves
  <1> QED BY <1>2, <1>3 DEF ReadSecrets

(* The occupant of the hash is looked up, if there is one.                 *)
LEMMA HashOccupantMoves ==
    ASSUME NEW c, NEW f, Creating(f), f.secrets = NoEntries, HashOccupant(c, f)
    PROVE  Moves(c)
  <1>1. f \in Frame /\ f.req \in Requested /\ f.reply = None /\ f.req.kind = "create"
    BY DEF Creating
  <1>2. CASE present(f.hash_entry)
             /\ Become(c, [f EXCEPT !.at = "occupant", !.id = f.hash_entry.val])
    <2> DEFINE g == [f EXCEPT !.at = "occupant", !.id = f.hash_entry.val]
    <2>1. f.hash_entry.val \in KeyIds
      BY <1>2 DEF Creating
    <2>2. Become(c, g)
      BY <1>2
    <2>3. /\ g \in Frame /\ g.at = "occupant" /\ g.id = f.hash_entry.val
          /\ g.req = f.req /\ g.reply = None /\ g.generation = f.generation
          /\ g.id_entry = f.id_entry /\ g.hash_entry = f.hash_entry /\ g.stale = f.stale
          /\ g.secrets = f.secrets
      <3>1. "occupant" \in Places /\ f.hash_entry.val \in KeyIds \cup {None}
        BY <2>1 DEF Places
      <3> QED BY <1>1, <3>1 DEF Frame
    <2> HIDE DEF g
    <2>4. Route(g)
      BY <1>1, <2>3 DEF Route, Walking, Finding, Changing, Occupied
    <2>5. RecordOK(g)
      BY <2>3 DEF RecordOK, AtHand, Judged, SecretKnown
    <2>6. CreateOK(g)
      BY <1>2, <2>1, <2>3
         DEF CreateOK, Creating, Occupied, Gathered, SecretsOK, IdOccupant, HashOccupied
    <2>7. FrameOK(g)
      BY <1>1, <2>3, <2>4, <2>5, <2>6, ApiKeyAssumption DEF FrameOK, Creating
    <2> QED BY <2>2, <2>7 DEF Moves
  <1>3. CASE ~present(f.hash_entry) /\ ReadSecrets(c, f)
    BY <1>3, ReadSecretsMoves DEF SecretsOK
  <1> QED BY <1>2, <1>3 DEF HashOccupant

(* The index entry of the hash a creation asks for.                        *)
LEMMA ReadHashMoves ==
    ASSUME Inv, NEW c \in Clients, ReadHash(c)
    PROVE  Moves(c)
  <1> SUFFICES ASSUME NEW f, f = client[c] PROVE Moves(c)
    OBVIOUS
  <1> DEFINE entry == S(f.req.hash)
             next == [f EXCEPT !.hash_entry = entry]
             g == [next EXCEPT !.at = "id occupant live", !.entry = f.id_entry]
  <1>1. f.at = "hash" /\ HashRead(c, f, entry)
    BY DEF ReadHash, Read, S
  <1>2. /\ f \in Frame /\ f.req \in Requested /\ f.reply = None /\ EntriesTyped /\ Coherent
        /\ Route(f) /\ (GenerationKnown(f) => Seen(f.generation, G(f.req.owner)))
        /\ (f.req.kind = "create" => CreateOK(f))
    BY <1>1, FrameOf DEF Ended
  <1>3. f.req.kind = "create" /\ CreateOK(f) /\ Seen(f.generation, G(f.req.owner))
    BY <1>1, <1>2 DEF Route, Occupied, GenerationKnown
  <1>4. /\ f.req.hash \in Hashes /\ f.req.id \in KeyIds
        /\ SeenRecord(f.id_entry, f.req.id) /\ f.stale = {} /\ f.secrets = NoEntries
        /\ f.id = f.req.id
    BY <1>1, <1>2, <1>3, Asked DEF CreateOK, Gathered, Occupied
  <1>5. /\ entry \in Entry(KeyIds) /\ Seen(entry, S(f.req.hash))
        /\ present(entry) => entry.val \in KeyIds
    BY <1>2, <1>4, ReadSeen
  <1> HIDE DEF entry
  <1>6. /\ next \in Frame /\ next.req = f.req /\ next.reply = None /\ next.id = f.id
        /\ next.generation = f.generation /\ next.id_entry = f.id_entry
        /\ next.hash_entry = entry /\ next.stale = f.stale /\ next.secrets = f.secrets
    BY <1>2, <1>5 DEF Frame
  <1>7. \/ present(f.id_entry) /\ Become(c, g)
        \/ ~present(f.id_entry) /\ HashOccupant(c, next)
    BY <1>1, Zenon DEF HashRead
  <1> HIDE DEF next
  <1>8. CASE present(f.id_entry) /\ Become(c, g)
    <2>1. f.id_entry \in Entry(StoredRecord)
      BY <1>2 DEF Frame
    <2>2. /\ g \in Frame /\ g.at = "id occupant live" /\ g.entry = f.id_entry
          /\ g.req = next.req /\ g.reply = next.reply /\ g.id = next.id
          /\ g.generation = next.generation /\ g.id_entry = next.id_entry
          /\ g.hash_entry = next.hash_entry /\ g.stale = next.stale
          /\ g.secrets = next.secrets
      <3>1. "id occupant live" \in Places
        BY DEF Places
      <3> QED BY <1>6, <2>1, <3>1 DEF Frame
    <2>3. Become(c, g)
      BY <1>8
    <2> HIDE DEF g
    <2>4. Route(g)
      BY <1>2, <1>3, <1>6, <2>2 DEF Route, Walking, Finding, Changing, Occupied
    <2>5. RecordOK(g)
      BY <2>2 DEF RecordOK, AtHand, Judged, SecretKnown
    <2>6. CreateOK(g)
      BY <1>4, <1>5, <1>6, <1>8, <2>2 DEF CreateOK, Occupied, Gathered, SecretsOK
    <2>7. FrameOK(g)
      BY <1>3, <1>6, <2>2, <2>4, <2>5, <2>6, ApiKeyAssumption DEF FrameOK
    <2> QED BY <2>3, <2>7 DEF Moves
  <1>9. CASE ~present(f.id_entry) /\ HashOccupant(c, next)
    <2>1. Creating(next)
      BY <1>2, <1>3, <1>4, <1>5, <1>6, <1>9 DEF Creating
    <2> QED BY <1>4, <1>6, <1>9, <2>1, HashOccupantMoves
  <1> QED BY <1>7, <1>8, <1>9

(* What a creation past its two index reads knows.                         *)
LEMMA CreatingOf ==
    ASSUME Inv, NEW c \in Clients, NEW f, f = client[c],
           f.at \in {"occupant", "occupant live", "stale secret"}
    PROVE  /\ Creating(f) /\ CreateOK(f) /\ Route(f) /\ EntriesTyped /\ Coherent
           /\ f.req.hash \in Hashes /\ f.req.id \in KeyIds
  <1>1. f.at \notin Ended /\ f.at \in Occupied
    BY DEF Ended, Occupied
  <1>2. /\ f \in Frame /\ f.req \in Requested /\ f.reply = None /\ EntriesTyped /\ Coherent
        /\ Route(f) /\ (GenerationKnown(f) => Seen(f.generation, G(f.req.owner)))
        /\ (f.req.kind = "create" => CreateOK(f))
    BY <1>1, FrameOf
  <1>3. f.req.kind = "create" /\ CreateOK(f) /\ Seen(f.generation, G(f.req.owner))
    BY <1>1, <1>2 DEF Route, GenerationKnown
  <1>4. f.req.hash \in Hashes /\ f.req.id \in KeyIds
    BY <1>2, <1>3, Asked
  <1>5. /\ SeenRecord(f.id_entry, f.req.id) /\ Seen(f.hash_entry, S(f.req.hash))
        /\ \A s \in f.stale : Dead(s[2]) /\ (IdOccupant(f, s) \/ HashOccupied(f, s[1], s[2]))
        /\ present(f.id_entry) => <<f.req.id, f.id_entry.val>> \in f.stale
    BY <1>1, <1>3 DEF CreateOK, Occupied
  <1>6. present(f.hash_entry) => f.hash_entry.val \in KeyIds
    BY <1>1, <1>3 DEF CreateOK, Occupied
  <1> QED BY <1>2, <1>3, <1>4, <1>5, <1>6 DEF Creating

(* The record of the occupant of the hash.                                 *)
LEMMA ReadOccupantMoves ==
    ASSUME Inv, NEW c \in Clients, ReadOccupant(c)
    PROVE  Moves(c)
  <1> SUFFICES ASSUME NEW f, f = client[c] PROVE Moves(c)
    OBVIOUS
  <1> DEFINE entry == R(f.id)
             g == [f EXCEPT !.at = "occupant live", !.entry = entry]
  <1>1. f.at = "occupant" /\ OccupantRead(c, f, entry)
    BY DEF ReadOccupant, Read, R
  <1>2. /\ Creating(f) /\ CreateOK(f) /\ Route(f) /\ EntriesTyped /\ Coherent
        /\ f.req.hash \in Hashes /\ f.req.id \in KeyIds
    BY <1>1, CreatingOf
  <1>3. /\ present(f.hash_entry) /\ f.id = f.hash_entry.val /\ f.id \in KeyIds
        /\ f.secrets = NoEntries
        /\ present(f.id_entry) => <<f.req.id, f.id_entry.val>> \in f.stale
    BY <1>1, <1>2 DEF CreateOK, Gathered
  <1>4. entry \in Entry(StoredRecord) /\ SeenRecord(entry, f.id)
    BY <1>2, <1>3, ReadSeen
  <1>5. /\ f \in Frame /\ f.req \in Requested /\ f.reply = None /\ f.req.kind = "create"
        /\ Seen(f.generation, G(f.req.owner))
    BY <1>2 DEF Creating
  <1>6. CASE invalid_record(c, f)
    BY <1>5, <1>6, ThrowMoves DEF invalid_record, Ended
  <1>7. CASE present(entry) /\ entry.val.secret_hash = f.req.hash /\ Become(c, g)
    <2>1. Become(c, g)
      BY <1>7
    <2>2. HashOccupied(f, f.id, entry.val)
      <3>1. SameKey(R(f.id), entry.val)
        BY <1>7 DEF SameKey
      <3> QED BY <1>3, <1>7, <3>1 DEF HashOccupied
    <2>3. entry.val \in StoredRecord /\ Aged(entry.val)
      BY <1>4, <1>7 DEF SeenRecord
    <2>4. present(entry)
      BY <1>7
    <2> HIDE DEF entry
    <2>5. /\ g \in Frame /\ g.at = "occupant live" /\ g.entry = entry /\ g.id = f.id
          /\ g.req = f.req /\ g.reply = f.reply /\ g.generation = f.generation
          /\ g.id_entry = f.id_entry /\ g.hash_entry = f.hash_entry /\ g.stale = f.stale
          /\ g.secrets = f.secrets
      <3>1. "occupant live" \in Places
        BY DEF Places
      <3> QED BY <1>4, <1>5, <3>1 DEF Frame
    <2> HIDE DEF g
    <2>6. Route(g)
      BY <1>5, <2>5 DEF Route, Walking, Finding, Changing, Occupied
    <2>7. RecordOK(g)
      BY <2>5 DEF RecordOK, AtHand, Judged, SecretKnown
    <2>10. HashOccupied(g, g.id, g.entry.val)
      BY <2>2, <2>5 DEF HashOccupied
    <2>11. /\ SeenRecord(g.id_entry, g.req.id) /\ Seen(g.hash_entry, S(g.req.hash))
           /\ \A s \in g.stale : Dead(s[2]) /\ (IdOccupant(g, s) \/ HashOccupied(g, s[1], s[2]))
      BY <1>2, <2>5 DEF Creating, IdOccupant, HashOccupied
    <2>8. CreateOK(g)
      BY <1>3, <2>3, <2>4, <2>5, <2>10, <2>11 DEF CreateOK, Occupied, Gathered, SecretsOK
    <2>9. FrameOK(g)
      BY <1>5, <2>5, <2>6, <2>7, <2>8, ApiKeyAssumption DEF FrameOK
    <2> QED BY <2>1, <2>9 DEF Moves
  <1> QED BY <1>1, <1>6, <1>7 DEF OccupantRead

(* The owner's generation, read to judge the occupant of a creation's id.  *)
LEMMA ReadIdOccupantLiveMoves ==
    ASSUME Inv, NEW c \in Clients, ReadIdOccupantLive(c)
    PROVE  Moves(c)
  <1> SUFFICES ASSUME NEW f, f = client[c] PROVE Moves(c)
    OBVIOUS
  <1> DEFINE generation == G(f.entry.val.owner_user_id)
             next == [f EXCEPT !.stale = @ \cup {<<f.id, f.entry.val>>}]
  <1>1. f.at = "id occupant live" /\ OccupantLive(c, f, generation)
    BY DEF ReadIdOccupantLive, Read, OwnerGeneration, G
  <1>2. /\ f \in Frame /\ f.req \in Requested /\ f.reply = None /\ EntriesTyped /\ Coherent
        /\ Route(f) /\ (GenerationKnown(f) => Seen(f.generation, G(f.req.owner)))
        /\ (f.req.kind = "create" => CreateOK(f))
    BY <1>1, FrameOf DEF Ended
  <1>3. f.req.kind = "create" /\ CreateOK(f) /\ Seen(f.generation, G(f.req.owner))
    BY <1>1, <1>2 DEF Route, Occupied, GenerationKnown
  <1>4. /\ SeenRecord(f.id_entry, f.req.id) /\ Seen(f.hash_entry, S(f.req.hash))
        /\ present(f.hash_entry) => f.hash_entry.val \in KeyIds
        /\ f.stale = {} /\ f.secrets = NoEntries
        /\ f.id = f.req.id /\ f.entry = f.id_entry /\ present(f.id_entry)
    BY <1>1, <1>3 DEF CreateOK, Gathered, Occupied
  <1>5. f.entry.val \in StoredRecord /\ Aged(f.entry.val) /\ f.req.id \in KeyIds
    BY <1>2, <1>3, <1>4, Asked DEF SeenRecord
  <1>6. LiveEntry(f, generation) \/ Dead(f.entry.val)
    BY <1>2, <1>5, OlderIsDead DEF LiveEntry
  <1> HIDE DEF generation
  <1>7. CASE Return(c, "collision")
    BY <1>7, ReturnMoves DEF Replies
  <1>8. CASE ~LiveEntry(f, generation) /\ HashOccupant(c, next)
    <2>1. <<f.id, f.entry.val>> \in Pairs(StoredRecord)
      BY <1>4, <1>5 DEF Pairs
    <2>2. HashOccupant(c, next)
      BY <1>8
    <2>3. /\ next \in Frame /\ next.req = f.req /\ next.reply = f.reply
          /\ next.generation = f.generation /\ next.id_entry = f.id_entry
          /\ next.hash_entry = f.hash_entry /\ next.secrets = f.secrets
          /\ next.stale = f.stale \cup {<<f.id, f.entry.val>>}
      BY <1>2, <2>1 DEF Frame
    <2> HIDE DEF next
    <2>4. next.stale = {<<f.req.id, f.id_entry.val>>}
      BY <1>4, <2>3
    <2>5. \A s \in next.stale : s[2] = f.id_entry.val /\ IdOccupant(next, s)
      BY <1>4, <2>3, <2>4 DEF IdOccupant
    <2>6. Creating(next)
      BY <1>2, <1>3, <1>4, <1>6, <1>8, <2>3, <2>4, <2>5 DEF Creating
    <2> QED BY <1>4, <2>2, <2>3, <2>6, HashOccupantMoves
  <1> QED BY <1>1, <1>7, <1>8 DEF OccupantLive

(* The same for the occupant of its hash.                                  *)
LEMMA ReadOccupantLiveMoves ==
    ASSUME Inv, NEW c \in Clients, ReadOccupantLive(c)
    PROVE  Moves(c)
  <1> SUFFICES ASSUME NEW f, f = client[c] PROVE Moves(c)
    OBVIOUS
  <1> DEFINE generation == G(f.entry.val.owner_user_id)
             next == [f EXCEPT !.stale = @ \cup {<<f.id, f.entry.val>>}]
  <1>1. f.at = "occupant live" /\ OccupantLive(c, f, generation)
    BY DEF ReadOccupantLive, Read, OwnerGeneration, G
  <1>2. Creating(f) /\ CreateOK(f) /\ EntriesTyped
    BY <1>1, CreatingOf
  <1>3. /\ f.id \in KeyIds /\ present(f.entry) /\ f.entry.val \in StoredRecord
        /\ Aged(f.entry.val) /\ HashOccupied(f, f.id, f.entry.val) /\ f.secrets = NoEntries
    BY <1>1, <1>2 DEF CreateOK, Gathered
  <1>4. LiveEntry(f, generation) \/ Dead(f.entry.val)
    BY <1>2, <1>3, OlderIsDead DEF LiveEntry
  <1> HIDE DEF generation
  <1>5. CASE Return(c, "collision")
    BY <1>5, ReturnMoves DEF Replies
  <1>6. CASE ~LiveEntry(f, generation) /\ ReadSecrets(c, next)
    <2>1. <<f.id, f.entry.val>> \in Pairs(StoredRecord) /\ f \in Frame
      BY <1>2, <1>3 DEF Pairs, Creating
    <2>2. ReadSecrets(c, next)
      BY <1>6
    <2>3. /\ next \in Frame /\ next.req = f.req /\ next.reply = f.reply
          /\ next.generation = f.generation /\ next.id_entry = f.id_entry
          /\ next.hash_entry = f.hash_entry /\ next.secrets = f.secrets
          /\ next.stale = f.stale \cup {<<f.id, f.entry.val>>}
      BY <2>1 DEF Frame
    <2> HIDE DEF next
    <2>4. ASSUME NEW s \in next.stale
          PROVE  Dead(s[2]) /\ (IdOccupant(next, s) \/ HashOccupied(next, s[1], s[2]))
      <3>1. CASE s \in f.stale
        BY <1>2, <2>3, <3>1 DEF Creating, IdOccupant, HashOccupied
      <3>2. CASE s = <<f.id, f.entry.val>>
        <4>1. s[1] = f.id /\ s[2] = f.entry.val
          BY <3>2
        <4> QED BY <1>3, <1>4, <1>6, <2>3, <4>1 DEF HashOccupied
      <3> QED BY <2>3, <3>1, <3>2
    <2>5. Creating(next)
      <3>1. present(f.id_entry) => <<f.req.id, f.id_entry.val>> \in next.stale
        BY <1>2, <2>3 DEF Creating
      <3>2. /\ f.req \in Requested /\ f.reply = None /\ f.req.kind = "create"
            /\ Seen(f.generation, G(f.req.owner))
            /\ SeenRecord(f.id_entry, f.req.id) /\ Seen(f.hash_entry, S(f.req.hash))
            /\ present(f.hash_entry) => f.hash_entry.val \in KeyIds
        BY <1>2 DEF Creating
      <3> QED BY <2>3, <2>4, <3>1, <3>2 DEF Creating
    <2>6. \E s \in next.stale : HashOccupied(next, s[1], s[2])
      <3> DEFINE s == <<f.id, f.entry.val>>
      <3>1. s \in next.stale /\ s[1] = f.id /\ s[2] = f.entry.val
        BY <2>3
      <3>2. HashOccupied(next, f.id, f.entry.val)
        BY <1>3, <2>3 DEF HashOccupied
      <3> QED BY <3>1, <3>2
    <2>7. SecretsOK(next)
      BY <1>3, <2>3 DEF SecretsOK
    <2> QED BY <2>2, <2>5, <2>6, <2>7, ReadSecretsMoves
  <1> QED BY <1>1, <1>5, <1>6 DEF OccupantLive


(* The index entry of the dead record at a creation's id.                  *)
LEMMA ReadStaleSecretMoves ==
    ASSUME Inv, NEW c \in Clients, ReadStaleSecret(c)
    PROVE  Moves(c)
  <1> SUFFICES ASSUME NEW f, f = client[c] PROVE Moves(c)
    OBVIOUS
  <1> DEFINE hash == f.entry.val.secret_hash
             key == secret_key(hash)
             entry == S(hash)
             known == Overlay(f.secrets, Single(key, entry))
             next == [f EXCEPT !.secrets = known]
  <1>1. f.at = "stale secret" /\ ReadSecrets(c, next)
    BY DEF ReadStaleSecret, Read, OwnSecretKey, S, StaleSecretRead
  <1>2. Creating(f) /\ CreateOK(f) /\ EntriesTyped /\ Coherent /\ f \in Frame
    BY <1>1, CreatingOf DEF Creating
  <1>3. /\ present(f.id_entry) /\ hash = f.id_entry.val.secret_hash /\ hash # f.req.hash
        /\ f.secrets = NoEntries
        /\ present(f.hash_entry) => \E s \in f.stale : HashOccupied(f, s[1], s[2])
    BY <1>1, <1>2 DEF CreateOK, Gathered
  <1>4. hash \in Hashes
    BY <1>2, <1>3 DEF Creating, SeenRecord, StoredRecord
  <1>5. entry \in Entry(KeyIds)
    BY <1>2, <1>4, ReadSeen
  <1>6. known = [k \in {key} |-> entry]
    <2> HIDE DEF entry, key
    <2>1. DOMAIN Single(key, entry) = {key} /\ Single(key, entry)[key] = entry
      BY DEF Single
    <2>2. known = [k \in {} \cup {key} |-> Single(key, entry)[k]]
      BY <1>3, <2>1, NoKeys DEF Overlay
    <2> QED BY <2>1, <2>2
  <1>7. /\ known \in [{secret_key(hash)} -> Entry(KeyIds)] /\ DOMAIN known = {key}
        /\ known[key] = entry
    <2> HIDE DEF entry, known
    <2> QED BY <1>5, <1>6
  <1>8. known \in {NoEntries} \cup UNION {[{secret_key(h)} -> Entry(KeyIds)] : h \in Hashes}
    <2> HIDE DEF known
    <2> QED BY <1>4, <1>7
  <1>9. R(f.req.id) = f.id_entry => S(f.id_entry.val.secret_hash) = known[key]
    <2> HIDE DEF known
    <2> QED BY <1>3, <1>7
  <1>10. key = secret_key(f.id_entry.val.secret_hash)
    BY <1>3
  <1> HIDE DEF known, entry, key
  <1>11. /\ next \in Frame /\ next.req = f.req /\ next.reply = f.reply
         /\ next.generation = f.generation /\ next.id_entry = f.id_entry
         /\ next.hash_entry = f.hash_entry /\ next.secrets = known /\ next.stale = f.stale
    BY <1>2, <1>8 DEF Frame
  <1> HIDE DEF next
  <1>12. Creating(next)
    BY <1>2, <1>11 DEF Creating, IdOccupant, HashOccupied
  <1>13. SecretsOK(next)
    BY <1>3, <1>7, <1>9, <1>10, <1>11 DEF SecretsOK
  <1>14. present(next.hash_entry) => \E s \in next.stale : HashOccupied(next, s[1], s[2])
    BY <1>3, <1>11 DEF HashOccupied
  <1> QED BY <1>1, <1>12, <1>13, <1>14, ReadSecretsMoves

(* A client takes a call. *)
LEMMA CallMoves ==
    ASSUME Inv, NEW c \in Clients, NEW req \in requests, Call(c, req)
    PROVE  Moves(c)
  <1>1. req \in Requested
    BY DEF Inv
  <1>2. [Idle EXCEPT !.req = req] = [Idle EXCEPT !.req = req, !.attempt = 0]
    <2>1. ASSUME NEW f \in Frame, f.attempt = 0
          PROVE  [f EXCEPT !.req = req] = [f EXCEPT !.req = req, !.attempt = 0]
      BY <1>1, <2>1 DEF Frame
    <2> QED BY <2>1, IdleOK
  <1>3. Begin(c, [Idle EXCEPT !.req = req, !.attempt = 0])
    BY <1>2 DEF Call
  <1> QED BY <1>1, <1>3, BeginMoves

(* A process stops. *)
LEMMA CrashMoves ==
    ASSUME NEW c, Crash(c)
    PROVE  Moves(c)
  BY IdleOK DEF Crash, Moves, Become

-----------------------------------------------------------------------------
(* What the atomic operations do to the store.                             *)

(* The part of TypeOK that is about the store.                             *)
StoreTyped ==
    /\ clock \in Nat
    /\ \A k \in DOMAIN kv : kv[k] \in [vs : 1 .. clock, val : ValuesAt(k)]

(* An entry is present when its key is stored, and then has what the key   *)
(* holds.                                                                  *)
LEMMA Stored ==
    ASSUME StoreTyped, NEW key
    PROVE  /\ present(get(key)) <=> key \in DOMAIN kv
           /\ EntryOK(get(key), ValuesAt(key))
  <1>1. CASE key \in DOMAIN kv
    <2>1. get(key) \in [vs : 1 .. clock, val : ValuesAt(key)]
      BY <1>1 DEF get, StoreTyped
    <2>2. get(key).vs \in Nat /\ get(key).vs # 0 /\ get(key).vs <= clock
      BY <2>1 DEF StoreTyped
    <2>3. get(key) \in Entry(ValuesAt(key)) /\ get(key).val \in ValuesAt(key)
      BY <2>1, <2>2 DEF Entry
    <2> QED BY <1>1, <2>2, <2>3 DEF present, EntryOK
  <1>2. CASE key \notin DOMAIN kv
    <2>1. get(key) = Absent
      BY <1>2 DEF get
    <2>2. Absent.vs <= clock
      BY Absence DEF StoreTyped
    <2> QED BY <1>2, <2>1, <2>2, Absence DEF EntryOK
  <1> QED BY <1>1, <1>2

(* What each family of keys holds. *)
LEMMA ValuesOfKeys ==
    /\ \A id : ValuesAt(record_key(id)) = StoredRecord
    /\ \A h : ValuesAt(secret_key(h)) = KeyIds
    /\ \A o : ValuesAt(generation_key(o)) = Nat \ {0}
    /\ \A o, id : ValuesAt(owner_key(o, id)) = KeyIds
  <1>1. \A id : record_key(id)[1] = "by-id"
    BY DEF record_key
  <1>2. \A h : secret_key(h)[1] = "by-secret-hash"
    BY DEF secret_key
  <1>3. \A o : generation_key(o)[1] = "owner-generation"
    BY DEF generation_key
  <1>4. \A o, id : owner_key(o, id)[1] = "by-owner"
    BY DEF owner_key
  <1> QED BY <1>1, <1>2, <1>3, <1>4 DEF ValuesAt

(* So the entries of each family are typed. *)
LEMMA TypedEntries == StoreTyped => EntriesTyped
  <1> SUFFICES ASSUME StoreTyped PROVE EntriesTyped
    OBVIOUS
  <1>1. \A id \in KeyIds : EntryOK(R(id), StoredRecord)
    BY Stored, ValuesOfKeys DEF R
  <1>2. \A h \in Hashes : EntryOK(S(h), KeyIds)
    BY Stored, ValuesOfKeys DEF S
  <1>3. \A o \in Owners : EntryOK(G(o), Nat \ {0})
    BY Stored, ValuesOfKeys DEF G
  <1>4. \A o \in Owners, id \in KeyIds : EntryOK(O(o, id), KeyIds)
    BY Stored, ValuesOfKeys DEF O
  <1> QED BY <1>1, <1>2, <1>3, <1>4 DEF EntriesTyped, StoreTyped

(* An atomic operation that writes at each key what belongs there.         *)
LEMMA WriteTyped ==
    ASSUME StoreTyped, NEW written, NEW removed, Write(written, removed),
           \A key \in DOMAIN written : written[key] \in ValuesAt(key)
    PROVE  StoreTyped' /\ EntriesTyped' /\ clock' = clock + 1
  <1> DEFINE kept == [k \in DOMAIN kv \ removed |-> kv[k]]
             fresh == [k \in DOMAIN written |-> [vs |-> clock + 1, val |-> written[k]]]
  <1>1. clock \in Nat /\ clock' \in Nat /\ clock' = clock + 1 /\ clock + 1 \in 1 .. clock + 1
    BY DEF Write, StoreTyped
  <1>2. kv' = [k \in DOMAIN fresh \cup DOMAIN kept |->
                  IF k \in DOMAIN fresh THEN fresh[k] ELSE kept[k]]
    BY DEF Write, Stamped, Overlay
  <1>3. ASSUME NEW k \in DOMAIN kv' PROVE kv'[k] \in [vs : 1 .. clock', val : ValuesAt(k)]
    <2>1. CASE k \in DOMAIN written
      <3>1. kv'[k] = [vs |-> clock + 1, val |-> written[k]]
        BY <1>2, <2>1
      <3> QED BY <1>1, <2>1, <3>1
    <2>2. CASE k \notin DOMAIN written
      <3>1. k \in DOMAIN kv /\ kv'[k] = kv[k]
        BY <1>2, <1>3, <2>2
      <3>2. kv[k] \in [vs : 1 .. clock, val : ValuesAt(k)]
        BY <3>1 DEF StoreTyped
      <3>3. 1 .. clock \subseteq 1 .. clock'
        BY <1>1
      <3> QED BY <3>1, <3>2, <3>3
    <2> QED BY <2>1, <2>2
  <1>4. \A k : ValuesAt(k)' = ValuesAt(k)
    BY DEF ValuesAt, StoredRecord
  <1>5. StoreTyped'
    BY <1>1, <1>3, <1>4 DEF StoreTyped
  <1>6. StoreTyped' => EntriesTyped'
    BY TypedEntries, PTL
  <1> QED BY <1>1, <1>5, <1>6

(* The three things an atomic operation can do.  Keys gone: the records of *)
(* gone with all their entries.  A key put in their place, if the caller   *)
(* creates one.                                                            *)
Removes(gone) ==
    /\ \A id \in KeyIds : R(id)' = IF id \in gone THEN Absent ELSE R(id)
    /\ \A h \in Hashes :
          S(h)' = IF present(S(h)) /\ S(h).val \in gone THEN Absent ELSE S(h)
    /\ \A o \in Owners, id \in KeyIds : O(o, id)' = IF id \in gone THEN Absent ELSE O(o, id)
    /\ \A o \in Owners : G(o)' = G(o)

Fresh(value) == [vs |-> clock + 1, val |-> value]

Creates(gone, new, stored) ==
    /\ \A id \in KeyIds : R(id)' = IF id = new THEN Fresh(stored)
                                   ELSE IF id \in gone THEN Absent ELSE R(id)
    /\ \A h \in Hashes :
          S(h)' = IF h = stored.secret_hash THEN Fresh(new)
                  ELSE IF present(S(h)) /\ S(h).val \in gone THEN Absent ELSE S(h)
    /\ \A o \in Owners, id \in KeyIds :
          O(o, id)' = IF o = stored.owner_user_id /\ id = new THEN Fresh(new)
                      ELSE IF id \in gone THEN Absent ELSE O(o, id)
    /\ \A o \in Owners : G(o)' = G(o)

(* A record that remains the same key. *)
Updates(id, stored) ==
    /\ \A i \in KeyIds : R(i)' = IF i = id THEN Fresh(stored) ELSE R(i)
    /\ \A h \in Hashes : S(h)' = S(h)
    /\ \A o \in Owners, i \in KeyIds : O(o, i)' = O(o, i)
    /\ \A o \in Owners : G(o)' = G(o)

(* A new generation of an owner's keys. *)
Bumps(owner) ==
    /\ \A id \in KeyIds : R(id)' = R(id)
    /\ \A h \in Hashes : S(h)' = S(h)
    /\ \A o \in Owners, id \in KeyIds : O(o, id)' = O(o, id)
    /\ \A o \in Owners : G(o)' = IF o = owner THEN Fresh(generation_of(G(o)) + 1) ELSE G(o)

(* Stamps are not above the clock; a fresh entry is present and renewed.   *)
LEMMA FreshEntries ==
    ASSUME EntriesTyped, NEW value
    PROVE  /\ present(Fresh(value)) /\ Fresh(value).val = value
           /\ \A entry : Renewed(entry, Fresh(value)) /\ Renewed(entry, entry)
                         /\ Renewed(entry, Absent)
           /\ \A Values, entry : EntryOK(entry, Values) => Fresh(value) # entry
  <1>1. Fresh(value).vs = clock + 1 /\ Fresh(value).val = value /\ clock \in Nat
    BY DEF Fresh, EntriesTyped
  <1>2. clock + 1 > clock /\ clock + 1 # 0 /\ ~(clock + 1 <= clock)
    BY <1>1
  <1>3. \A Values, entry : EntryOK(entry, Values) => entry.vs <= clock
    BY DEF EntryOK
  <1> QED BY <1>1, <1>2, <1>3 DEF present, Renewed

(* The owner, the hash and the generation of a stored record.              *)
LEMMA StoredFields ==
    ASSUME EntriesTyped, Coherent, NEW id \in KeyIds, present(R(id))
    PROVE  /\ R(id).val \in StoredRecord
           /\ R(id).val.owner_user_id \in Owners /\ R(id).val.secret_hash \in Hashes
           /\ R(id).val.owner_generation \in Nat
           /\ present(S(R(id).val.secret_hash)) /\ S(R(id).val.secret_hash).val = id
           /\ present(O(R(id).val.owner_user_id, id))
           /\ R(id).val.owner_generation <= generation_of(G(R(id).val.owner_user_id))
  <1>1. R(id).val \in StoredRecord
    BY DEF EntriesTyped, EntryOK
  <1> QED BY <1>1 DEF Coherent, RecordIndexed, StoredRecord

(* The key of an index entry. *)
LEMMA IndexedKey ==
    ASSUME EntriesTyped, Coherent, NEW h \in Hashes, present(S(h))
    PROVE  S(h).val \in KeyIds /\ present(R(S(h).val)) /\ R(S(h).val).val.secret_hash = h
  BY DEF EntriesTyped, EntryOK, Coherent

(* An entry is of the key of its own record.                               *)
LEMMA SameAsItself ==
    ASSUME NEW entry, present(entry) PROVE SameKey(entry, entry.val)
  BY DEF SameKey

(* Removing keys keeps the indexes coherent. *)
LEMMA RemovesKeep ==
    ASSUME EntriesTyped, Coherent, EntriesTyped', clock <= clock', NEW gone, Removes(gone)
    PROVE  Coherent' /\ StoreGrows
  <1>1. ASSUME NEW id \in KeyIds, present(R(id)')
        PROVE  id \notin gone /\ R(id)' = R(id) /\ present(R(id)) /\ RecordIndexed(id)'
    <2>1. id \notin gone /\ R(id)' = R(id) /\ present(R(id))
      BY <1>1, Absence DEF Removes
    <2> DEFINE o == R(id).val.owner_user_id
               h == R(id).val.secret_hash
    <2>2. /\ o \in Owners /\ h \in Hashes /\ present(S(h)) /\ S(h).val = id
          /\ present(O(o, id)) /\ R(id).val.owner_generation <= generation_of(G(o))
      BY <2>1, StoredFields
    <2>3. S(h)' = S(h) /\ O(o, id)' = O(o, id) /\ G(o)' = G(o)
      BY <2>1, <2>2 DEF Removes
    <2> QED BY <2>1, <2>2, <2>3 DEF RecordIndexed, generation_of
  <1>2. ASSUME NEW o \in Owners, NEW id \in KeyIds, present(O(o, id)')
        PROVE  present(R(id)') /\ R(id)'.val.owner_user_id = o
    <2>1. id \notin gone /\ present(O(o, id)) /\ R(id)' = R(id)
      BY <1>2, Absence DEF Removes
    <2> QED BY <2>1 DEF Coherent
  <1>3. ASSUME NEW h \in Hashes, present(S(h)')
        PROVE  S(h)' = S(h) /\ present(S(h)) /\ S(h).val \in KeyIds /\ S(h).val \notin gone
               /\ R(S(h).val)' = R(S(h).val)
               /\ present(R(S(h).val)) /\ R(S(h).val).val.secret_hash = h
    <2>1. S(h)' = S(h) /\ present(S(h)) /\ S(h).val \notin gone
      BY <1>3, Absence DEF Removes
    <2>2. S(h).val \in KeyIds /\ present(R(S(h).val)) /\ R(S(h).val).val.secret_hash = h
      BY <2>1, IndexedKey
    <2>3. R(S(h).val)' = R(S(h).val)
      BY <2>1, <2>2 DEF Removes
    <2> QED BY <2>1, <2>2, <2>3
  <1>4. Coherent'
    BY <1>1, <1>2, <1>3 DEF Coherent
  <1>5. \A entry : Renewed(entry, entry) /\ Renewed(entry, Absent)
    BY FreshEntries
  <1>6. \A o \in Owners : /\ Renewed(G(o), G(o)') /\ generation_of(G(o)') \in Nat
                          /\ generation_of(G(o)) <= generation_of(G(o)')
                          /\ Quiet(o) => G(o)' = G(o)
    <2>1. \A o \in Owners : G(o)' = G(o) /\ generation_of(G(o)) \in Nat
      BY Generations DEF Removes
    <2>2. \A n \in Nat : n <= n
      OBVIOUS
    <2> QED BY <1>5, <2>1, <2>2
  <1>7. /\ \A id \in KeyIds : Renewed(R(id), R(id)')
        /\ \A h \in Hashes : Renewed(S(h), S(h)')
    BY <1>5 DEF Removes
  <1>8. ASSUME NEW id \in KeyIds, NEW h \in Hashes, present(R(id)),
               R(id).val.secret_hash = h, R(id)' = R(id)
        PROVE  S(h)' = S(h)
    <2>1. id \notin gone
      BY <1>1, <1>8
    <2>2. S(h).val = id
      BY <1>8, StoredFields
    <2> QED BY <2>1, <2>2 DEF Removes
  <1>9. ASSUME NEW h \in Hashes, NEW id \in KeyIds, present(S(h)), S(h).val = id, S(h)' = S(h)
        PROVE  SameKey(R(id)', R(id).val)
    <2>1. R(id)' = R(id) /\ present(R(id))
      BY <1>3, <1>9
    <2> QED BY <2>1, SameAsItself
  <1>10. clock' \in Nat
    BY DEF EntriesTyped
  <1> QED BY <1>4, <1>6, <1>7, <1>8, <1>9, <1>10 DEF StoreGrows

(* So does putting a key in the place of those that were in its way.       *)
LEMMA CreatesKeep ==
    ASSUME EntriesTyped, Coherent, EntriesTyped', clock <= clock', NEW gone,
           NEW new \in KeyIds, NEW stored \in StoredRecord, Creates(gone, new, stored),
           stored.owner_generation <= generation_of(G(stored.owner_user_id)),
           present(R(new)) => new \in gone,
           present(S(stored.secret_hash)) => S(stored.secret_hash).val \in gone
    PROVE  Coherent' /\ StoreGrows
  <1>0. /\ stored.owner_user_id \in Owners /\ stored.secret_hash \in Hashes
        /\ stored.owner_generation \in Nat
    BY DEF StoredRecord
  <1>a. /\ present(Fresh(stored)) /\ Fresh(stored).val = stored
        /\ present(Fresh(new)) /\ Fresh(new).val = new
        /\ \A entry : /\ Renewed(entry, entry) /\ Renewed(entry, Absent)
                      /\ Renewed(entry, Fresh(stored)) /\ Renewed(entry, Fresh(new))
        /\ \A Values, entry : EntryOK(entry, Values) => Fresh(stored) # entry /\ Fresh(new) # entry
    BY FreshEntries
  <1>1. ASSUME NEW id \in KeyIds, id # new, present(R(id)')
        PROVE  id \notin gone /\ R(id)' = R(id) /\ present(R(id)) /\ RecordIndexed(id)'
    <2>1. id \notin gone /\ R(id)' = R(id) /\ present(R(id))
      BY <1>1, Absence DEF Creates
    <2> DEFINE o == R(id).val.owner_user_id
               h == R(id).val.secret_hash
    <2>2. /\ o \in Owners /\ h \in Hashes /\ present(S(h)) /\ S(h).val = id
          /\ present(O(o, id)) /\ R(id).val.owner_generation <= generation_of(G(o))
      BY <2>1, StoredFields
    <2>3. h # stored.secret_hash
      BY <2>1, <2>2
    <2>4. S(h)' = S(h) /\ O(o, id)' = O(o, id) /\ G(o)' = G(o)
      BY <1>1, <2>1, <2>2, <2>3 DEF Creates
    <2> QED BY <2>1, <2>2, <2>4 DEF RecordIndexed, generation_of
  <1>2. R(new)' = Fresh(stored) /\ RecordIndexed(new)'
    <2>1. /\ R(new)' = Fresh(stored) /\ S(stored.secret_hash)' = Fresh(new)
          /\ O(stored.owner_user_id, new)' = Fresh(new)
          /\ G(stored.owner_user_id)' = G(stored.owner_user_id)
      BY <1>0 DEF Creates
    <2> QED BY <1>a, <2>1 DEF RecordIndexed, generation_of
  <1>3. ASSUME NEW o \in Owners, NEW id \in KeyIds, present(O(o, id)')
        PROVE  present(R(id)') /\ R(id)'.val.owner_user_id = o
    <2>1. CASE o = stored.owner_user_id /\ id = new
      BY <1>a, <1>2, <2>1
    <2>2. CASE ~(o = stored.owner_user_id /\ id = new)
      <3>1. id \notin gone /\ present(O(o, id))
        BY <1>3, <2>2, Absence DEF Creates
      <3>2. present(R(id)) /\ R(id).val.owner_user_id = o
        BY <3>1 DEF Coherent
      <3>3. R(id)' = R(id)
        BY <3>1, <3>2 DEF Creates
      <3> QED BY <3>2, <3>3
    <2> QED BY <2>1, <2>2
  <1>4. ASSUME NEW h \in Hashes, h # stored.secret_hash, present(S(h)')
        PROVE  S(h)' = S(h) /\ present(S(h)) /\ S(h).val \in KeyIds
               /\ R(S(h).val)' = R(S(h).val)
               /\ present(R(S(h).val)) /\ R(S(h).val).val.secret_hash = h
    <2>1. S(h)' = S(h) /\ present(S(h)) /\ S(h).val \notin gone
      BY <1>4, Absence DEF Creates
    <2>2. S(h).val \in KeyIds /\ present(R(S(h).val)) /\ R(S(h).val).val.secret_hash = h
      BY <2>1, IndexedKey
    <2>3. R(S(h).val)' = R(S(h).val)
      BY <2>1, <2>2 DEF Creates
    <2> QED BY <2>1, <2>2, <2>3
  <1>5. S(stored.secret_hash)' = Fresh(new)
    BY <1>0 DEF Creates
  <1>6. Coherent'
    <2>1. \A id \in KeyIds : present(R(id)') => RecordIndexed(id)'
      BY <1>1, <1>2
    <2>2. ASSUME NEW h \in Hashes, present(S(h)')
          PROVE  (present(R(S(h).val)) /\ R(S(h).val).val.secret_hash = h)'
      <3>1. CASE h = stored.secret_hash
        BY <1>a, <1>2, <1>5, <3>1
      <3>2. CASE h # stored.secret_hash
        BY <1>4, <2>2, <3>2
      <3> QED BY <3>1, <3>2
    <2> QED BY <1>3, <2>1, <2>2 DEF Coherent
  <1>7. \A o \in Owners : /\ Renewed(G(o), G(o)') /\ generation_of(G(o)') \in Nat
                          /\ generation_of(G(o)) <= generation_of(G(o)')
                          /\ Quiet(o) => G(o)' = G(o)
    <2>1. \A o \in Owners : G(o)' = G(o) /\ generation_of(G(o)) \in Nat
      BY Generations DEF Creates
    <2>2. \A n \in Nat : n <= n
      OBVIOUS
    <2> QED BY <1>a, <2>1, <2>2
  <1>8. /\ \A id \in KeyIds : Renewed(R(id), R(id)')
        /\ \A h \in Hashes : Renewed(S(h), S(h)')
    BY <1>a DEF Creates
  <1>9. ASSUME NEW id \in KeyIds, NEW h \in Hashes, present(R(id)),
               R(id).val.secret_hash = h, R(id)' = R(id)
        PROVE  S(h)' = S(h)
    <2>1. id # new
      BY <1>a, <1>2, <1>9 DEF EntriesTyped
    <2>2. id \notin gone /\ S(h).val = id /\ present(S(h))
      BY <1>1, <1>9, <2>1, StoredFields
    <2> QED BY <2>2 DEF Creates
  <1>10. ASSUME NEW h \in Hashes, NEW id \in KeyIds, present(S(h)), S(h).val = id, S(h)' = S(h)
         PROVE  SameKey(R(id)', R(id).val)
    <2>1. h # stored.secret_hash
      BY <1>a, <1>5, <1>10 DEF EntriesTyped
    <2>2. R(id)' = R(id) /\ present(R(id))
      BY <1>4, <1>10, <2>1
    <2> QED BY <2>2, SameAsItself
  <1>11. clock' \in Nat
    BY DEF EntriesTyped
  <1> QED BY <1>6, <1>7, <1>8, <1>9, <1>10, <1>11 DEF StoreGrows

(* So does an update of a record, which remains the same key.              *)
LEMMA UpdatesKeep ==
    ASSUME EntriesTyped, Coherent, EntriesTyped', clock <= clock', NEW id \in KeyIds,
           NEW stored, present(R(id)), SameKey(R(id), stored), Updates(id, stored)
    PROVE  Coherent' /\ StoreGrows
  <1>1. /\ present(Fresh(stored)) /\ Fresh(stored).val = stored
        /\ \A entry : Renewed(entry, entry) /\ Renewed(entry, Fresh(stored))
        /\ \A Values, entry : EntryOK(entry, Values) => Fresh(stored) # entry
    BY FreshEntries
  <1>2. ASSUME NEW i \in KeyIds, present(R(i)) \/ present(R(i)')
        PROVE  present(R(i)) /\ SameKey(R(i)', R(i).val)
    <2>1. CASE i = id
      <3>1. R(i)' = Fresh(stored)
        BY <2>1 DEF Updates
      <3> QED BY <1>1, <2>1, <3>1 DEF SameKey
    <2>2. CASE i # id
      <3>1. R(i)' = R(i)
        BY <2>2 DEF Updates
      <3> QED BY <1>2, <3>1, SameAsItself
    <2> QED BY <2>1, <2>2
  <1>3. ASSUME NEW i \in KeyIds, present(R(i)') PROVE RecordIndexed(i)'
    <2> SUFFICES ASSUME NEW o, o = R(i).val.owner_user_id, NEW h, h = R(i).val.secret_hash
                 PROVE  RecordIndexed(i)'
      OBVIOUS
    <2>1. present(R(i)) /\ SameKey(R(i)', R(i).val)
      BY <1>2, <1>3
    <2>2. /\ o \in Owners /\ h \in Hashes /\ present(S(h)) /\ S(h).val = i
          /\ present(O(o, i)) /\ R(i).val.owner_generation <= generation_of(G(o))
      BY <2>1, StoredFields
    <2>3. S(h)' = S(h) /\ O(o, i)' = O(o, i) /\ G(o)' = G(o)
      BY <2>2 DEF Updates
    <2>4. /\ R(i)'.val.owner_user_id = o /\ R(i)'.val.secret_hash = h
          /\ R(i)'.val.owner_generation = R(i).val.owner_generation
      BY <2>1 DEF SameKey
    <2> QED BY <2>2, <2>3, <2>4 DEF RecordIndexed, generation_of
  <1>4. ASSUME NEW o \in Owners, NEW i \in KeyIds, present(O(o, i)')
        PROVE  present(R(i)') /\ R(i)'.val.owner_user_id = o
    <2>1. present(R(i)) /\ R(i).val.owner_user_id = o
      BY <1>4 DEF Updates, Coherent
    <2> QED BY <1>2, <2>1 DEF SameKey
  <1>5. ASSUME NEW h \in Hashes, present(S(h)')
        PROVE  (present(R(S(h).val)) /\ R(S(h).val).val.secret_hash = h)'
    <2>1. S(h)' = S(h) /\ present(S(h))
      BY <1>5 DEF Updates
    <2>2. S(h).val \in KeyIds /\ present(R(S(h).val)) /\ R(S(h).val).val.secret_hash = h
      BY <2>1, IndexedKey
    <2>3. \A i \in KeyIds : i = S(h).val => SameKey(R(i)', R(i).val)
      BY <1>2, <2>2
    <2> QED BY <2>1, <2>2, <2>3 DEF SameKey
  <1>6. Coherent'
    BY <1>3, <1>4, <1>5 DEF Coherent
  <1>7. \A o \in Owners : /\ Renewed(G(o), G(o)') /\ generation_of(G(o)') \in Nat
                          /\ generation_of(G(o)) <= generation_of(G(o)')
                          /\ Quiet(o) => G(o)' = G(o)
    <2>1. \A o \in Owners : G(o)' = G(o) /\ generation_of(G(o)) \in Nat
      BY Generations DEF Updates
    <2>2. \A n \in Nat : n <= n
      OBVIOUS
    <2> QED BY <1>1, <2>1, <2>2
  <1>8. /\ \A i \in KeyIds : Renewed(R(i), R(i)')
        /\ \A h \in Hashes : Renewed(S(h), S(h)')
    BY <1>1 DEF Updates
  <1>9. ASSUME NEW h \in Hashes, NEW i \in KeyIds, present(S(h)), S(h).val = i, S(h)' = S(h)
        PROVE  SameKey(R(i)', R(i).val)
    BY <1>2, <1>9, IndexedKey
  <1>10. clock' \in Nat /\ \A h \in Hashes : S(h)' = S(h)
    BY DEF EntriesTyped, Updates
  <1> QED BY <1>6, <1>7, <1>8, <1>9, <1>10 DEF StoreGrows

(* So does a new generation of an owner's keys.                            *)
LEMMA BumpsKeep ==
    ASSUME EntriesTyped, Coherent, EntriesTyped', clock <= clock', NEW owner \in Owners,
           ~Quiet(owner), Bumps(owner)
    PROVE  /\ Coherent' /\ StoreGrows
           /\ generation_of(G(owner)') = generation_of(G(owner)) + 1
  <1>1. ASSUME NEW o \in Owners
        PROVE  /\ Renewed(G(o), G(o)') /\ generation_of(G(o)') \in Nat
               /\ generation_of(G(o)) <= generation_of(G(o)')
               /\ o = owner => generation_of(G(o)') = generation_of(G(o)) + 1
    <2> DEFINE more == generation_of(G(o)) + 1
    <2>1. generation_of(G(o)) \in Nat
      BY Generations
    <2>2. /\ present(Fresh(more)) /\ Fresh(more).val = more
          /\ Renewed(G(o), Fresh(more)) /\ Renewed(G(o), G(o))
      BY FreshEntries
    <2>3. G(o)' = IF o = owner THEN Fresh(more) ELSE G(o)
      BY DEF Bumps
    <2>4. generation_of(Fresh(more)) = more
      BY <2>2 DEF generation_of
    <2>5. \A n \in Nat : n <= n /\ n + 1 \in Nat /\ n <= n + 1
      OBVIOUS
    <2> HIDE DEF more
    <2>6. CASE o = owner
      <3>1. G(o)' = Fresh(more)
        BY <2>3, <2>6
      <3> QED BY <2>1, <2>2, <2>4, <2>5, <3>1 DEF more
    <2>7. CASE o # owner
      BY <2>1, <2>2, <2>3, <2>5, <2>7
    <2> QED BY <2>6, <2>7
  <1>2. /\ \A id \in KeyIds : R(id)' = R(id)
        /\ \A h \in Hashes : S(h)' = S(h)
        /\ \A o \in Owners, id \in KeyIds : O(o, id)' = O(o, id)
    BY DEF Bumps
  <1>3. ASSUME NEW id \in KeyIds, present(R(id)') PROVE RecordIndexed(id)'
    <2> SUFFICES ASSUME NEW o, o = R(id).val.owner_user_id, NEW h, h = R(id).val.secret_hash,
                        NEW n, n = R(id).val.owner_generation
                 PROVE  RecordIndexed(id)'
      OBVIOUS
    <2>1. /\ o \in Owners /\ h \in Hashes /\ present(S(h)) /\ S(h).val = id /\ n \in Nat
          /\ present(O(o, id)) /\ n <= generation_of(G(o))
      BY <1>2, <1>3, StoredFields
    <2>2. generation_of(G(o)) \in Nat /\ generation_of(G(o)') \in Nat
          /\ generation_of(G(o)) <= generation_of(G(o)')
      BY <1>1, <2>1, Generations
    <2>3. n <= generation_of(G(o)')
      <3>1. \A a, b, d \in Nat : a <= b /\ b <= d => a <= d
        OBVIOUS
      <3> QED BY <2>1, <2>2, <3>1
    <2>4. R(id)' = R(id) /\ S(h)' = S(h) /\ O(o, id)' = O(o, id)
      BY <1>2, <2>1
    <2> QED BY <2>1, <2>3, <2>4 DEF RecordIndexed
  <1>4. ASSUME NEW h \in Hashes, present(S(h)')
        PROVE  (present(R(S(h).val)) /\ R(S(h).val).val.secret_hash = h)'
    <2>1. S(h)' = S(h) /\ present(S(h))
      BY <1>2, <1>4
    <2>2. S(h).val \in KeyIds /\ present(R(S(h).val)) /\ R(S(h).val).val.secret_hash = h
      BY <2>1, IndexedKey
    <2> QED BY <1>2, <2>1, <2>2
  <1>5. Coherent'
    BY <1>2, <1>3, <1>4 DEF Coherent
  <1>6. \A entry : Renewed(entry, entry)
    BY FreshEntries
  <1>7. ASSUME NEW h \in Hashes, NEW i \in KeyIds, present(S(h)), S(h).val = i
        PROVE  SameKey(R(i)', R(i).val)
    BY <1>2, <1>7, IndexedKey, SameAsItself
  <1>8. clock' \in Nat
    BY DEF EntriesTyped
  <1>9. \A o \in Owners : Quiet(o) => G(o)' = G(o)
    BY DEF Bumps
  <1> QED BY <1>1, <1>2, <1>5, <1>6, <1>7, <1>8, <1>9 DEF StoreGrows

-----------------------------------------------------------------------------
(* The atomic operations of the calls. *)

(* What each family of keys has after an atomic operation.                 *)
LEMMA WriteFamilies ==
    ASSUME NEW written, NEW removed, Write(written, removed)
    PROVE  /\ \A id : R(id)' = IF record_key(id) \in DOMAIN written
                               THEN Fresh(written[record_key(id)])
                               ELSE IF record_key(id) \in removed THEN Absent ELSE R(id)
           /\ \A h : S(h)' = IF secret_key(h) \in DOMAIN written
                             THEN Fresh(written[secret_key(h)])
                             ELSE IF secret_key(h) \in removed THEN Absent ELSE S(h)
           /\ \A o : G(o)' = IF generation_key(o) \in DOMAIN written
                             THEN Fresh(written[generation_key(o)])
                             ELSE IF generation_key(o) \in removed THEN Absent ELSE G(o)
           /\ \A o, id : O(o, id)' = IF owner_key(o, id) \in DOMAIN written
                                     THEN Fresh(written[owner_key(o, id)])
                                     ELSE IF owner_key(o, id) \in removed THEN Absent
                                     ELSE O(o, id)
  <1>1. \A key : get(key)' = IF key \in DOMAIN written THEN Fresh(written[key])
                             ELSE IF key \in removed THEN Absent ELSE get(key)
    BY WriteGets DEF Fresh
  <1>2. /\ \A id : record_key(id)' = record_key(id)
        /\ \A h : secret_key(h)' = secret_key(h)
        /\ \A o : generation_key(o)' = generation_key(o)
        /\ \A o, id : owner_key(o, id)' = owner_key(o, id)
    BY DEF record_key, secret_key, generation_key, owner_key
  <1> QED BY <1>1, <1>2 DEF R, S, G, O

(* A check of a seen entry is passed by this entry only.                   *)
LEMMA Current ==
    ASSUME NEW checks, AllCurrent(checks), NEW key, NEW entry, <<key, entry.vs>> \in checks,
           Seen(entry, get(key))
    PROVE  get(key) = entry
  <1>1. get(<<key, entry.vs>>[1]).vs = <<key, entry.vs>>[2]
    BY DEF AllCurrent
  <1> QED BY <1>1 DEF Seen

(* A removal that passes its checks removes the key whose record it read.  *)
LEMMA RemovalRemoves ==
    ASSUME EntriesTyped, Coherent, NEW f, f.id \in KeyIds, present(f.entry),
           SeenRecord(f.entry, f.id),
           R(f.id) = f.entry => S(f.entry.val.secret_hash) = f.secret_entry,
           AllCurrent(RemovalChecks(f)), Write(NoEntries, Removal(f))
    PROVE  Removes({f.id}) /\ R(f.id) = f.entry
  <1> DEFINE id == f.id
             o == f.entry.val.owner_user_id
             h == f.entry.val.secret_hash
  <1>1. R(id) = f.entry
    <2>1. <<record_key(id), f.entry.vs>> \in RemovalChecks(f)
      BY DEF RemovalChecks
    <2>2. Seen(f.entry, get(record_key(id)))
      BY DEF SeenRecord, R
    <2> QED BY <2>1, <2>2, Current DEF R
  <1>2. /\ present(R(id)) /\ o \in Owners /\ h \in Hashes
        /\ present(S(h)) /\ S(h).val = id /\ present(O(o, id)) /\ S(h) = f.secret_entry
    BY <1>1, StoredFields
  <1>3. Removal(f) = {record_key(id), owner_key(o, id), secret_key(h)}
    BY <1>2 DEF Removal, OwnSecret
  <1>4. DOMAIN NoEntries = {}
    BY NoKeys
  <1>5. ASSUME NEW i \in KeyIds PROVE R(i)' = IF i \in {id} THEN Absent ELSE R(i)
    <2>1. record_key(i) \in Removal(f) <=> i = id
      BY <1>3, KeysDiffer
    <2> QED BY <1>4, <2>1, WriteFamilies
  <1>6. ASSUME NEW k \in Hashes
        PROVE  S(k)' = IF present(S(k)) /\ S(k).val \in {id} THEN Absent ELSE S(k)
    <2>1. secret_key(k) \in Removal(f) <=> k = h
      BY <1>3, KeysDiffer
    <2>2. present(S(k)) /\ S(k).val = id <=> k = h
      BY <1>1, <1>2, IndexedKey
    <2> QED BY <1>4, <2>1, <2>2, WriteFamilies
  <1>7. ASSUME NEW p \in Owners, NEW i \in KeyIds
        PROVE  O(p, i)' = IF i \in {id} THEN Absent ELSE O(p, i)
    <2>1. owner_key(p, i) \in Removal(f) <=> p = o /\ i = id
      BY <1>3, KeysDiffer
    <2>2. ASSUME i = id, p # o PROVE O(p, i) = Absent
      <3>1. ~present(O(p, i))
        BY <1>1, <2>2 DEF Coherent
      <3> QED BY <3>1 DEF EntriesTyped, EntryOK
    <2> QED BY <1>4, <2>1, <2>2, WriteFamilies
  <1>8. ASSUME NEW p \in Owners PROVE G(p)' = G(p)
    <2>1. generation_key(p) \notin Removal(f)
      BY <1>3, KeysDiffer
    <2> QED BY <1>4, <2>1, WriteFamilies
  <1> QED BY <1>1, <1>5, <1>6, <1>7, <1>8 DEF Removes

(* The keys that stand in a creation's way. *)
Gone(f) == {s[1] : s \in f.stale}

NewRecord(f) ==
    [owner_user_id |-> f.req.owner, secret_hash |-> f.req.hash, metadata |-> f.req.metadata,
     revision |-> 1, owner_generation |-> generation_of(f.generation)]

(* A creation that commits knows the entries of its id and its hash as     *)
(* they are, and lists the keys there, of which it knows the owner and the *)
(* hash.                                                                   *)
LEMMA CreationCurrent ==
    ASSUME EntriesTyped, Coherent, NEW f \in Frame, f.req \in Requested, f.req.kind = "create",
           f.at = "commit", CreateOK(f), Seen(f.generation, G(f.req.owner)),
           AllCurrent(Checks(f))
    PROVE  /\ R(f.req.id) = f.id_entry /\ S(f.req.hash) = f.hash_entry
           /\ G(f.req.owner) = f.generation
           /\ \A s \in f.stale :
                 /\ s[1] \in KeyIds /\ SameKey(R(s[1]), s[2]) /\ Dead(s[2])
                 /\ s[2] \in StoredRecord
                 /\ s[1] = f.req.id \/ s[2].secret_hash = f.req.hash
           /\ present(R(f.req.id)) => f.req.id \in Gone(f)
           /\ present(S(f.req.hash)) => S(f.req.hash).val \in Gone(f)
  <1>1. Checks(f) = GenerationCheck(f, f.req.owner)
            \cup {<<record_key(f.req.id), f.id_entry.vs>>,
                  <<secret_key(f.req.hash), f.hash_entry.vs>>}
            \cup {<<k, f.secrets[k].vs>> : k \in StaleSecrets(f)}
    BY DEF Checks
  <1>2. /\ SeenRecord(f.id_entry, f.req.id) /\ Seen(f.hash_entry, S(f.req.hash))
        /\ \A s \in f.stale : Dead(s[2]) /\ (IdOccupant(f, s) \/ HashOccupied(f, s[1], s[2]))
        /\ present(f.id_entry) => <<f.req.id, f.id_entry.val>> \in f.stale
        /\ present(f.hash_entry) => \E s \in f.stale : HashOccupied(f, s[1], s[2])
    BY DEF CreateOK, Gathered
  <1>3. R(f.req.id) = f.id_entry
    <2>1. <<record_key(f.req.id), f.id_entry.vs>> \in Checks(f)
      BY <1>1
    <2> QED BY <1>2, <2>1, Current DEF R, SeenRecord
  <1>4. S(f.req.hash) = f.hash_entry
    <2>1. <<secret_key(f.req.hash), f.hash_entry.vs>> \in Checks(f)
      BY <1>1
    <2> QED BY <1>2, <2>1, Current DEF S
  <1>5. G(f.req.owner) = f.generation
    <2>1. <<generation_key(f.req.owner), f.generation.vs>> \in Checks(f)
      BY <1>1 DEF GenerationCheck
    <2> QED BY <2>1, Current DEF G
  <1>6. ASSUME NEW s \in f.stale
        PROVE  /\ s[1] \in KeyIds /\ SameKey(R(s[1]), s[2]) /\ Dead(s[2])
               /\ s[2] \in StoredRecord
               /\ s[1] = f.req.id \/ s[2].secret_hash = f.req.hash
    <2>1. s[1] \in KeyIds /\ s[2] \in StoredRecord
      BY FrameEntries
    <2>2. CASE IdOccupant(f, s)
      <3>1. s[1] = f.req.id /\ s[2] = f.id_entry.val /\ present(f.id_entry)
        BY <2>2 DEF IdOccupant
      <3> QED BY <1>2, <1>3, <2>1, <3>1, SameAsItself
    <2>3. CASE HashOccupied(f, s[1], s[2])
      BY <1>2, <1>4, <2>1, <2>3 DEF HashOccupied
    <2> QED BY <1>2, <2>2, <2>3
  <1>7. present(R(f.req.id)) => f.req.id \in Gone(f)
    <2>1. ASSUME NEW v, <<f.req.id, v>> \in f.stale PROVE f.req.id \in Gone(f)
      <3>1. <<f.req.id, v>>[1] = f.req.id
        OBVIOUS
      <3> QED BY <2>1, <3>1 DEF Gone
    <2> QED BY <1>2, <1>3, <2>1
  <1>8. present(S(f.req.hash)) => S(f.req.hash).val \in Gone(f)
    BY <1>2, <1>4 DEF Gone, HashOccupied
  <1> QED BY <1>3, <1>4, <1>5, <1>6, <1>7, <1>8

(* Among the entries it removes are the index entries of the keys gone,    *)
(* except that of the hash it takes.                                       *)
LEMMA SecretsGone ==
    ASSUME EntriesTyped, Coherent, NEW f \in Frame, f.req \in Requested, f.req.kind = "create",
           f.at = "commit", CreateOK(f), Seen(f.generation, G(f.req.owner)),
           AllCurrent(Checks(f)), NEW h \in Hashes, h # f.req.hash
    PROVE  secret_key(h) \in StaleSecrets(f) <=> present(S(h)) /\ S(h).val \in Gone(f)
  <1>1. /\ R(f.req.id) = f.id_entry
        /\ \A s \in f.stale :
              /\ s[1] \in KeyIds /\ SameKey(R(s[1]), s[2])
              /\ s[1] = f.req.id \/ s[2].secret_hash = f.req.hash
    BY CreationCurrent
  <1>2. SecretsOK(f) /\ (present(f.id_entry) /\ f.id_entry.val.secret_hash # f.req.hash
                            => f.secrets # NoEntries)
    BY DEF CreateOK
  <1>3. ASSUME secret_key(h) \in StaleSecrets(f)
        PROVE  present(S(h)) /\ S(h).val \in Gone(f)
    <2>1. PICK s \in f.stale :
             /\ secret_key(h) \in DOMAIN f.secrets /\ present(f.secrets[secret_key(h)])
             /\ f.secrets[secret_key(h)].val = s[1] /\ secret_key(h) = secret_key(s[2].secret_hash)
      BY <1>3 DEF StaleSecrets
    <2>2. f.secrets # NoEntries
      BY <2>1, NoKeys
    <2>3. /\ present(f.id_entry)
          /\ DOMAIN f.secrets = {secret_key(f.id_entry.val.secret_hash)}
          /\ S(f.id_entry.val.secret_hash) = f.secrets[secret_key(f.id_entry.val.secret_hash)]
      BY <1>1, <1>2, <2>2 DEF SecretsOK
    <2>4. h = f.id_entry.val.secret_hash
      BY <2>1, <2>3, KeysDiffer
    <2> QED BY <2>1, <2>3, <2>4 DEF Gone
  <1>4. ASSUME present(S(h)), S(h).val \in Gone(f)
        PROVE  secret_key(h) \in StaleSecrets(f)
    <2>1. PICK s \in f.stale : s[1] = S(h).val
      BY <1>4 DEF Gone
    <2>2. SameKey(R(s[1]), s[2]) /\ R(s[1]).val.secret_hash = h
      BY <1>1, <1>4, <2>1, IndexedKey
    <2>3. s[2].secret_hash = h /\ s[1] = f.req.id /\ present(R(f.req.id))
      BY <1>1, <2>2 DEF SameKey
    <2>4. present(f.id_entry) /\ f.id_entry.val.secret_hash = h
      BY <1>1, <2>2, <2>3
    <2>5. DOMAIN f.secrets = {secret_key(h)} /\ S(h) = f.secrets[secret_key(h)]
      BY <1>1, <1>2, <2>4 DEF SecretsOK
    <2> QED BY <1>4, <2>1, <2>3, <2>5 DEF StaleSecrets
  <1> QED BY <1>3, <1>4

(* The record a creation writes. *)
LEMMA NewRecordFields ==
    ASSUME EntriesTyped, NEW f \in Frame, f.req \in Requested, f.req.kind = "create",
           G(f.req.owner) = f.generation
    PROVE  /\ f.req.owner \in Owners /\ f.req.hash \in Hashes /\ f.req.id \in KeyIds
           /\ NewRecord(f) \in StoredRecord
           /\ NewRecord(f).owner_user_id = f.req.owner /\ NewRecord(f).secret_hash = f.req.hash
           /\ NewRecord(f).owner_generation = generation_of(G(f.req.owner))
  <1>1. /\ f.req.owner \in Owners /\ f.req.hash \in Hashes /\ f.req.id \in KeyIds
        /\ f.req.metadata \in Metadata
    BY Asked
  <1>2. generation_of(f.generation) \in Nat
    BY <1>1, Generations
  <1>3. 1 \in 1 .. MaxRevision
    BY ApiKeyAssumption
  <1> QED BY <1>1, <1>2, <1>3 DEF NewRecord, StoredRecord

(* A creation that passes its checks puts its key in the place of the dead *)
(* ones.                                                                   *)
LEMMA CreationCreates ==
    ASSUME EntriesTyped, Coherent, NEW f \in Frame, f.req \in Requested, f.req.kind = "create",
           f.at = "commit", CreateOK(f), Seen(f.generation, G(f.req.owner)),
           AllCurrent(Checks(f)), Write(Written(f), Removed(f))
    PROVE  Creates(Gone(f), f.req.id, NewRecord(f))
  <1> DEFINE new == f.req.id
             o == f.req.owner
             h == f.req.hash
             written == KeyEntries(new, NewRecord(f))
  <1>1. /\ R(new) = f.id_entry /\ S(h) = f.hash_entry /\ G(o) = f.generation
        /\ \A s \in f.stale :
              s[1] \in KeyIds /\ SameKey(R(s[1]), s[2]) /\ s[2] \in StoredRecord
        /\ present(R(new)) => new \in Gone(f)
    BY CreationCurrent
  <1>2. /\ o \in Owners /\ h \in Hashes /\ new \in KeyIds
        /\ NewRecord(f).owner_user_id = o /\ NewRecord(f).secret_hash = h
    BY <1>1, NewRecordFields
  <1>3. Written(f) = written
    BY DEF Written, NewRecord
  <1>4. /\ DOMAIN written = {record_key(new), secret_key(h), owner_key(o, new)}
        /\ written[record_key(new)] = NewRecord(f)
        /\ written[secret_key(h)] = new /\ written[owner_key(o, new)] = new
    <2>1. record_key(new) # secret_key(h) /\ record_key(new) # owner_key(o, new)
      BY KeysDiffer
    <2> QED BY <1>2, <2>1 DEF KeyEntries
  <1>5. Removed(f) =
            (UNION {{record_key(s[1]), owner_key(s[2].owner_user_id, s[1])} : s \in f.stale})
            \cup StaleSecrets(f)
    BY DEF Removed
  <1>6. \A k \in StaleSecrets(f) : \E g : k = secret_key(g)
    BY DEF StaleSecrets
  <1>11. \A k : k \in Removed(f) <=>
                   \/ \E s \in f.stale :
                         k = record_key(s[1]) \/ k = owner_key(s[2].owner_user_id, s[1])
                   \/ k \in StaleSecrets(f)
    <2> DEFINE Entries(s) == {record_key(s[1]), owner_key(s[2].owner_user_id, s[1])}
               All == UNION {Entries(s) : s \in f.stale}
    <2>1. Removed(f) = All \cup StaleSecrets(f)
      BY <1>5
    <2>2. \A k, s : k \in Entries(s)
              <=> k = record_key(s[1]) \/ k = owner_key(s[2].owner_user_id, s[1])
      OBVIOUS
    <2> HIDE DEF Entries
    <2>3. \A k : k \in All <=> \E s \in f.stale : k \in Entries(s)
      OBVIOUS
    <2> HIDE DEF All
    <2> QED BY <2>1, <2>2, <2>3
  <1> HIDE DEF written
  <1>7. ASSUME NEW i \in KeyIds
        PROVE  R(i)' = IF i = new THEN Fresh(NewRecord(f))
                       ELSE IF i \in Gone(f) THEN Absent ELSE R(i)
    <2>1. record_key(i) \in DOMAIN written <=> i = new
      BY <1>4, KeysDiffer
    <2>2. record_key(i) \in Removed(f) <=> i \in Gone(f)
      <3>1. record_key(i) \notin StaleSecrets(f)
        BY <1>6, KeysDiffer
      <3>2. \A s \in f.stale :
               record_key(i) = record_key(s[1])
                   \/ record_key(i) = owner_key(s[2].owner_user_id, s[1]) <=> i = s[1]
        BY KeysDiffer
      <3> QED BY <1>11, <3>1, <3>2 DEF Gone
    <2> QED BY <1>3, <1>4, <2>1, <2>2, WriteFamilies
  <1>8. ASSUME NEW g \in Hashes
        PROVE  S(g)' = IF g = h THEN Fresh(new)
                       ELSE IF present(S(g)) /\ S(g).val \in Gone(f) THEN Absent ELSE S(g)
    <2>1. secret_key(g) \in DOMAIN written <=> g = h
      BY <1>4, KeysDiffer
    <2>2. secret_key(g) \in Removed(f) <=> secret_key(g) \in StaleSecrets(f)
      <3>1. \A s \in f.stale : /\ secret_key(g) # record_key(s[1])
                               /\ secret_key(g) # owner_key(s[2].owner_user_id, s[1])
        BY KeysDiffer
      <3> QED BY <1>11, <3>1
    <2>3. g # h => (secret_key(g) \in StaleSecrets(f) <=> present(S(g)) /\ S(g).val \in Gone(f))
      BY SecretsGone
    <2> QED BY <1>3, <1>4, <2>1, <2>2, <2>3, WriteFamilies
  <1>9. ASSUME NEW p \in Owners, NEW i \in KeyIds
        PROVE  O(p, i)' = IF p = o /\ i = new THEN Fresh(new)
                          ELSE IF i \in Gone(f) THEN Absent ELSE O(p, i)
    <2>1. owner_key(p, i) \in DOMAIN written <=> p = o /\ i = new
      BY <1>4, KeysDiffer
    <2>2. owner_key(p, i) \in Removed(f) <=> \E s \in f.stale : p = s[2].owner_user_id /\ i = s[1]
      <3>1. owner_key(p, i) \notin StaleSecrets(f)
        BY <1>6, KeysDiffer
      <3>2. \A s \in f.stale :
               owner_key(p, i) = record_key(s[1])
                   \/ owner_key(p, i) = owner_key(s[2].owner_user_id, s[1])
                   <=> p = s[2].owner_user_id /\ i = s[1]
        BY KeysDiffer
      <3> QED BY <1>11, <3>1, <3>2
    <2>3. ASSUME i \in Gone(f), owner_key(p, i) \notin Removed(f) PROVE O(p, i) = Absent
      <3>1. PICK s \in f.stale : i = s[1]
        BY <2>3 DEF Gone
      <3>2. p # R(i).val.owner_user_id
        BY <1>1, <2>2, <2>3, <3>1 DEF SameKey
      <3>3. ~present(O(p, i))
        BY <3>2 DEF Coherent
      <3> QED BY <3>3 DEF EntriesTyped, EntryOK
    <2>4. owner_key(p, i) \in Removed(f) => i \in Gone(f)
      BY <2>2 DEF Gone
    <2> QED BY <1>3, <1>4, <2>1, <2>3, <2>4, WriteFamilies
  <1>10. ASSUME NEW p \in Owners PROVE G(p)' = G(p)
    <2>1. generation_key(p) \notin DOMAIN written
      BY <1>4, KeysDiffer
    <2>2. generation_key(p) \notin Removed(f)
      <3>1. generation_key(p) \notin StaleSecrets(f)
        BY <1>6, KeysDiffer
      <3>2. \A s \in f.stale : /\ generation_key(p) # record_key(s[1])
                               /\ generation_key(p) # owner_key(s[2].owner_user_id, s[1])
        BY KeysDiffer
      <3> QED BY <1>11, <3>1, <3>2
    <2> QED BY <1>3, <2>1, <2>2, WriteFamilies
  <1> QED BY <1>2, <1>7, <1>8, <1>9, <1>10 DEF Creates

(* What a creation writes belongs where it writes it.                      *)
LEMMA CreationTyped ==
    ASSUME EntriesTyped, Coherent, NEW f \in Frame, f.req \in Requested, f.req.kind = "create",
           f.at = "commit", CreateOK(f), Seen(f.generation, G(f.req.owner)),
           AllCurrent(Checks(f)), NEW key \in DOMAIN Written(f)
    PROVE  Written(f)[key] \in ValuesAt(key)
  <1>1. G(f.req.owner) = f.generation
    BY CreationCurrent
  <1>2. /\ f.req.id \in KeyIds /\ NewRecord(f) \in StoredRecord
        /\ NewRecord(f).owner_user_id = f.req.owner /\ NewRecord(f).secret_hash = f.req.hash
    BY <1>1, NewRecordFields
  <1>3. Written(f) = KeyEntries(f.req.id, NewRecord(f))
    BY DEF Written, NewRecord
  <1>4. /\ key \in {record_key(f.req.id), secret_key(f.req.hash), owner_key(f.req.owner, f.req.id)}
        /\ Written(f)[key] = IF key = record_key(f.req.id) THEN NewRecord(f) ELSE f.req.id
    BY <1>2, <1>3 DEF KeyEntries
  <1> QED BY <1>2, <1>4, ValuesOfKeys

(* The record an update writes. *)
NewMetadata(f) == [f.entry.val EXCEPT !.metadata = f.req.metadata, !.revision = @ + 1]

(* It is the record's, but for its metadata and its next revision.         *)
LEMMA NewMetadataFields ==
    ASSUME NEW f, f.req \in Requested, f.req.kind = "update", f.entry.val \in StoredRecord,
           f.entry.val.revision = f.req.expected_revision
    PROVE  /\ NewMetadata(f) \in StoredRecord
           /\ NewMetadata(f).owner_user_id = f.entry.val.owner_user_id
           /\ NewMetadata(f).secret_hash = f.entry.val.secret_hash
           /\ NewMetadata(f).owner_generation = f.entry.val.owner_generation
           /\ NewMetadata(f).metadata = f.req.metadata
           /\ NewMetadata(f).revision = f.entry.val.revision + 1
  <1>1. f.req.metadata \in Metadata /\ f.req.expected_revision \in 1 .. MaxRevision - 1
    BY Asked
  <1>2. f.entry.val.revision + 1 \in 1 .. MaxRevision
    <2>1. MaxRevision \in Nat
      BY ApiKeyAssumption
    <2>2. \A n \in 1 .. MaxRevision - 1 : n + 1 \in 1 .. MaxRevision
      BY <2>1
    <2> QED BY <1>1, <2>2
  <1> QED BY <1>1, <1>2 DEF NewMetadata, StoredRecord

(* An update that passes its checks changes the live record it read.       *)
LEMMA UpdateUpdates ==
    ASSUME EntriesTyped, Coherent, NEW f \in Frame, f.req \in Requested, f.req.kind = "update",
           f.at = "commit", RecordOK(f), Seen(f.generation, G(f.req.owner)),
           AllCurrent(Checks(f)), Write(Written(f), Removed(f))
    PROVE  /\ Updates(f.id, NewMetadata(f)) /\ R(f.id) = f.entry /\ present(f.entry)
           /\ f.id = f.req.id /\ f.id \in KeyIds /\ f.entry.val.owner_user_id = f.req.owner
           /\ f.entry.val.revision = f.req.expected_revision
           /\ f.entry.val.owner_generation = generation_of(G(f.req.owner))
           /\ f.entry.val \in StoredRecord
           /\ SameKey(R(f.id), NewMetadata(f))
           /\ \A key \in DOMAIN Written(f) : Written(f)[key] \in ValuesAt(key)
  <1>1. /\ f.id \in KeyIds /\ present(f.entry) /\ SeenRecord(f.entry, f.id)
        /\ f.id = f.req.id /\ f.entry.val.owner_user_id = f.req.owner
        /\ f.entry.val.revision = f.req.expected_revision
        /\ f.entry.val.owner_generation = generation_of(f.generation)
    BY DEF RecordOK, AtHand, Judged, Changing
  <1>2. Checks(f) = RecordCheck(f) \cup GenerationCheck(f, f.req.owner)
    BY <1>1 DEF Checks
  <1>3. R(f.id) = f.entry
    <2>1. <<record_key(f.id), f.entry.vs>> \in Checks(f)
      BY <1>2 DEF RecordCheck
    <2> QED BY <1>1, <2>1, Current DEF R, SeenRecord
  <1>4. G(f.req.owner) = f.generation
    <2>1. <<generation_key(f.req.owner), f.generation.vs>> \in Checks(f)
      BY <1>2 DEF GenerationCheck
    <2> QED BY <2>1, Current DEF G
  <1>5. f.entry.val \in StoredRecord
    BY <1>1 DEF SeenRecord
  <1>6. Written(f) = Single(record_key(f.id), NewMetadata(f)) /\ Removed(f) = {}
    BY DEF Written, NewMetadata, Removed
  <1>7. /\ DOMAIN Written(f) = {record_key(f.id)}
        /\ Written(f)[record_key(f.id)] = NewMetadata(f)
    BY <1>6 DEF Single
  <1>8. Updates(f.id, NewMetadata(f))
    <2>1. \A i \in KeyIds : R(i)' = IF i = f.id THEN Fresh(NewMetadata(f)) ELSE R(i)
      BY <1>6, <1>7, WriteFamilies, KeysDiffer
    <2>2. \A h \in Hashes : S(h)' = S(h)
      BY <1>6, <1>7, WriteFamilies, KeysDiffer
    <2>3. \A o \in Owners, i \in KeyIds : O(o, i)' = O(o, i)
      BY <1>6, <1>7, WriteFamilies, KeysDiffer
    <2>4. \A o \in Owners : G(o)' = G(o)
      BY <1>6, <1>7, WriteFamilies, KeysDiffer
    <2> QED BY <2>1, <2>2, <2>3, <2>4 DEF Updates
  <1>9. SameKey(R(f.id), NewMetadata(f))
    BY <1>1, <1>3, <1>5, NewMetadataFields DEF SameKey
  <1>10. \A key \in DOMAIN Written(f) : Written(f)[key] \in ValuesAt(key)
    BY <1>1, <1>5, <1>7, NewMetadataFields, ValuesOfKeys
  <1> QED BY <1>1, <1>3, <1>4, <1>5, <1>8, <1>9, <1>10

(* A revoke-all that passes its check starts the owner's next generation.  *)
LEMMA RevokeAllBumps ==
    ASSUME EntriesTyped, Coherent, NEW f \in Frame, f.req \in Requested, f.req.kind = "revoke_all",
           f.at = "commit", Seen(f.generation, G(f.req.owner)),
           AllCurrent(Checks(f)), Write(Written(f), Removed(f))
    PROVE  /\ Bumps(f.req.owner) /\ G(f.req.owner) = f.generation /\ f.req.owner \in Owners
           /\ \A key \in DOMAIN Written(f) : Written(f)[key] \in ValuesAt(key)
  <1> DEFINE o == f.req.owner
  <1>1. G(o) = f.generation
    <2>1. <<generation_key(o), f.generation.vs>> \in Checks(f)
      BY DEF Checks
    <2> QED BY <2>1, Current DEF G
  <1>2. o \in Owners
    BY Asked DEF Walking
  <1>3. generation_of(f.generation) + 1 \in Nat \ {0}
    <2>1. generation_of(f.generation) \in Nat
      BY <1>1, <1>2, Generations
    <2> QED BY <2>1
  <1>4. /\ Written(f) = Single(generation_key(o), generation_of(G(o)) + 1)
        /\ Removed(f) = {}
    BY <1>1 DEF Written, Removed
  <1>5. /\ DOMAIN Written(f) = {generation_key(o)}
        /\ Written(f)[generation_key(o)] = generation_of(G(o)) + 1
    BY <1>4 DEF Single
  <1>6. \A key \in DOMAIN Written(f) : Written(f)[key] \in ValuesAt(key)
    BY <1>1, <1>3, <1>5, ValuesOfKeys
  <1>7. \A i \in KeyIds : R(i)' = R(i)
    BY <1>4, <1>5, WriteFamilies, KeysDiffer
  <1>8. \A h \in Hashes : S(h)' = S(h)
    BY <1>4, <1>5, WriteFamilies, KeysDiffer
  <1>9. \A p \in Owners, i \in KeyIds : O(p, i)' = O(p, i)
    BY <1>4, <1>5, WriteFamilies, KeysDiffer
  <1>10. \A p \in Owners : G(p)' = IF p = o THEN Fresh(generation_of(G(p)) + 1) ELSE G(p)
    BY <1>4, <1>5, WriteFamilies, KeysDiffer
  <1> QED BY <1>1, <1>2, <1>6, <1>7, <1>8, <1>9, <1>10 DEF Bumps

(* The keys a revoke-all kept are dead in the generation it has started.   *)
LEMMA RevokedAreDead ==
    ASSUME EntriesTyped, StoreGrows, NEW f \in Frame, f.req \in Requested,
           f.req.kind = "revoke_all", f.at = "commit", LiveOK(f),
           G(f.req.owner) = f.generation,
           generation_of(G(f.req.owner)') = generation_of(G(f.req.owner)) + 1,
           NEW d \in f.live
    PROVE  /\ d[1] \in KeyIds /\ d[2] \in Entry(StoredRecord) /\ present(d[2])
           /\ SeenRecord(d[2], d[1])' /\ d[2].val.owner_user_id = f.req.owner
           /\ Dead(d[2].val)'
  <1>1. /\ d[1] \in KeyIds /\ d[2] \in Entry(StoredRecord) /\ d[2].vs \in Nat
        /\ present(d[2]) /\ SeenRecord(d[2], d[1])
        /\ d[2].val.owner_user_id = f.req.owner
        /\ d[2].val.owner_generation = generation_of(f.generation)
    BY FrameEntries DEF LiveOK
  <1>2. SeenRecord(d[2], d[1])'
    BY <1>1, SeenRecordStays
  <1>3. f.req.owner \in Owners
    BY Asked DEF Walking
  <1>4. generation_of(G(f.req.owner)) \in Nat
    BY <1>3, Generations
  <1>5. \A n \in Nat : n < n + 1
    OBVIOUS
  <1>6. Dead(d[2].val)'
    BY <1>1, <1>4, <1>5 DEF Dead
  <1> QED BY <1>1, <1>2, <1>6

(* After its commit a revoke-all purges them.                              *)
LEMMA RevokedPurge ==
    ASSUME EntriesTyped, StoreGrows, NEW c, NEW f \in Frame, f.req \in Requested,
           f.reply = None, f.req.kind = "revoke_all", f.at = "commit", LiveOK(f),
           Seen(f.generation, G(f.req.owner)), G(f.req.owner) = f.generation,
           generation_of(G(f.req.owner)') = generation_of(G(f.req.owner)) + 1,
           NextDead(c, f)
    PROVE  \E g : Become(c, g) /\ FrameOK(g)'
  <1>1. CASE Return(c, "revoked all")
    <2>1. PICK g : Become(c, g) /\ FrameOK(g)
      BY <1>1, ReturnMoves DEF Replies, Moves
    <2> QED BY <2>1, FrameStays
  <1>2. ASSUME NEW dead \in f.live,
               Purge(c, [f EXCEPT !.id = dead[1], !.entry = dead[2], !.live = @ \ {dead}])
        PROVE  \E g : Become(c, g) /\ FrameOK(g)'
    <2> DEFINE next == [f EXCEPT !.id = dead[1], !.entry = dead[2], !.live = @ \ {dead}]
               g == [next EXCEPT !.at = "purge"]
    <2>1. \A d \in f.live :
             /\ d[1] \in KeyIds /\ d[2] \in Entry(StoredRecord) /\ present(d[2])
             /\ SeenRecord(d[2], d[1])' /\ d[2].val.owner_user_id = f.req.owner
             /\ Dead(d[2].val)'
      BY RevokedAreDead
    <2>2. dead[1] \in KeyIds /\ dead[2] \in Entry(StoredRecord)
      BY <2>1
    <2>3. /\ next \in Frame /\ next.req = f.req /\ next.reply = None /\ next.id = dead[1]
          /\ next.entry = dead[2] /\ next.generation = f.generation
          /\ next.live = f.live \ {dead}
      BY <2>2 DEF Frame
    <2>4. Become(c, g)
      BY <1>2 DEF Purge
    <2> HIDE DEF next
    <2>5. /\ g \in Frame /\ g.at = "purge" /\ g.req = f.req /\ g.reply = None
          /\ g.id = dead[1] /\ g.entry = dead[2] /\ g.generation = f.generation
          /\ g.live = f.live \ {dead}
      BY <2>3 DEF Frame, Places
    <2> HIDE DEF g
    <2>6. SUFFICES ASSUME NEW p, p = g PROVE FrameOK(p)'
      BY <2>4
    <2>7. /\ p \in Frame /\ p.at = "purge" /\ p.req = f.req /\ p.reply = None
          /\ p.id = dead[1] /\ p.entry = dead[2] /\ p.generation = f.generation
          /\ p.live = f.live \ {dead}
      BY <2>5, <2>6
    <2>8. Route(p)
      BY <2>7 DEF Route, Walking, Finding, Changing, Occupied
    <2>9. RecordOK(p)'
      <3>1. Dead(p.entry.val)' /\ SeenRecord(p.entry, p.id)' /\ present(p.entry)
        BY <1>2, <2>1, <2>7
      <3>2. Condemned(p)'
        BY <3>1 DEF Condemned
      <3> QED BY <2>2, <2>7, <3>1, <3>2 DEF RecordOK, AtHand, Judged, SecretKnown
    <2>10. Seen(p.generation, G(p.req.owner))'
      <3>1. f.req.owner \in Owners
        BY Asked DEF Walking
      <3>2. Seen(f.generation, G(f.req.owner))'
        BY <3>1, FrameEntries, SeenStays
      <3> QED BY <2>7, <3>2
    <2>11. LiveOK(p)'
      BY <2>1, <2>7 DEF LiveOK
    <2> QED BY <2>7, <2>8, <2>9, <2>10, <2>11, ApiKeyAssumption DEF FrameOK
  <1> QED BY <1>1, <1>2 DEF NextDead

-----------------------------------------------------------------------------
(* The steps preserve the invariant. *)

(* One call moves, the others' knowledge stays true.                       *)
LEMMA StepKeeps ==
    ASSUME Inv, NEW c \in Clients, NEW g, Become(c, g), FrameOK(g)', StoreTyped', Coherent',
           StoreGrows, requests' \subseteq requests
    PROVE  Inv'
  <1>1. EntriesTyped /\ CallsOK /\ requests \subseteq Requested
    BY DEF Inv
  <1>2. client' = [client EXCEPT ![c] = g] /\ client \in [Clients -> Frame]
    BY <1>1 DEF Become, CallsOK
  <1>3. g \in Frame
    BY DEF FrameOK
  <1>4. client' \in [Clients -> Frame]
    BY <1>2, <1>3
  <1>5. ASSUME NEW d \in Clients PROVE FrameOK(client[d])'
    <2>1. CASE d = c
      <3>1. client'[d] = g
        BY <1>2, <2>1
      <3> QED BY <3>1
    <2>2. CASE d # c
      <3> SUFFICES ASSUME NEW f, f = client[d], client'[d] = f PROVE FrameOK(client[d])'
        BY <1>2, <2>2
      <3>1. FrameOK(f)
        BY <1>1 DEF CallsOK
      <3>2. FrameOK(f)'
        BY <1>1, <3>1, FrameStays
      <3> QED BY <3>2
    <2> QED BY <2>1, <2>2
  <1>6. Frame' = Frame
    BY DEF Frame
  <1>7. CallsOK'
    BY <1>4, <1>5, <1>6 DEF CallsOK
  <1>8. EntriesTyped'
    <2>1. StoreTyped' => EntriesTyped'
      BY TypedEntries, PTL
    <2> QED BY <2>1
  <1>9. TypeOK'
    <2>1. \A d \in Clients : client'[d].at \in Places
      BY <1>4 DEF Frame
    <2> QED BY <1>1, <2>1, Asked DEF TypeOK, StoreTyped
  <1>10. requests' \subseteq Requested
    BY <1>1
  <1> QED BY <1>7, <1>8, <1>9, <1>10 DEF Inv

(* The store, left alone. *)
LEMMA StoreAlone ==
    ASSUME Inv, UNCHANGED <<kv, clock>>
    PROVE  /\ StoreTyped' /\ EntriesTyped' /\ Coherent' /\ StoreGrows
           /\ \A id : R(id)' = R(id)
           /\ \A o : G(o)' = G(o)
  <1>1. EntriesTyped /\ Coherent /\ TypeOK
    BY DEF Inv
  <1>2. /\ \A id : R(id)' = R(id)
        /\ \A h : S(h)' = S(h)
        /\ \A o : G(o)' = G(o)
        /\ \A o, id : O(o, id)' = O(o, id)
    BY DEF R, S, G, O, get, record_key, secret_key, generation_key, owner_key
  <1>3. Removes({})
    BY <1>2 DEF Removes
  <1>4. StoreTyped'
    BY <1>1 DEF TypeOK, StoreTyped, ValuesAt, StoredRecord
  <1>5. EntriesTyped'
    <2>1. StoreTyped' => EntriesTyped'
      BY TypedEntries, PTL
    <2> QED BY <1>4, <2>1
  <1>6. clock <= clock'
    BY <1>1 DEF EntriesTyped
  <1>7. Coherent' /\ StoreGrows
    BY <1>1, <1>3, <1>5, <1>6, RemovesKeep
  <1> QED BY <1>2, <1>4, <1>5, <1>7

(* A step of one call that leaves the store alone.                         *)
LEMMA QuietKeeps ==
    ASSUME Inv, NEW c \in Clients, Moves(c), UNCHANGED <<kv, clock>>,
           requests' \subseteq requests
    PROVE  Inv'
  <1>1. EntriesTyped /\ StoreTyped' /\ Coherent' /\ StoreGrows
    BY StoreAlone DEF Inv
  <1>2. PICK g : Become(c, g) /\ FrameOK(g)
    BY DEF Moves
  <1>3. FrameOK(g)'
    BY <1>1, <1>2, FrameStays
  <1> QED BY <1>1, <1>2, <1>3, StepKeeps

(* A step that has done its write: the call's frame in the old store will  *)
(* do in the new one.                                                      *)
LEMMA WroteKeeps ==
    ASSUME Inv, NEW c \in Clients, Moves(c), StoreTyped', Coherent', StoreGrows,
           requests' \subseteq requests
    PROVE  Inv'
  <1>1. EntriesTyped
    BY DEF Inv
  <1>2. PICK g : Become(c, g) /\ FrameOK(g)
    BY DEF Moves
  <1>3. FrameOK(g)'
    BY <1>1, <1>2, FrameStays
  <1> QED BY <1>2, <1>3, StepKeeps

(* Time goes on with a write. *)
LEMMA ClockGrows ==
    ASSUME EntriesTyped, clock' = clock + 1 PROVE clock <= clock'
  <1>1. clock \in Nat
    BY DEF EntriesTyped
  <1> QED BY <1>1

(* A removal, whether by a purge or by a revoke.                           *)
LEMMA RemovalKeeps ==
    ASSUME Inv, NEW f, AtHand(f), SecretKnown(f), RecordOK(f),
           AllCurrent(RemovalChecks(f)), Write(NoEntries, Removal(f))
    PROVE  StoreTyped' /\ Coherent' /\ StoreGrows /\ Removes({f.id}) /\ R(f.id) = f.entry
  <1>1. EntriesTyped /\ Coherent /\ StoreTyped
    BY DEF Inv, TypeOK, StoreTyped
  <1>2. /\ f.id \in KeyIds /\ present(f.entry) /\ SeenRecord(f.entry, f.id)
        /\ R(f.id) = f.entry => S(f.entry.val.secret_hash) = f.secret_entry
    BY DEF RecordOK
  <1>3. Removes({f.id}) /\ R(f.id) = f.entry
    BY <1>1, <1>2, RemovalRemoves
  <1>4. StoreTyped' /\ EntriesTyped' /\ clock' = clock + 1
    BY <1>1, NoKeys, WriteTyped
  <1>5. Coherent' /\ StoreGrows
    BY <1>1, <1>3, <1>4, ClockGrows, RemovesKeep
  <1> QED BY <1>3, <1>4, <1>5

(* The commit of a purge, and its going on with the walk.                  *)
LEMMA PurgeCommitKeeps ==
    ASSUME Inv, NEW c \in Clients, PurgeCommit(c)
    PROVE  Inv'
  <1> SUFFICES ASSUME NEW f, f = client[c] PROVE Inv'
    OBVIOUS
  <1>1. /\ f.at = "purge commit" /\ AfterPurge(c, f) /\ requests' = requests
        /\ \/ AllCurrent(RemovalChecks(f)) /\ Write(NoEntries, Removal(f))
           \/ UNCHANGED <<kv, clock>>
    BY DEF PurgeCommit
  <1>2. FrameOK(f) /\ RecordOK(f)
    BY <1>1, FrameOf DEF Ended
  <1>3. Moves(c)
    BY <1>1, <1>2, AfterPurgeMoves
  <1>4. CASE AllCurrent(RemovalChecks(f)) /\ Write(NoEntries, Removal(f))
    <2>1. AtHand(f) /\ SecretKnown(f)
      BY <1>1 DEF AtHand, SecretKnown
    <2>2. StoreTyped' /\ Coherent' /\ StoreGrows
      BY <1>2, <1>4, <2>1, RemovalKeeps
    <2> QED BY <1>1, <1>3, <2>2, WroteKeeps
  <1>5. CASE UNCHANGED <<kv, clock>>
    BY <1>1, <1>3, <1>5, QuietKeeps
  <1> QED BY <1>1, <1>4, <1>5

(* What is known of a call that commits. *)
LEMMA CommitKnows ==
    ASSUME Inv, NEW c \in Clients, NEW f, f = client[c], f.at = "commit"
    PROVE  /\ f \in Frame /\ f.req \in Requested /\ f.reply = None
           /\ EntriesTyped /\ Coherent /\ StoreTyped /\ RecordOK(f)
           /\ f.req.kind \in {"create", "update", "revoke", "revoke_all"}
           /\ f.req.kind # "revoke" => Seen(f.generation, G(f.req.owner))
           /\ f.req.kind = "revoke_all" => LiveOK(f)
           /\ f.req.kind = "create" => CreateOK(f)
           /\ f.req.kind = "revoke" => AtHand(f) /\ SecretKnown(f)
  <1>1. f.at \notin Ended
    BY DEF Ended
  <1>2. /\ f \in Frame /\ f.req \in Requested /\ f.reply = None /\ Route(f) /\ RecordOK(f)
        /\ GenerationKnown(f) => Seen(f.generation, G(f.req.owner))
        /\ f.req.kind = "revoke_all" => LiveOK(f)
        /\ f.req.kind = "create" => CreateOK(f)
        /\ EntriesTyped /\ Coherent
    BY <1>1, FrameOf
  <1>3. f.req.kind \in {"create", "update", "revoke", "revoke_all"}
    BY <1>2 DEF Route, Changing
  <1>4. StoreTyped
    BY DEF Inv, TypeOK, StoreTyped
  <1>5. f.req.kind # "revoke" => GenerationKnown(f)
    BY <1>3 DEF GenerationKnown, Walking
  <1>6. f.req.kind = "revoke" => AtHand(f) /\ SecretKnown(f)
    BY DEF AtHand, SecretKnown, Changing
  <1> QED BY <1>2, <1>3, <1>4, <1>5, <1>6

(* The commits of the four operations, and their refusals.                 *)
LEMMA CommitKeeps ==
    ASSUME Inv, NEW c \in Clients, Commit(c)
    PROVE  Inv'
  <1> SUFFICES ASSUME NEW f, f = client[c] PROVE Inv'
    OBVIOUS
  <1>1. /\ f.at = "commit" /\ requests' = requests
        /\ \/ /\ AllCurrent(Checks(f)) /\ Write(Written(f), Removed(f))
              /\ \/ f.req.kind # "revoke_all" /\ Return(c, "ok")
                 \/ f.req.kind = "revoke_all" /\ NextDead(c, f)
           \/ Retry(c, f) /\ UNCHANGED <<kv, clock>>
    BY DEF Commit
  <1>2. /\ f \in Frame /\ f.req \in Requested /\ f.reply = None
        /\ EntriesTyped /\ Coherent /\ StoreTyped /\ RecordOK(f)
        /\ f.req.kind \in {"create", "update", "revoke", "revoke_all"}
        /\ f.req.kind # "revoke" => Seen(f.generation, G(f.req.owner))
        /\ f.req.kind = "revoke_all" => LiveOK(f)
        /\ f.req.kind = "create" => CreateOK(f)
        /\ f.req.kind = "revoke" => AtHand(f) /\ SecretKnown(f)
    BY <1>1, CommitKnows
  <1>3. CASE Retry(c, f) /\ UNCHANGED <<kv, clock>>
    BY <1>1, <1>2, <1>3, RetryMoves, QuietKeeps
  <1>4. CASE /\ AllCurrent(Checks(f)) /\ Write(Written(f), Removed(f))
             /\ f.req.kind # "revoke_all" /\ Return(c, "ok")
    <2>1. Moves(c)
      BY <1>4, ReturnMoves DEF Replies
    <2>2. StoreTyped' /\ Coherent' /\ StoreGrows
      <3>1. CASE f.req.kind = "create"
        <4>1. \A key \in DOMAIN Written(f) : Written(f)[key] \in ValuesAt(key)
          BY <1>1, <1>2, <1>4, <3>1, CreationTyped
        <4>2. StoreTyped' /\ EntriesTyped' /\ clock' = clock + 1
          BY <1>2, <1>4, <4>1, WriteTyped
        <4>3. Creates(Gone(f), f.req.id, NewRecord(f))
          BY <1>1, <1>2, <1>4, <3>1, CreationCreates
        <4>4. /\ G(f.req.owner) = f.generation
              /\ present(R(f.req.id)) => f.req.id \in Gone(f)
              /\ present(S(f.req.hash)) => S(f.req.hash).val \in Gone(f)
          BY <1>1, <1>2, <1>4, <3>1, CreationCurrent
        <4>5. /\ f.req.owner \in Owners /\ f.req.id \in KeyIds /\ NewRecord(f) \in StoredRecord
              /\ NewRecord(f).owner_user_id = f.req.owner
              /\ NewRecord(f).secret_hash = f.req.hash
              /\ NewRecord(f).owner_generation = generation_of(G(f.req.owner))
          BY <1>2, <3>1, <4>4, NewRecordFields
        <4>6. NewRecord(f).owner_generation <= generation_of(G(NewRecord(f).owner_user_id))
          <5>1. generation_of(G(f.req.owner)) \in Nat
            BY <1>2, <4>5, Generations
          <5>2. \A n \in Nat : n <= n
            OBVIOUS
          <5> QED BY <4>5, <5>1, <5>2
        <4> QED BY <1>2, <4>2, <4>3, <4>4, <4>5, <4>6, ClockGrows, CreatesKeep
      <3>2. CASE f.req.kind = "update"
        <4>1. /\ Updates(f.id, NewMetadata(f)) /\ R(f.id) = f.entry /\ present(f.entry)
              /\ f.id \in KeyIds /\ SameKey(R(f.id), NewMetadata(f))
              /\ \A key \in DOMAIN Written(f) : Written(f)[key] \in ValuesAt(key)
          BY <1>1, <1>2, <1>4, <3>2, UpdateUpdates
        <4>2. StoreTyped' /\ EntriesTyped' /\ clock' = clock + 1
          BY <1>2, <1>4, <4>1, WriteTyped
        <4> QED BY <1>2, <4>1, <4>2, ClockGrows, UpdatesKeep
      <3>3. CASE f.req.kind = "revoke"
        <4>1. AllCurrent(RemovalChecks(f)) /\ Write(NoEntries, Removal(f))
          BY <1>4, <3>3 DEF Checks, Written, Removed
        <4> QED BY <1>2, <3>3, <4>1, RemovalKeeps
      <3> QED BY <1>2, <1>4, <3>1, <3>2, <3>3
    <2> QED BY <1>1, <2>1, <2>2, WroteKeeps
  <1>5. CASE /\ AllCurrent(Checks(f)) /\ Write(Written(f), Removed(f))
             /\ f.req.kind = "revoke_all" /\ NextDead(c, f)
    <2>1. /\ Bumps(f.req.owner) /\ G(f.req.owner) = f.generation /\ f.req.owner \in Owners
          /\ \A key \in DOMAIN Written(f) : Written(f)[key] \in ValuesAt(key)
      BY <1>1, <1>2, <1>5, RevokeAllBumps
    <2>2. StoreTyped' /\ EntriesTyped' /\ clock' = clock + 1
      BY <1>2, <1>5, <2>1, WriteTyped
    <2>5. ~Quiet(f.req.owner)
      BY <1>2, <1>5 DEF Quiet
    <2>3. /\ Coherent' /\ StoreGrows
          /\ generation_of(G(f.req.owner)') = generation_of(G(f.req.owner)) + 1
      BY <2>5, <1>2, <2>1, <2>2, ClockGrows, BumpsKeep
    <2>4. PICK g : Become(c, g) /\ FrameOK(g)'
      BY <1>1, <1>2, <1>5, <2>1, <2>3, RevokedPurge
    <2> QED BY <1>1, <2>2, <2>3, <2>4, StepKeeps
  <1> QED BY <1>1, <1>3, <1>4, <1>5

(* The entries a scenario starts from are coherent.                        *)
LEMMA InitInv == Init => Inv
  <1> SUFFICES ASSUME Init PROVE Inv
    OBVIOUS
  <1>1. PICK s \in Scenarios :
           /\ kv = Stamped(s.entries, 1) /\ clock = 1 /\ requests = s.requests
           /\ client = [c \in Clients |-> Idle]
    BY DEF Init
  <1> DEFINE entries == s.entries
             stored(key) == key \in DOMAIN entries
             record(id) == entries[record_key(id)]
             generation(o) == IF stored(generation_key(o)) THEN entries[generation_key(o)] ELSE 0
  <1>2. EntriesOK(entries) /\ requests \subseteq Requested
    BY <1>1, ApiKeyAssumption DEF Requested
  <1>3. /\ \A key \in DOMAIN entries : entries[key] \in ValuesAt(key)
        /\ \A id \in KeyIds : stored(record_key(id)) =>
              /\ stored(owner_key(record(id).owner_user_id, id))
              /\ stored(secret_key(record(id).secret_hash))
              /\ entries[secret_key(record(id).secret_hash)] = id
              /\ record(id).owner_generation <= generation(record(id).owner_user_id)
        /\ \A o \in Owners, id \in KeyIds : stored(owner_key(o, id)) =>
              stored(record_key(id)) /\ record(id).owner_user_id = o
        /\ \A h \in Hashes : stored(secret_key(h)) =>
              /\ stored(record_key(entries[secret_key(h)]))
              /\ record(entries[secret_key(h)]).secret_hash = h
    BY <1>2 DEF EntriesOK
  <1>4. /\ DOMAIN kv = DOMAIN entries
        /\ \A key \in DOMAIN entries : kv[key] = [vs |-> 1, val |-> entries[key]]
    BY <1>1 DEF Stamped
  <1>5. StoreTyped
    <2>1. clock \in Nat /\ 1 \in 1 .. clock
      BY <1>1
    <2> HIDE DEF entries
    <2>2. ASSUME NEW k \in DOMAIN kv PROVE kv[k] \in [vs : 1 .. clock, val : ValuesAt(k)]
      <3>1. kv[k] = [vs |-> 1, val |-> entries[k]] /\ entries[k] \in ValuesAt(k)
        BY <1>3, <1>4
      <3> QED BY <2>1, <3>1
    <2> QED BY <2>1, <2>2 DEF StoreTyped
  <1>6. EntriesTyped
    BY <1>5, TypedEntries
  <1>7. \A key : /\ present(get(key)) <=> stored(key)
                 /\ stored(key) => get(key).val = entries[key]
    <2> HIDE DEF entries
    <2>1. \A key : present(get(key)) <=> key \in DOMAIN kv
      BY <1>5, Stored
    <2>2. \A key : key \in DOMAIN kv => get(key) = kv[key]
      BY DEF get
    <2> QED BY <1>4, <2>1, <2>2
  <1>8. \A o : generation_of(G(o)) = generation(o)
    BY <1>7 DEF generation_of, G
  <1> HIDE DEF entries
  <1>9. ASSUME NEW id \in KeyIds, present(R(id)) PROVE RecordIndexed(id)
    <2>1. stored(record_key(id)) /\ R(id).val = record(id)
      BY <1>7, <1>9 DEF R
    <2> QED BY <1>3, <1>7, <1>8, <2>1 DEF RecordIndexed, O, S
  <1>10. ASSUME NEW o \in Owners, NEW id \in KeyIds, present(O(o, id))
         PROVE  present(R(id)) /\ R(id).val.owner_user_id = o
    <2>1. stored(owner_key(o, id))
      BY <1>7, <1>10 DEF O
    <2> QED BY <1>3, <1>7, <2>1 DEF R
  <1>11. ASSUME NEW h \in Hashes, present(S(h))
         PROVE  present(R(S(h).val)) /\ R(S(h).val).val.secret_hash = h
    <2>1. stored(secret_key(h)) /\ S(h).val = entries[secret_key(h)]
      BY <1>7, <1>11 DEF S
    <2> QED BY <1>3, <1>7, <2>1 DEF R
  <1>12. Coherent
    BY <1>9, <1>10, <1>11 DEF Coherent
  <1>13. CallsOK
    BY <1>1, IdleOK DEF CallsOK
  <1>14. TypeOK
    <2>1. "idle" \in Places
      BY DEF Places
    <2> QED BY <1>1, <1>2, <1>5, <2>1, IdleOK, Asked DEF TypeOK, StoreTyped
  <1> QED BY <1>2, <1>6, <1>12, <1>13, <1>14 DEF Inv

(* Every step of every client preserves the invariant.                     *)
LEMMA NextInv == Inv /\ [Next]_vars => Inv'
  <1> SUFFICES ASSUME Inv, [Next]_vars PROVE Inv'
    OBVIOUS
  <1>1. CASE UNCHANGED vars
    <2>1. UNCHANGED <<kv, clock, requests, client>>
      BY <1>1 DEF vars
    <2>2. /\ requests \subseteq Requested /\ EntriesTyped
          /\ client \in [Clients -> Frame] /\ \A c \in Clients : FrameOK(client[c])
          /\ \A c \in Clients : client[c].at \in Places
      BY DEF Inv, CallsOK, TypeOK
    <2>3. StoreTyped' /\ EntriesTyped' /\ Coherent' /\ StoreGrows
      BY <2>1, StoreAlone
    <2>4. ASSUME NEW c \in Clients PROVE FrameOK(client[c])'
      <3> SUFFICES ASSUME NEW f, f = client[c], client'[c] = f PROVE FrameOK(client[c])'
        BY <2>1
      <3>1. FrameOK(f)'
        BY <2>2, <2>3, FrameStays
      <3> QED BY <3>1
    <2>5. Frame' = Frame
      BY DEF Frame
    <2>6. CallsOK' /\ TypeOK'
      BY <2>1, <2>2, <2>3, <2>4, <2>5, Asked DEF CallsOK, TypeOK, StoreTyped
    <2> QED BY <2>1, <2>2, <2>3, <2>6 DEF Inv
  <1>2. ASSUME NEW c \in Clients, NEW req \in requests, Call(c, req) PROVE Inv'
    <2>1. UNCHANGED <<kv, clock>> /\ requests' \subseteq requests
      BY <1>2 DEF Call
    <2> QED BY <1>2, <2>1, CallMoves, QuietKeeps
  <1>3. ASSUME NEW c \in Clients,
               \/ ReadGeneration(c) \/ ReadIndex(c) \/ ReadRecord(c) \/ ReadLive(c)
               \/ ReadOwnSecret(c) \/ ReadPurged(c)
               \/ ReadHash(c) \/ ReadOccupant(c) \/ ReadIdOccupantLive(c) \/ ReadOccupantLive(c)
               \/ ReadStaleSecret(c) \/ ListRows(c) \/ Crash(c)
        PROVE  Inv'
    <2>1. UNCHANGED <<kv, clock>> /\ requests' \subseteq requests
      BY <1>3 DEF ReadGeneration, ReadIndex, ReadRecord, ReadLive, ReadOwnSecret, ReadPurged,
                  ReadHash, ReadOccupant, ReadIdOccupantLive, ReadOccupantLive,
                  ReadStaleSecret, ListRows, Crash, Read
    <2>2. Moves(c)
      BY <1>3, ReadGenerationMoves, ReadIndexMoves, ReadRecordMoves, ReadLiveMoves,
         ReadOwnSecretMoves, ReadPurgedMoves, ReadHashMoves, ReadOccupantMoves,
         ReadIdOccupantLiveMoves, ReadOccupantLiveMoves, ReadStaleSecretMoves, ListRowsMoves,
         CrashMoves
    <2> QED BY <2>1, <2>2, QuietKeeps
  <1>4. ASSUME NEW c \in Clients, Commit(c) \/ PurgeCommit(c) PROVE Inv'
    BY <1>4, CommitKeeps, PurgeCommitKeeps
  <1> QED BY <1>1, <1>2, <1>3, <1>4 DEF Next

(* The inductive invariant holds in every reachable state.                 *)
THEOREM ApiKeysInvariant == Spec => []Inv
  BY InitInv, NextInv, PTL DEF Spec

(* In every state, whatever creations, removals and half-finished purges   *)
(* have happened, a stored key has its index entry and its owner row, and  *)
(* no index entry points to a key that is not there.                       *)
THEOREM IndexesStayCoherent == Spec => []IndexesCoherent
  <1>1. Inv => IndexesCoherent
    <2> SUFFICES ASSUME Inv PROVE IndexesCoherent
      OBVIOUS
    <2>1. TypeOK /\ EntriesTyped /\ Coherent /\ StoreTyped
      BY DEF Inv, TypeOK, StoreTyped
    <2>2. \A key : present(get(key)) <=> key \in DOMAIN kv
      BY <2>1, Stored
    <2>3. \A id \in KeyIds : /\ Record(id) = R(id).val
                             /\ Record(id) # None <=> present(R(id))
      <3>1. ASSUME NEW id \in KeyIds PROVE R(id).val # None <=> present(R(id))
        BY <2>1, Absence, ApiKeyAssumption DEF EntriesTyped, EntryOK
      <3> QED BY <3>1 DEF Record, R
    <2>4. ASSUME NEW id \in KeyIds, Record(id) # None
          PROVE  /\ owner_key(Record(id).owner_user_id, id) \in DOMAIN kv
                 /\ get(secret_key(Record(id).secret_hash)).val = id
      BY <2>1, <2>2, <2>3, <2>4 DEF Coherent, RecordIndexed, O, S
    <2>5. ASSUME NEW o \in Owners, NEW id \in KeyIds, owner_key(o, id) \in DOMAIN kv
          PROVE  Record(id) # None /\ Record(id).owner_user_id = o
      BY <2>1, <2>2, <2>3, <2>5 DEF Coherent, O
    <2>6. ASSUME NEW h \in Hashes, secret_key(h) \in DOMAIN kv
          PROVE  LET id == get(secret_key(h)).val
                 IN Record(id) # None /\ Record(id).secret_hash = h
      <3>1. present(S(h))
        BY <2>2, <2>6 DEF S
      <3>2. S(h).val \in KeyIds /\ present(R(S(h).val)) /\ R(S(h).val).val.secret_hash = h
        BY <2>1, <3>1, IndexedKey
      <3> QED BY <2>3, <3>2 DEF S
    <2> QED BY <2>1, <2>4, <2>5, <2>6 DEF IndexesCoherent
  <1> QED BY <1>1, ApiKeysInvariant, PTL

(* A call that answers with a key, by its id or by its secret's hash, has  *)
(* read it when it was live.                                               *)
THEOREM FoundKeysWereLiveThen == Spec => []FoundKeysWereLive
  <1>1. Inv => FoundKeysWereLive
    BY DEF Inv, CallsOK, FrameOK, FoundKeysWereLive
  <1> QED BY <1>1, ApiKeysInvariant, PTL

-----------------------------------------------------------------------------
(* What a step does to the records and the generations. *)

StoreLeft ==
    /\ \A id : R(id)' = R(id)
    /\ \A o : G(o)' = G(o)

Purged(f) ==
    /\ f.at = "purge commit" /\ f.req \in Requested /\ f.id \in KeyIds
    /\ Condemned(f) /\ present(f.entry) /\ R(f.id) = f.entry /\ Removes({f.id})
    /\ f.req.kind = "list_by_owner" => f.req.owner \in Owners

(* The operations that committed, and what their callers asked for.        *)
Created(f) ==
    LET new == NewRecord(f) IN
    /\ f.req \in Requested /\ f.req.kind = "create" /\ f.req.id \in KeyIds
    /\ new \in StoredRecord /\ Creates(Gone(f), f.req.id, new)
    /\ new.owner_user_id = f.req.owner /\ new.secret_hash = f.req.hash
    /\ new.owner_generation = generation_of(G(f.req.owner))
    /\ new.metadata = f.req.metadata /\ new.revision = 1
    /\ \A s \in f.stale : s[1] \in KeyIds /\ SameKey(R(s[1]), s[2]) /\ Dead(s[2])
    /\ \A s \in f.stale : s[2] \in StoredRecord
    /\ present(R(f.req.id)) => f.req.id \in Gone(f)
    /\ present(S(f.req.hash)) => S(f.req.hash).val \in Gone(f)

Changed(f) ==
    /\ f.req \in Requested /\ f.id = f.req.id /\ f.id \in KeyIds
    /\ present(f.entry) /\ R(f.id) = f.entry /\ f.entry.val \in StoredRecord
    /\ f.entry.val.owner_user_id = f.req.owner
    /\ f.entry.val.revision = f.req.expected_revision

Updated(f) ==
    LET new == NewMetadata(f) IN
    /\ f.req.kind = "update" /\ Changed(f) /\ Updates(f.id, new)
    /\ f.entry.val.owner_generation = generation_of(G(f.req.owner))
    /\ new \in StoredRecord /\ SameKey(f.entry, new)
    /\ new.metadata = f.req.metadata /\ new.revision = f.entry.val.revision + 1

Revoked(f) == f.req.kind = "revoke" /\ Changed(f) /\ Removes({f.id})

RevokedAll(f) ==
    f.req \in Requested /\ f.req.kind = "revoke_all" /\ f.req.owner \in Owners /\ Bumps(f.req.owner)

Operated(f) == Created(f) \/ Updated(f) \/ Revoked(f) \/ RevokedAll(f)

(* The call of c, at its commit, goes on from there.                       *)
Commits(c, f) == f.at = "commit" /\ client'[c] # f /\ \E g : Become(c, g)

(* A call that has committed is elsewhere. *)
LEMMA CommitMoves ==
    ASSUME Inv, NEW c \in Clients, NEW f, f = client[c], f.at = "commit",
           \/ Return(c, "ok")
           \/ NextDead(c, f)
    PROVE  client'[c] # f /\ \E g : Become(c, g)
  <1>1. client \in [Clients -> Frame] /\ f \in Frame
    BY DEF Inv, CallsOK
  <1>2. ASSUME NEW reply, Return(c, reply)
        PROVE  client'[c] # f /\ \E g : Become(c, g)
    <2>1. client'[c].at = "idle"
      BY <1>1, <1>2 DEF Return, Become, Idle
    <2> QED BY <1>2, <2>1 DEF Return
  <1>3. ASSUME NEW dead \in f.live,
               Purge(c, [f EXCEPT !.id = dead[1], !.entry = dead[2], !.live = @ \ {dead}])
        PROVE  client'[c] # f /\ \E g : Become(c, g)
    <2>1. client'[c].at = "purge"
      BY <1>1, <1>3 DEF Purge, Become, Frame
    <2> QED BY <1>3, <2>1 DEF Purge
  <1> QED BY <1>2, <1>3 DEF NextDead

(* Every commit is one of the four operations on the keys as they are then. *)
LEMMA CommitOperates ==
    ASSUME Inv, NEW c \in Clients, NEW f, f = client[c], Commit(c)
    PROVE  StoreLeft \/ (Commits(c, f) /\ Operated(f))
  <1>1. /\ f.at = "commit"
        /\ \/ /\ AllCurrent(Checks(f)) /\ Write(Written(f), Removed(f))
              /\ \/ f.req.kind # "revoke_all" /\ Return(c, "ok")
                 \/ f.req.kind = "revoke_all" /\ NextDead(c, f)
           \/ UNCHANGED <<kv, clock>>
    BY DEF Commit
  <1>2. /\ f \in Frame /\ f.req \in Requested
        /\ EntriesTyped /\ Coherent /\ RecordOK(f)
        /\ f.req.kind \in {"create", "update", "revoke", "revoke_all"}
        /\ f.req.kind # "revoke" => Seen(f.generation, G(f.req.owner))
        /\ f.req.kind = "create" => CreateOK(f)
        /\ f.req.kind = "revoke" => AtHand(f) /\ SecretKnown(f)
    BY <1>1, CommitKnows
  <1>3. CASE UNCHANGED <<kv, clock>>
    BY <1>3, StoreAlone DEF StoreLeft
  <1>4. CASE /\ AllCurrent(Checks(f)) /\ Write(Written(f), Removed(f))
             /\ Return(c, "ok") \/ NextDead(c, f)
    <2>1. Commits(c, f)
      BY <1>1, <1>4, CommitMoves DEF Commits
    <2>2. CASE f.req.kind = "create"
      <3>1. Creates(Gone(f), f.req.id, NewRecord(f))
        BY <1>1, <1>2, <1>4, <2>2, CreationCreates
      <3>2. /\ G(f.req.owner) = f.generation
            /\ \A s \in f.stale : s[1] \in KeyIds /\ SameKey(R(s[1]), s[2]) /\ Dead(s[2])
            /\ \A s \in f.stale : s[2] \in StoredRecord
            /\ present(R(f.req.id)) => f.req.id \in Gone(f)
            /\ present(S(f.req.hash)) => S(f.req.hash).val \in Gone(f)
        BY <1>1, <1>2, <1>4, <2>2, CreationCurrent
      <3>3. /\ f.req.id \in KeyIds /\ NewRecord(f) \in StoredRecord
            /\ NewRecord(f).owner_user_id = f.req.owner /\ NewRecord(f).secret_hash = f.req.hash
            /\ NewRecord(f).owner_generation = generation_of(G(f.req.owner))
        BY <1>2, <2>2, <3>2, NewRecordFields
      <3>4. NewRecord(f).metadata = f.req.metadata /\ NewRecord(f).revision = 1
        BY DEF NewRecord
      <3>5. Created(f)
        BY <1>2, <2>2, <3>1, <3>2, <3>3, <3>4 DEF Created
      <3> QED BY <1>1, <2>1, <3>5 DEF Operated
    <2>3. CASE f.req.kind = "update"
      <3>1. /\ Updates(f.id, NewMetadata(f)) /\ R(f.id) = f.entry /\ present(f.entry)
            /\ f.id = f.req.id /\ f.id \in KeyIds /\ f.entry.val.owner_user_id = f.req.owner
            /\ f.entry.val.revision = f.req.expected_revision
            /\ f.entry.val.owner_generation = generation_of(G(f.req.owner))
            /\ f.entry.val \in StoredRecord
            /\ SameKey(R(f.id), NewMetadata(f))
        BY <1>1, <1>2, <1>4, <2>3, UpdateUpdates
      <3>2. /\ NewMetadata(f) \in StoredRecord /\ NewMetadata(f).metadata = f.req.metadata
            /\ NewMetadata(f).revision = f.entry.val.revision + 1
        BY <1>2, <2>3, <3>1, NewMetadataFields
      <3>3. Updated(f)
        BY <1>2, <2>3, <3>1, <3>2 DEF Updated, Changed
      <3> QED BY <1>1, <2>1, <3>3 DEF Operated
    <2>4. CASE f.req.kind = "revoke"
      <3>1. AllCurrent(RemovalChecks(f)) /\ Write(NoEntries, Removal(f))
        BY <1>4, <2>4 DEF Checks, Written, Removed
      <3>2. Removes({f.id}) /\ R(f.id) = f.entry
        BY <1>2, <2>4, <3>1, RemovalKeeps
      <3>3. /\ f.id \in KeyIds /\ present(f.entry) /\ f.entry.val \in StoredRecord
            /\ f.id = f.req.id /\ f.entry.val.owner_user_id = f.req.owner
            /\ f.entry.val.revision = f.req.expected_revision
        BY <1>1, <1>2, <2>4 DEF RecordOK, Judged, Changing, SeenRecord
      <3>4. Revoked(f)
        BY <1>2, <2>4, <3>2, <3>3 DEF Revoked, Changed
      <3> QED BY <1>1, <2>1, <3>4 DEF Operated
    <2>5. CASE f.req.kind = "revoke_all"
      <3>1. Bumps(f.req.owner) /\ f.req.owner \in Owners
        BY <1>1, <1>2, <1>4, <2>5, RevokeAllBumps
      <3>2. RevokedAll(f)
        BY <1>2, <2>5, <3>1 DEF RevokedAll
      <3> QED BY <1>1, <2>1, <3>2 DEF Operated
    <2> QED BY <1>2, <2>2, <2>3, <2>4, <2>5
  <1> QED BY <1>1, <1>3, <1>4

(* A purge that commits removes the record it has condemned. *)
LEMMA PurgeCommitPurges ==
    ASSUME Inv, NEW c \in Clients, NEW f, f = client[c], PurgeCommit(c)
    PROVE  StoreLeft \/ (Purged(f) /\ \E g : Become(c, g))
  <1>1. /\ f.at = "purge commit" /\ AfterPurge(c, f)
        /\ \/ AllCurrent(RemovalChecks(f)) /\ Write(NoEntries, Removal(f))
           \/ UNCHANGED <<kv, clock>>
    BY DEF PurgeCommit
  <1>2. FrameOK(f) /\ RecordOK(f) /\ f.req \in Requested
    BY <1>1, FrameOf DEF Ended
  <1>5. \E g : Become(c, g)
    BY <1>1, <1>2, AfterPurgeMoves DEF Moves
  <1>3. CASE UNCHANGED <<kv, clock>>
    BY <1>3, StoreAlone DEF StoreLeft
  <1>4. CASE AllCurrent(RemovalChecks(f)) /\ Write(NoEntries, Removal(f))
    <2>1. AtHand(f) /\ SecretKnown(f)
      BY <1>1 DEF AtHand, SecretKnown
    <2>2. Removes({f.id}) /\ R(f.id) = f.entry
      BY <1>2, <1>4, <2>1, RemovalKeeps
    <2>3. f.id \in KeyIds /\ present(f.entry) /\ Condemned(f)
      BY <1>1, <1>2, <2>1 DEF RecordOK
    <2>4. f.req.kind = "list_by_owner" => f.req.owner \in Owners
      BY <1>2, Asked DEF Walking
    <2> QED BY <1>1, <1>2, <1>5, <2>2, <2>3, <2>4 DEF Purged
  <1> QED BY <1>1, <1>3, <1>4

(* Nothing but a commit touches the records.                               *)
LEMMA StepEffects ==
    ASSUME Inv, [Next]_vars
    PROVE  \/ StoreLeft
           \/ \E c \in Clients :
                 \/ Purged(client[c]) /\ \E g : Become(c, g)
                 \/ Commits(c, client[c]) /\ Operated(client[c])
  <1>1. CASE UNCHANGED <<kv, clock>>
    BY <1>1, StoreAlone DEF StoreLeft
  <1>2. ASSUME NEW c \in Clients, Commit(c)
        PROVE  StoreLeft \/ (Commits(c, client[c]) /\ Operated(client[c]))
    <2> SUFFICES ASSUME NEW f, f = client[c]
                 PROVE  StoreLeft \/ (Commits(c, f) /\ Operated(f))
      OBVIOUS
    <2> QED BY <1>2, CommitOperates
  <1>3. ASSUME NEW c \in Clients, PurgeCommit(c)
        PROVE  StoreLeft \/ (Purged(client[c]) /\ \E g : Become(c, g))
    <2> SUFFICES ASSUME NEW f, f = client[c]
                 PROVE  StoreLeft \/ (Purged(f) /\ \E g : Become(c, g))
      OBVIOUS
    <2> QED BY <1>3, PurgeCommitPurges
  <1>4. ASSUME NEW c \in Clients,
               \/ \E req \in requests : Call(c, req)
               \/ ReadGeneration(c) \/ ReadIndex(c) \/ ReadRecord(c) \/ ReadLive(c)
               \/ ReadOwnSecret(c) \/ ReadPurged(c)
               \/ ReadHash(c) \/ ReadOccupant(c) \/ ReadIdOccupantLive(c) \/ ReadOccupantLive(c)
               \/ ReadStaleSecret(c) \/ ListRows(c) \/ Crash(c)
        PROVE  UNCHANGED <<kv, clock>>
    BY <1>4 DEF Call, ReadGeneration, ReadIndex, ReadRecord, ReadLive, ReadOwnSecret,
                ReadPurged, ReadHash, ReadOccupant, ReadIdOccupantLive, ReadOccupantLive,
                ReadStaleSecret, ListRows, Crash, Read
  <1>5. CASE UNCHANGED vars
    BY <1>1, <1>5 DEF vars
  <1> QED BY <1>1, <1>2, <1>3, <1>4, <1>5 DEF Next

-----------------------------------------------------------------------------
(* The live keys. *)

Alive(id) ==
    present(R(id)) /\ R(id).val.owner_generation = generation_of(G(R(id).val.owner_user_id))

Shown(stored) == [f \in {"owner_user_id", "secret_hash", "metadata", "revision"} |-> stored[f]]

Offered(id) == IF Alive(id) THEN Shown(R(id).val) ELSE None

(* What the properties say of records, said of the entries. *)
EntriesShown ==
    /\ \A id \in KeyIds : /\ Record(id) = R(id).val
                          /\ Record(id) # None <=> present(R(id))
                          /\ present(R(id)) => R(id).val \in StoredRecord
                          /\ Live(id) <=> Alive(id)
    /\ LiveKeys = [id \in KeyIds |-> Offered(id)]

(* It is so of typed entries.                                              *)
LEMMA LiveEntries == EntriesTyped => EntriesShown
  <1> SUFFICES ASSUME EntriesTyped PROVE EntriesShown
    OBVIOUS
  <1>1. \A id \in KeyIds : Record(id) = R(id).val
    BY DEF Record, R
  <1>2. ASSUME NEW id \in KeyIds
        PROVE  /\ R(id).val # None <=> present(R(id))
               /\ present(R(id)) => R(id).val \in StoredRecord
    BY Absence, ApiKeyAssumption DEF EntriesTyped, EntryOK
  <1>3. \A o : Generation(o) = generation_of(G(o))
    BY DEF Generation, G
  <1>4. \A id \in KeyIds : Live(id) <=> Alive(id)
    BY <1>1, <1>2, <1>3 DEF Live, Alive
  <1>5. ASSUME NEW id \in KeyIds
        PROVE  (IF Live(id)
                THEN [f \in {"owner_user_id", "secret_hash", "metadata", "revision"} |->
                         Record(id)[f]]
                ELSE None) = Offered(id)
    BY <1>1, <1>4 DEF Offered, Shown
  <1>6. LiveKeys = [id \in KeyIds |-> Offered(id)]
    BY <1>5 DEF LiveKeys
  <1> QED BY <1>1, <1>2, <1>4, <1>6 DEF EntriesShown

(* A key is shown without its generation. *)
LEMMA ShownFields ==
    ASSUME NEW stored \in StoredRecord
    PROVE  /\ Shown(stored) \in Abstract!ApiKeyRecord
           /\ Shown(stored) = [owner_user_id |-> stored.owner_user_id,
                               secret_hash |-> stored.secret_hash,
                               metadata |-> stored.metadata, revision |-> stored.revision]
           /\ Shown(stored).owner_user_id = stored.owner_user_id
           /\ Shown(stored).secret_hash = stored.secret_hash
           /\ Shown(stored).revision = stored.revision
           /\ Shown(stored) # None
  <1>1. Shown(stored) = [owner_user_id |-> stored.owner_user_id,
                         secret_hash |-> stored.secret_hash,
                         metadata |-> stored.metadata, revision |-> stored.revision]
    BY DEF Shown, StoredRecord
  <1>2. Shown(stored) \in Abstract!ApiKeyRecord
    BY <1>1 DEF StoredRecord, Abstract!ApiKeyRecord
  <1> QED BY <1>1, <1>2, NoneIsNoKey

(* The owner of a record, named. *)
NamedOwner ==
    \A id, o : R(id).val.owner_user_id = o =>
        (Alive(id) <=> present(R(id)) /\ R(id).val.owner_generation = generation_of(G(o)))

(* It is the owner whose generation a live key has.                        *)
LEMMA AliveAs == NamedOwner
  BY DEF NamedOwner, Alive

(* What becomes of the offer of a key whose entry is kept, removed or new. *)
LEMMA KeptOffer ==
    ASSUME EntriesTyped, NEW id \in KeyIds, R(id)' = R(id),
           \A o \in Owners : generation_of(G(o)') = generation_of(G(o))
    PROVE  Alive(id)' = Alive(id) /\ Offered(id)' = Offered(id)
  <1>1. NamedOwner'
    BY AliveAs, PTL
  <1>2. CASE present(R(id))
    <2> SUFFICES ASSUME NEW o, o = R(id).val.owner_user_id
                 PROVE  Alive(id)' = Alive(id) /\ Offered(id)' = Offered(id)
      OBVIOUS
    <2>1. o \in Owners
      BY <1>2 DEF EntriesTyped, EntryOK, StoredRecord
    <2>2. Alive(id)' <=> present(R(id)) /\ R(id).val.owner_generation = generation_of(G(o)')
      BY <1>1 DEF NamedOwner, present
    <2>3. generation_of(G(o)') = generation_of(G(o))
      BY <2>1
    <2>4. Alive(id)' <=> Alive(id)
      BY <2>2, <2>3, AliveAs DEF NamedOwner
    <2> QED BY <2>4 DEF Offered, Alive
  <1>3. CASE ~present(R(id))
    <2>1. ~Alive(id) /\ ~Alive(id)'
      BY <1>3 DEF Alive, present
    <2> QED BY <2>1 DEF Offered, Alive
  <1> QED BY <1>2, <1>3

(* A removed key is offered no more.                                       *)
LEMMA LostOffer ==
    ASSUME NEW id \in KeyIds, R(id)' = Absent
    PROVE  ~Alive(id)' /\ Offered(id)' = None
  <1>1. ~Alive(id)'
    BY DEF Alive, present, Absent
  <1> QED BY <1>1 DEF Offered

(* A new record of its owner's generation is offered.                      *)
LEMMA NewOffer ==
    ASSUME EntriesTyped, NEW id \in KeyIds, NEW stored \in StoredRecord, R(id)' = Fresh(stored),
           stored.owner_generation = generation_of(G(stored.owner_user_id)'),
           NEW o, o = stored.owner_user_id
    PROVE  Alive(id)' /\ Offered(id)' = Shown(stored)
  <1>1. NamedOwner'
    BY AliveAs, PTL
  <1>2. present(Fresh(stored)) /\ Fresh(stored).val = stored
    BY FreshEntries
  <1>3. present(R(id))'
    BY <1>2 DEF present
  <1>4. (R(id).val)' = stored
    BY <1>2
  <1>5. Alive(id)'
    BY <1>1, <1>3, <1>4 DEF NamedOwner
  <1> QED BY <1>4, <1>5 DEF Offered

(* The owner of a stored record is an owner, its revision a number.        *)
LEMMA RecordParts ==
    ASSUME NEW stored \in StoredRecord
    PROVE  stored.owner_user_id \in Owners /\ stored.revision \in Nat
  <1>1. \A n \in 1 .. MaxRevision : n \in Nat
    BY ApiKeyAssumption
  <1> QED BY <1>1 DEF StoredRecord

(* A creation that overlaps a revoke-all starts over: a key that appears,  *)
(* or takes the place of another, has the owner's generation of the very   *)
(* step that stores it.                                                    *)
THEOREM CreatedKeysStartLive == Spec => CreatedKeysAreLive
  <1> DEFINE Appears(id) ==
                Record(id)' # None /\ (Record(id) = None \/ Record(id)'.revision < Record(id).revision
                                       \/ Record(id)'.owner_generation # Record(id).owner_generation)
             Step == \A id \in KeyIds : Appears(id) => Live(id)'
  <1>1. ASSUME Inv, [Next]_vars, Inv', NEW id \in KeyIds, Appears(id) PROVE Live(id)'
    <2>1. EntriesTyped /\ EntriesTyped'
      BY <1>1 DEF Inv
    <2>2. EntriesShown /\ EntriesShown'
      <3>1. EntriesTyped' => EntriesShown'
        BY LiveEntries, PTL
      <3> QED BY <2>1, <3>1, LiveEntries
    <2>3. /\ Record(id) = R(id).val /\ (Record(id) # None <=> present(R(id)))
          /\ present(R(id)) => R(id).val \in StoredRecord
      BY <2>2 DEF EntriesShown
    <2>4. /\ Record(id)' = R(id)'.val /\ (Record(id)' # None <=> present(R(id)'))
          /\ Live(id)' <=> Alive(id)'
      BY <2>2 DEF EntriesShown, present
    <2>5. present(R(id)) => R(id).val.revision \in Nat
      BY <2>3, RecordParts
    <2>6. present(R(id)') /\ R(id)' # R(id)
      <3>1. R(id)' # R(id)
        <4>1. ASSUME R(id)' = R(id), present(R(id)) PROVE FALSE
          <5>1. R(id).val.revision < R(id).val.revision
            BY <1>1, <2>3, <2>4, <4>1
          <5> QED BY <2>5, <4>1, <5>1
        <4> QED BY <1>1, <2>3, <2>4, <4>1 DEF present
      <3> QED BY <1>1, <2>4, <3>1
    <2>7. ~present(Absent)
      BY Absence
    <2>8. PICK c \in Clients :
             Purged(client[c]) \/ Operated(client[c])
      BY <1>1, <2>6, StepEffects DEF StoreLeft
    <2>9. SUFFICES ASSUME NEW f, f = client[c], Purged(f) \/ Operated(f) PROVE Live(id)'
      BY <2>8
    <2>10. CASE Created(f)
      <3>1. SUFFICES ASSUME NEW new, new = NewRecord(f) PROVE Live(id)'
        OBVIOUS
      <3>2. /\ new \in StoredRecord /\ Creates(Gone(f), f.req.id, new)
            /\ new.owner_generation = generation_of(G(new.owner_user_id))
        BY <2>10, <3>1 DEF Created
      <3>3. id = f.req.id /\ R(id)' = Fresh(new)
        BY <2>6, <2>7, <3>2 DEF Creates
      <3>4. G(new.owner_user_id)' = G(new.owner_user_id)
        BY <3>2, RecordParts DEF Creates
      <3>5. Alive(id)'
        BY <2>1, <3>2, <3>3, <3>4, NewOffer
      <3> QED BY <2>4, <3>5
    <2>11. CASE Updated(f)
      <3>1. SUFFICES ASSUME NEW new, new = NewMetadata(f) PROVE Live(id)'
        OBVIOUS
      <3>2. /\ new \in StoredRecord /\ Updates(f.id, new) /\ SameKey(f.entry, new)
            /\ R(f.id) = f.entry /\ new.revision = f.entry.val.revision + 1
            /\ f.id \in KeyIds /\ present(f.entry)
        BY <2>11, <3>1 DEF Updated, Changed
      <3>3. id = f.id /\ R(id)' = Fresh(new)
        BY <2>6, <3>2 DEF Updates
      <3>4. R(id)'.val = new
        BY <3>3 DEF Fresh
      <3>5. \/ new.revision < R(id).val.revision
            \/ new.owner_generation # R(id).val.owner_generation
        BY <1>1, <2>3, <2>4, <3>2, <3>3, <3>4
      <3>6. \A n \in Nat : ~(n + 1 < n)
        OBVIOUS
      <3> QED BY <2>5, <3>2, <3>3, <3>5, <3>6 DEF SameKey
    <2>12. CASE Purged(f) \/ Revoked(f)
      BY <2>6, <2>7, <2>12 DEF Purged, Revoked, Removes
    <2>13. CASE RevokedAll(f)
      BY <2>6, <2>13 DEF RevokedAll, Bumps
    <2> QED BY <2>9, <2>10, <2>11, <2>12, <2>13 DEF Operated
  <1>2. Inv /\ Inv' /\ [Next]_vars => Step
    BY <1>1
  <1> QED BY <1>2, ApiKeysInvariant, PTL DEF Spec, CreatedKeysAreLive

-----------------------------------------------------------------------------
(* Listings and revoke-alls of one owner. *)

(* No listing overlaps a revoke-all of its owner, for none of the calls    *)
(* asks for one.  Without this the two properties below fail: a listing    *)
(* takes the keys of its owner's next generation for dead, and purges them *)
(* while they are live (the run MCKvApiKeys_listing).                      *)
NeverListedWhileRevoked ==
    \A r \in Requested : r.kind = "list_by_owner" => Quiet(r.owner)

(* A record seen dead offers nothing. *)
LEMMA DeadOffersNothing ==
    ASSUME EntriesTyped, NEW id \in KeyIds, NEW stored \in StoredRecord, SameKey(R(id), stored),
           Dead(stored)
    PROVE  ~Alive(id) /\ Offered(id) = None
  <1>1. ~Alive(id)
    <2>1. stored.owner_user_id \in Owners
      BY RecordParts
    <2>2. generation_of(G(stored.owner_user_id)) \in Nat
      BY <2>1, Generations
    <2>3. stored.owner_generation \in Nat
      BY DEF StoredRecord
    <2>4. \A m, n \in Nat : m < n => m # n
      OBVIOUS
    <2>5. stored.owner_generation # generation_of(G(stored.owner_user_id))
      BY <2>2, <2>3, <2>4 DEF Dead
    <2> QED BY <2>5 DEF Alive, SameKey
  <1> QED BY <1>1 DEF Offered

(* So a purge takes nothing that was offered.                              *)
LEMMA PurgedWereDead ==
    ASSUME NeverListedWhileRevoked, Inv, NEW f, Purged(f)
    PROVE  ~Alive(f.id) /\ Offered(f.id) = None
  <1>1. EntriesTyped
    BY DEF Inv
  <1>2. Dead(f.entry.val)
    BY DEF Purged, Condemned, NeverListedWhileRevoked
  <1>3. f.id \in KeyIds /\ present(f.entry) /\ R(f.id) = f.entry
    BY DEF Purged
  <1>4. f.entry.val \in StoredRecord
    BY <1>1, <1>3 DEF EntriesTyped, EntryOK
  <1> QED BY <1>1, <1>2, <1>3, <1>4, SameAsItself, DeadOffersNothing

(* A purge commits only if the key it removes is dead: it never takes a    *)
(* live one, whoever else reads, updates or creates it meanwhile.          *)
THEOREM OnlyDeadKeysArePurged ==
    ASSUME NeverListedWhileRevoked
    PROVE  Spec => PurgesOnlyDeadKeys
  <1> DEFINE Step == \A c \in Clients, id \in KeyIds :
                client[c].at = "purge commit" /\ client[c].id = id /\ client'[c] # client[c]
                /\ Live(id) => Live(id)'
  <1>1. ASSUME Inv, [Next]_vars, Inv', NEW c \in Clients, NEW f, f = client[c],
               f.at = "purge commit", client'[c] # f, Live(f.id)
        PROVE  Live(f.id)'
    <2>1. EntriesTyped /\ EntriesTyped'
      BY <1>1 DEF Inv
    <2>2. EntriesShown /\ EntriesShown'
      <3>1. EntriesTyped' => EntriesShown'
        BY LiveEntries, PTL
      <3> QED BY <2>1, <3>1, LiveEntries
    <2>3. f.id \in KeyIds
      <3>1. f.at \notin Ended /\ AtHand(f)
        BY <1>1 DEF Ended, AtHand
      <3>2. RecordOK(f)
        BY <1>1, <3>1, FrameOf
      <3> QED BY <3>1, <3>2 DEF RecordOK
    <2>4. Alive(f.id)
      BY <1>1, <2>2, <2>3 DEF EntriesShown
    <2>5. CASE StoreLeft
      <3>1. R(f.id)' = R(f.id) /\ \A o \in Owners : generation_of(G(o)') = generation_of(G(o))
        BY <2>5 DEF StoreLeft
      <3>2. Alive(f.id)'
        BY <2>1, <2>3, <2>4, <3>1, KeptOffer
      <3> QED BY <2>2, <2>3, <3>2 DEF EntriesShown
    <2>6. ASSUME NEW d \in Clients, NEW g, Become(d, g),
                 Purged(client[d]) \/ client[d].at = "commit"
          PROVE  FALSE
      <3>1. client'[c] # client[c] /\ client \in [Clients -> Frame]
        BY <1>1 DEF Inv, CallsOK
      <3>2. d = c
        BY <2>6, <3>1 DEF Become
      <3>3. Purged(f)
        BY <1>1, <2>6, <3>2
      <3> QED BY <1>1, <2>4, <3>3, PurgedWereDead
    <2> QED BY <1>1, <2>5, <2>6, StepEffects DEF Commits
  <1>2. Inv /\ Inv' /\ [Next]_vars => Step
    <2> SUFFICES ASSUME Inv, Inv', [Next]_vars, NEW c \in Clients, NEW id \in KeyIds,
                        client[c].at = "purge commit", client[c].id = id,
                        client'[c] # client[c], Live(id)
                 PROVE  Live(id)'
      OBVIOUS
    <2> SUFFICES ASSUME NEW f, f = client[c], f.id = id PROVE Live(f.id)'
      OBVIOUS
    <2> QED BY <1>1
  <1> QED BY <1>2, ApiKeysInvariant, PTL DEF Spec, PurgesOnlyDeadKeys

-----------------------------------------------------------------------------
(* The keys of the store are those of ApiKeyStore. *)

(* Two live keys have two secrets. *)
LEMMA StartsAsStore == Inv => Abstract!Init
  <1> SUFFICES ASSUME Inv PROVE Abstract!Init
    OBVIOUS
  <1>1. EntriesTyped /\ Coherent /\ EntriesShown
    BY LiveEntries DEF Inv
  <1>2. LiveKeys = [id \in KeyIds |-> Offered(id)]
    BY <1>1 DEF EntriesShown
  <1>3. ASSUME NEW id \in KeyIds
        PROVE  /\ Offered(id) \in Abstract!ApiKeyRecord \cup {None}
               /\ Offered(id) # None =>
                     /\ present(R(id)) /\ R(id).val \in StoredRecord
                     /\ Offered(id).secret_hash = R(id).val.secret_hash
                     /\ S(R(id).val.secret_hash).val = id
    <2>1. CASE Alive(id)
      <3>1. /\ present(R(id)) /\ R(id).val \in StoredRecord
            /\ S(R(id).val.secret_hash).val = id
        BY <1>1, <2>1, StoredFields DEF Alive
      <3>2. Offered(id) = Shown(R(id).val)
        BY <2>1 DEF Offered
      <3> QED BY <3>1, <3>2, ShownFields
    <2>2. CASE ~Alive(id)
      BY <2>2 DEF Offered
    <2> QED BY <2>1, <2>2
  <1>4. LiveKeys \in [KeyIds -> Abstract!ApiKeyRecord \cup {None}]
    BY <1>2, <1>3
  <1>5. ASSUME NEW i \in KeyIds, NEW j \in KeyIds, i # j, LiveKeys[i] # None, LiveKeys[j] # None
        PROVE  LiveKeys[i].secret_hash # LiveKeys[j].secret_hash
    <2>1. Offered(i) # None /\ Offered(j) # None /\ LiveKeys[i] = Offered(i) /\ LiveKeys[j] = Offered(j)
      BY <1>2, <1>5
    <2> QED BY <1>3, <1>5, <2>1
  <1> QED BY <1>4, <1>5 DEF Abstract!Init

(* A creation is that of the abstract store: the id and the hash are free  *)
(* of live keys, for the keys that held them are dead.                     *)
LEMMA CreatedRefines ==
    ASSUME Inv, Inv', NEW f, Created(f)
    PROVE  RequestedOperation(f.req)
  <1> SUFFICES ASSUME NEW new, new = NewRecord(f) PROVE RequestedOperation(f.req)
    OBVIOUS
  <1>1. /\ EntriesTyped /\ Coherent /\ EntriesShown /\ EntriesShown'
        /\ LiveKeys = [id \in KeyIds |-> Offered(id)]
        /\ LiveKeys' = [id \in KeyIds |-> Offered(id)']
    <2>1. EntriesTyped' => EntriesShown'
      BY LiveEntries, PTL
    <2>2. EntriesTyped /\ Coherent /\ EntriesShown /\ EntriesShown'
      BY <2>1, LiveEntries DEF Inv
    <2> QED BY <2>2 DEF EntriesShown
  <1>2. /\ f.req.kind = "create" /\ f.req.id \in KeyIds
        /\ new \in StoredRecord /\ Creates(Gone(f), f.req.id, new)
        /\ new.owner_user_id = f.req.owner /\ new.secret_hash = f.req.hash
        /\ new.owner_generation = generation_of(G(f.req.owner))
        /\ new.metadata = f.req.metadata /\ new.revision = 1
        /\ \A s \in f.stale : s[1] \in KeyIds /\ SameKey(R(s[1]), s[2]) /\ Dead(s[2])
        /\ present(R(f.req.id)) => f.req.id \in Gone(f)
        /\ present(S(f.req.hash)) => S(f.req.hash).val \in Gone(f)
        /\ \A s \in f.stale : s[2] \in StoredRecord
    BY DEF Created
  <1>3. ASSUME NEW id \in Gone(f) PROVE id \in KeyIds /\ ~Alive(id) /\ Offered(id) = None
    <2>1. PICK s \in f.stale : id = s[1]
      BY DEF Gone
    <2> QED BY <1>1, <1>2, <2>1, DeadOffersNothing
  <1>4. \A o \in Owners : G(o)' = G(o)
    BY <1>2 DEF Creates
  <1>5. Offered(f.req.id) = None
    <2>1. ~Alive(f.req.id)
      BY <1>2, <1>3 DEF Alive
    <2> QED BY <2>1 DEF Offered
  <1>6. Offered(f.req.id)' = Shown(new)
    <2>1. R(f.req.id)' = Fresh(new)
      BY <1>2 DEF Creates
    <2>2. G(new.owner_user_id)' = G(new.owner_user_id)
      BY <1>2, <1>4, RecordParts
    <2> QED BY <1>1, <1>2, <2>1, <2>2, NewOffer
  <1>7. ASSUME NEW id \in KeyIds, id # f.req.id PROVE Offered(id)' = Offered(id)
    <2>1. CASE id \in Gone(f)
      <3>1. R(id)' = Absent
        BY <1>2, <1>7, <2>1 DEF Creates
      <3> QED BY <1>3, <2>1, <3>1, LostOffer
    <2>2. CASE id \notin Gone(f)
      <3>1. R(id)' = R(id)
        BY <1>2, <1>7, <2>2 DEF Creates
      <3> QED BY <1>1, <1>4, <3>1, KeptOffer
    <2> QED BY <2>1, <2>2
  <1>8. ASSUME NEW id \in KeyIds, Offered(id) # None
        PROVE  Offered(id).secret_hash # f.req.hash
    <2>1. Alive(id) /\ present(R(id)) /\ Offered(id) = Shown(R(id).val)
      BY <1>8 DEF Offered, Alive
    <2>2. /\ R(id).val \in StoredRecord
          /\ present(S(R(id).val.secret_hash)) /\ S(R(id).val.secret_hash).val = id
      BY <1>1, <2>1, StoredFields
    <2>3. R(id).val.secret_hash # f.req.hash
      BY <1>2, <1>3, <2>1, <2>2
    <2> QED BY <2>1, <2>2, <2>3, ShownFields
  <1> DEFINE record == [owner_user_id |-> f.req.owner, secret_hash |-> f.req.hash,
                        metadata |-> f.req.metadata, revision |-> 1]
  <1>9. Shown(new) = record
    BY <1>2, ShownFields
  <1>10. LiveKeys' = [LiveKeys EXCEPT ![f.req.id] = record]
    BY <1>1, <1>2, <1>6, <1>7, <1>9
  <1>11. LiveKeys[f.req.id] = None
    BY <1>1, <1>2, <1>5
  <1>12. \A other \in KeyIds : LiveKeys[other] # None => LiveKeys[other].secret_hash # f.req.hash
    BY <1>1, <1>8
  <1>13. Abstract!create(f.req.id, record)
    BY <1>10, <1>11, <1>12 DEF Abstract!create
  <1> QED BY <1>2, <1>13 DEF RequestedOperation

(* The live keys, now and after the step, by the entries.                  *)
LEMMA LiveKeysNow ==
    ASSUME Inv, Inv'
    PROVE  /\ EntriesTyped /\ Coherent
           /\ LiveKeys = [id \in KeyIds |-> Offered(id)]
           /\ LiveKeys' = [id \in KeyIds |-> Offered(id)']
  <1>1. EntriesTyped' => EntriesShown'
    BY LiveEntries, PTL
  <1>2. EntriesTyped /\ Coherent /\ EntriesShown /\ EntriesShown'
    BY <1>1, LiveEntries DEF Inv
  <1> QED BY <1>2 DEF EntriesShown

(* Two parts of one of several values replaced.                             *)
LEMMA TwoParts ==
    ASSUME NEW I, NEW T, NEW f \in [I -> T], NEW i \in I, NEW m
    PROVE  [f EXCEPT ![i].metadata = m, ![i].revision = @ + 1]
           = [f EXCEPT ![i] = [f[i] EXCEPT !.metadata = m, !.revision = @ + 1]]
  OBVIOUS

(* An update is that of the abstract store: the key it changes is live, it *)
(* is its owner's, and it has the expected revision.                       *)
LEMMA UpdatedRefines ==
    ASSUME Inv, Inv', NEW f, Updated(f)
    PROVE  RequestedOperation(f.req)
  <1> SUFFICES ASSUME NEW new, new = NewMetadata(f), NEW old, old = f.entry.val,
                      NEW id, id = f.req.id
               PROVE  RequestedOperation(f.req)
    OBVIOUS
  <1>1. /\ EntriesTyped /\ LiveKeys = [i \in KeyIds |-> Offered(i)]
        /\ LiveKeys' = [i \in KeyIds |-> Offered(i)']
    BY LiveKeysNow
  <1>2. /\ f.req.kind = "update" /\ f.id = id /\ id \in KeyIds /\ present(f.entry)
        /\ R(id) = f.entry /\ old \in StoredRecord /\ new \in StoredRecord
        /\ Updates(id, new) /\ SameKey(f.entry, new)
        /\ old.owner_user_id = f.req.owner /\ old.revision = f.req.expected_revision
        /\ old.owner_generation = generation_of(G(f.req.owner))
        /\ new.metadata = f.req.metadata /\ new.revision = old.revision + 1
    BY DEF Updated, Changed
  <1>3. /\ new.owner_user_id = old.owner_user_id /\ new.secret_hash = old.secret_hash
        /\ new.owner_generation = old.owner_generation
    BY <1>2 DEF SameKey
  <1>4. \A o \in Owners : G(o)' = G(o)
    BY <1>2 DEF Updates
  <1>5. Offered(id) = Shown(old)
    BY <1>2 DEF Offered, Alive
  <1>6. Offered(id)' = Shown(new)
    <2>1. R(id)' = Fresh(new)
      BY <1>2 DEF Updates
    <2>2. G(new.owner_user_id)' = G(new.owner_user_id)
      BY <1>2, <1>4, RecordParts
    <2> QED BY <1>1, <1>2, <1>3, <2>1, <2>2, NewOffer
  <1>7. ASSUME NEW i \in KeyIds, i # id PROVE Offered(i)' = Offered(i)
    <2>1. R(i)' = R(i)
      BY <1>2, <1>7 DEF Updates
    <2> QED BY <1>1, <1>4, <2>1, KeptOffer
  <1>8. LiveKeys[id] = Shown(old)
    BY <1>1, <1>2, <1>5
  <1>9. /\ LiveKeys[id] # None /\ LiveKeys[id].owner_user_id = f.req.owner
        /\ LiveKeys[id].revision = f.req.expected_revision
    BY <1>2, <1>8, ShownFields
  <1>10. Shown(new) = [Shown(old) EXCEPT !.metadata = f.req.metadata, !.revision = @ + 1]
    <2> SUFFICES ASSUME NEW m, m = f.req.metadata
                 PROVE  Shown(new) = [Shown(old) EXCEPT !.metadata = m, !.revision = @ + 1]
      OBVIOUS
    <2>1. \A part \in {"owner_user_id", "secret_hash", "metadata", "revision"} :
             new[part] = IF part = "metadata" THEN m
                         ELSE IF part = "revision" THEN old[part] + 1 ELSE old[part]
      BY <1>2, <1>3
    <2>2. [part \in {"owner_user_id", "secret_hash", "metadata", "revision"} |->
              IF part = "metadata" THEN m ELSE IF part = "revision" THEN old[part] + 1 ELSE old[part]]
          = [[part \in {"owner_user_id", "secret_hash", "metadata", "revision"} |-> old[part]]
               EXCEPT !.metadata = m, !.revision = @ + 1]
      OBVIOUS
    <2>3. Shown(new) = [part \in {"owner_user_id", "secret_hash", "metadata", "revision"} |->
              IF part = "metadata" THEN m ELSE IF part = "revision" THEN old[part] + 1 ELSE old[part]]
      BY <2>1 DEF Shown
    <2> QED BY <2>2, <2>3 DEF Shown
  <1>11. LiveKeys' = [LiveKeys EXCEPT ![id].metadata = f.req.metadata, ![id].revision = @ + 1]
    <2>1. LiveKeys \in [KeyIds -> {Offered(i) : i \in KeyIds}]
      BY <1>1
    <2>2. LiveKeys' = [LiveKeys EXCEPT ![id] = Shown(new)]
      BY <1>1, <1>2, <1>6, <1>7
    <2> QED BY <1>2, <1>8, <1>10, <2>1, <2>2, TwoParts
  <1>12. Abstract!update(id, f.req.owner, f.req.expected_revision, f.req.metadata)
    BY <1>9, <1>11 DEF Abstract!update
  <1> QED BY <1>2, <1>12 DEF RequestedOperation

(* A revoke of a live key is that of the abstract store; what it removes   *)
(* of a dead one nobody misses.                                            *)
LEMMA RevokedRefines ==
    ASSUME Inv, Inv', NEW f, Revoked(f)
    PROVE  LiveKeys' = LiveKeys \/ RequestedOperation(f.req)
  <1> SUFFICES ASSUME NEW id, id = f.req.id
               PROVE  LiveKeys' = LiveKeys \/ RequestedOperation(f.req)
    OBVIOUS
  <1>1. /\ EntriesTyped /\ LiveKeys = [i \in KeyIds |-> Offered(i)]
        /\ LiveKeys' = [i \in KeyIds |-> Offered(i)']
    BY LiveKeysNow
  <1>2. /\ f.req.kind = "revoke" /\ f.id = id /\ id \in KeyIds /\ R(id) = f.entry
        /\ f.entry.val \in StoredRecord /\ Removes({id})
        /\ f.entry.val.owner_user_id = f.req.owner
        /\ f.entry.val.revision = f.req.expected_revision
    BY DEF Revoked, Changed
  <1>3. \A o \in Owners : G(o)' = G(o)
    BY <1>2 DEF Removes
  <1>4. Offered(id)' = None
    <2>1. R(id)' = Absent
      BY <1>2 DEF Removes
    <2> QED BY <1>2, <2>1, LostOffer
  <1>5. ASSUME NEW i \in KeyIds, i # id PROVE Offered(i)' = Offered(i)
    <2>1. R(i)' = R(i)
      BY <1>2, <1>5 DEF Removes
    <2> QED BY <1>1, <1>3, <2>1, KeptOffer
  <1>6. CASE Alive(id)
    <2>1. LiveKeys[id] = Shown(f.entry.val)
      BY <1>1, <1>2, <1>6 DEF Offered
    <2>2. /\ LiveKeys[id] # None /\ LiveKeys[id].owner_user_id = f.req.owner
          /\ LiveKeys[id].revision = f.req.expected_revision
      BY <1>2, <2>1, ShownFields
    <2>3. LiveKeys' = [LiveKeys EXCEPT ![id] = None]
      BY <1>1, <1>2, <1>4, <1>5
    <2>4. Abstract!revoke(id, f.req.owner, f.req.expected_revision)
      BY <2>2, <2>3 DEF Abstract!revoke
    <2> QED BY <1>2, <2>4 DEF RequestedOperation
  <1>7. CASE ~Alive(id)
    <2>1. Offered(id) = None
      BY <1>7 DEF Offered
    <2> QED BY <1>1, <1>4, <1>5, <2>1
  <1> QED BY <1>6, <1>7

(* A revoke-all takes all live keys of the owner in its one step.          *)
LEMMA RevokedAllRefines ==
    ASSUME Inv, Inv', NEW f, RevokedAll(f)
    PROVE  RequestedOperation(f.req)
  <1> SUFFICES ASSUME NEW owner, owner = f.req.owner PROVE RequestedOperation(f.req)
    OBVIOUS
  <1>1. /\ EntriesTyped /\ Coherent /\ LiveKeys = [i \in KeyIds |-> Offered(i)]
        /\ LiveKeys' = [i \in KeyIds |-> Offered(i)']
    BY LiveKeysNow
  <1>2. f.req.kind = "revoke_all" /\ owner \in Owners /\ Bumps(owner)
    BY DEF RevokedAll
  <1>3. ASSUME NEW i \in KeyIds
        PROVE  Offered(i)' = IF Offered(i) # None /\ Offered(i).owner_user_id = owner
                             THEN None ELSE Offered(i)
    <2>1. R(i)' = R(i)
      BY <1>2 DEF Bumps
    <2>2. CASE ~present(R(i))
      <3>1. ~Alive(i) /\ ~Alive(i)'
        BY <2>1, <2>2 DEF Alive, present
      <3> QED BY <3>1 DEF Offered, Alive
    <2>3. CASE present(R(i))
      <3> SUFFICES ASSUME NEW o, o = R(i).val.owner_user_id
                   PROVE  Offered(i)' = IF Offered(i) # None /\ Offered(i).owner_user_id = owner
                                        THEN None ELSE Offered(i)
        OBVIOUS
      <3>1. /\ R(i).val \in StoredRecord /\ o \in Owners /\ R(i).val.owner_generation \in Nat
            /\ R(i).val.owner_generation <= generation_of(G(o))
        BY <1>1, <2>3, StoredFields
      <3>2. NamedOwner'
        BY AliveAs, PTL
      <3>3. Alive(i)' <=> R(i).val.owner_generation = generation_of(G(o)')
        BY <2>1, <2>3, <3>2 DEF NamedOwner, present
      <3>4. Alive(i) <=> R(i).val.owner_generation = generation_of(G(o))
        BY <2>3 DEF Alive
      <3>5. (R(i).val)' = R(i).val
        BY <2>1
      <3>6. /\ Alive(i) => /\ Offered(i) = Shown(R(i).val) /\ Offered(i) # None
                           /\ Offered(i).owner_user_id = o
            /\ ~Alive(i) => Offered(i) = None
        BY <3>1, ShownFields DEF Offered
      <3>7. CASE o = owner
        <4>1. G(o)' = Fresh(generation_of(G(o)) + 1)
          BY <1>2, <3>1, <3>7 DEF Bumps
        <4>2. generation_of(G(o)') = generation_of(G(o)) + 1
          BY <1>1, <4>1, FreshEntries DEF generation_of
        <4>3. generation_of(G(o)) \in Nat
          BY <1>1, <3>1, Generations
        <4>4. \A m, n \in Nat : m <= n => m # n + 1
          OBVIOUS
        <4>5. ~Alive(i)'
          BY <3>1, <3>3, <4>2, <4>3, <4>4
        <4>6. Offered(i)' = None
          BY <4>5 DEF Offered
        <4> QED BY <3>6, <3>7, <4>6
      <3>8. CASE o # owner
        <4>1. G(o)' = G(o)
          BY <1>2, <3>1, <3>8 DEF Bumps
        <4>2. Alive(i)' <=> Alive(i)
          BY <3>3, <3>4, <4>1
        <4>3. Offered(i)' = IF Alive(i)' THEN Shown(R(i).val) ELSE None
          BY <2>1 DEF Offered, Shown
        <4> QED BY <3>6, <3>8, <4>2, <4>3
      <3> QED BY <3>7, <3>8
    <2> QED BY <2>2, <2>3
  <1>4. LiveKeys' = [i \in KeyIds |->
                        IF LiveKeys[i] # None /\ LiveKeys[i].owner_user_id = owner
                        THEN None ELSE LiveKeys[i]]
    BY <1>1, <1>3
  <1>5. Abstract!revoke_all_by_owner(owner)
    BY <1>4 DEF Abstract!revoke_all_by_owner
  <1> QED BY <1>2, <1>5 DEF RequestedOperation

(* The repository implements the abstract store: the live keys change in   *)
(* no step but the commit of a call, and then as the operation the caller  *)
(* asked for says.                                                         *)
THEOREM RepositoryImplementsStore ==
    ASSUME NeverListedWhileRevoked
    PROVE  Spec => ImplementsApiKeyStore
  <1> DEFINE Step == LiveKeys' # LiveKeys =>
                \E c \in Clients :
                   /\ client[c].at = "commit" /\ client'[c] # client[c]
                   /\ RequestedOperation(client[c].req)
  <1>1. ASSUME Inv, Inv', [Next]_vars, LiveKeys' # LiveKeys
        PROVE  \E c \in Clients :
                  /\ client[c].at = "commit" /\ client'[c] # client[c]
                  /\ RequestedOperation(client[c].req)
    <2>1. /\ EntriesTyped /\ LiveKeys = [i \in KeyIds |-> Offered(i)]
          /\ LiveKeys' = [i \in KeyIds |-> Offered(i)']
      BY <1>1, LiveKeysNow
    <2>2. ASSUME StoreLeft PROVE FALSE
      <3>1. ASSUME NEW i \in KeyIds PROVE Offered(i)' = Offered(i)
        BY <2>1, <2>2, KeptOffer DEF StoreLeft
      <3> QED BY <1>1, <2>1, <3>1
    <2>3. ASSUME NEW f, Purged(f) PROVE FALSE
      <3>1. f.id \in KeyIds /\ Removes({f.id}) /\ \A o \in Owners : G(o)' = G(o)
        BY <2>3 DEF Purged, Removes
      <3>2. Offered(f.id) = None
        BY <1>1, <2>3, PurgedWereDead
      <3>3. ASSUME NEW i \in KeyIds PROVE Offered(i)' = Offered(i)
        <4>1. CASE i = f.id
          <5>1. R(i)' = Absent
            BY <3>1, <4>1 DEF Removes
          <5>2. Offered(i)' = None
            BY <5>1, LostOffer
          <5> QED BY <3>2, <4>1, <5>2
        <4>2. CASE i # f.id
          <5>1. R(i)' = R(i)
            BY <3>1, <4>2 DEF Removes
          <5> QED BY <2>1, <3>1, <5>1, KeptOffer
        <4> QED BY <4>1, <4>2
      <3> QED BY <1>1, <2>1, <3>3
    <2>4. ASSUME NEW f, Operated(f) PROVE RequestedOperation(f.req)
      BY <1>1, <2>4, CreatedRefines, UpdatedRefines, RevokedRefines, RevokedAllRefines DEF Operated
    <2>5. PICK c \in Clients : Purged(client[c]) \/ (Commits(c, client[c]) /\ Operated(client[c]))
      BY <1>1, <2>2, StepEffects
    <2>6. ~Purged(client[c])
      <3> SUFFICES ASSUME NEW f, f = client[c], Purged(f) PROVE FALSE
        OBVIOUS
      <3> QED BY <2>3
    <2>7. RequestedOperation(client[c].req)
      <3> SUFFICES ASSUME NEW f, f = client[c], Operated(f) PROVE RequestedOperation(f.req)
        BY <2>5, <2>6
      <3> QED BY <2>4
    <2> QED BY <2>5, <2>6, <2>7 DEF Commits
  <1>2. Inv /\ Inv' /\ [Next]_vars => Step
    BY <1>1
  <1>3. Init => Abstract!Init
    BY InitInv, StartsAsStore
  <1>4. Spec => [][Step]_vars
    BY <1>2, ApiKeysInvariant, PTL DEF Spec
  <1>5. Spec => Abstract!Init
    BY <1>3 DEF Spec
  <1> QED BY <1>4, <1>5 DEF ImplementsApiKeyStore

(* So every behaviour of the repository is one of the abstract store.      *)
THEOREM RepositoryRefinesStore ==
    ASSUME NeverListedWhileRevoked
    PROVE  Spec => Abstract!Spec
  <1>1. ASSUME NEW r \in Requested, r.kind \in {"create", "update", "revoke", "revoke_all"},
               RequestedOperation(r)
        PROVE  Abstract!Next
    <2>1. /\ r.owner \in Owners /\ r \in Request
          /\ r.kind # "revoke_all" => r.id \in KeyIds
      BY <1>1, Asked DEF Walking
    <2>2. 1 \in 1 .. MaxRevision
      BY ApiKeyAssumption
    <2>3. CASE r.kind = "create"
      <3> DEFINE record == [owner_user_id |-> r.owner, secret_hash |-> r.hash,
                            metadata |-> r.metadata, revision |-> 1]
      <3>1. record \in Abstract!ApiKeyRecord
        BY <1>1, <2>1, <2>2, <2>3, Asked DEF Abstract!ApiKeyRecord
      <3>2. Abstract!create(r.id, record)
        BY <1>1, <2>3 DEF RequestedOperation
      <3> HIDE DEF record
      <3> QED BY <2>1, <2>3, <3>1, <3>2 DEF Abstract!Next
    <2>4. CASE r.kind = "update"
      <3>1. Abstract!update(r.id, r.owner, r.expected_revision, r.metadata)
        BY <1>1, <2>4 DEF RequestedOperation
      <3>2. r.metadata \in Metadata /\ r.expected_revision \in 1 .. MaxRevision
        <4>1. r.metadata \in Metadata /\ r.expected_revision \in 1 .. MaxRevision - 1
          BY <2>4, Asked
        <4>2. \A n \in 1 .. MaxRevision - 1 : n \in 1 .. MaxRevision
          BY ApiKeyAssumption
        <4> QED BY <4>1, <4>2
      <3> QED BY <2>1, <2>4, <3>1, <3>2 DEF Abstract!Next
    <2>5. CASE r.kind = "revoke"
      <3>1. Abstract!revoke(r.id, r.owner, r.expected_revision)
        BY <1>1, <2>5 DEF RequestedOperation
      <3>2. r.expected_revision \in 1 .. MaxRevision
        BY <2>1, <2>5 DEF Request
      <3> QED BY <2>1, <2>5, <3>1, <3>2 DEF Abstract!Next
    <2>6. CASE r.kind = "revoke_all"
      <3>1. Abstract!revoke_all_by_owner(r.owner)
        BY <1>1, <2>6 DEF RequestedOperation
      <3> QED BY <2>1, <3>1 DEF Abstract!Next
    <2> QED BY <1>1, <2>3, <2>4, <2>5, <2>6
  <1> DEFINE Step == LiveKeys' # LiveKeys =>
                \E c \in Clients :
                   /\ client[c].at = "commit" /\ client'[c] # client[c]
                   /\ RequestedOperation(client[c].req)
  <1>2. ASSUME Inv, Step PROVE Abstract!Next \/ LiveKeys' = LiveKeys
    <2>1. ASSUME NEW c \in Clients, NEW f, f = client[c], f.at = "commit", RequestedOperation(f.req)
          PROVE  Abstract!Next
      BY <1>1, <1>2, <2>1, CommitKnows
    <2>2. ASSUME NEW c \in Clients, client[c].at = "commit", RequestedOperation(client[c].req)
          PROVE  Abstract!Next
      <3> SUFFICES ASSUME NEW f, f = client[c] PROVE Abstract!Next
        OBVIOUS
      <3> QED BY <2>1, <2>2
    <2> QED BY <1>2, <2>2
  <1>3. Inv /\ [Step]_vars => [Abstract!Next]_LiveKeys
    <2>1. UNCHANGED vars => LiveKeys' = LiveKeys
      BY DEF vars, LiveKeys, Live, Record, Generation, generation_of, get, present, Absent
    <2> QED BY <1>2, <2>1
  <1>4. Spec => Abstract!Init /\ [][Step]_vars
    BY RepositoryImplementsStore DEF ImplementsApiKeyStore
  <1> QED BY <1>3, <1>4, ApiKeysInvariant, PTL DEF Abstract!Spec
=============================================================================
