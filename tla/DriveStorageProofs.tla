---------------------------- MODULE DriveStorageProofs ----------------------------
(***************************************************************************)
(* The storage connections of DriveStorage, for any number of processes,   *)
(* concurrent requests, accounts and crashes: the repository never calls   *)
(* what it stored invalid, it implements StorageConnectionStore, the       *)
(* tokens of a connection are those of its account, and a refresh takes a  *)
(* connection away only for a consent that is gone.  Last, what the store  *)
(* it implements promises.                                                 *)
(***************************************************************************)
EXTENDS DriveStorage, TLAPS, FiniteSetTheorems

-----------------------------------------------------------------------------
(* The inductive invariant.                                                *)

(* An entry read earlier: it is the one stored now if the stamps agree.    *)
Seen(entry, key) ==
    /\ entry.vs \in 1..clock
    /\ get(key).vs = entry.vs => get(key) = entry

(* ... and one known to have been replaced or removed. *)
Stale(entry, key) == entry.vs \in 1..clock /\ get(key).vs # entry.vs

(* The values stored. *)
Held == [key \in DOMAIN kv |-> kv[key].val]

SubjectOf(id) == Held[connection_key(id)].provider_subject

(* Tokens that the account gave. *)
Owned(credentials, subject) ==
    /\ subject \in Subjects /\ credentials \in OAuthCredentials
    /\ grants[credentials.access.grant].subject = subject
    /\ credentials.refresh # None => grants[credentials.refresh].subject = subject

(* Tokens of the account of a stored connection. *)
Fits(credentials, id) ==
    connection_key(id) \in DOMAIN kv /\ Owned(credentials, SubjectOf(id))

EntriesOK ==
    /\ \A key \in DOMAIN kv : kv[key].vs \in 1..clock
    /\ StoredTogether(Held)
    /\ \A key \in DOMAIN kv : key[1] = "credentials" => Fits(Held[key], key[2])

(* A connection that was read: what never changes of it is as stored.      *)
Known(connection) ==
    LET record == connection_key(connection.connection_id) IN
    /\ record \in DOMAIN kv
    /\ Held[record].user_id = connection.user_id
    /\ Held[record].provider_subject = connection.provider_subject

Grant == [subject : Subjects \cup {None}, stands : BOOLEAN, refused : BOOLEAN]

NumbersOK ==
    /\ clock \in Nat /\ now \in Nat /\ ticks \in Nat /\ issued \in Nat /\ withdrawals \in Nat
    /\ process \in [Clients -> Processes]
    /\ grants \in [States -> Grant]
    /\ exchanged \in [States -> 0..1]

(* A code is exchanged once: who may still come to exchange it is the      *)
(* request that starts the attempt, the one that saves it, the attempt, or *)
(* the callback that consumed it.                                          *)
Holds(f, state) ==
    \/ f.repo.at = "save_attempt" /\ f.repo.call.state = state
    \/ f.step = "consume" /\ f.repo.at = "answered" /\ f.repo.reply.status = "ok"
       /\ f.req.state = state
    \/ f.step = "exchange" /\ f.req.state = state

Tickets(state) ==
    {<<"asked", req>> : req \in {r \in requests : Asks(r, state)}}
    \cup {<<"held", c>> : c \in {d \in Clients : Holds(client[d], state)}}
    \cup {<<"stored", key>> : key \in {attempt_key(state)} \cap DOMAIN kv}

Spent(state) == grants[state].subject # None \/ exchanged[state] # 0

OneTicket ==
    \A state \in States :
        /\ \A t, u \in Tickets(state) : t = u
        /\ Spent(state) => Tickets(state) = {}

(* What a request knows between its calls.                                 *)
CallbackSteps ==
    {"consume", "exchange", "grant", "prior", "create", "previous", "reauthorized", "put", "undone"}
GrantedSteps == {"grant", "prior", "create", "previous", "put"}
DisconnectSteps == {"disconnect", "disconnect_credentials", "revoke_at_Google", "disconnected"}
UsingSteps ==
    {"operation", "reread", "await", "refresh", "refresh_stored", "refresh_refused", "refused"}

KindOf(step) ==
    IF step \in CallbackSteps THEN "callback"
    ELSE IF step \in DisconnectSteps THEN "disconnect"
    ELSE IF step = "start" THEN "start" ELSE "content"

RequestFrameOK(f) ==
    f.step # "idle" =>
        /\ RequestOK(f.req) /\ f.req.kind = KindOf(f.step) /\ f.time \in Nat
        /\ f.step \in GrantedSteps => Owned(f.credentials, f.req.subject)
        /\ f.step \in {"previous", "put", "undone"} => Known(f.connection)
        /\ f.step \in {"previous", "put"} => f.connection.provider_subject = f.req.subject
        /\ f.step \in UsingSteps => Fits(f.credentials, f.req.id)
        /\ f.step = "refresh" => f.credentials.refresh # None
        /\ f.step \in {"refused", "refresh_refused"} => Refused(f.credentials, f.second)

(* What a repository call knows at each of its awaits.                     *)
FindOK(step, repo) ==
    LET index == active_key(repo.call.user) IN
    /\ step \in {"grant", "disconnect"} /\ repo.start = "find_active"
    /\ repo.at = "find_active_record" => Seen(repo.index, index)
    /\ repo.at = "find_active_again" => Stale(repo.index, index)

ListOK(step, repo) ==
    /\ step = "prior"
    /\ \A id \in repo.left : connection_key(id) \in DOMAIN kv
    /\ \A connection \in repo.found : Known(connection)

CreateOK(f, repo) ==
    LET connection == repo.call.connection IN
    /\ f.step = "create" /\ repo.start = "create_read"
    /\ connection \in StorageConnection
    /\ connection.status = "active" /\ connection.created_at = connection.updated_at
    /\ connection.provider_subject = f.req.subject

(* The connection that reauthorize and revoke have read. *)
EntryOK(repo) ==
    LET asked == repo.call
        entry == repo.entry
    IN
    /\ Seen(entry, connection_key(asked.id))
    /\ entry.val.user_id = asked.user /\ asked.time >= entry.val.updated_at

ReauthorizeOK(step, repo) ==
    LET asked == repo.call IN
    /\ step = "reauthorized" /\ repo.start = "reauthorize"
    /\ Owned(asked.credentials, asked.subject) /\ asked.time \in Nat
    /\ repo.at # "reauthorize" => EntryOK(repo) /\ repo.entry.val.provider_subject = asked.subject
    /\ repo.at = "reauthorize_commit" =>
          \/ repo.index = Absent
          \/ Seen(repo.index, active_key(asked.user)) /\ repo.index.val.connection_id = asked.id

RevokeOK(step, repo) ==
    LET asked == repo.call IN
    /\ step \in {"undone", "disconnected", "refused", "refresh_refused"} /\ repo.start = "revoke"
    /\ asked.time \in Nat
    /\ repo.at # "revoke" => EntryOK(repo) /\ repo.entry.val.status = "active"
    /\ repo.at = "revoke_again" => Stale(repo.entry, connection_key(asked.id))
    /\ repo.at = "revoke_commit" =>
          Seen(repo.index, active_key(asked.user)) /\ repo.index.val.connection_id = asked.id

(* The connection whose tokens are read. *)
IsAskedFor(f, id) ==
    /\ f.step \in {"credentials", "reread"} => id = f.req.id
    /\ f.step = "previous" => id = f.connection.connection_id

GetOK(f, repo) ==
    /\ f.step \in {"previous", "disconnect_credentials", "credentials", "reread"}
    /\ IsAskedFor(f, repo.call.id)

PutOK(step, repo) ==
    LET asked == repo.call IN
    /\ step \in {"put", "refresh_stored"} /\ repo.start = "put_credentials"
    /\ Fits(asked.credentials, asked.id)
    /\ repo.at = "put_commit" =>
          Seen(repo.entry, connection_key(asked.id)) /\ repo.entry.val.status = "active"

SaveOK(step, repo) == step = "start" /\ repo.call.state \in States

ConsumeOK(f, repo) ==
    /\ f.step = "consume" /\ repo.start = "consume" /\ repo.call.state = f.req.state
    /\ repo.at = "consume_commit" => Seen(repo.entry, attempt_key(repo.call.state))

ReplyOK(f, answer) ==
    /\ f.step \in {"grant", "create"} => Known(answer.connection)
    /\ f.step = "create" => answer.connection.provider_subject = f.req.subject
    /\ f.step = "prior" => \A connection \in answer.list : Known(connection)
    /\ f.step = "previous" /\ answer.credentials # None =>
          Fits(answer.credentials, f.connection.connection_id)
    /\ f.step \in {"credentials", "reread"} /\ answer.credentials # None =>
          Fits(answer.credentials, f.req.id)

FindPlaces == {"find_active", "find_active_record", "find_active_again"}
ListPlaces == {"list", "list_records"}
CreatePlaces == {"create_read", "create_commit"}
ReauthorizePlaces == {"reauthorize", "reauthorize_active", "reauthorize_commit"}
RevokePlaces == {"revoke", "revoke_active", "revoke_again", "revoke_commit"}
PutPlaces == {"put_credentials", "put_commit"}
ConsumePlaces == {"consume", "consume_commit"}

RepoShape == {"at", "call", "start", "round", "entry", "index", "left", "found", "reply"}
FrameShape == {"step", "req", "time", "connection", "credentials", "second", "repo"}

CallOK(f, repo) ==
    /\ DOMAIN repo = RepoShape
    /\ repo.at \in FindPlaces => FindOK(f.step, repo)
    /\ repo.at = "find_by_id" => f.step = "content"
    /\ repo.at \in ListPlaces => ListOK(f.step, repo)
    /\ repo.at \in CreatePlaces => CreateOK(f, repo)
    /\ repo.at \in ReauthorizePlaces => ReauthorizeOK(f.step, repo)
    /\ repo.at \in RevokePlaces => RevokeOK(f.step, repo)
    /\ repo.at = "get_credentials" => GetOK(f, repo)
    /\ repo.at \in PutPlaces => PutOK(f.step, repo)
    /\ repo.at = "save_attempt" => SaveOK(f.step, repo)
    /\ repo.at \in ConsumePlaces => ConsumeOK(f, repo)
    /\ repo.at = "answered" /\ repo.reply.status = "ok" => ReplyOK(f, repo.reply)
    /\ repo.reply.status # "invalid"

FrameOK(f) == DOMAIN f = FrameShape /\ RequestFrameOK(f) /\ CallOK(f, f.repo)

IInv ==
    /\ NumbersOK /\ EntriesOK /\ OneTicket
    /\ \A req \in requests : RequestOK(req)
    /\ DOMAIN client = Clients
    /\ \A c \in Clients : FrameOK(client[c])

-----------------------------------------------------------------------------
(* Keys of different families, or of different data, are different keys.   *)
LEMMA KeyParts ==
    /\ \A i : connection_key(i)[1] = "connection" /\ connection_key(i)[2] = i
    /\ \A i : active_key(i)[1] = "active" /\ active_key(i)[2] = i
    /\ \A i : credentials_key(i)[1] = "credentials" /\ credentials_key(i)[2] = i
    /\ \A i : attempt_key(i)[1] = "attempt" /\ attempt_key(i)[2] = i
    /\ \A u, i : user_key(u, i)[1] = "user" /\ user_key(u, i)[3] = i
  <1>1. /\ \A i : connection_key(i)[1] = "connection" /\ connection_key(i)[2] = i
        /\ \A i : active_key(i)[1] = "active" /\ active_key(i)[2] = i
    BY DEF connection_key, active_key
  <1>2. /\ \A i : credentials_key(i)[1] = "credentials" /\ credentials_key(i)[2] = i
        /\ \A i : attempt_key(i)[1] = "attempt" /\ attempt_key(i)[2] = i
    BY DEF credentials_key, attempt_key
  <1>3. \A u, i : user_key(u, i)[1] = "user" /\ user_key(u, i)[3] = i
    BY DEF user_key
  <1> QED BY <1>1, <1>2, <1>3

(* What a committed atomic operation leaves in the store.                  *)
LEMMA WriteLeaves ==
    ASSUME NEW written, NEW removed, Write(written, removed)
    PROVE  /\ clock' = clock + 1
           /\ DOMAIN kv' = DOMAIN written \cup (DOMAIN kv \ removed)
           /\ \A key \in DOMAIN kv' : kv'[key] = IF key \in DOMAIN written
                                THEN [vs |-> clock + 1, val |-> written[key]] ELSE kv[key]
  <1> DEFINE kept == [k \in DOMAIN kv \ removed |-> kv[k]]
             fresh == [k \in DOMAIN written |-> [vs |-> clock + 1, val |-> written[k]]]
  <1>1. kv' = Overlay(fresh, kept) /\ clock' = clock + 1
    BY DEF Write, Stamped
  <1>2. kv' = [k \in DOMAIN fresh \cup DOMAIN kept |->
                  IF k \in DOMAIN fresh THEN fresh[k] ELSE kept[k]]
    BY <1>1 DEF Overlay
  <1>3. DOMAIN kept = DOMAIN kv \ removed /\ DOMAIN fresh = DOMAIN written
    OBVIOUS
  <1>4. DOMAIN kv' = DOMAIN written \cup (DOMAIN kv \ removed)
    BY <1>2, <1>3
  <1>5. \A key \in DOMAIN kv' : kv'[key] = IF key \in DOMAIN fresh THEN fresh[key] ELSE kept[key]
    BY <1>2
  <1> QED BY <1>1, <1>3, <1>4, <1>5

(* ... of its values ... *)
LEMMA WriteHeld ==
    ASSUME NEW written, NEW removed, Write(written, removed)
    PROVE  /\ DOMAIN Held' = DOMAIN written \cup (DOMAIN Held \ removed)
           /\ \A key \in DOMAIN Held' :
                 Held'[key] = IF key \in DOMAIN written THEN written[key] ELSE Held[key]
  <1>1. DOMAIN Held' = DOMAIN kv' /\ \A key \in DOMAIN kv' : Held'[key] = kv'[key].val
    BY DEF Held
  <1>2. DOMAIN Held = DOMAIN kv /\ \A key \in DOMAIN kv : Held[key] = kv[key].val
    BY DEF Held
  <1>3. /\ DOMAIN kv' = DOMAIN written \cup (DOMAIN kv \ removed)
        /\ \A key \in DOMAIN kv' : kv'[key] = IF key \in DOMAIN written
                             THEN [vs |-> clock + 1, val |-> written[key]] ELSE kv[key]
    BY WriteLeaves
  <1>4. ASSUME NEW key \in DOMAIN Held'
        PROVE  Held'[key] = IF key \in DOMAIN written THEN written[key] ELSE Held[key]
    <2>1. CASE key \in DOMAIN written
      <3>1. kv'[key] = [vs |-> clock + 1, val |-> written[key]]
        BY <1>1, <1>3, <2>1
      <3> QED BY <1>1, <2>1, <3>1
    <2>2. CASE key \notin DOMAIN written
      BY <1>1, <1>2, <1>3, <2>2
    <2> QED BY <2>1, <2>2
  <1> QED BY <1>1, <1>2, <1>3, <1>4

(* ... and of its stamps, which are never given out again.                 *)
StampsGrow ==
    /\ clock' \in Nat /\ clock <= clock'
    /\ \A key \in DOMAIN kv' : kv'[key].vs \in 1..clock'
    /\ \A key : get(key)' = get(key) \/ get(key)' = Absent \/ get(key)'.vs > clock

LEMMA WriteStamps ==
    ASSUME NumbersOK, EntriesOK, NEW written, NEW removed, Write(written, removed)
    PROVE  StampsGrow
  <1>1. /\ clock' = clock + 1 /\ clock \in Nat
        /\ DOMAIN kv' = DOMAIN written \cup (DOMAIN kv \ removed)
        /\ \A key \in DOMAIN kv' : kv'[key] = IF key \in DOMAIN written
                             THEN [vs |-> clock + 1, val |-> written[key]] ELSE kv[key]
        /\ \A key \in DOMAIN kv : kv[key].vs \in 1..clock
    BY WriteLeaves DEF NumbersOK, EntriesOK
  <1>2. ASSUME NEW key \in DOMAIN kv' PROVE kv'[key].vs \in 1..clock'
    <2>1. CASE key \in DOMAIN written
      <3>1. kv'[key] = [vs |-> clock + 1, val |-> written[key]]
        BY <1>1, <2>1
      <3>2. kv'[key].vs = clock + 1
        BY <3>1
      <3> QED BY <1>1, <3>2
    <2>2. CASE key \notin DOMAIN written
      <3>1. key \in DOMAIN kv /\ kv'[key] = kv[key]
        BY <1>1, <2>2
      <3> QED BY <1>1, <3>1
    <2> QED BY <2>1, <2>2
  <1>3. ASSUME NEW key PROVE get(key)' = get(key) \/ get(key)' = Absent \/ get(key)'.vs > clock
    <2>1. get(key)' = IF key \in DOMAIN kv' THEN kv'[key] ELSE Absent
      BY DEF get, Absent
    <2>2. CASE key \in DOMAIN written
      <3>1. key \in DOMAIN kv' /\ kv'[key] = [vs |-> clock + 1, val |-> written[key]]
        BY <1>1, <2>2
      <3>2. kv'[key].vs = clock + 1
        BY <3>1
      <3> QED BY <1>1, <2>1, <3>1, <3>2
    <2>3. CASE key \notin DOMAIN written
      BY <1>1, <2>1, <2>3 DEF get
    <2> QED BY <2>2, <2>3
  <1> QED BY <1>1, <1>2, <1>3 DEF StampsGrow

(* An entry that is read. *)
LEMMA Reading ==
    ASSUME EntriesOK, NumbersOK, NEW key
    PROVE  /\ present(get(key)) <=> key \in DOMAIN kv
           /\ key \in DOMAIN kv => Seen(get(key), key) /\ get(key).val = Held[key]
           /\ key \notin DOMAIN kv => get(key) = Absent /\ stored(key) = None
  <1>1. Absent.vs = 0 /\ Absent.val = None
    BY DEF Absent
  <1>2. key \in DOMAIN kv => kv[key].vs \in 1..clock /\ clock \in Nat /\ Held[key] = kv[key].val
    BY DEF EntriesOK, NumbersOK, Held
  <1> QED BY <1>1, <1>2 DEF get, present, Seen, stored

(* An entry found to be as it was read. *)
LEMMA Current ==
    ASSUME EntriesOK, NumbersOK, NEW key, NEW entry, Seen(entry, key), get(key).vs = entry.vs
    PROVE  key \in DOMAIN kv /\ Held[key] = entry.val
  <1>1. get(key) = entry /\ entry.vs \in 1..clock /\ clock \in Nat
    BY DEF Seen, NumbersOK
  <1>2. present(get(key))
    BY <1>1 DEF present
  <1> QED BY <1>1, <1>2, Reading

-----------------------------------------------------------------------------
(* What any step leaves to the requests it does not serve: larger stamps, a *)
(* later time, grants that keep their account and do not come back, and     *)
(* connections that stay whose they are.                                    *)
GrantsKept ==
    \A g \in States : grants[g].subject # None =>
        /\ grants'[g].subject = grants[g].subject
        /\ grants'[g].stands => grants[g].stands
        /\ grants[g].refused => grants'[g].refused

ConnectionsKept ==
    \A id : connection_key(id) \in DOMAIN kv =>
        /\ connection_key(id) \in DOMAIN kv'
        /\ Held'[connection_key(id)].user_id = Held[connection_key(id)].user_id
        /\ Held'[connection_key(id)].provider_subject = Held[connection_key(id)].provider_subject

Advance ==
    /\ now' \in Nat /\ now <= now'
    /\ StampsGrow /\ GrantsKept /\ ConnectionsKept

LEMMA StampsStay ==
    ASSUME NumbersOK, StampsGrow, NEW entry, NEW key
    PROVE  /\ Seen(entry, key) => Seen(entry, key)'
           /\ Stale(entry, key) => Stale(entry, key)'
  <1>1. /\ clock \in Nat /\ clock' \in Nat /\ clock <= clock' /\ Absent.vs = 0
        /\ get(key)' = get(key) \/ get(key)' = Absent \/ get(key)'.vs > clock
    BY DEF NumbersOK, StampsGrow, Absent
  <1>2. ASSUME entry.vs \in 1..clock
        PROVE  /\ entry.vs \in 1..clock'
               /\ get(key)' = get(key) \/ get(key)'.vs # entry.vs
    BY <1>1, <1>2
  <1> QED BY <1>2 DEF Seen, Stale

LEMMA OwnedStays ==
    ASSUME GrantsKept, NEW credentials, NEW subject, Owned(credentials, subject)
    PROVE  Owned(credentials, subject)'
  <1>1. /\ subject # None /\ credentials.access.grant \in States
        /\ credentials.refresh # None => credentials.refresh \in States
    BY StorageAssumption DEF Owned, OAuthCredentials
  <1> QED BY <1>1 DEF Owned, GrantsKept

LEMMA FitsStays ==
    ASSUME GrantsKept, ConnectionsKept, NEW credentials, NEW id, Fits(credentials, id)
    PROVE  Fits(credentials, id)'
  <1>1. /\ connection_key(id) \in DOMAIN kv /\ connection_key(id) \in DOMAIN kv'
        /\ SubjectOf(id)' = SubjectOf(id)
    BY DEF Fits, ConnectionsKept, SubjectOf
  <1>2. PICK subject : subject = SubjectOf(id)
    OBVIOUS
  <1>3. Owned(credentials, subject)'
    BY <1>2, OwnedStays DEF Fits
  <1> QED BY <1>1, <1>2, <1>3 DEF Fits, Owned

LEMMA KnownStays ==
    ASSUME ConnectionsKept, NEW connection, Known(connection)
    PROVE  Known(connection)'
  BY DEF ConnectionsKept, Known

LEMMA RefusedStays ==
    ASSUME NumbersOK, Advance, NEW credentials, NEW subject, Owned(credentials, subject),
           NEW second, Refused(credentials, second)
    PROVE  Refused(credentials, second)'
  <1>1. /\ subject # None /\ credentials.access.grant \in States /\ credentials.expires \in Nat
        /\ credentials.refresh # None => credentials.refresh \in States
        /\ grants[credentials.access.grant].subject = subject
        /\ credentials.refresh # None => grants[credentials.refresh].subject = subject
    BY StorageAssumption DEF Owned, OAuthCredentials
  <1>2. CASE credentials.refresh = None
    BY <1>2 DEF Refused
  <1>3. CASE /\ credentials.refresh # None
             /\ ~grants[credentials.refresh].stands \/ grants[credentials.refresh].refused
    BY <1>1, <1>3 DEF Refused, Advance, GrantsKept
  <1>4. CASE second /\ ~Accepts(credentials)
    <2>1. ~Accepts(credentials)'
      BY <1>1, <1>4 DEF Accepts, Advance, GrantsKept, NumbersOK
    <2> QED BY <1>4, <2>1 DEF Refused
  <1> QED BY <1>2, <1>3, <1>4 DEF Refused

(* So what a request knows stays right while others take steps.            *)
LEMMA CallStays ==
    ASSUME NumbersOK, Advance, NEW f, NEW repo, CallOK(f, repo)
    PROVE  CallOK(f, repo)'
  <1>1. StampsGrow /\ GrantsKept /\ ConnectionsKept
    BY DEF Advance
  <1>2. FindOK(f.step, repo) => FindOK(f.step, repo)'
    BY <1>1, StampsStay DEF FindOK
  <1>3. ListOK(f.step, repo) => ListOK(f.step, repo)'
    BY <1>1, KnownStays DEF ListOK, ConnectionsKept
  <1>4. EntryOK(repo) => EntryOK(repo)'
    BY <1>1, StampsStay DEF EntryOK
  <1>5. ReauthorizeOK(f.step, repo) => ReauthorizeOK(f.step, repo)'
    BY <1>1, <1>4, StampsStay, OwnedStays DEF ReauthorizeOK
  <1>6. RevokeOK(f.step, repo) => RevokeOK(f.step, repo)'
    BY <1>1, <1>4, StampsStay DEF RevokeOK
  <1>7. PutOK(f.step, repo) => PutOK(f.step, repo)'
    BY <1>1, StampsStay, FitsStays DEF PutOK
  <1>8. ConsumeOK(f, repo) => ConsumeOK(f, repo)'
    BY <1>1, StampsStay DEF ConsumeOK
  <1>9. ReplyOK(f, repo.reply) => ReplyOK(f, repo.reply)'
    BY <1>1, KnownStays, FitsStays DEF ReplyOK
  <1> QED BY <1>2, <1>3, <1>5, <1>6, <1>7, <1>8, <1>9 DEF CallOK, CreateOK, GetOK, IsAskedFor, SaveOK

LEMMA RequestStays ==
    ASSUME NumbersOK, Advance, NEW f, RequestFrameOK(f)
    PROVE  RequestFrameOK(f)'
  <1>1. GrantsKept /\ ConnectionsKept
    BY DEF Advance
  <1>2. /\ Owned(f.credentials, f.req.subject) => Owned(f.credentials, f.req.subject)'
        /\ Known(f.connection) => Known(f.connection)'
        /\ Fits(f.credentials, f.req.id) => Fits(f.credentials, f.req.id)'
    BY <1>1, OwnedStays, KnownStays, FitsStays
  <1>3. Fits(f.credentials, f.req.id) /\ Refused(f.credentials, f.second)
           => Refused(f.credentials, f.second)'
    BY RefusedStays DEF Fits
  <1>4. f.step \in {"refused", "refresh_refused"} => f.step \in UsingSteps
    BY DEF UsingSteps
  <1> QED BY <1>2, <1>3, <1>4 DEF RequestFrameOK

LEMMA FrameStays ==
    ASSUME NumbersOK, Advance, NEW f, FrameOK(f)
    PROVE  FrameOK(f)'
  <1>1. RequestFrameOK(f)'
    BY RequestStays DEF FrameOK
  <1>2. PICK repo : repo = f.repo
    OBVIOUS
  <1>3. CallOK(f, repo)'
    BY <1>2, CallStays DEF FrameOK
  <1> QED BY <1>1, <1>2, <1>3 DEF FrameOK

-----------------------------------------------------------------------------
(* What a step leaves of the invariant.                                    *)
LEMMA Settled ==
    ASSUME IInv, Advance, NumbersOK', EntriesOK', OneTicket', requests' \subseteq requests,
           DOMAIN client' = Clients,
           \A c \in Clients : client'[c] = client[c] \/ FrameOK(client[c])'
    PROVE  IInv'
  <1>1. ASSUME NEW c \in Clients PROVE FrameOK(client[c])'
    <2>1. CASE client'[c] = client[c]
      <3>1. FrameOK(client[c]) /\ NumbersOK
        BY DEF IInv
      <3> SUFFICES ASSUME NEW f, f = client[c] PROVE FrameOK(f)'
        BY <2>1 DEF FrameOK, RequestFrameOK, CallOK, FindOK, ListOK, CreateOK, EntryOK,
                    ReauthorizeOK, RevokeOK, GetOK, PutOK, SaveOK, ConsumeOK, ReplyOK, IsAskedFor
      <3> QED BY <3>1, FrameStays
    <2>2. CASE FrameOK(client[c])'
      BY <2>2
    <2> QED BY <2>1, <2>2
  <1>2. (\A req \in requests : RequestOK(req))'
    BY DEF IInv, RequestOK
  <1> QED BY <1>1, <1>2 DEF IInv

(* Whoever may come to exchange a code after a step could do so before.    *)
LEMMA NoNewTicket ==
    ASSUME OneTicket, UNCHANGED <<grants, exchanged>>,
           \A state \in States : Tickets(state)' \subseteq Tickets(state)
    PROVE  OneTicket'
  BY DEF OneTicket, Spent

(* A step that concerns one client alone.                                  *)
LEMMA OneServed ==
    ASSUME IInv, Advance, NumbersOK', EntriesOK', OneTicket', requests' \subseteq requests,
           NEW c \in Clients, NEW g, Become(c, g), FrameOK(g)'
    PROVE  IInv'
  <1>1. DOMAIN client' = Clients /\ client'[c] = g
        /\ \A d \in Clients : d # c => client'[d] = client[d]
    BY DEF IInv, Become
  <1>2. FrameOK(client[c])'
    BY <1>1 DEF FrameOK
  <1> QED BY <1>1, <1>2, Settled

-----------------------------------------------------------------------------
(* The steps of the services between their calls: they leave the store     *)
(* alone.                                                                  *)
StoreAlone == UNCHANGED <<kv, clock, now, grants>>

LEMMA AloneAdvances ==
    ASSUME NumbersOK, EntriesOK, StoreAlone
    PROVE  Advance /\ EntriesOK'
  <1>1. Held' = Held
    BY DEF StoreAlone, Held
  <1>2. StampsGrow
    BY DEF NumbersOK, EntriesOK, StampsGrow, StoreAlone, get
  <1>3. ConnectionsKept
    BY <1>1 DEF StoreAlone, ConnectionsKept
  <1>4. GrantsKept
    BY DEF StoreAlone, GrantsKept
  <1>5. Advance
    BY <1>2, <1>3, <1>4 DEF Advance, StoreAlone, NumbersOK
  <1>6. EntriesOK'
    BY <1>1 DEF EntriesOK, StoreAlone, Fits, Owned, SubjectOf
  <1> QED BY <1>5, <1>6

(* Tickets held by one client. *)
LEMMA TicketsOfOne ==
    ASSUME DOMAIN client = Clients, NEW c \in Clients, NEW g, Become(c, g),
           requests' \subseteq requests, DOMAIN kv' \cap {attempt_key(s) : s \in States} \subseteq DOMAIN kv,
           \A state \in States : Holds(g, state) => Holds(client[c], state)
    PROVE  \A state \in States : Tickets(state)' \subseteq Tickets(state)
  <1> SUFFICES ASSUME NEW state \in States PROVE Tickets(state)' \subseteq Tickets(state)
    OBVIOUS
  <1>1. \A d \in Clients : client'[d] = IF d = c THEN g ELSE client[d]
    BY DEF Become
  <1>2. \A d \in Clients : Holds(client[d], state)' => Holds(client[d], state)
    BY <1>1 DEF Holds
  <1> QED BY <1>2 DEF Tickets

(* The store, the consents and the attempts stay as they are. *)
Undisturbed == UNCHANGED <<kv, clock, now, grants, requests, exchanged>> /\ NumbersOK'

LEMMA ServiceUndisturbed ==
    ASSUME IInv, ServiceOnly
    PROVE  Undisturbed
  BY DEF IInv, NumbersOK, ServiceOnly, Undisturbed

LEMMA ServiceSettled ==
    ASSUME IInv, Undisturbed, NEW c \in Clients, NEW g, Become(c, g), FrameOK(g),
           \A state \in States : Holds(g, state) => Holds(client[c], state)
    PROVE  IInv'
  <1>1. NumbersOK /\ EntriesOK /\ OneTicket /\ DOMAIN client = Clients
    BY DEF IInv
  <1>2. StoreAlone
    BY DEF Undisturbed, StoreAlone
  <1>3. Advance /\ EntriesOK'
    BY <1>1, <1>2, AloneAdvances
  <1>4. NumbersOK'
    BY DEF Undisturbed
  <1>5. requests' \subseteq requests /\ DOMAIN kv' = DOMAIN kv
    BY DEF Undisturbed
  <1>6. \A state \in States : Tickets(state)' \subseteq Tickets(state)
    BY <1>1, <1>5, TicketsOfOne
  <1>7. OneTicket'
    BY <1>1, <1>6, NoNewTicket DEF Undisturbed
  <1>8. FrameOK(g)'
    BY <1>1, <1>3, FrameStays
  <1> QED BY <1>3, <1>4, <1>5, <1>7, <1>8, OneServed

(* The frame of a client. *)
LEMMA Serving ==
    ASSUME IInv, NEW c \in Clients
    PROVE  /\ FrameOK(client[c]) /\ DOMAIN client[c] = FrameShape
           /\ RequestFrameOK(client[c]) /\ CallOK(client[c], client[c].repo)
  BY DEF IInv, FrameOK

LEMMA CallMakes ==
    ASSUME NEW repo, DOMAIN repo = RepoShape, repo.at = "none", repo.reply.status = "none",
           NEW f
    PROVE  CallOK(f, repo)
  BY DEF CallOK, FindPlaces, ListPlaces, CreatePlaces, ReauthorizePlaces, RevokePlaces,
         PutPlaces, ConsumePlaces

LEMMA NoCallMade ==
    ASSUME NEW f, f.repo = NoCall
    PROVE  CallOK(f, f.repo)
  <1>1. NoCall.at = "none" /\ NoCall.reply.status = "none" /\ DOMAIN NoCall = RepoShape
    BY DEF NoCall, NoReply, RepoShape
  <1> QED BY <1>1, CallMakes

(* A frame without a call. *)
Resting(f) == DOMAIN f = FrameShape /\ f.repo = NoCall /\ RequestFrameOK(f)

LEMMA RestingOK ==
    ASSUME NEW f, Resting(f)
    PROVE  FrameOK(f) /\ \A state : Holds(f, state) => f.step = "exchange" /\ f.req.state = state
  <1>1. NoCall.at = "none"
    BY DEF NoCall
  <1> QED BY <1>1, NoCallMade DEF Resting, FrameOK, Holds

(* A step after which the request waits for no repository. *)
LEMMA Rests ==
    ASSUME IInv, ServiceOnly, NEW c \in Clients, NEW f, Resting(f), f.step # "exchange",
           Become(c, f)
    PROVE  IInv'
  BY RestingOK, ServiceUndisturbed, ServiceSettled

LEMMA IdleRests == Resting(Idle) /\ Idle.step = "idle"
  BY DEF Resting, Idle, FrameShape, RequestFrameOK

LEMMA DoneSettled ==
    ASSUME IInv, ServiceOnly, NEW c \in Clients, Done(c)
    PROVE  IInv'
  BY IdleRests, Rests DEF Done

(* The calls of the services, with what the repository relies on. *)
Asked(f, asked, start) ==
    \/ start = "find_active" /\ f.step \in {"grant", "disconnect"}
    \/ start = "find_by_id" /\ f.step = "content"
    \/ start = "list" /\ f.step = "prior"
    \/ /\ start = "create_read" /\ f.step = "create"
       /\ asked.connection \in StorageConnection /\ asked.connection.status = "active"
       /\ asked.connection.created_at = asked.connection.updated_at
       /\ asked.connection.provider_subject = f.req.subject
    \/ /\ start = "reauthorize" /\ f.step = "reauthorized"
       /\ Owned(asked.credentials, asked.subject) /\ asked.time \in Nat
    \/ /\ start = "revoke" /\ f.step \in {"undone", "disconnected", "refused", "refresh_refused"}
       /\ asked.time \in Nat
    \/ /\ start = "get_credentials"
       /\ f.step \in {"previous", "disconnect_credentials", "credentials", "reread"}
       /\ IsAskedFor(f, asked.id)
    \/ /\ start = "put_credentials" /\ f.step \in {"put", "refresh_stored"}
       /\ Fits(asked.credentials, asked.id)
    \/ start = "save_attempt" /\ f.step = "start" /\ asked.state \in States
    \/ start = "consume" /\ f.step = "consume" /\ asked.state = f.req.state

(* A call that begins. *)
Begun(repo, asked, start) ==
    /\ DOMAIN repo = RepoShape /\ repo.at = start /\ repo.start = start /\ repo.call = asked
    /\ repo.reply = NoReply /\ repo.left = {} /\ repo.found = {}

LEMMA AskedOK ==
    ASSUME NEW f, NEW asked, NEW start, Asked(f, asked, start), NEW repo, Begun(repo, asked, start)
    PROVE  CallOK(f, repo)
  <1>1. repo.reply.status = "none" /\ DOMAIN repo = RepoShape /\ repo.call = asked
        /\ repo.at = start /\ repo.start = start /\ repo.left = {} /\ repo.found = {}
    BY DEF Begun, NoReply
  <1> USE <1>1 DEF CallOK, FindPlaces, ListPlaces, CreatePlaces, ReauthorizePlaces,
        RevokePlaces, PutPlaces, ConsumePlaces
  <1>2. CASE start = "find_active" /\ f.step \in {"grant", "disconnect"}
    BY <1>2 DEF FindOK
  <1>3. CASE start = "find_by_id" /\ f.step = "content"
    BY <1>3
  <1>4. CASE start = "list" /\ f.step = "prior"
    BY <1>4 DEF ListOK
  <1>5. CASE start = "create_read" /\ Asked(f, asked, start)
    BY <1>5 DEF Asked, CreateOK
  <1>6. CASE start = "reauthorize" /\ Asked(f, asked, start)
    BY <1>6 DEF Asked, ReauthorizeOK
  <1>7. CASE start = "revoke" /\ Asked(f, asked, start)
    BY <1>7 DEF Asked, RevokeOK
  <1>8. CASE start = "get_credentials" /\ Asked(f, asked, start)
    BY <1>8 DEF Asked, GetOK
  <1>9. CASE start = "put_credentials" /\ Asked(f, asked, start)
    BY <1>9 DEF Asked, PutOK
  <1>10. CASE start = "save_attempt" /\ f.step = "start" /\ asked.state \in States
    BY <1>10 DEF SaveOK
  <1>11. CASE start = "consume" /\ f.step = "consume" /\ asked.state = f.req.state
    BY <1>11 DEF ConsumeOK
  <1> QED BY <1>2, <1>3, <1>4, <1>5, <1>6, <1>7, <1>8, <1>9, <1>10, <1>11 DEF Asked

(* The frame of a request that has called. *)
IsCalled(g, f, asked, start) ==
    /\ DOMAIN g = FrameShape /\ g.step = f.step /\ g.req = f.req /\ g.time = f.time
    /\ g.connection = f.connection /\ g.credentials = f.credentials /\ g.second = f.second
    /\ Begun(g.repo, asked, start)

LEMMA Called ==
    ASSUME NEW f, DOMAIN f = FrameShape, NEW asked, NEW start
    PROVE  IsCalled(Calling(f, asked, start), f, asked, start)
  <1> SUFFICES ASSUME NEW g, g = Calling(f, asked, start) PROVE IsCalled(g, f, asked, start)
    OBVIOUS
  <1>1. PICK repo : repo = [NoCall EXCEPT !.call = asked, !.start = start, !.at = start]
    OBVIOUS
  <1>2. Begun(repo, asked, start)
    BY <1>1 DEF Begun, NoCall, RepoShape
  <1>3. g = [f EXCEPT !.repo = repo]
    BY <1>1 DEF Calling
  <1>4. /\ DOMAIN g = FrameShape /\ g.step = f.step /\ g.req = f.req /\ g.time = f.time
        /\ g.connection = f.connection /\ g.credentials = f.credentials /\ g.repo = repo
        /\ g.second = f.second
    BY <1>3 DEF FrameShape
  <1> QED BY <1>2, <1>4 DEF IsCalled

LEMMA CalledOK ==
    ASSUME NEW f, NEW asked, NEW start, DOMAIN f = FrameShape, RequestFrameOK(f),
           Asked(f, asked, start), NEW g, g = Calling(f, asked, start)
    PROVE  FrameOK(g) /\ IsCalled(g, f, asked, start)
  <1>1. IsCalled(g, f, asked, start)
    BY Called
  <1>2. RequestFrameOK(g)
    BY <1>1 DEF IsCalled, RequestFrameOK
  <1>3. Asked(g, asked, start)
    <2>1. g.step = f.step /\ g.req = f.req /\ g.connection = f.connection
      BY <1>1 DEF IsCalled
    <2> QED BY <2>1 DEF Asked, IsAskedFor
  <1>4. CallOK(g, g.repo)
    BY <1>1, <1>3, AskedOK DEF IsCalled
  <1> QED BY <1>1, <1>2, <1>4 DEF FrameOK, IsCalled

(* A service makes a call that does not save an attempt. *)
LEMMA Calls ==
    ASSUME IInv, Undisturbed, NEW c \in Clients, NEW f, NEW asked, NEW start,
           DOMAIN f = FrameShape, RequestFrameOK(f), Asked(f, asked, start),
           f.step # "start", Become(c, Calling(f, asked, start))
    PROVE  IInv'
  <1>1. PICK g : g = Calling(f, asked, start)
    OBVIOUS
  <1>2. FrameOK(g) /\ IsCalled(g, f, asked, start)
    BY <1>1, CalledOK
  <1>3. g.repo.at = start /\ g.step = f.step /\ f.step # "exchange" /\ start # "save_attempt"
        /\ start # "answered"
    BY <1>2 DEF IsCalled, Begun, Asked
  <1>4. \A state \in States : ~Holds(g, state)
    BY <1>3 DEF Holds
  <1> QED BY <1>1, <1>2, <1>4, ServiceSettled

-----------------------------------------------------------------------------
(* Who may come to exchange a code changes hands.                          *)
LEMMA TicketMoves ==
    ASSUME OneTicket, UNCHANGED <<grants, exchanged>>,
           \A state \in States :
              \/ Tickets(state)' \subseteq Tickets(state)
              \/ \E t \in Tickets(state) : \E u : Tickets(state)' \subseteq (Tickets(state) \ {t}) \cup {u}
    PROVE  OneTicket'
  <1> SUFFICES ASSUME NEW state \in States
               PROVE  /\ \A t, u \in Tickets(state)' : t = u
                      /\ Spent(state)' => Tickets(state)' = {}
    BY DEF OneTicket
  <1>1. /\ \A t, u \in Tickets(state) : t = u
        /\ Spent(state) => Tickets(state) = {}
        /\ Spent(state)' = Spent(state)
    BY DEF OneTicket, Spent
  <1>2. CASE Tickets(state)' \subseteq Tickets(state)
    BY <1>1, <1>2
  <1>3. ASSUME NEW t \in Tickets(state), NEW u,
               Tickets(state)' \subseteq (Tickets(state) \ {t}) \cup {u}
        PROVE  /\ \A v, w \in Tickets(state)' : v = w
               /\ Spent(state)' => Tickets(state)' = {}
    <2>1. Tickets(state)' \subseteq {u}
      BY <1>1, <1>3
    <2> QED BY <1>1, <1>3, <2>1
  <1> QED BY <1>2, <1>3

(* A client takes a request.                                               *)
LEMMA TakenSettled ==
    ASSUME IInv, NEW c \in Clients, NEW req \in requests, client[c].step = "idle",
           requests' = requests \ {req},
           UNCHANGED <<kv, clock, now, process, ticks, grants, issued, withdrawals, exchanged>>,
           NEW g, Become(c, g), FrameOK(g), \A state \in States : Holds(g, state) => Asks(req, state)
    PROVE  IInv'
  <1>1. NumbersOK /\ EntriesOK /\ OneTicket /\ DOMAIN client = Clients /\ FrameOK(client[c])
    BY DEF IInv
  <1>2. Advance /\ EntriesOK'
    BY <1>1, AloneAdvances DEF StoreAlone
  <1>3. NumbersOK'
    BY <1>1 DEF NumbersOK
  <1>4. FrameOK(g)'
    BY <1>1, <1>2, FrameStays
  <1>5. \A state : ~Holds(client[c], state)
    BY <1>1 DEF FrameOK, CallOK, SaveOK, Holds
  <1>6. ASSUME NEW state \in States
        PROVE  \/ Tickets(state)' \subseteq Tickets(state)
               \/ \E t \in Tickets(state) : \E u : Tickets(state)' \subseteq (Tickets(state) \ {t}) \cup {u}
    <2>1. \A d \in Clients : d # c => (Holds(client[d], state)' <=> Holds(client[d], state))
      BY <1>1 DEF Become, Holds
    <2>2. Holds(client[c], state)' <=> Holds(g, state)
      BY <1>1 DEF Become, Holds
    <2>3. CASE Asks(req, state)
      <3>1. <<"asked", req>> \in Tickets(state)
        BY <2>3 DEF Tickets
      <3>2. Tickets(state)' \subseteq (Tickets(state) \ {<<"asked", req>>}) \cup {<<"held", c>>}
        BY <2>1 DEF Tickets
      <3> QED BY <3>1, <3>2
    <2>4. CASE ~Asks(req, state)
      <3>1. \A d \in Clients : Holds(client[d], state)' => Holds(client[d], state)
        BY <2>1, <2>2, <2>4
      <3>2. Tickets(state)' \subseteq Tickets(state)
        BY <3>1 DEF Tickets
      <3> QED BY <3>2
    <2> QED BY <2>3, <2>4
  <1>7. OneTicket'
    BY <1>1, <1>6, TicketMoves
  <1> QED BY <1>2, <1>3, <1>4, <1>7, OneServed

(* The first call of a request. *)
LEMMA FirstCall ==
    ASSUME IInv, NEW c \in Clients, NEW req \in requests, client[c].step = "idle",
           requests' = requests \ {req},
           UNCHANGED <<kv, clock, now, process, ticks, grants, issued, withdrawals, exchanged>>,
           NEW step, step \in {"start", "consume", "disconnect", "content"}, req.kind = KindOf(step),
           NEW h, DOMAIN h = FrameShape, h.step = step, h.req = req, h.time = now,
           NEW asked, NEW start, Asked(h, asked, start), step = "start" => asked.state = req.state,
           Become(c, Calling(h, asked, start))
    PROVE  IInv'
  <1>1. PICK g : g = Calling(h, asked, start)
    OBVIOUS
  <1>2. RequestFrameOK(h)
    <2>1. RequestOK(req) /\ now \in Nat
      BY DEF IInv, NumbersOK
    <2> QED BY <2>1 DEF RequestFrameOK, GrantedSteps, UsingSteps
  <1>3. FrameOK(g) /\ IsCalled(g, h, asked, start)
    BY <1>1, <1>2, CalledOK
  <1>4. g.repo.at = start /\ g.repo.call = asked /\ g.step = step /\ start # "answered"
    BY <1>3 DEF IsCalled, Begun, Asked
  <1>5. \A state \in States : Holds(g, state) => Asks(req, state)
    <2>1. start = "save_attempt" => step = "start"
      BY DEF Asked
    <2>2. step = "start" => req.kind = "start"
      BY DEF KindOf, CallbackSteps, DisconnectSteps
    <2> QED BY <1>4, <2>1, <2>2 DEF Holds, Asks
  <1> QED BY <1>1, <1>3, <1>5, TakenSettled

LEMMA ReceiveSettled ==
    ASSUME IInv, NEW c \in Clients, NEW req \in requests, Receive(c, req)
    PROVE  IInv'
  <1>1. PICK f : f = [Idle EXCEPT !.req = req, !.time = now]
    OBVIOUS
  <1>2. /\ client[c].step = "idle" /\ requests' = requests \ {req}
        /\ UNCHANGED <<kv, clock, now, process, ticks, grants, issued, withdrawals, exchanged>>
    BY DEF Receive
  <1>3. DOMAIN f = FrameShape /\ f.req = req /\ f.time = now
    BY <1>1 DEF Idle, FrameShape
  <1>4. RequestOK(req)
    BY DEF IInv
  <1>5. ASSUME NEW step
        PROVE  \E h : /\ h = [f EXCEPT !.step = step]
                      /\ DOMAIN h = FrameShape /\ h.step = step /\ h.req = req /\ h.time = now
    <2>1. PICK h : h = [f EXCEPT !.step = step]
      OBVIOUS
    <2>2. DOMAIN h = FrameShape /\ h.step = step /\ h.req = req /\ h.time = now
      BY <1>3, <2>1 DEF FrameShape
    <2> QED BY <2>1, <2>2
  <1>6. CASE /\ req.kind = "start"
             /\ Become(c, Calling([f EXCEPT !.step = "start"],
                   [op |-> "save", state |-> req.state,
                    attempt |-> [session_id |-> req.session, user_id |-> req.user,
                                 expires_at |-> now + attempt_lifetime]], "save_attempt"))
    <2>1. PICK h : /\ h = [f EXCEPT !.step = "start"]
                   /\ DOMAIN h = FrameShape /\ h.step = "start" /\ h.req = req /\ h.time = now
      BY <1>5
    <2>2. PICK asked : asked = [op |-> "save", state |-> req.state,
                    attempt |-> [session_id |-> req.session, user_id |-> req.user,
                                 expires_at |-> now + attempt_lifetime]]
      OBVIOUS
    <2>3. asked.state = req.state
      BY <2>2
    <2>4. Asked(h, asked, "save_attempt") /\ req.kind = KindOf("start")
      BY <1>4, <1>6, <2>1, <2>3 DEF Asked, RequestOK, KindOf, CallbackSteps, DisconnectSteps
    <2>5. Become(c, Calling(h, asked, "save_attempt"))
      BY <1>6, <2>1, <2>2
    <2> QED BY <1>2, <2>1, <2>3, <2>4, <2>5, FirstCall
  <1>7. CASE /\ req.kind = "callback"
             /\ Become(c, Calling([f EXCEPT !.step = "consume"],
                   [op |-> "consume", state |-> req.state, session |-> req.session,
                    user |-> req.user, time |-> now], "consume"))
    <2>1. PICK h : /\ h = [f EXCEPT !.step = "consume"]
                   /\ DOMAIN h = FrameShape /\ h.step = "consume" /\ h.req = req /\ h.time = now
      BY <1>5
    <2>2. PICK asked : asked = [op |-> "consume", state |-> req.state, session |-> req.session,
                                user |-> req.user, time |-> now]
      OBVIOUS
    <2>3. asked.state = req.state
      BY <2>2
    <2>4. Asked(h, asked, "consume") /\ req.kind = KindOf("consume")
      BY <1>7, <2>1, <2>3 DEF Asked, KindOf, CallbackSteps
    <2>5. Become(c, Calling(h, asked, "consume"))
      BY <1>7, <2>1, <2>2
    <2> QED BY <1>2, <2>1, <2>4, <2>5, FirstCall
  <1>8. CASE req.kind = "disconnect" /\ Become(c, FindActive(f, "disconnect", req.user))
    <2>1. PICK h : /\ h = [f EXCEPT !.step = "disconnect"]
                   /\ DOMAIN h = FrameShape /\ h.step = "disconnect" /\ h.req = req /\ h.time = now
      BY <1>5
    <2>2. PICK asked : asked = [op |-> "find", user |-> req.user]
      OBVIOUS
    <2>3. Asked(h, asked, "find_active") /\ req.kind = KindOf("disconnect")
      BY <1>8, <2>1 DEF Asked, KindOf, CallbackSteps, DisconnectSteps
    <2>4. Become(c, Calling(h, asked, "find_active"))
      BY <1>8, <2>1, <2>2 DEF FindActive
    <2> QED BY <1>2, <2>1, <2>3, <2>4, FirstCall
  <1>9. CASE /\ req.kind = "content"
             /\ Become(c, Calling([f EXCEPT !.step = "content"],
                                  [op |-> "find", id |-> req.id], "find_by_id"))
    <2>1. PICK h : /\ h = [f EXCEPT !.step = "content"]
                   /\ DOMAIN h = FrameShape /\ h.step = "content" /\ h.req = req /\ h.time = now
      BY <1>5
    <2>2. PICK asked : asked = [op |-> "find", id |-> req.id]
      OBVIOUS
    <2>3. Asked(h, asked, "find_by_id") /\ req.kind = KindOf("content")
      BY <1>9, <2>1 DEF Asked, KindOf, CallbackSteps, DisconnectSteps
    <2>4. Become(c, Calling(h, asked, "find_by_id"))
      BY <1>9, <2>1, <2>2
    <2> QED BY <1>2, <2>1, <2>3, <2>4, FirstCall
  <1> QED BY <1>1, <1>6, <1>7, <1>8, <1>9 DEF Receive

-----------------------------------------------------------------------------
(* complete and #save_grant.                                               *)

(* A frame at a step of a request. *)
Serves(f, step) ==
    /\ DOMAIN f = FrameShape /\ f.step = step
    /\ RequestOK(f.req) /\ f.req.kind = KindOf(step) /\ f.time \in Nat

(* What a request knows when it has an answer. *)
LEMMA RepliedTo ==
    ASSUME IInv, NEW c \in Clients, NEW step, step # "idle", Replied(c, step), NEW f, f = client[c]
    PROVE  /\ Serves(f, step) /\ RequestFrameOK(f)
           /\ status(c) = "ok" => ReplyOK(f, reply(c))
  BY Serving DEF Replied, Serves, RequestFrameOK, CallOK, status, reply

LEMMA FinishedSettled ==
    ASSUME IInv, NEW c \in Clients, Finished(c)
    PROVE  IInv'
  BY DoneSettled DEF Finished

(* The next step of a request, without a call. *)
LEMMA AtStep ==
    ASSUME NEW f, NEW here, Serves(f, here), NEW step, KindOf(step) = KindOf(here)
    PROVE  \E h : /\ h = At(f, step) /\ Serves(h, step) /\ h.repo = NoCall
                  /\ h.req = f.req /\ h.connection = f.connection /\ h.credentials = f.credentials
  <1>1. PICK h : h = [f EXCEPT !.step = step, !.repo = NoCall]
    OBVIOUS
  <1>2. /\ DOMAIN h = FrameShape /\ h.step = step /\ h.repo = NoCall /\ h.req = f.req
        /\ h.time = f.time /\ h.connection = f.connection /\ h.credentials = f.credentials
    BY <1>1 DEF Serves, FrameShape
  <1> QED BY <1>1, <1>2 DEF At, Serves

LEMMA ConsumedSettled ==
    ASSUME IInv, NEW c \in Clients, Consumed(c)
    PROVE  IInv'
  <1>1. PICK f : f = client[c]
    OBVIOUS
  <1>2. ServiceOnly /\ Serves(f, "consume") /\ Replied(c, "consume")
    BY <1>1, RepliedTo DEF Consumed
  <1>3. CASE Done(c)
    BY <1>2, <1>3, DoneSettled
  <1>4. CASE status(c) = "ok" /\ Become(c, At(f, "exchange"))
    <2>1. KindOf("exchange") = KindOf("consume")
      BY DEF KindOf, CallbackSteps
    <2>2. PICK h : /\ h = At(f, "exchange") /\ Serves(h, "exchange") /\ h.repo = NoCall
                   /\ h.req = f.req
      BY <1>2, <2>1, AtStep
    <2>3. Resting(h)
      BY <2>2 DEF Serves, Resting, RequestFrameOK, GrantedSteps, UsingSteps
    <2>4. \A state \in States : Holds(h, state) => Holds(client[c], state)
      BY <1>1, <1>2, <1>4, <2>2, <2>3, RestingOK DEF Holds, Replied, status, reply
    <2> QED BY <1>2, <1>4, <2>2, <2>3, <2>4, RestingOK, ServiceUndisturbed, ServiceSettled
  <1> QED BY <1>1, <1>3, <1>4 DEF Consumed

(* A step that leaves the repositories alone: grants may be given or end,  *)
(* and time goes on.                                                       *)
LEMMA KvAlone ==
    ASSUME NumbersOK, EntriesOK, UNCHANGED <<kv, clock>>, GrantsKept, now' \in Nat, now <= now'
    PROVE  Advance /\ EntriesOK'
  <1>1. Held' = Held
    BY DEF Held
  <1>2. StampsGrow
    BY DEF NumbersOK, EntriesOK, StampsGrow, get
  <1>3. ConnectionsKept
    BY <1>1 DEF ConnectionsKept
  <1>4. ASSUME NEW key \in DOMAIN kv, key[1] = "credentials" PROVE Fits(Held[key], key[2])'
    <2>1. PICK credentials, id : credentials = Held[key] /\ id = key[2]
      OBVIOUS
    <2>2. Fits(credentials, id)'
      BY <1>3, <1>4, <2>1, FitsStays DEF EntriesOK
    <2> QED BY <1>1, <2>1, <2>2 DEF Fits, Owned, SubjectOf
  <1>5. EntriesOK'
    <2>1. \A key \in DOMAIN kv' : kv'[key].vs \in 1..clock'
      BY DEF EntriesOK
    <2>2. StoredTogether(Held)'
      BY <1>1 DEF EntriesOK, StoredTogether
    <2>3. (\A key \in DOMAIN kv : key[1] = "credentials" => Fits(Held[key], key[2]))'
      BY <1>4
    <2> QED BY <2>1, <2>2, <2>3 DEF EntriesOK
  <1> QED BY <1>2, <1>3, <1>5 DEF Advance

(* A code is exchanged: nobody else can come to exchange it.               *)
LEMMA TicketSpent ==
    ASSUME OneTicket, DOMAIN client = Clients, NEW c \in Clients, NEW state \in States,
           Holds(client[c], state), NEW g, Become(c, g), \A s \in States : ~Holds(g, s),
           UNCHANGED <<requests, kv>>,
           \A s \in States : s # state => exchanged'[s] = exchanged[s] /\ grants'[s] = grants[s]
    PROVE  OneTicket' /\ ~Spent(state)
  <1>1. <<"held", c>> \in Tickets(state)
    BY DEF Tickets
  <1>2. /\ \A t, u \in Tickets(state) : t = u
        /\ ~Spent(state)
    BY <1>1 DEF OneTicket
  <1>3. \A s \in States : \A d \in Clients : Holds(client[d], s)' => Holds(client[d], s) /\ d # c
    BY DEF Become, Holds
  <1>4. \A s \in States : Tickets(s)' \subseteq Tickets(s) \ {<<"held", c>>}
    BY <1>3 DEF Tickets
  <1>5. Tickets(state)' = {}
    BY <1>1, <1>2, <1>4
  <1>6. ASSUME NEW s \in States
        PROVE  /\ \A t, u \in Tickets(s)' : t = u
               /\ Spent(s)' => Tickets(s)' = {}
    <2>1. CASE s = state
      BY <1>5, <2>1
    <2>2. CASE s # state
      <3>1. Spent(s)' = Spent(s)
        BY <2>2 DEF Spent
      <3>2. /\ \A t, u \in Tickets(s) : t = u
            /\ Spent(s) => Tickets(s) = {}
        BY DEF OneTicket
      <3> QED BY <1>4, <3>1, <3>2
    <2> QED BY <2>1, <2>2
  <1> QED BY <1>2, <1>6 DEF OneTicket

LEMMA ExchangeSettled ==
    ASSUME IInv, NEW c \in Clients, Exchange(c)
    PROVE  IInv'
  <1>1. PICK f, state : f = client[c] /\ state = f.req.state
    OBVIOUS
  <1>2. /\ NumbersOK /\ EntriesOK /\ OneTicket /\ DOMAIN client = Clients
        /\ UNCHANGED <<kv, clock, now, process, requests, ticks, withdrawals>>
        /\ exchanged' = [exchanged EXCEPT ![state] = @ + 1]
        /\ f.step = "exchange"
    BY <1>1 DEF IInv, Exchange
  <1>3. Serves(f, "exchange")
    BY <1>1, <1>2, Serving DEF Serves, RequestFrameOK
  <1>4. state \in States /\ f.req.subject \in Subjects /\ Holds(client[c], state)
    BY <1>1, <1>2, <1>3 DEF Serves, RequestOK, KindOf, CallbackSteps, Holds
  <1>5. \A s \in States : s # state => exchanged'[s] = exchanged[s]
    BY <1>2, <1>4 DEF NumbersOK
  <1>6. ~Spent(state)
    <2>1. <<"held", c>> \in Tickets(state)
      BY <1>4 DEF Tickets
    <2> QED BY <1>2, <1>4, <2>1 DEF OneTicket
  <1>7. exchanged' \in [States -> 0..1]
    <2>1. exchanged[state] = 0 /\ exchanged \in [States -> 0..1]
      BY <1>2, <1>6 DEF Spent, NumbersOK
    <2> QED BY <1>2, <1>4, <2>1
  <1>8. CASE Done(c) /\ UNCHANGED <<grants, issued>>
    <2>1. NumbersOK'
      BY <1>2, <1>7, <1>8 DEF NumbersOK
    <2>2. Advance /\ EntriesOK'
      BY <1>2, <1>8, AloneAdvances DEF StoreAlone
    <2>3. PICK g : g = Idle
      OBVIOUS
    <2>4. FrameOK(g) /\ \A s : ~Holds(g, s)
      BY <2>3, IdleRests, RestingOK
    <2>5. OneTicket'
      BY <1>2, <1>4, <1>5, <1>8, <2>3, <2>4, TicketSpent DEF Done
    <2>6. FrameOK(g)'
      BY <1>2, <2>2, <2>4, FrameStays
    <2> QED BY <1>2, <1>8, <2>1, <2>2, <2>3, <2>5, <2>6, OneServed DEF Done
  <1>9. ASSUME NEW granted,
               granted = [access |-> token(state), expires |-> now + token_lifetime,
                          refresh |-> IF f.req.omits_refresh THEN None ELSE state],
               grants' = [grants EXCEPT ![state] =
                               [subject |-> f.req.subject, stands |-> TRUE, refused |-> FALSE]],
               issued' = issued + 1,
               Become(c, FindActive([f EXCEPT !.credentials = granted, !.time = now], "grant",
                                    f.req.user))
        PROVE  IInv'
    <2>1. /\ grants' \in [States -> Grant]
          /\ grants'[state].subject = f.req.subject
          /\ \A s \in States : s # state => grants'[s] = grants[s]
      BY <1>2, <1>4, <1>9 DEF NumbersOK, Grant
    <2>2. NumbersOK'
      BY <1>2, <1>7, <1>9, <2>1 DEF NumbersOK
    <2>3. GrantsKept
      BY <1>6, <2>1 DEF GrantsKept, Spent
    <2>4. Advance /\ EntriesOK'
      BY <1>2, <2>3, KvAlone DEF NumbersOK
    <2>5. Owned(granted, f.req.subject)'
      <3>1. /\ granted.access = [grant |-> state, number |-> issued]
            /\ granted.refresh \in {None, state}
            /\ granted.expires = now + token_lifetime
            /\ DOMAIN granted = {"access", "expires", "refresh"}
        BY <1>9 DEF token
      <3>2. issued \in Nat /\ now + token_lifetime \in Nat
        BY <1>2, StorageAssumption DEF NumbersOK
      <3>3. granted \in OAuthCredentials
        BY <1>4, <1>9, <3>1, <3>2 DEF OAuthCredentials, token
      <3> QED BY <1>4, <2>1, <3>1, <3>3 DEF Owned
    <2>6. PICK h : h = [f EXCEPT !.credentials = granted, !.time = now, !.step = "grant"]
      OBVIOUS
    <2>7. /\ DOMAIN h = FrameShape /\ h.step = "grant" /\ h.req = f.req
          /\ h.time = now /\ h.credentials = granted
      BY <1>3, <2>6 DEF Serves, FrameShape
    <2>8. PICK asked : asked = [op |-> "find", user |-> f.req.user]
      OBVIOUS
    <2>9. PICK g : g = Calling(h, asked, "find_active")
      OBVIOUS
    <2>10. IsCalled(g, h, asked, "find_active")
      BY <2>7, <2>9, Called
    <2>11. RequestFrameOK(g)'
      <3>1. /\ g.step = "grant" /\ g.req = f.req /\ g.time = now /\ g.credentials = granted
            /\ RequestOK(f.req) /\ f.req.kind = KindOf("grant") /\ now \in Nat
        BY <1>2, <1>3, <2>7, <2>10
        DEF IsCalled, Serves, KindOf, CallbackSteps, NumbersOK
      <3>2. RequestOK(f.req)'
        BY <3>1 DEF RequestOK
      <3> QED BY <2>5, <3>1, <3>2 DEF RequestFrameOK, UsingSteps
    <2>12. CallOK(g, g.repo)'
      <3>1. Asked(g, asked, "find_active") /\ Begun(g.repo, asked, "find_active")
        BY <2>7, <2>10 DEF Asked, IsCalled
      <3>2. CallOK(g, g.repo)
        BY <3>1, AskedOK
      <3> QED BY <1>2, <2>4, <3>2, CallStays
    <2>13. FrameOK(g)'
      BY <2>10, <2>11, <2>12 DEF FrameOK, IsCalled
    <2>14. Become(c, g)
      BY <1>3, <1>9, <2>6, <2>8, <2>9 DEF FindActive
    <2>15. \A s : ~Holds(g, s)
      BY <2>7, <2>10 DEF IsCalled, Begun, Holds
    <2>16. OneTicket'
      BY <1>2, <1>4, <1>5, <2>1, <2>14, <2>15, TicketSpent
    <2> QED BY <1>2, <2>2, <2>4, <2>13, <2>14, <2>16, OneServed
  <1> QED BY <1>1, <1>8, <1>9 DEF Exchange

(* A request goes on to another step and calls: what it needs to know for  *)
(* that step.                                                              *)
Steps(h, f, step) ==
    /\ DOMAIN h = FrameShape /\ h.step = step /\ h.req = f.req /\ h.time = f.time

LEMMA SameConnectionSettled ==
    ASSUME IInv, ServiceOnly, NEW c \in Clients, NEW f, NEW here, here \in {"grant", "prior"},
           Serves(f, here), Owned(f.credentials, f.req.subject),
           NEW connection, Known(connection), SameAccount(connection, f.req.subject),
           SameConnection(c, f, connection)
    PROVE  IInv'
  <1>1. PICK h : h = [f EXCEPT !.connection = connection, !.step = "previous"]
    OBVIOUS
  <1>2. PICK asked : asked = [op |-> "get", id |-> connection.connection_id]
    OBVIOUS
  <1>3. Steps(h, f, "previous") /\ h.connection = connection /\ h.credentials = f.credentials
    BY <1>1 DEF Serves, Steps, FrameShape
  <1>4. RequestFrameOK(h)
    BY <1>3 DEF Steps, Serves, RequestFrameOK, KindOf, CallbackSteps, SameAccount, UsingSteps
  <1>5. asked.id = connection.connection_id
    BY <1>2
  <1>6. Asked(h, asked, "get_credentials")
    BY <1>3, <1>5 DEF Steps, Asked, IsAskedFor
  <1>7. Become(c, Calling(h, asked, "get_credentials"))
    BY <1>1, <1>2 DEF SameConnection, GetCredentialsOf
  <1> QED BY <1>3, <1>4, <1>6, <1>7, ServiceUndisturbed, Calls DEF Steps

LEMMA GrantActiveSettled ==
    ASSUME IInv, NEW c \in Clients, GrantActive(c)
    PROVE  IInv'
  <1>1. PICK f : f = client[c]
    OBVIOUS
  <1>2. /\ ServiceOnly /\ Serves(f, "grant") /\ Owned(f.credentials, f.req.subject)
        /\ status(c) = "ok" => Known(reply(c).connection)
    BY <1>1, RepliedTo DEF GrantActive, RequestFrameOK, GrantedSteps, ReplyOK, Serves
  <1>3. CASE Done(c)
    BY <1>2, <1>3, DoneSettled
  <1>4. CASE /\ status(c) = "ok" /\ SameAccount(reply(c).connection, f.req.subject)
             /\ SameConnection(c, f, reply(c).connection)
    BY <1>2, <1>4, SameConnectionSettled
  <1>5. CASE Become(c, Calling([f EXCEPT !.step = "prior"],
                               [op |-> "list", user |-> f.req.user], "list"))
    <2>1. PICK h : h = [f EXCEPT !.step = "prior"]
      OBVIOUS
    <2>2. PICK asked : asked = [op |-> "list", user |-> f.req.user]
      OBVIOUS
    <2>3. Steps(h, f, "prior") /\ h.credentials = f.credentials
      BY <1>2, <2>1 DEF Serves, Steps, FrameShape
    <2>4. RequestFrameOK(h)
      BY <1>2, <2>3 DEF Steps, Serves, RequestFrameOK, KindOf, CallbackSteps, UsingSteps
    <2>5. Asked(h, asked, "list")
      BY <2>3 DEF Steps, Asked
    <2>6. Become(c, Calling(h, asked, "list"))
      BY <1>5, <2>1, <2>2
    <2> QED BY <1>2, <2>3, <2>4, <2>5, <2>6, ServiceUndisturbed, Calls DEF Steps
  <1> QED BY <1>1, <1>3, <1>4, <1>5 DEF GrantActive

LEMMA GrantPriorSettled ==
    ASSUME IInv, NEW c \in Clients, GrantPrior(c)
    PROVE  IInv'
  <1>1. PICK f : f = client[c]
    OBVIOUS
  <1>2. /\ ServiceOnly /\ Serves(f, "prior") /\ Owned(f.credentials, f.req.subject)
        /\ status(c) = "ok" => \A connection \in reply(c).list : Known(connection)
    BY <1>1, RepliedTo DEF GrantPrior, RequestFrameOK, GrantedSteps, ReplyOK, Serves
  <1>3. CASE Done(c)
    BY <1>2, <1>3, DoneSettled
  <1>4. ASSUME status(c) = "ok",
               NEW prior \in {k \in reply(c).list : SameAccount(k, f.req.subject)},
               SameConnection(c, f, prior)
        PROVE  IInv'
    BY <1>2, <1>4, SameConnectionSettled
  <1>5. ASSUME NEW connection,
               connection = [connection_id |-> f.req.state, user_id |-> f.req.user,
                             provider_subject |-> f.req.subject, status |-> "active",
                             created_at |-> f.time, updated_at |-> f.time],
               Become(c, Calling([f EXCEPT !.step = "create"],
                                 [op |-> "create", connection |-> connection], "create_read"))
        PROVE  IInv'
    <2>1. PICK h : h = [f EXCEPT !.step = "create"]
      OBVIOUS
    <2>2. PICK asked : asked = [op |-> "create", connection |-> connection]
      OBVIOUS
    <2>3. Steps(h, f, "create") /\ h.credentials = f.credentials
      BY <1>2, <2>1 DEF Serves, Steps, FrameShape
    <2>4. RequestFrameOK(h)
      BY <1>2, <2>3 DEF Steps, Serves, RequestFrameOK, KindOf, CallbackSteps, UsingSteps
    <2>5. f.req.state \in States /\ f.req.user \in Users /\ f.req.subject \in Subjects /\ f.time \in Nat
      BY <1>2 DEF Serves, RequestOK, KindOf, CallbackSteps
    <2>6. connection \in StorageConnection /\ asked.connection = connection
      BY <1>5, <2>2, <2>5 DEF StorageConnection
    <2>7. Asked(h, asked, "create_read")
      BY <1>5, <2>3, <2>6 DEF Steps, Asked
    <2>8. Become(c, Calling(h, asked, "create_read"))
      BY <1>5, <2>1, <2>2
    <2> QED BY <1>2, <2>3, <2>4, <2>7, <2>8, ServiceUndisturbed, Calls DEF Steps
  <1> QED BY <1>1, <1>3, <1>4, <1>5 DEF GrantPrior

(* What #reauthorize stores is of one account. *)
LEMMA MergedOwned ==
    ASSUME NEW granted, NEW previous, NEW subject, Owned(granted, subject),
           previous # None => Owned(previous, subject)
    PROVE  Owned(Merged(granted, previous), subject)
  <1>1. CASE granted.refresh = None /\ previous # None
    <2>1. PICK merged : merged = [granted EXCEPT !.refresh = previous.refresh]
      OBVIOUS
    <2>2. /\ merged.refresh = previous.refresh /\ merged.access = granted.access
          /\ merged \in OAuthCredentials
      BY <1>1, <2>1 DEF Owned, OAuthCredentials
    <2>3. Owned(merged, subject)
      BY <1>1, <2>2 DEF Owned
    <2> QED BY <1>1, <2>1, <2>3 DEF Merged
  <1>2. CASE ~(granted.refresh = None /\ previous # None)
    BY <1>2 DEF Merged
  <1> QED BY <1>1, <1>2

LEMMA PreviousSettled ==
    ASSUME IInv, NEW c \in Clients, Previous(c)
    PROVE  IInv'
  <1>1. PICK f : f = client[c]
    OBVIOUS
  <1>2. /\ ServiceOnly /\ Serves(f, "previous") /\ Owned(f.credentials, f.req.subject)
        /\ Known(f.connection) /\ f.connection.provider_subject = f.req.subject
        /\ status(c) = "ok" /\ reply(c).credentials # None =>
              Fits(reply(c).credentials, f.connection.connection_id)
    BY <1>1, RepliedTo DEF Previous, RequestFrameOK, GrantedSteps, ReplyOK, Serves
  <1>3. CASE Done(c)
    BY <1>2, <1>3, DoneSettled
  <1>4. ASSUME status(c) = "ok", NEW merged, merged = Merged(f.credentials, reply(c).credentials),
               Become(c, Calling([f EXCEPT !.step = "reauthorized"],
                 [op |-> "reauthorize", id |-> f.connection.connection_id,
                  user |-> f.connection.user_id, subject |-> f.connection.provider_subject,
                  credentials |-> merged, time |-> f.time], "reauthorize"))
        PROVE  IInv'
    <2>1. PICK h : h = [f EXCEPT !.step = "reauthorized"]
      OBVIOUS
    <2>2. PICK asked : asked =
                [op |-> "reauthorize", id |-> f.connection.connection_id,
                 user |-> f.connection.user_id, subject |-> f.connection.provider_subject,
                 credentials |-> merged, time |-> f.time]
      OBVIOUS
    <2>3. Steps(h, f, "reauthorized")
      BY <1>2, <2>1 DEF Serves, Steps, FrameShape
    <2>4. RequestFrameOK(h)
      BY <1>2, <2>3
      DEF Steps, Serves, RequestFrameOK, KindOf, CallbackSteps, GrantedSteps, UsingSteps
    <2>5. SubjectOf(f.connection.connection_id) = f.req.subject
      BY <1>2 DEF Known, SubjectOf
    <2>6. Owned(merged, f.req.subject)
      BY <1>2, <1>4, <2>5, MergedOwned DEF Fits
    <2>7. asked.credentials = merged /\ asked.subject = f.req.subject /\ asked.time = f.time
      BY <1>2, <2>2
    <2>8. Asked(h, asked, "reauthorize")
      BY <1>2, <2>3, <2>6, <2>7 DEF Steps, Serves, Asked
    <2>9. Become(c, Calling(h, asked, "reauthorize"))
      BY <1>4, <2>1, <2>2
    <2> QED BY <1>2, <2>3, <2>4, <2>8, <2>9, ServiceUndisturbed, Calls DEF Steps
  <1> QED BY <1>1, <1>3, <1>4 DEF Previous

(* The tokens are to be stored. *)
LEMMA PutSettled ==
    ASSUME IInv, Undisturbed, NEW c \in Clients, NEW f, NEW here, Serves(f, here),
           NEW step, step \in {"put", "refresh_stored"}, KindOf(step) = KindOf(here),
           NEW id, NEW credentials, Fits(credentials, id),
           step = "put" => /\ Known(f.connection) /\ f.connection.provider_subject = f.req.subject
                           /\ Owned(credentials, f.req.subject),
           step = "refresh_stored" => id = f.req.id,
           Become(c, PutCredentialsOf(f, step, id, credentials))
    PROVE  IInv'
  <1>1. PICK h : h = [f EXCEPT !.step = step, !.credentials = credentials]
    OBVIOUS
  <1>2. PICK asked : asked = [op |-> "put", id |-> id, credentials |-> credentials]
    OBVIOUS
  <1>3. Steps(h, f, step) /\ h.credentials = credentials /\ h.connection = f.connection
    BY <1>1 DEF Serves, Steps, FrameShape
  <1>4. RequestFrameOK(h)
    BY <1>3 DEF Steps, Serves, RequestFrameOK, GrantedSteps, UsingSteps
  <1>5. asked.id = id /\ asked.credentials = credentials
    BY <1>2
  <1>6. Asked(h, asked, "put_credentials")
    BY <1>3, <1>5 DEF Steps, Asked
  <1>7. Become(c, Calling(h, asked, "put_credentials"))
    BY <1>1, <1>2 DEF PutCredentialsOf
  <1> QED BY <1>3, <1>4, <1>6, <1>7, Calls DEF Steps

(* A connection is to be revoked. *)
LEMMA RevokeSettled ==
    ASSUME IInv, ServiceOnly, NEW c \in Clients, NEW f, NEW here, Serves(f, here),
           NEW step, step \in {"undone", "disconnected", "refused", "refresh_refused"},
           KindOf(step) = KindOf(here), NEW connection,
           step = "undone" => Known(f.connection),
           step \in {"refused", "refresh_refused"} =>
              Fits(f.credentials, f.req.id) /\ Refused(f.credentials, f.second),
           Become(c, RevokeConnection(f, step, connection))
    PROVE  IInv'
  <1>1. PICK h : h = [f EXCEPT !.step = step]
    OBVIOUS
  <1>2. PICK asked : asked = [op |-> "revoke", id |-> connection.connection_id,
                              user |-> connection.user_id, time |-> now]
    OBVIOUS
  <1>3. /\ Steps(h, f, step) /\ h.credentials = f.credentials /\ h.connection = f.connection
        /\ h.second = f.second
    BY <1>1 DEF Serves, Steps, FrameShape
  <1>4. RequestFrameOK(h)
    BY <1>3 DEF Steps, Serves, RequestFrameOK, GrantedSteps, UsingSteps
  <1>5. asked.time \in Nat
    BY <1>2 DEF IInv, NumbersOK
  <1>6. Asked(h, asked, "revoke")
    BY <1>3, <1>5 DEF Steps, Asked
  <1>7. Become(c, Calling(h, asked, "revoke"))
    BY <1>1, <1>2 DEF RevokeConnection
  <1> QED BY <1>3, <1>4, <1>6, <1>7, ServiceUndisturbed, Calls DEF Steps

LEMMA CreatedSettled ==
    ASSUME IInv, NEW c \in Clients, Created(c)
    PROVE  IInv'
  <1>1. PICK e : e = client[c]
    OBVIOUS
  <1>2. /\ ServiceOnly /\ Serves(e, "create") /\ Owned(e.credentials, e.req.subject)
        /\ status(c) = "ok" => /\ Known(reply(c).connection)
                               /\ reply(c).connection.provider_subject = e.req.subject
    BY <1>1, RepliedTo DEF Created, RequestFrameOK, GrantedSteps, ReplyOK, Serves
  <1>3. PICK f : f = [e EXCEPT !.connection = reply(c).connection]
    OBVIOUS
  <1>4. /\ Serves(f, "create") /\ f.req = e.req /\ f.credentials = e.credentials
        /\ f.connection = reply(c).connection
    BY <1>2, <1>3 DEF Serves, FrameShape
  <1>5. CASE Done(c)
    BY <1>2, <1>5, DoneSettled
  <1>6. CASE /\ status(c) = "ok"
             /\ Become(c, PutCredentialsOf(f, "put", f.connection.connection_id, f.credentials))
    <2>1. Fits(f.credentials, f.connection.connection_id)
      BY <1>2, <1>4, <1>6 DEF Known, Fits, SubjectOf
    <2>2. KindOf("put") = KindOf("create")
      BY DEF KindOf, CallbackSteps
    <2> QED BY <1>2, <1>4, <1>6, <2>1, <2>2, ServiceUndisturbed, PutSettled
  <1> QED BY <1>1, <1>3, <1>5, <1>6 DEF Created

LEMMA CredentialsPutSettled ==
    ASSUME IInv, NEW c \in Clients, CredentialsPut(c)
    PROVE  IInv'
  <1>1. PICK f : f = client[c]
    OBVIOUS
  <1>2. ServiceOnly /\ Serves(f, "put") /\ Known(f.connection)
    BY <1>1, RepliedTo DEF CredentialsPut, RequestFrameOK, Serves
  <1>3. CASE Done(c)
    BY <1>2, <1>3, DoneSettled
  <1>4. CASE Become(c, RevokeConnection(f, "undone", f.connection))
    <2>1. KindOf("undone") = KindOf("put")
      BY DEF KindOf, CallbackSteps
    <2> QED BY <1>2, <1>4, <2>1, RevokeSettled
  <1> QED BY <1>1, <1>3, <1>4 DEF CredentialsPut

-----------------------------------------------------------------------------
(* disconnect.                                                             *)
LEMMA DisconnectFoundSettled ==
    ASSUME IInv, NEW c \in Clients, DisconnectFound(c)
    PROVE  IInv'
  <1>1. PICK f : f = client[c]
    OBVIOUS
  <1>2. ServiceOnly /\ Serves(f, "disconnect")
    BY <1>1, RepliedTo DEF DisconnectFound
  <1>3. CASE Done(c)
    BY <1>2, <1>3, DoneSettled
  <1>4. ASSUME NEW connection,
               Become(c, GetCredentialsOf([f EXCEPT !.connection = connection],
                                          "disconnect_credentials", connection.connection_id))
        PROVE  IInv'
    <2>1. PICK h : h = [f EXCEPT !.connection = connection, !.step = "disconnect_credentials"]
      OBVIOUS
    <2>2. PICK asked : asked = [op |-> "get", id |-> connection.connection_id]
      OBVIOUS
    <2>3. Steps(h, f, "disconnect_credentials")
      BY <1>2, <2>1 DEF Serves, Steps, FrameShape
    <2>4. RequestFrameOK(h)
      BY <1>2, <2>3
      DEF Steps, Serves, RequestFrameOK, KindOf, CallbackSteps, DisconnectSteps, GrantedSteps,
          UsingSteps
    <2>5. Asked(h, asked, "get_credentials")
      BY <2>3 DEF Steps, Asked, IsAskedFor
    <2>6. Become(c, Calling(h, asked, "get_credentials"))
      BY <1>4, <2>1, <2>2 DEF GetCredentialsOf
    <2> QED BY <1>2, <2>3, <2>4, <2>5, <2>6, ServiceUndisturbed, Calls DEF Steps
  <1> QED BY <1>1, <1>3, <1>4 DEF DisconnectFound

LEMMA DisconnectCredentialsSettled ==
    ASSUME IInv, NEW c \in Clients, DisconnectCredentials(c)
    PROVE  IInv'
  <1>1. PICK e : e = client[c]
    OBVIOUS
  <1>2. ServiceOnly /\ Serves(e, "disconnect_credentials")
    BY <1>1, RepliedTo DEF DisconnectCredentials
  <1>3. PICK f : f = [e EXCEPT !.credentials = reply(c).credentials]
    OBVIOUS
  <1>4. Serves(f, "disconnect_credentials")
    BY <1>2, <1>3 DEF Serves, FrameShape
  <1>5. CASE Done(c)
    BY <1>2, <1>5, DoneSettled
  <1>6. CASE Become(c, RevokeConnection(f, "disconnected", f.connection))
    <2>1. KindOf("disconnected") = KindOf("disconnect_credentials")
      BY DEF KindOf, CallbackSteps, DisconnectSteps
    <2> QED BY <1>2, <1>4, <1>6, <2>1, RevokeSettled
  <1>7. CASE Become(c, At(f, "revoke_at_Google"))
    <2>1. KindOf("revoke_at_Google") = KindOf("disconnect_credentials")
      BY DEF KindOf, CallbackSteps, DisconnectSteps
    <2>2. PICK h : h = At(f, "revoke_at_Google") /\ Serves(h, "revoke_at_Google") /\ h.repo = NoCall
      BY <1>4, <2>1, AtStep
    <2>3. Resting(h) /\ h.step # "exchange"
      BY <2>2 DEF Serves, Resting, RequestFrameOK, GrantedSteps, UsingSteps
    <2> QED BY <1>2, <1>7, <2>2, <2>3, Rests
  <1> QED BY <1>1, <1>3, <1>5, <1>6, <1>7 DEF DisconnectCredentials

(* What an account gave is withdrawn: nobody else's.                       *)
LEMMA WithdrawnKept ==
    ASSUME NumbersOK, NEW subject, grants' = Withdrawn(subject)
    PROVE  /\ grants' \in [States -> Grant]
           /\ \A g \in States : grants'[g].subject = grants[g].subject
           /\ GrantsKept
  <1>1. ASSUME NEW g \in States
        PROVE  /\ grants'[g] \in Grant
               /\ grants'[g].subject = grants[g].subject
               /\ grants'[g].stands => grants[g].stands
               /\ grants[g].refused => grants'[g].refused
    <2>1. grants[g] \in Grant
      BY DEF NumbersOK
    <2>2. grants'[g] = IF grants[g].subject = subject THEN [grants[g] EXCEPT !.stands = FALSE]
                       ELSE grants[g]
      BY DEF Withdrawn
    <2>3. PICK withdrawn : withdrawn = [grants[g] EXCEPT !.stands = FALSE]
      OBVIOUS
    <2>4. /\ withdrawn \in Grant
          /\ withdrawn.subject = grants[g].subject /\ ~withdrawn.stands
          /\ withdrawn.refused = grants[g].refused
      BY <2>1, <2>3 DEF Grant
    <2> QED BY <2>1, <2>2, <2>3, <2>4
  <1>2. grants' = [g \in States |-> grants'[g]]
    BY DEF Withdrawn
  <1> QED BY <1>1, <1>2 DEF GrantsKept

(* Tickets where only consents end. *)
LEMMA TicketsStay ==
    ASSUME OneTicket, UNCHANGED <<exchanged>>, \A g \in States : grants'[g].subject = grants[g].subject,
           \A state \in States : Tickets(state)' \subseteq Tickets(state)
    PROVE  OneTicket'
  BY DEF OneTicket, Spent

(* A connection is revoked in a step that also makes Google refuse more.   *)
LEMMA TurnedAway ==
    ASSUME IInv, NEW c \in Clients, NEW f, NEW here, Serves(f, here),
           NEW step \in {"disconnected", "refresh_refused"}, KindOf(step) = KindOf(here),
           UNCHANGED <<kv, clock, now, process, requests, ticks, issued, exchanged>>,
           withdrawals' \in Nat, grants' \in [States -> Grant],
           \A g \in States : grants'[g].subject = grants[g].subject, GrantsKept,
           step = "refresh_refused" =>
              Fits(f.credentials, f.req.id) /\ Refused(f.credentials, f.second)',
           Become(c, RevokeConnection(f, step, f.connection))
    PROVE  IInv'
  <1>1. NumbersOK /\ EntriesOK /\ OneTicket /\ DOMAIN client = Clients /\ NumbersOK'
    BY DEF IInv, NumbersOK
  <1>2. Advance /\ EntriesOK'
    BY <1>1, KvAlone DEF NumbersOK
  <1>3. PICK h : h = [f EXCEPT !.step = step]
    OBVIOUS
  <1>4. PICK asked : asked = [op |-> "revoke", id |-> f.connection.connection_id,
                              user |-> f.connection.user_id, time |-> now]
    OBVIOUS
  <1>5. PICK g : g = Calling(h, asked, "revoke")
    OBVIOUS
  <1>6. Steps(h, f, step) /\ h.credentials = f.credentials /\ h.second = f.second
    BY <1>3 DEF Serves, Steps, FrameShape
  <1>7. IsCalled(g, h, asked, "revoke")
    BY <1>5, <1>6, Called DEF Steps
  <1>8. RequestFrameOK(g)'
    <2>1. /\ g.step = step /\ g.req = f.req /\ g.time = f.time /\ g.credentials = f.credentials
          /\ g.second = f.second /\ RequestOK(f.req) /\ f.req.kind = KindOf(step) /\ f.time \in Nat
      BY <1>6, <1>7 DEF IsCalled, Steps, Serves
    <2>2. RequestOK(f.req)'
      BY <2>1 DEF RequestOK
    <2>3. step = "refresh_refused" => Fits(f.credentials, f.req.id)'
      BY <1>2, FitsStays DEF Advance
    <2> QED BY <2>1, <2>2, <2>3 DEF RequestFrameOK, GrantedSteps, UsingSteps
  <1>9. CallOK(g, g.repo)'
    <2>1. Asked(g, asked, "revoke") /\ Begun(g.repo, asked, "revoke")
      BY <1>1, <1>4, <1>6, <1>7 DEF IsCalled, Steps, Asked, NumbersOK
    <2>2. CallOK(g, g.repo)
      BY <2>1, AskedOK
    <2> QED BY <1>1, <1>2, <2>2, CallStays
  <1>10. FrameOK(g)'
    BY <1>7, <1>8, <1>9 DEF FrameOK, IsCalled
  <1>11. Become(c, g)
    BY <1>3, <1>4, <1>5 DEF RevokeConnection
  <1>12. \A state \in States : ~Holds(g, state)
    BY <1>6, <1>7 DEF IsCalled, Begun, Steps, Holds
  <1>13. OneTicket'
    BY <1>1, <1>11, <1>12, TicketsOfOne, TicketsStay
  <1> QED BY <1>1, <1>2, <1>10, <1>11, <1>13, OneServed

LEMMA RemoteRevokeSettled ==
    ASSUME IInv, NEW c \in Clients, RemoteRevoke(c)
    PROVE  IInv'
  <1>1. PICK f : f = client[c]
    OBVIOUS
  <1>2. /\ NumbersOK /\ f.step = "revoke_at_Google"
        /\ UNCHANGED <<kv, clock, now, process, requests, ticks, issued, withdrawals, exchanged>>
        /\ Become(c, RevokeConnection(f, "disconnected", f.connection))
    BY <1>1 DEF IInv, RemoteRevoke
  <1>3. Serves(f, "revoke_at_Google")
    BY <1>1, <1>2, Serving DEF Serves, RequestFrameOK
  <1>4. KindOf("disconnected") = KindOf("revoke_at_Google")
    BY DEF KindOf, CallbackSteps, DisconnectSteps
  <1>5. CASE UNCHANGED grants
    <2>1. ServiceOnly
      BY <1>2, <1>5 DEF ServiceOnly
    <2> QED BY <1>2, <1>3, <1>4, <2>1, RevokeSettled
  <1>6. ASSUME NEW subject, grants' = Withdrawn(subject) PROVE IInv'
    <2>1. /\ grants' \in [States -> Grant]
          /\ \A g \in States : grants'[g].subject = grants[g].subject
          /\ GrantsKept
      BY <1>2, <1>6, WithdrawnKept
    <2>2. withdrawals' \in Nat
      BY <1>2 DEF NumbersOK
    <2> QED BY <1>2, <1>3, <1>4, <2>1, <2>2, TurnedAway
  <1> QED BY <1>1, <1>5, <1>6 DEF RemoteRevoke

(* The creator's withdrawal, and time.                                     *)
LEMMA OutsideSettled ==
    ASSUME IInv, Withdraw \/ Tick
    PROVE  IInv'
  <1>1. /\ NumbersOK /\ EntriesOK /\ OneTicket /\ DOMAIN client = Clients
        /\ UNCHANGED <<kv, clock, client, process, requests, issued, exchanged>>
    BY DEF IInv, Withdraw, Tick
  <1>2. /\ NumbersOK' /\ GrantsKept /\ now' \in Nat /\ now <= now'
        /\ \A g \in States : grants'[g].subject = grants[g].subject
    <2>1. CASE Withdraw
      <3>1. /\ grants' \in [States -> Grant]
            /\ \A g \in States : grants'[g].subject = grants[g].subject
            /\ GrantsKept
        BY <1>1, <2>1, WithdrawnKept DEF Withdraw
      <3> QED BY <1>1, <2>1, <3>1 DEF NumbersOK, Withdraw
    <2>2. CASE Tick
      BY <1>1, <2>2 DEF NumbersOK, GrantsKept, Tick
    <2> QED BY <2>1, <2>2
  <1>3. Advance /\ EntriesOK'
    BY <1>1, <1>2, KvAlone
  <1>4. \A state \in States : Tickets(state)' \subseteq Tickets(state)
    BY <1>1 DEF Tickets, Holds
  <1>5. OneTicket'
    BY <1>1, <1>2, <1>4, TicketsStay
  <1> QED BY <1>1, <1>2, <1>3, <1>5, Settled

-----------------------------------------------------------------------------
(* GoogleDriveExternalStorageProvider.#execute.                            *)

(* A step that concerns several requests: none comes to exchange a code.   *)
LEMMA SharedSettled ==
    ASSUME IInv, ServiceOnly, DOMAIN client' = Clients,
           \A d \in Clients : \/ client'[d] = client[d]
                              \/ \E g : /\ client'[d] = g /\ FrameOK(g)
                                        /\ \A state \in States : ~Holds(g, state)
    PROVE  IInv'
  <1>1. /\ NumbersOK /\ EntriesOK /\ OneTicket /\ DOMAIN client = Clients
        /\ UNCHANGED <<kv, clock, now, grants, requests, exchanged>> /\ NumbersOK'
    BY ServiceUndisturbed DEF IInv, Undisturbed
  <1>2. Advance /\ EntriesOK'
    BY <1>1, AloneAdvances DEF StoreAlone
  <1>3. ASSUME NEW d \in Clients PROVE client'[d] = client[d] \/ FrameOK(client[d])'
    <2>1. CASE client'[d] = client[d]
      BY <2>1
    <2>2. ASSUME NEW g, client'[d] = g, FrameOK(g) PROVE FrameOK(client[d])'
      <3>1. FrameOK(g)'
        BY <1>1, <1>2, <2>2, FrameStays
      <3> QED BY <2>2, <3>1 DEF FrameOK
    <2> QED BY <2>1, <2>2
  <1>4. ASSUME NEW state \in States, NEW d \in Clients, Holds(client[d], state)'
        PROVE  Holds(client[d], state)
    <2>1. CASE client'[d] = client[d]
      BY <1>4, <2>1 DEF Holds
    <2>2. ASSUME NEW g, client'[d] = g, ~Holds(g, state) PROVE FALSE
      BY <1>4, <2>2 DEF Holds
    <2> QED BY <2>1, <2>2
  <1>5. \A state \in States : Tickets(state)' \subseteq Tickets(state)
    BY <1>1, <1>4 DEF Tickets
  <1>6. OneTicket'
    BY <1>1, <1>5, NoNewTicket
  <1> QED BY <1>1, <1>2, <1>3, <1>6, Settled

(* The request asks for the tokens of its connection. *)
LEMMA GetSettled ==
    ASSUME IInv, ServiceOnly, NEW c \in Clients, NEW f, NEW here, Serves(f, here),
           KindOf(here) = "content", NEW step, step \in {"credentials", "reread"},
           step = "reread" => Fits(f.credentials, f.req.id),
           NEW id, id = f.req.id, Become(c, GetCredentialsOf(f, step, id))
    PROVE  IInv'
  <1>1. PICK h : h = [f EXCEPT !.step = step]
    OBVIOUS
  <1>2. PICK asked : asked = [op |-> "get", id |-> id]
    OBVIOUS
  <1>3. Steps(h, f, step) /\ h.credentials = f.credentials
    BY <1>1 DEF Serves, Steps, FrameShape
  <1>4. RequestFrameOK(h)
    BY <1>3
    DEF Steps, Serves, RequestFrameOK, KindOf, CallbackSteps, DisconnectSteps, GrantedSteps, UsingSteps
  <1>5. Asked(h, asked, "get_credentials")
    BY <1>2, <1>3 DEF Steps, Asked, IsAskedFor
  <1>6. Become(c, Calling(h, asked, "get_credentials"))
    BY <1>1, <1>2 DEF GetCredentialsOf
  <1> QED BY <1>3, <1>4, <1>5, <1>6, ServiceUndisturbed, Calls DEF Steps

LEMMA ContentFoundSettled ==
    ASSUME IInv, NEW c \in Clients, ContentFound(c)
    PROVE  IInv'
  <1>1. PICK e : e = client[c]
    OBVIOUS
  <1>2. ServiceOnly /\ Serves(e, "content")
    BY <1>1, RepliedTo DEF ContentFound
  <1>3. PICK f : f = [e EXCEPT !.connection = reply(c).connection]
    OBVIOUS
  <1>4. Serves(f, "content") /\ f.req = e.req
    BY <1>2, <1>3 DEF Serves, FrameShape
  <1>5. Become(c, GetCredentialsOf(f, "credentials", f.req.id))
    BY <1>1, <1>3, <1>4 DEF ContentFound
  <1>6. KindOf("content") = "content"
    BY DEF KindOf, CallbackSteps, DisconnectSteps
  <1> QED BY <1>2, <1>4, <1>5, <1>6, GetSettled

(* The steps that wait for Google, or for another's refresh. *)
Waits == {"await", "refresh", "operation"}

LEMMA WaitRests ==
    ASSUME NEW f, NEW here, Serves(f, here), KindOf(here) = "content",
           Fits(f.credentials, f.req.id), NEW step \in Waits,
           step = "refresh" => f.credentials.refresh # None
    PROVE  \E h : h = At(f, step) /\ Resting(h) /\ h.step = step
  <1>1. KindOf(step) = KindOf(here)
    BY DEF KindOf, CallbackSteps, DisconnectSteps, Waits
  <1>2. PICK h : /\ h = At(f, step) /\ Serves(h, step) /\ h.repo = NoCall
                 /\ h.req = f.req /\ h.credentials = f.credentials
    BY <1>1, AtStep
  <1>3. Resting(h)
    BY <1>2 DEF Serves, Resting, RequestFrameOK, GrantedSteps, Waits
  <1> QED BY <1>2, <1>3 DEF Serves

LEMMA WaitSettled ==
    ASSUME IInv, ServiceOnly, NEW c \in Clients, NEW f, NEW here, Serves(f, here),
           KindOf(here) = "content", Fits(f.credentials, f.req.id), NEW step \in Waits,
           step = "refresh" => f.credentials.refresh # None, Become(c, At(f, step))
    PROVE  IInv'
  BY WaitRests, Rests DEF Waits

LEMMA RefreshSettled ==
    ASSUME IInv, ServiceOnly, NEW c \in Clients, NEW f, NEW here, Serves(f, here),
           KindOf(here) = "content", Fits(f.credentials, f.req.id), Refresh(c, f)
    PROVE  IInv'
  <1>1. CASE Become(c, At(f, "await"))
    BY <1>1, WaitSettled DEF Waits
  <1>2. CASE /\ f.credentials.refresh = None
             /\ Become(c, RevokeConnection(f, "refresh_refused", f.connection))
    <2>1. KindOf("refresh_refused") = KindOf(here)
      BY DEF KindOf, CallbackSteps, DisconnectSteps
    <2>2. Refused(f.credentials, f.second)
      BY <1>2 DEF Refused
    <2> QED BY <1>2, <2>1, <2>2, RevokeSettled
  <1>3. CASE f.credentials.refresh # None /\ Become(c, At(f, "refresh"))
    BY <1>3, WaitSettled DEF Waits
  <1> QED BY <1>1, <1>2, <1>3 DEF Refresh

LEMMA HaveCredentialsSettled ==
    ASSUME IInv, NEW c \in Clients, HaveCredentials(c)
    PROVE  IInv'
  <1>1. PICK e : e = client[c]
    OBVIOUS
  <1>2. /\ ServiceOnly /\ Serves(e, "credentials")
        /\ status(c) = "ok" /\ reply(c).credentials # None => Fits(reply(c).credentials, e.req.id)
    BY <1>1, RepliedTo DEF HaveCredentials, ReplyOK, Serves
  <1>3. PICK f : f = [e EXCEPT !.credentials = reply(c).credentials]
    OBVIOUS
  <1>4. Serves(f, "credentials") /\ f.req = e.req /\ f.credentials = reply(c).credentials
    BY <1>2, <1>3 DEF Serves, FrameShape
  <1>5. KindOf("credentials") = "content"
    BY DEF KindOf, CallbackSteps, DisconnectSteps
  <1>6. CASE Done(c)
    BY <1>2, <1>6, DoneSettled
  <1>7. CASE status(c) = "ok" /\ f.credentials # None /\ Refresh(c, f)
    BY <1>2, <1>4, <1>5, <1>7, RefreshSettled
  <1>8. CASE status(c) = "ok" /\ f.credentials # None /\ Become(c, At(f, "operation"))
    BY <1>2, <1>4, <1>5, <1>8, WaitSettled DEF Waits
  <1> QED BY <1>1, <1>3, <1>6, <1>7, <1>8 DEF HaveCredentials

(* What a request using tokens knows. *)
LEMMA Using ==
    ASSUME IInv, NEW c \in Clients, NEW f, f = client[c], f.step \in UsingSteps
    PROVE  /\ Serves(f, f.step) /\ KindOf(f.step) = "content" /\ Fits(f.credentials, f.req.id)
           /\ f.step = "refresh" => f.credentials.refresh # None
           /\ f.step \in {"refused", "refresh_refused"} => Refused(f.credentials, f.second)
  <1>1. RequestFrameOK(f) /\ DOMAIN f = FrameShape /\ f.step # "idle"
    BY Serving DEF UsingSteps
  <1>2. KindOf(f.step) = "content"
    BY DEF KindOf, CallbackSteps, DisconnectSteps, UsingSteps
  <1> QED BY <1>1, <1>2 DEF RequestFrameOK, Serves

LEMMA OperationSettled ==
    ASSUME IInv, NEW c \in Clients, Operation(c)
    PROVE  IInv'
  <1>1. PICK f : f = client[c]
    OBVIOUS
  <1>2. ServiceOnly /\ f.step = "operation"
    BY <1>1 DEF Operation
  <1>3. Serves(f, "operation") /\ KindOf("operation") = "content" /\ Fits(f.credentials, f.req.id)
    BY <1>1, <1>2, Using DEF UsingSteps
  <1>4. CASE Done(c)
    BY <1>2, <1>4, DoneSettled
  <1>5. CASE Become(c, GetCredentialsOf(f, "reread", f.req.id))
    BY <1>2, <1>3, <1>5, GetSettled
  <1>6. CASE /\ ~Accepts(f.credentials) /\ f.second
             /\ Become(c, RevokeConnection(f, "refused", f.connection))
    <2>1. KindOf("refused") = KindOf("operation")
      BY DEF KindOf, CallbackSteps, DisconnectSteps
    <2>2. Refused(f.credentials, f.second)
      BY <1>6 DEF Refused
    <2> QED BY <1>2, <1>3, <1>6, <2>1, <2>2, RevokeSettled
  <1> QED BY <1>1, <1>4, <1>5, <1>6 DEF Operation

LEMMA RereadSettled ==
    ASSUME IInv, NEW c \in Clients, Reread(c)
    PROVE  IInv'
  <1>1. PICK e : e = client[c]
    OBVIOUS
  <1>2. /\ ServiceOnly /\ Serves(e, "reread") /\ Fits(e.credentials, e.req.id)
        /\ status(c) = "ok" /\ reply(c).credentials # None => Fits(reply(c).credentials, e.req.id)
    BY <1>1, RepliedTo DEF Reread, ReplyOK, Serves, RequestFrameOK, UsingSteps
  <1>3. PICK f : f = [e EXCEPT !.second = TRUE]
    OBVIOUS
  <1>4. Serves(f, "reread") /\ f.req = e.req /\ f.credentials = e.credentials
    BY <1>2, <1>3 DEF Serves, FrameShape
  <1>5. KindOf("reread") = "content"
    BY DEF KindOf, CallbackSteps, DisconnectSteps
  <1>6. CASE Done(c)
    BY <1>2, <1>6, DoneSettled
  <1>7. CASE /\ status(c) = "ok" /\ reply(c).credentials # None
             /\ Become(c, At([f EXCEPT !.credentials = reply(c).credentials], "operation"))
    <2>1. PICK g : g = [f EXCEPT !.credentials = reply(c).credentials]
      OBVIOUS
    <2>2. Serves(g, "reread") /\ g.req = e.req /\ g.credentials = reply(c).credentials
      BY <1>4, <2>1 DEF Serves, FrameShape
    <2>3. Fits(g.credentials, g.req.id)
      BY <1>2, <1>7, <2>2
    <2>4. Become(c, At(g, "operation"))
      BY <1>7, <2>1
    <2> QED BY <1>2, <1>5, <2>2, <2>3, <2>4, WaitSettled DEF Waits
  <1>8. CASE Refresh(c, f)
    BY <1>2, <1>4, <1>5, <1>8, RefreshSettled
  <1> QED BY <1>1, <1>3, <1>6, <1>7, <1>8 DEF Reread

-----------------------------------------------------------------------------
(* A refresh, and what all who wait for it get.                            *)
LEMMA SharedIdle ==
    ASSUME IInv, ServiceOnly, DOMAIN client' = Clients,
           \A d \in Clients : client'[d] = client[d] \/ client'[d] = Idle
    PROVE  IInv'
  <1>1. PICK g : g = Idle
    OBVIOUS
  <1>2. FrameOK(g) /\ \A state \in States : ~Holds(g, state)
    BY <1>1, IdleRests, RestingOK
  <1> QED BY <1>1, <1>2, SharedSettled

(* New tokens of the grant they are refreshed with. *)
LEMMA RefreshedFits ==
    ASSUME NumbersOK, NEW credentials, NEW id, Fits(credentials, id), credentials.refresh # None,
           NEW refreshed, refreshed = [access |-> token(credentials.refresh),
                                       expires |-> now + token_lifetime,
                                       refresh |-> credentials.refresh]
    PROVE  Fits(refreshed, id)
  <1>1. /\ credentials.refresh \in States
        /\ SubjectOf(id) \in Subjects /\ grants[credentials.refresh].subject = SubjectOf(id)
        /\ connection_key(id) \in DOMAIN kv
    BY DEF Fits, Owned, OAuthCredentials
  <1>2. PICK grant : grant = credentials.refresh
    OBVIOUS
  <1>3. /\ refreshed.access = [grant |-> grant, number |-> issued]
        /\ refreshed.expires = now + token_lifetime /\ refreshed.refresh = grant
    BY <1>2 DEF token
  <1>4. issued \in Nat /\ now + token_lifetime \in Nat
    BY StorageAssumption DEF NumbersOK
  <1>5. refreshed \in OAuthCredentials
    BY <1>1, <1>2, <1>3, <1>4 DEF OAuthCredentials, token
  <1> QED BY <1>1, <1>2, <1>3, <1>5 DEF Fits, Owned

LEMMA AskRefreshSettled ==
    ASSUME IInv, NEW c \in Clients, AskRefresh(c)
    PROVE  IInv'
  <1>1. PICK f : f = client[c]
    OBVIOUS
  <1>2. /\ f.step = "refresh" /\ NumbersOK
        /\ UNCHANGED <<kv, clock, now, process, requests, ticks, exchanged>>
    BY <1>1 DEF AskRefresh, IInv
  <1>3. /\ Serves(f, "refresh") /\ KindOf("refresh") = "content"
        /\ Fits(f.credentials, f.req.id) /\ f.credentials.refresh # None
    BY <1>1, <1>2, Using DEF UsingSteps
  <1>4. CASE Share(c, LAMBDA g : Idle) /\ UNCHANGED <<issued, grants, withdrawals>>
    <2>1. ServiceOnly
      BY <1>2, <1>4 DEF ServiceOnly
    <2>2. DOMAIN client' = Clients /\ \A d \in Clients : client'[d] = client[d] \/ client'[d] = Idle
      BY <1>4 DEF Share
    <2> QED BY <2>1, <2>2, SharedIdle
  <1>5. CASE /\ Definitive(f.credentials) /\ UNCHANGED <<issued, grants, withdrawals>>
             /\ Become(c, RevokeConnection(f, "refresh_refused", f.connection))
    <2>1. ServiceOnly
      BY <1>2, <1>5 DEF ServiceOnly
    <2>2. Refused(f.credentials, f.second)
      BY <1>5 DEF Definitive, Refused
    <2>3. KindOf("refresh_refused") = KindOf("refresh")
      BY DEF KindOf, CallbackSteps, DisconnectSteps
    <2> QED BY <1>3, <1>5, <2>1, <2>2, <2>3, RevokeSettled
  <1>6. ASSUME NEW refreshed, refreshed = [access |-> token(f.credentials.refresh),
                                           expires |-> now + token_lifetime,
                                           refresh |-> f.credentials.refresh],
               issued' = issued + 1, UNCHANGED <<grants, withdrawals>>,
               Become(c, PutCredentialsOf(f, "refresh_stored", f.req.id, refreshed))
        PROVE  IInv'
    <2>1. Fits(refreshed, f.req.id)
      BY <1>2, <1>3, <1>6, RefreshedFits
    <2>2. Undisturbed
      BY <1>2, <1>6 DEF Undisturbed, NumbersOK
    <2>3. KindOf("refresh_stored") = KindOf("refresh")
      BY DEF KindOf, CallbackSteps, DisconnectSteps
    <2> QED BY <1>3, <1>6, <2>1, <2>2, <2>3, PutSettled
  <1>7. CASE /\ withdrawals > 0 /\ withdrawals' = withdrawals - 1 /\ UNCHANGED issued
             /\ grants' = [grants EXCEPT ![f.credentials.refresh].refused = TRUE]
             /\ Become(c, RevokeConnection(f, "refresh_refused", f.connection))
    <2>1. PICK grant : grant = f.credentials.refresh /\ grant \in States
      BY <1>3 DEF Fits, Owned, OAuthCredentials
    <2>2. /\ grants' \in [States -> Grant] /\ grants'[grant].refused
          /\ \A g \in States : /\ grants'[g].subject = grants[g].subject
                               /\ grants'[g].stands = grants[g].stands
                               /\ grants[g].refused => grants'[g].refused
      BY <1>2, <1>7, <2>1 DEF NumbersOK, Grant
    <2>3. GrantsKept /\ withdrawals' \in Nat
      BY <1>2, <1>7, <2>2 DEF GrantsKept, NumbersOK
    <2>4. Refused(f.credentials, f.second)'
      BY <2>1, <2>2 DEF Refused
    <2>5. KindOf("refresh_refused") = KindOf("refresh")
      BY DEF KindOf, CallbackSteps, DisconnectSteps
    <2> QED BY <1>2, <1>3, <1>7, <2>2, <2>3, <2>4, <2>5, TurnedAway
  <1> QED BY <1>1, <1>4, <1>5, <1>6, <1>7 DEF AskRefresh

LEMMA RefreshStoredSettled ==
    ASSUME IInv, NEW c \in Clients, RefreshStored(c)
    PROVE  IInv'
  <1>1. PICK f, refreshed : f = client[c] /\ refreshed = f.credentials
    OBVIOUS
  <1>2. ServiceOnly /\ f.step = "refresh_stored"
    BY <1>1 DEF RefreshStored, Replied
  <1>3. Fits(refreshed, f.req.id)
    BY <1>1, <1>2, Using DEF UsingSteps
  <1>4. CASE Share(c, LAMBDA g : Idle)
    <2>1. DOMAIN client' = Clients /\ \A d \in Clients : client'[d] = client[d] \/ client'[d] = Idle
      BY <1>4 DEF Share
    <2> QED BY <1>2, <2>1, SharedIdle
  <1>5. CASE Share(c, LAMBDA g : At([g EXCEPT !.credentials = refreshed], "operation"))
    <2>1. /\ DOMAIN client' = Clients
          /\ \A d \in Clients :
                client'[d] = IF d = c \/ Shares(c, d)
                             THEN At([client[d] EXCEPT !.credentials = refreshed], "operation")
                             ELSE client[d]
      BY <1>5 DEF Share
    <2>2. ASSUME NEW d \in Clients, d = c \/ Shares(c, d)
          PROVE  \E h : /\ client'[d] = h /\ FrameOK(h)
                        /\ \A state \in States : ~Holds(h, state)
      <3>1. PICK g : g = client[d]
        OBVIOUS
      <3>2. g.step \in UsingSteps /\ g.req.id = f.req.id
        BY <1>1, <1>2, <2>2, <3>1 DEF Shares, UsingSteps
      <3>3. Serves(g, g.step) /\ KindOf(g.step) = "content"
        BY <3>1, <3>2, Using
      <3>4. PICK k : k = [g EXCEPT !.credentials = refreshed]
        OBVIOUS
      <3>5. Serves(k, g.step) /\ k.req = g.req /\ k.credentials = refreshed
        BY <3>3, <3>4 DEF Serves, FrameShape
      <3>6. Fits(k.credentials, k.req.id)
        BY <1>3, <3>2, <3>5
      <3>7. PICK h : h = At(k, "operation") /\ Resting(h) /\ h.step = "operation"
        BY <3>3, <3>5, <3>6, WaitRests DEF Waits
      <3>8. client'[d] = h
        BY <2>1, <2>2, <3>1, <3>4, <3>7
      <3> QED BY <3>7, <3>8, RestingOK
    <2> QED BY <1>2, <2>1, <2>2, SharedSettled
  <1> QED BY <1>1, <1>4, <1>5 DEF RefreshStored

LEMMA EndedSettled ==
    ASSUME IInv, \/ \E c \in Clients : RefreshRefused(c)
                 \/ \E p \in Processes : Crash(p)
    PROVE  IInv'
  <1>1. /\ ServiceOnly /\ DOMAIN client' = Clients
        /\ \A d \in Clients : client'[d] = client[d] \/ client'[d] = Idle
    BY DEF RefreshRefused, Share, Crash
  <1> QED BY <1>1, SharedIdle

-----------------------------------------------------------------------------
(* The reads of the repositories.                                          *)

(* The call of a client is at another place, or answered. *)
CallBecomes(c, repo) == Become(c, [client[c] EXCEPT !.repo = repo])

LEMMA ReadSettled ==
    ASSUME IInv, ServiceOnly, NEW c \in Clients, NEW f, f = client[c], f.step # "exchange",
           NEW repo, CallOK(f, repo), repo.at # "save_attempt",
           ~(f.step = "consume" /\ repo.at = "answered" /\ repo.reply.status = "ok"),
           CallBecomes(c, repo)
    PROVE  IInv'
  <1>1. PICK g : g = [f EXCEPT !.repo = repo]
    OBVIOUS
  <1>2. DOMAIN f = FrameShape /\ RequestFrameOK(f)
    BY Serving
  <1>3. /\ DOMAIN g = FrameShape /\ g.step = f.step /\ g.req = f.req /\ g.time = f.time
        /\ g.connection = f.connection /\ g.credentials = f.credentials /\ g.repo = repo
        /\ g.second = f.second
    BY <1>1, <1>2 DEF FrameShape
  <1>4. RequestFrameOK(g)
    BY <1>2, <1>3 DEF RequestFrameOK
  <1>5. CallOK(g, g.repo)
    BY <1>3 DEF CallOK, CreateOK, GetOK, IsAskedFor, ConsumeOK, ReplyOK
  <1>6. \A state \in States : ~Holds(g, state)
    BY <1>3 DEF Holds
  <1> QED BY <1>1, <1>3, <1>4, <1>5, <1>6, ServiceUndisturbed, ServiceSettled
          DEF FrameOK, CallBecomes

(* Answers. *)
IsAnswer(repo) == DOMAIN repo = RepoShape /\ repo.at = "answered"

LEMMA AnswerIs ==
    ASSUME NEW c \in Clients, DOMAIN client = Clients, NEW f, f = client[c], DOMAIN f = FrameShape
    PROVE  /\ \A told : Answer(c, told) =>
                 \E repo : /\ CallBecomes(c, repo) /\ IsAnswer(repo)
                          /\ repo.reply = [NoReply EXCEPT !.status = told]
           /\ \A connection : AnswerConnection(c, connection) =>
                 \E repo : /\ CallBecomes(c, repo) /\ IsAnswer(repo)
                          /\ repo.reply = [NoReply EXCEPT !.status = "ok",
                                                          !.connection = connection]
           /\ \A credentials : AnswerCredentials(c, credentials) =>
                 \E repo : /\ CallBecomes(c, repo) /\ IsAnswer(repo)
                          /\ repo.reply = [NoReply EXCEPT !.status = "ok",
                                                          !.credentials = credentials]
  <1>1. ASSUME NEW answer, client' = [client EXCEPT ![c].repo = Answered(answer)]
        PROVE  \E repo : CallBecomes(c, repo) /\ IsAnswer(repo) /\ repo.reply = answer
    <2>1. PICK repo : repo = Answered(answer)
      OBVIOUS
    <2>2. IsAnswer(repo) /\ repo.reply = answer
      BY <2>1 DEF Answered, NoCall, IsAnswer, RepoShape
    <2>3. CallBecomes(c, repo)
      BY <1>1, <2>1 DEF CallBecomes, Become
    <2> QED BY <2>2, <2>3
  <1> QED BY <1>1 DEF Answer, AnswerConnection, AnswerCredentials

(* The frame of a call that waits for the store. *)
LEMMA InCall ==
    ASSUME IInv, NEW c \in Clients, NEW f, f = client[c]
    PROVE  /\ NumbersOK /\ EntriesOK /\ StoredTogether(Held) /\ DOMAIN client = Clients
           /\ DOMAIN f = FrameShape /\ RequestFrameOK(f) /\ CallOK(f, f.repo)
           /\ DOMAIN f.repo = RepoShape /\ f.repo.reply.status # "invalid"
  BY Serving DEF IInv, EntriesOK, CallOK

LEMMA AnswerSettled ==
    ASSUME IInv, ServiceOnly, NEW c \in Clients, NEW f, f = client[c], f.step # "exchange",
           NEW told, told # "ok", told # "invalid", Answer(c, told)
    PROVE  IInv'
  <1>1. PICK repo : /\ CallBecomes(c, repo) /\ IsAnswer(repo)
                    /\ repo.reply = [NoReply EXCEPT !.status = told]
    BY InCall, AnswerIs
  <1>2. repo.reply.status = told
    BY <1>1 DEF NoReply
  <1>3. CallOK(f, repo)
    BY <1>1, <1>2
    DEF CallOK, IsAnswer, FindPlaces, ListPlaces, CreatePlaces, ReauthorizePlaces, RevokePlaces,
        PutPlaces, ConsumePlaces
  <1> QED BY <1>1, <1>2, <1>3, ReadSettled DEF IsAnswer

(* What a good answer brings. *)
LEMMA GoodAnswer ==
    ASSUME NEW f, NEW repo, IsAnswer(repo), repo.reply.status # "invalid", ReplyOK(f, repo.reply)
    PROVE  CallOK(f, repo)
  BY DEF CallOK, IsAnswer, FindPlaces, ListPlaces, CreatePlaces, ReauthorizePlaces, RevokePlaces,
         PutPlaces, ConsumePlaces

LEMMA ConnectionAnswerOK ==
    ASSUME NEW f, NEW connection, NEW repo, IsAnswer(repo),
           repo.reply = [NoReply EXCEPT !.status = "ok", !.connection = connection],
           f.step \in {"grant", "create"} => Known(connection),
           f.step = "create" => connection.provider_subject = f.req.subject
    PROVE  CallOK(f, repo)
  <1>1. /\ repo.reply.status = "ok" /\ repo.reply.connection = connection
        /\ repo.reply.credentials = None /\ repo.reply.list = {}
    BY DEF NoReply
  <1>2. ReplyOK(f, repo.reply)
    BY <1>1 DEF ReplyOK
  <1> QED BY <1>1, <1>2, GoodAnswer

LEMMA ConnectionSettled ==
    ASSUME IInv, ServiceOnly, NEW c \in Clients, NEW f, f = client[c],
           f.step \notin {"exchange", "consume", "create"}, NEW connection,
           f.step = "grant" => Known(connection), AnswerConnection(c, connection)
    PROVE  IInv'
  <1>1. PICK repo : /\ CallBecomes(c, repo) /\ IsAnswer(repo)
                    /\ repo.reply = [NoReply EXCEPT !.status = "ok", !.connection = connection]
    BY InCall, AnswerIs
  <1>2. CallOK(f, repo)
    BY <1>1, ConnectionAnswerOK
  <1> QED BY <1>1, <1>2, ReadSettled DEF IsAnswer

LEMMA CredentialsSettled ==
    ASSUME IInv, ServiceOnly, NEW c \in Clients, NEW f, f = client[c], NEW id,
           f.step \in {"previous", "disconnect_credentials", "credentials", "reread"},
           IsAskedFor(f, id), NEW credentials, credentials # None => Fits(credentials, id),
           AnswerCredentials(c, credentials)
    PROVE  IInv'
  <1>1. PICK repo : /\ CallBecomes(c, repo) /\ IsAnswer(repo)
                    /\ repo.reply = [NoReply EXCEPT !.status = "ok", !.credentials = credentials]
    BY InCall, AnswerIs
  <1>2. repo.reply.status = "ok" /\ repo.reply.credentials = credentials
    BY <1>1 DEF NoReply
  <1>3. ReplyOK(f, repo.reply)
    BY <1>2 DEF ReplyOK, IsAskedFor
  <1> QED BY <1>1, <1>2, <1>3, GoodAnswer, ReadSettled DEF IsAnswer

(* A call is made again. *)
LEMMA RetrySettled ==
    ASSUME IInv, ServiceOnly, NEW c \in Clients, NEW f, f = client[c],
           f.step \notin {"exchange", "start"}, Asked(f, f.repo.call, f.repo.start), Retry(c)
    PROVE  IInv'
  <1>1. CASE Answer(c, "threw")
    BY <1>1, AnswerSettled
  <1>2. CASE client' = [client EXCEPT ![c].repo =
                [NoCall EXCEPT !.call = f.repo.call, !.start = f.repo.start, !.at = f.repo.start,
                               !.round = f.repo.round + 1]]
    <2>1. PICK repo, asked, start :
             /\ asked = f.repo.call /\ start = f.repo.start
             /\ repo = [NoCall EXCEPT !.call = asked, !.start = start, !.at = start,
                                      !.round = f.repo.round + 1]
      OBVIOUS
    <2>2. Begun(repo, asked, start)
      BY <2>1 DEF Begun, NoCall, RepoShape
    <2>3. CallOK(f, repo)
      BY <2>1, <2>2, AskedOK
    <2>4. CallBecomes(c, repo)
      BY <1>2, <2>1 DEF CallBecomes, Become
    <2>5. repo.at # "save_attempt" /\ repo.at # "answered"
      BY <2>1, <2>2 DEF Begun, Asked
    <2> QED BY <2>3, <2>4, <2>5, ReadSettled
  <1> QED BY <1>1, <1>2 DEF Retry

(* A call goes on to its next place. *)
LEMMA GotoIs ==
    ASSUME NEW c \in Clients, DOMAIN client = Clients, NEW f, f = client[c],
           DOMAIN f = FrameShape, DOMAIN f.repo = RepoShape
    PROVE  /\ \A place : Goto(c, place) => CallBecomes(c, [f.repo EXCEPT !.at = place])
           /\ \A place, entry :
                 client' = [client EXCEPT ![c].repo.at = place, ![c].repo.entry = entry]
                 => CallBecomes(c, [f.repo EXCEPT !.at = place, !.entry = entry])
           /\ \A place, index :
                 client' = [client EXCEPT ![c].repo.at = place, ![c].repo.index = index]
                 => CallBecomes(c, [f.repo EXCEPT !.at = place, !.index = index])
           /\ \A place, left :
                 client' = [client EXCEPT ![c].repo.at = place, ![c].repo.left = left]
                 => CallBecomes(c, [f.repo EXCEPT !.at = place, !.left = left])
           /\ \A left, found :
                 client' = [client EXCEPT ![c].repo.left = left, ![c].repo.found = found]
                 => CallBecomes(c, [f.repo EXCEPT !.left = left, !.found = found])
  BY DEF Goto, CallBecomes, Become, FrameShape, RepoShape

LEMMA PlaceOK ==
    ASSUME NEW f, NEW repo, DOMAIN repo = RepoShape, repo.reply.status # "invalid",
           \/ repo.at \in FindPlaces /\ FindOK(f.step, repo)
           \/ repo.at \in ListPlaces /\ ListOK(f.step, repo)
           \/ repo.at \in CreatePlaces /\ CreateOK(f, repo)
           \/ repo.at \in ReauthorizePlaces /\ ReauthorizeOK(f.step, repo)
           \/ repo.at \in RevokePlaces /\ RevokeOK(f.step, repo)
           \/ repo.at \in PutPlaces /\ PutOK(f.step, repo)
           \/ repo.at \in ConsumePlaces /\ ConsumeOK(f, repo)
    PROVE  CallOK(f, repo) /\ repo.at # "save_attempt" /\ repo.at # "answered"
  BY DEF CallOK, FindPlaces, ListPlaces, CreatePlaces, ReauthorizePlaces, RevokePlaces,
         PutPlaces, ConsumePlaces

LEMMA PlaceSettled ==
    ASSUME IInv, ServiceOnly, NEW c \in Clients, NEW f, f = client[c], f.step # "exchange",
           NEW repo, CallBecomes(c, repo), DOMAIN repo = RepoShape, repo.reply = f.repo.reply,
           \/ repo.at \in FindPlaces /\ FindOK(f.step, repo)
           \/ repo.at \in ListPlaces /\ ListOK(f.step, repo)
           \/ repo.at \in CreatePlaces /\ CreateOK(f, repo)
           \/ repo.at \in ReauthorizePlaces /\ ReauthorizeOK(f.step, repo)
           \/ repo.at \in RevokePlaces /\ RevokeOK(f.step, repo)
           \/ repo.at \in PutPlaces /\ PutOK(f.step, repo)
           \/ repo.at \in ConsumePlaces /\ ConsumeOK(f, repo)
    PROVE  IInv'
  <1>1. repo.reply.status # "invalid"
    BY InCall
  <1>2. CallOK(f, repo) /\ repo.at # "save_attempt" /\ repo.at # "answered"
    BY <1>1, PlaceOK
  <1> QED BY <1>2, ReadSettled

(* create.                                                                 *)
LEMMA CreateReadSettled ==
    ASSUME IInv, NEW c \in Clients, CreateRead(c), ServiceOnly
    PROVE  IInv'
  <1>1. PICK f, connection, id :
           f = client[c] /\ connection = f.repo.call.connection /\ id = connection.connection_id
    OBVIOUS
  <1>2. /\ NumbersOK /\ EntriesOK /\ StoredTogether(Held) /\ DOMAIN client = Clients
        /\ DOMAIN f = FrameShape /\ DOMAIN f.repo = RepoShape
        /\ f.repo.at = "create_read" /\ CallOK(f, f.repo)
    BY <1>1, InCall DEF CreateRead, at
  <1>3. CreateOK(f, f.repo) /\ f.step = "create"
    BY <1>2 DEF CallOK, CreatePlaces, CreateOK
  <1>4. CASE Answer(c, "connection_id_conflict") \/ Answer(c, "active_connection_conflict")
    BY <1>1, <1>3, <1>4, AnswerSettled
  <1>5. CASE /\ ~present(get(connection_key(id)))
             /\ present(get(user_key(connection.user_id, id)))
    <2>1. PICK key : key = user_key(connection.user_id, id)
      OBVIOUS
    <2>2. key \in DOMAIN kv /\ connection_key(id) \notin DOMAIN kv /\ key[1] = "user" /\ key[3] = id
      BY <1>2, <1>5, <2>1, Reading, KeyParts
    <2>3. DOMAIN Held = DOMAIN kv
      BY DEF Held
    <2>4. connection_key(key[3]) \in DOMAIN Held
      BY <1>2, <2>2, <2>3 DEF StoredTogether
    <2> QED BY <2>2, <2>3, <2>4
  <1>6. CASE Goto(c, "create_commit")
    <2>1. PICK repo : repo = [f.repo EXCEPT !.at = "create_commit"]
      OBVIOUS
    <2>2. CallBecomes(c, repo)
      BY <1>1, <1>2, <1>6, <2>1, GotoIs
    <2>3. /\ DOMAIN repo = RepoShape /\ repo.at = "create_commit" /\ repo.call = f.repo.call
          /\ repo.start = f.repo.start /\ repo.reply = f.repo.reply
      BY <1>2, <2>1 DEF RepoShape
    <2>4. CreateOK(f, repo) /\ repo.at \in CreatePlaces
      BY <1>3, <2>3 DEF CreateOK, CreatePlaces
    <2> QED BY <1>1, <1>3, <2>2, <2>3, <2>4, PlaceSettled
  <1> QED BY <1>1, <1>4, <1>5, <1>6 DEF CreateRead, call

(* A connection that is stored. *)
LEMMA StoredKnown ==
    ASSUME NumbersOK, EntriesOK, NEW id, connection_key(id) \in DOMAIN kv,
           NEW connection, connection = get(connection_key(id)).val
    PROVE  /\ Known(connection) /\ connection.connection_id = id
           /\ connection \in StorageConnection /\ connection.created_at <= connection.updated_at
           /\ Held[connection_key(id)] = connection
           /\ connection.status = "active" =>
                 /\ active_key(connection.user_id) \in DOMAIN kv
                 /\ Held[active_key(connection.user_id)].connection_id = id
  <1>1. PICK key : key = connection_key(id) /\ key[1] = "connection" /\ key[2] = id
    BY KeyParts
  <1>2. DOMAIN Held = DOMAIN kv /\ Held[key] = connection
    BY <1>1, Reading DEF Held
  <1>3. /\ key = connection_key(connection.connection_id)
        /\ connection \in StorageConnection /\ connection.created_at <= connection.updated_at
        /\ connection.status = "active" =>
              /\ active_key(connection.user_id) \in DOMAIN kv
              /\ Held[active_key(connection.user_id)].connection_id = connection.connection_id
    BY <1>1, <1>2 DEF EntriesOK, StoredTogether
  <1>4. connection.connection_id = id
    BY <1>1, <1>3, KeyParts
  <1> QED BY <1>1, <1>2, <1>3, <1>4 DEF Known

LEMMA FindByIdSettled ==
    ASSUME IInv, NEW c \in Clients, FindById(c), ServiceOnly
    PROVE  IInv'
  <1>1. PICK f : f = client[c]
    OBVIOUS
  <1>2. f.repo.at = "find_by_id" /\ CallOK(f, f.repo)
    BY <1>1, InCall DEF FindById, at
  <1>3. f.step = "content"
    BY <1>2 DEF CallOK
  <1>4. Answer(c, "null") \/ \E connection : AnswerConnection(c, connection)
    BY DEF FindById
  <1> QED BY <1>1, <1>3, <1>4, AnswerSettled, ConnectionSettled

(* find_active_by_user_provider.                                           *)
LEMMA FindIndexSettled ==
    ASSUME IInv, NEW c \in Clients, FindActiveIndex(c), ServiceOnly
    PROVE  IInv'
  <1>1. PICK f, index : f = client[c] /\ index = get(active_key(f.repo.call.user))
    OBVIOUS
  <1>2. /\ NumbersOK /\ EntriesOK /\ DOMAIN client = Clients
        /\ DOMAIN f = FrameShape /\ DOMAIN f.repo = RepoShape
        /\ f.repo.at = "find_active" /\ CallOK(f, f.repo)
    BY <1>1, InCall DEF FindActiveIndex, at
  <1>3. FindOK(f.step, f.repo) /\ f.step \in {"grant", "disconnect"}
    BY <1>2 DEF CallOK, FindPlaces, FindOK
  <1>4. CASE Answer(c, "null")
    BY <1>1, <1>3, <1>4, AnswerSettled
  <1>5. CASE /\ present(index)
             /\ client' = [client EXCEPT ![c].repo.at = "find_active_record",
                                         ![c].repo.index = index]
    <2>1. PICK repo : repo = [f.repo EXCEPT !.at = "find_active_record", !.index = index]
      OBVIOUS
    <2>2. CallBecomes(c, repo)
      BY <1>1, <1>2, <1>5, <2>1, GotoIs
    <2>3. /\ DOMAIN repo = RepoShape /\ repo.at = "find_active_record" /\ repo.call = f.repo.call
          /\ repo.start = f.repo.start /\ repo.reply = f.repo.reply /\ repo.index = index
      BY <1>2, <2>1 DEF RepoShape
    <2>4. Seen(index, active_key(f.repo.call.user))
      BY <1>1, <1>2, <1>5, Reading
    <2>5. FindOK(f.step, repo) /\ repo.at \in FindPlaces
      BY <1>3, <2>3, <2>4 DEF FindOK, FindPlaces
    <2> QED BY <1>1, <1>3, <2>2, <2>3, <2>5, PlaceSettled
  <1> QED BY <1>1, <1>4, <1>5 DEF FindActiveIndex, call

LEMMA FindRecordSettled ==
    ASSUME IInv, NEW c \in Clients, FindActiveRecord(c), ServiceOnly
    PROVE  IInv'
  <1>1. PICK f, index, id, entry :
           /\ f = client[c] /\ index = f.repo.index /\ id = index.val.connection_id
           /\ entry = get(connection_key(id))
    OBVIOUS
  <1>2. /\ NumbersOK /\ EntriesOK /\ StoredTogether(Held) /\ DOMAIN client = Clients
        /\ DOMAIN f = FrameShape /\ DOMAIN f.repo = RepoShape
        /\ f.repo.at = "find_active_record" /\ CallOK(f, f.repo)
    BY <1>1, InCall DEF FindActiveRecord, at
  <1>3. FindOK(f.step, f.repo) /\ f.step \in {"grant", "disconnect"}
    BY <1>2 DEF CallOK, FindPlaces, FindOK
  <1>4. PICK key : key = active_key(f.repo.call.user) /\ key[1] = "active" /\ Seen(index, key)
    BY <1>1, <1>2, <1>3, KeyParts DEF FindOK
  <1>5. CASE present(entry) /\ entry.val.status = "active" /\ AnswerConnection(c, entry.val)
    <2>1. Known(entry.val)
      BY <1>1, <1>2, <1>5, Reading, StoredKnown
    <2> QED BY <1>1, <1>3, <1>5, <2>1, ConnectionSettled
  <1>6. CASE ~(present(entry) /\ entry.val.status = "active") /\ Goto(c, "find_active_again")
    <2>1. ASSUME get(key).vs = index.vs PROVE FALSE
      <3>1. key \in DOMAIN kv /\ Held[key] = index.val /\ DOMAIN Held = DOMAIN kv
        BY <1>2, <1>4, <2>1, Current DEF Held
      <3>2. connection_key(id) \in DOMAIN kv /\ Held[connection_key(id)].status = "active"
        BY <1>1, <1>2, <1>4, <3>1 DEF StoredTogether
      <3>3. present(entry) /\ entry.val = Held[connection_key(id)]
        BY <1>1, <1>2, <3>2, Reading
      <3> QED BY <1>6, <3>2, <3>3
    <2>2. Stale(index, key)
      BY <1>4, <2>1 DEF Stale, Seen
    <2>3. PICK repo : repo = [f.repo EXCEPT !.at = "find_active_again"]
      OBVIOUS
    <2>4. CallBecomes(c, repo)
      BY <1>1, <1>2, <1>6, <2>3, GotoIs
    <2>5. /\ DOMAIN repo = RepoShape /\ repo.at = "find_active_again" /\ repo.call = f.repo.call
          /\ repo.start = f.repo.start /\ repo.reply = f.repo.reply /\ repo.index = index
      BY <1>1, <1>2, <2>3 DEF RepoShape
    <2>6. FindOK(f.step, repo) /\ repo.at \in FindPlaces
      BY <1>3, <1>4, <2>2, <2>5 DEF FindOK, FindPlaces
    <2> QED BY <1>1, <1>3, <2>4, <2>5, <2>6, PlaceSettled
  <1> QED BY <1>1, <1>5, <1>6 DEF FindActiveRecord

LEMMA FindAgainSettled ==
    ASSUME IInv, NEW c \in Clients, FindActiveAgain(c), ServiceOnly
    PROVE  IInv'
  <1>1. PICK f : f = client[c]
    OBVIOUS
  <1>2. f.repo.at = "find_active_again" /\ CallOK(f, f.repo)
    BY <1>1, InCall DEF FindActiveAgain, at
  <1>3. FindOK(f.step, f.repo) /\ f.step \in {"grant", "disconnect"}
    BY <1>2 DEF CallOK, FindPlaces, FindOK
  <1>4. IndexMoved(c)
    BY <1>1, <1>2, <1>3 DEF FindOK, Stale, IndexMoved, call
  <1>5. Asked(f, f.repo.call, f.repo.start) /\ Retry(c)
    BY <1>3, <1>4 DEF FindOK, Asked, FindActiveAgain
  <1> QED BY <1>1, <1>3, <1>5, RetrySettled

(* list_by_user.                                                           *)
LEMMA ListIndexSettled ==
    ASSUME IInv, NEW c \in Clients, ListIndex(c), ServiceOnly
    PROVE  IInv'
  <1>1. PICK f, ids : /\ f = client[c]
                      /\ ids = {key[3] : key \in {k \in DOMAIN kv : /\ k[1] = "user"
                                                                    /\ k[2] = f.repo.call.user}}
    OBVIOUS
  <1>2. /\ NumbersOK /\ EntriesOK /\ StoredTogether(Held) /\ DOMAIN client = Clients
        /\ DOMAIN f = FrameShape /\ DOMAIN f.repo = RepoShape
        /\ f.repo.at = "list" /\ CallOK(f, f.repo)
    BY <1>1, InCall DEF ListIndex, at
  <1>3. ListOK(f.step, f.repo) /\ f.step = "prior"
    BY <1>2 DEF CallOK, ListPlaces, ListOK
  <1>4. \A id \in ids : connection_key(id) \in DOMAIN kv
    <2>1. DOMAIN Held = DOMAIN kv
      BY DEF Held
    <2>2. ASSUME NEW key \in DOMAIN kv, key[1] = "user" PROVE connection_key(key[3]) \in DOMAIN kv
      BY <1>2, <2>1, <2>2 DEF StoredTogether
    <2> QED BY <1>1, <2>2
  <1>5. PICK repo : repo = [f.repo EXCEPT !.at = "list_records", !.left = ids]
    OBVIOUS
  <1>6. CallBecomes(c, repo)
    <2>1. client' = [client EXCEPT ![c].repo.at = "list_records", ![c].repo.left = ids]
      BY <1>1 DEF ListIndex, call
    <2> QED BY <1>1, <1>2, <1>5, <2>1, GotoIs
  <1>7. /\ DOMAIN repo = RepoShape /\ repo.at = "list_records" /\ repo.found = f.repo.found
        /\ repo.left = ids /\ repo.reply = f.repo.reply
    BY <1>2, <1>5 DEF RepoShape
  <1>8. ListOK(f.step, repo) /\ repo.at \in ListPlaces
    BY <1>3, <1>4, <1>7 DEF ListOK, ListPlaces
  <1> QED BY <1>1, <1>3, <1>6, <1>7, <1>8, PlaceSettled

LEMMA ListRecordSettled ==
    ASSUME IInv, NEW c \in Clients, ListRecord(c), ServiceOnly
    PROVE  IInv'
  <1>1. PICK f : f = client[c]
    OBVIOUS
  <1>2. /\ NumbersOK /\ EntriesOK /\ StoredTogether(Held) /\ DOMAIN client = Clients
        /\ DOMAIN f = FrameShape /\ DOMAIN f.repo = RepoShape
        /\ f.repo.at = "list_records" /\ CallOK(f, f.repo)
    BY <1>1, InCall DEF ListRecord, at
  <1>3. ListOK(f.step, f.repo) /\ f.step = "prior"
    BY <1>2 DEF CallOK, ListPlaces, ListOK
  <1>4. CASE client' = [client EXCEPT ![c].repo =
                Answered([NoReply EXCEPT !.status = "ok", !.list = f.repo.found])]
    <2>1. PICK repo : repo = Answered([NoReply EXCEPT !.status = "ok", !.list = f.repo.found])
      OBVIOUS
    <2>2. /\ IsAnswer(repo) /\ repo.reply.status = "ok" /\ repo.reply.list = f.repo.found
          /\ repo.reply.credentials = None
      BY <2>1 DEF Answered, NoCall, NoReply, IsAnswer, RepoShape
    <2>3. ReplyOK(f, repo.reply)
      BY <1>3, <2>2 DEF ReplyOK, ListOK
    <2>4. CallOK(f, repo)
      BY <2>2, <2>3, GoodAnswer
    <2>5. CallBecomes(c, repo)
      BY <1>1, <1>2, <1>4, <2>1 DEF CallBecomes, Become
    <2> QED BY <1>1, <1>3, <2>2, <2>4, <2>5, ReadSettled DEF IsAnswer
  <1>5. ASSUME NEW id \in f.repo.left,
               present(get(connection_key(id))) =>
                  client' = [client EXCEPT ![c].repo.left = @ \ {id},
                                           ![c].repo.found = @ \cup {stored(connection_key(id))}],
               ~present(get(connection_key(id))) => Invalid(c)
        PROVE  IInv'
    <2>1. present(get(connection_key(id))) /\ Known(stored(connection_key(id)))
      BY <1>2, <1>3, <1>5, Reading, StoredKnown DEF ListOK, stored
    <2>2. PICK left, found : /\ left = f.repo.left \ {id}
                             /\ found = f.repo.found \cup {stored(connection_key(id))}
      OBVIOUS
    <2>3. client' = [client EXCEPT ![c].repo.left = left, ![c].repo.found = found]
      BY <1>1, <1>5, <2>1, <2>2
    <2>4. PICK repo : repo = [f.repo EXCEPT !.left = left, !.found = found]
      OBVIOUS
    <2>5. CallBecomes(c, repo)
      BY <1>1, <1>2, <2>3, <2>4, GotoIs
    <2>6. /\ DOMAIN repo = RepoShape /\ repo.at = "list_records" /\ repo.found = found
          /\ repo.left = left /\ repo.reply = f.repo.reply
      BY <1>2, <2>4 DEF RepoShape
    <2>7. ListOK(f.step, repo) /\ repo.at \in ListPlaces
      BY <1>3, <2>1, <2>2, <2>6 DEF ListOK, ListPlaces
    <2> QED BY <1>1, <1>3, <2>5, <2>6, <2>7, PlaceSettled
  <1> QED BY <1>1, <1>4, <1>5 DEF ListRecord

(* reauthorize.                                                            *)
LEMMA ReauthorizeReadSettled ==
    ASSUME IInv, NEW c \in Clients, ReauthorizeRead(c), ServiceOnly
    PROVE  IInv'
  <1>1. PICK f, asked, key, entry :
           /\ f = client[c] /\ asked = f.repo.call /\ key = connection_key(asked.id)
           /\ entry = get(key)
    OBVIOUS
  <1>2. /\ NumbersOK /\ EntriesOK /\ DOMAIN client = Clients
        /\ DOMAIN f = FrameShape /\ DOMAIN f.repo = RepoShape
        /\ f.repo.at = "reauthorize" /\ CallOK(f, f.repo)
    BY <1>1, InCall DEF ReauthorizeRead, at
  <1>3. ReauthorizeOK(f.step, f.repo) /\ f.step = "reauthorized"
    BY <1>2 DEF CallOK, ReauthorizePlaces, ReauthorizeOK
  <1>4. CASE \/ Answer(c, "not_found") \/ Answer(c, "provider_subject_mismatch")
             \/ Answer(c, "threw")
    BY <1>1, <1>3, <1>4, AnswerSettled
  <1>5. CASE /\ present(entry) /\ entry.val.user_id = asked.user
             /\ entry.val.provider_subject = asked.subject
             /\ asked.time >= entry.val.updated_at
             /\ client' = [client EXCEPT ![c].repo.at = "reauthorize_active",
                                         ![c].repo.entry = entry]
    <2>1. PICK repo : repo = [f.repo EXCEPT !.at = "reauthorize_active", !.entry = entry]
      OBVIOUS
    <2>2. CallBecomes(c, repo)
      BY <1>1, <1>2, <1>5, <2>1, GotoIs
    <2>3. /\ DOMAIN repo = RepoShape /\ repo.at = "reauthorize_active" /\ repo.call = asked
          /\ repo.start = f.repo.start /\ repo.reply = f.repo.reply /\ repo.entry = entry
      BY <1>1, <1>2, <2>1 DEF RepoShape
    <2>4. Seen(entry, key)
      BY <1>1, <1>2, <1>5, Reading
    <2>5. EntryOK(repo)
      BY <1>1, <1>5, <2>3, <2>4 DEF EntryOK
    <2>6. ReauthorizeOK(f.step, repo) /\ repo.at \in ReauthorizePlaces
      BY <1>1, <1>3, <1>5, <2>3, <2>5 DEF ReauthorizeOK, ReauthorizePlaces
    <2> QED BY <1>1, <1>3, <2>2, <2>3, <2>6, PlaceSettled
  <1> QED BY <1>1, <1>4, <1>5 DEF ReauthorizeRead, call

LEMMA ReauthorizeActiveSettled ==
    ASSUME IInv, NEW c \in Clients, ReauthorizeActive(c), ServiceOnly
    PROVE  IInv'
  <1>1. PICK f, asked, key, index :
           /\ f = client[c] /\ asked = f.repo.call /\ key = active_key(asked.user)
           /\ index = get(key)
    OBVIOUS
  <1>2. /\ NumbersOK /\ EntriesOK /\ DOMAIN client = Clients
        /\ DOMAIN f = FrameShape /\ DOMAIN f.repo = RepoShape
        /\ f.repo.at = "reauthorize_active" /\ CallOK(f, f.repo)
    BY <1>1, InCall DEF ReauthorizeActive, at
  <1>3. ReauthorizeOK(f.step, f.repo) /\ f.step = "reauthorized"
    BY <1>2 DEF CallOK, ReauthorizePlaces, ReauthorizeOK
  <1>4. CASE Answer(c, "active_connection_conflict")
    BY <1>1, <1>3, <1>4, AnswerSettled
  <1>5. CASE /\ ~(present(index) /\ index.val.connection_id # asked.id)
             /\ client' = [client EXCEPT ![c].repo.at = "reauthorize_commit",
                                         ![c].repo.index = index]
    <2>1. PICK repo : repo = [f.repo EXCEPT !.at = "reauthorize_commit", !.index = index]
      OBVIOUS
    <2>2. CallBecomes(c, repo)
      BY <1>1, <1>2, <1>5, <2>1, GotoIs
    <2>3. /\ DOMAIN repo = RepoShape /\ repo.at = "reauthorize_commit" /\ repo.call = asked
          /\ repo.start = f.repo.start /\ repo.reply = f.repo.reply
          /\ repo.entry = f.repo.entry /\ repo.index = index
      BY <1>1, <1>2, <2>1 DEF RepoShape
    <2>4. index = Absent \/ (Seen(index, key) /\ index.val.connection_id = asked.id)
      BY <1>1, <1>2, <1>5, Reading
    <2>5. EntryOK(repo) /\ repo.entry.val.provider_subject = asked.subject
      BY <1>1, <1>2, <1>3, <2>3 DEF ReauthorizeOK, EntryOK
    <2>6. ReauthorizeOK(f.step, repo) /\ repo.at \in ReauthorizePlaces
      BY <1>1, <1>3, <2>3, <2>4, <2>5 DEF ReauthorizeOK, ReauthorizePlaces
    <2> QED BY <1>1, <1>3, <2>2, <2>3, <2>6, PlaceSettled
  <1> QED BY <1>1, <1>4, <1>5 DEF ReauthorizeActive, call

(* revoke.                                                                 *)
RevokeSteps == {"undone", "disconnected", "refused", "refresh_refused"}

LEMMA RevokeReadSettled ==
    ASSUME IInv, NEW c \in Clients, RevokeRead(c), ServiceOnly
    PROVE  IInv'
  <1>1. PICK f, asked, key, entry :
           /\ f = client[c] /\ asked = f.repo.call /\ key = connection_key(asked.id)
           /\ entry = get(key)
    OBVIOUS
  <1>2. /\ NumbersOK /\ EntriesOK /\ DOMAIN client = Clients
        /\ DOMAIN f = FrameShape /\ DOMAIN f.repo = RepoShape
        /\ f.repo.at = "revoke" /\ CallOK(f, f.repo)
    BY <1>1, InCall DEF RevokeRead, at
  <1>3. RevokeOK(f.step, f.repo) /\ f.step \in RevokeSteps
    BY <1>2 DEF CallOK, RevokePlaces, RevokeOK, RevokeSteps
  <1>4. CASE Answer(c, "null") \/ Answer(c, "threw")
    BY <1>1, <1>3, <1>4, AnswerSettled DEF RevokeSteps
  <1>5. CASE AnswerConnection(c, entry.val)
    BY <1>1, <1>3, <1>5, ConnectionSettled DEF RevokeSteps
  <1>6. CASE /\ present(entry) /\ entry.val.user_id = asked.user /\ entry.val.status = "active"
             /\ asked.time >= entry.val.updated_at
             /\ client' = [client EXCEPT ![c].repo.at = "revoke_active", ![c].repo.entry = entry]
    <2>1. PICK repo : repo = [f.repo EXCEPT !.at = "revoke_active", !.entry = entry]
      OBVIOUS
    <2>2. CallBecomes(c, repo)
      BY <1>1, <1>2, <1>6, <2>1, GotoIs
    <2>3. /\ DOMAIN repo = RepoShape /\ repo.at = "revoke_active" /\ repo.call = asked
          /\ repo.start = f.repo.start /\ repo.reply = f.repo.reply /\ repo.entry = entry
      BY <1>1, <1>2, <2>1 DEF RepoShape
    <2>4. Seen(entry, key)
      BY <1>1, <1>2, <1>6, Reading
    <2>5. EntryOK(repo)
      BY <1>1, <1>6, <2>3, <2>4 DEF EntryOK
    <2>6. RevokeOK(f.step, repo) /\ repo.at \in RevokePlaces
      BY <1>1, <1>3, <1>6, <2>3, <2>5 DEF RevokeOK, RevokePlaces
    <2> QED BY <1>1, <1>3, <2>2, <2>3, <2>6, PlaceSettled DEF RevokeSteps
  <1> QED BY <1>1, <1>4, <1>5, <1>6 DEF RevokeRead, call

LEMMA RevokeActiveSettled ==
    ASSUME IInv, NEW c \in Clients, RevokeActive(c), ServiceOnly
    PROVE  IInv'
  <1>1. PICK f, asked, key, index, entry :
           /\ f = client[c] /\ asked = f.repo.call /\ key = active_key(asked.user)
           /\ index = get(key) /\ entry = f.repo.entry
    OBVIOUS
  <1>2. /\ NumbersOK /\ EntriesOK /\ DOMAIN client = Clients
        /\ DOMAIN f = FrameShape /\ DOMAIN f.repo = RepoShape
        /\ f.repo.at = "revoke_active" /\ CallOK(f, f.repo)
    BY <1>1, InCall DEF RevokeActive, at
  <1>3. RevokeOK(f.step, f.repo) /\ f.step \in RevokeSteps
    BY <1>2 DEF CallOK, RevokePlaces, RevokeOK, RevokeSteps
  <1>4. EntryOK(f.repo) /\ entry.val.status = "active"
    BY <1>1, <1>2, <1>3 DEF RevokeOK
  <1>5. CASE ~(present(index) /\ index.val.connection_id = asked.id) /\ Goto(c, "revoke_again")
    <2>1. PICK record : record = connection_key(asked.id) /\ Seen(entry, record)
      BY <1>1, <1>4 DEF EntryOK
    <2>2. ASSUME get(record).vs = entry.vs PROVE FALSE
      <3>1. record \in DOMAIN kv /\ Held[record] = entry.val
        BY <1>2, <2>1, <2>2, Current
      <3>2. get(record).val = entry.val
        BY <1>2, <3>1, Reading
      <3>3. /\ active_key(entry.val.user_id) \in DOMAIN kv
            /\ Held[active_key(entry.val.user_id)].connection_id = asked.id
        BY <1>2, <1>4, <2>1, <3>1, <3>2, StoredKnown
      <3>4. key \in DOMAIN kv /\ Held[key].connection_id = asked.id
        BY <1>1, <1>4, <3>3 DEF EntryOK
      <3> QED BY <1>1, <1>2, <1>5, <3>4, Reading
    <2>3. Stale(entry, record)
      BY <2>1, <2>2 DEF Seen, Stale
    <2>4. PICK repo : repo = [f.repo EXCEPT !.at = "revoke_again"]
      OBVIOUS
    <2>5. CallBecomes(c, repo)
      BY <1>1, <1>2, <1>5, <2>4, GotoIs
    <2>6. /\ DOMAIN repo = RepoShape /\ repo.at = "revoke_again" /\ repo.call = asked
          /\ repo.start = f.repo.start /\ repo.reply = f.repo.reply /\ repo.entry = entry
      BY <1>1, <1>2, <2>4 DEF RepoShape
    <2>7. EntryOK(repo)
      BY <1>1, <1>4, <2>6 DEF EntryOK
    <2>8. RevokeOK(f.step, repo) /\ repo.at \in RevokePlaces
      BY <1>1, <1>3, <1>4, <2>1, <2>3, <2>6, <2>7 DEF RevokeOK, RevokePlaces
    <2> QED BY <1>1, <1>3, <2>5, <2>6, <2>8, PlaceSettled DEF RevokeSteps
  <1>6. CASE /\ present(index) /\ index.val.connection_id = asked.id
             /\ client' = [client EXCEPT ![c].repo.at = "revoke_commit", ![c].repo.index = index]
    <2>1. PICK repo : repo = [f.repo EXCEPT !.at = "revoke_commit", !.index = index]
      OBVIOUS
    <2>2. CallBecomes(c, repo)
      BY <1>1, <1>2, <1>6, <2>1, GotoIs
    <2>3. /\ DOMAIN repo = RepoShape /\ repo.at = "revoke_commit" /\ repo.call = asked
          /\ repo.start = f.repo.start /\ repo.reply = f.repo.reply /\ repo.entry = entry
          /\ repo.index = index
      BY <1>1, <1>2, <2>1 DEF RepoShape
    <2>4. Seen(index, key)
      BY <1>1, <1>2, <1>6, Reading
    <2>5. EntryOK(repo)
      BY <1>1, <1>4, <2>3 DEF EntryOK
    <2>6. RevokeOK(f.step, repo) /\ repo.at \in RevokePlaces
      BY <1>1, <1>3, <1>4, <1>6, <2>3, <2>4, <2>5 DEF RevokeOK, RevokePlaces
    <2> QED BY <1>1, <1>3, <2>2, <2>3, <2>6, PlaceSettled DEF RevokeSteps
  <1> QED BY <1>1, <1>5, <1>6 DEF RevokeActive, call

LEMMA RevokeAgainSettled ==
    ASSUME IInv, NEW c \in Clients, RevokeAgain(c), ServiceOnly
    PROVE  IInv'
  <1>1. PICK f : f = client[c]
    OBVIOUS
  <1>2. f.repo.at = "revoke_again" /\ CallOK(f, f.repo)
    BY <1>1, InCall DEF RevokeAgain, at
  <1>3. RevokeOK(f.step, f.repo) /\ f.step \in RevokeSteps
    BY <1>2 DEF CallOK, RevokePlaces, RevokeOK, RevokeSteps
  <1>4. get(connection_key(f.repo.call.id)).vs # f.repo.entry.vs
    BY <1>2, <1>3 DEF RevokeOK, Stale
  <1>5. Asked(f, f.repo.call, f.repo.start) /\ Retry(c)
    BY <1>1, <1>3, <1>4 DEF RevokeOK, Asked, RevokeAgain, call
  <1> QED BY <1>1, <1>3, <1>5, RetrySettled DEF RevokeSteps

(* get_credentials and put_credentials.                                    *)

(* Tokens are stored for an active connection, and are of its account. *)
LEMMA StoredTokens ==
    ASSUME NumbersOK, EntriesOK, NEW id, credentials_key(id) \in DOMAIN kv,
           NEW credentials, credentials = get(credentials_key(id)).val
    PROVE  /\ Fits(credentials, id) /\ connection_key(id) \in DOMAIN kv
           /\ Held[connection_key(id)].status = "active" /\ credentials \in OAuthCredentials
  <1>1. PICK key : key = credentials_key(id) /\ key[1] = "credentials" /\ key[2] = id
    BY KeyParts
  <1>2. DOMAIN Held = DOMAIN kv /\ Held[key] = credentials
    BY <1>1, Reading DEF Held
  <1>3. Fits(credentials, id)
    BY <1>1, <1>2 DEF EntriesOK
  <1>4. connection_key(id) \in DOMAIN kv /\ Held[connection_key(id)].status = "active"
    BY <1>1, <1>2 DEF EntriesOK, StoredTogether
  <1> QED BY <1>3, <1>4 DEF Fits, Owned

LEMMA GetCredentialsSettled ==
    ASSUME IInv, NEW c \in Clients, GetCredentials(c), ServiceOnly
    PROVE  IInv'
  <1>1. PICK f, id, entry, kept :
           /\ f = client[c] /\ id = f.repo.call.id /\ entry = get(connection_key(id))
           /\ kept = get(credentials_key(id))
    OBVIOUS
  <1>2. /\ NumbersOK /\ EntriesOK /\ f.repo.at = "get_credentials" /\ CallOK(f, f.repo)
    BY <1>1, InCall DEF GetCredentials, at
  <1>3. /\ f.step \in {"previous", "disconnect_credentials", "credentials", "reread"}
        /\ IsAskedFor(f, id)
    BY <1>1, <1>2 DEF CallOK, GetOK
  <1>4. present(kept) => /\ Fits(kept.val, id) /\ present(entry) /\ entry.val.status = "active"
    BY <1>1, <1>2, Reading, StoredTokens
  <1>5. kept.val # None => Fits(kept.val, id)
    BY <1>1, <1>2, <1>4, Reading DEF Absent
  <1>6. CASE AnswerCredentials(c, None)
    BY <1>1, <1>3, <1>6, CredentialsSettled
  <1>7. CASE AnswerCredentials(c, kept.val)
    BY <1>1, <1>3, <1>5, <1>7, CredentialsSettled
  <1> QED BY <1>1, <1>4, <1>6, <1>7 DEF GetCredentials, call

LEMMA PutReadSettled ==
    ASSUME IInv, NEW c \in Clients, PutRead(c), ServiceOnly
    PROVE  IInv'
  <1>1. PICK f, asked, key, entry :
           /\ f = client[c] /\ asked = f.repo.call /\ key = connection_key(asked.id)
           /\ entry = get(key)
    OBVIOUS
  <1>2. /\ NumbersOK /\ EntriesOK /\ DOMAIN client = Clients
        /\ DOMAIN f = FrameShape /\ DOMAIN f.repo = RepoShape
        /\ f.repo.at = "put_credentials" /\ CallOK(f, f.repo)
    BY <1>1, InCall DEF PutRead, at
  <1>3. PutOK(f.step, f.repo) /\ f.step \in {"put", "refresh_stored"}
    BY <1>2 DEF CallOK, PutPlaces, PutOK
  <1>4. CASE Answer(c, "false")
    BY <1>1, <1>3, <1>4, AnswerSettled
  <1>5. CASE /\ present(entry) /\ entry.val.status = "active"
             /\ client' = [client EXCEPT ![c].repo.at = "put_commit", ![c].repo.entry = entry]
    <2>1. PICK repo : repo = [f.repo EXCEPT !.at = "put_commit", !.entry = entry]
      OBVIOUS
    <2>2. CallBecomes(c, repo)
      BY <1>1, <1>2, <1>5, <2>1, GotoIs
    <2>3. /\ DOMAIN repo = RepoShape /\ repo.at = "put_commit" /\ repo.call = asked
          /\ repo.start = f.repo.start /\ repo.reply = f.repo.reply /\ repo.entry = entry
      BY <1>1, <1>2, <2>1 DEF RepoShape
    <2>4. Seen(entry, key)
      BY <1>1, <1>2, <1>5, Reading
    <2>5. PutOK(f.step, repo) /\ repo.at \in PutPlaces
      BY <1>1, <1>3, <1>5, <2>3, <2>4 DEF PutOK, PutPlaces
    <2> QED BY <1>1, <1>3, <2>2, <2>3, <2>5, PlaceSettled
  <1> QED BY <1>1, <1>4, <1>5 DEF PutRead, call

(* consume.                                                                *)
LEMMA ConsumeReadSettled ==
    ASSUME IInv, NEW c \in Clients, ConsumeRead(c), ServiceOnly
    PROVE  IInv'
  <1>1. PICK f, asked, key, entry :
           /\ f = client[c] /\ asked = f.repo.call /\ key = attempt_key(asked.state)
           /\ entry = get(key)
    OBVIOUS
  <1>2. /\ NumbersOK /\ EntriesOK /\ DOMAIN client = Clients
        /\ DOMAIN f = FrameShape /\ DOMAIN f.repo = RepoShape
        /\ f.repo.at = "consume" /\ CallOK(f, f.repo)
    BY <1>1, InCall DEF ConsumeRead, at
  <1>3. ConsumeOK(f, f.repo) /\ f.step = "consume"
    BY <1>2 DEF CallOK, ConsumePlaces, ConsumeOK
  <1>4. CASE Answer(c, "null")
    BY <1>1, <1>3, <1>4, AnswerSettled
  <1>5. CASE /\ present(entry)
             /\ client' = [client EXCEPT ![c].repo.at = "consume_commit", ![c].repo.entry = entry]
    <2>1. PICK repo : repo = [f.repo EXCEPT !.at = "consume_commit", !.entry = entry]
      OBVIOUS
    <2>2. CallBecomes(c, repo)
      BY <1>1, <1>2, <1>5, <2>1, GotoIs
    <2>3. /\ DOMAIN repo = RepoShape /\ repo.at = "consume_commit" /\ repo.call = asked
          /\ repo.start = f.repo.start /\ repo.reply = f.repo.reply /\ repo.entry = entry
      BY <1>1, <1>2, <2>1 DEF RepoShape
    <2>4. Seen(entry, key)
      BY <1>1, <1>2, <1>5, Reading
    <2>5. ConsumeOK(f, repo) /\ repo.at \in ConsumePlaces
      BY <1>1, <1>3, <2>3, <2>4 DEF ConsumeOK, ConsumePlaces
    <2> QED BY <1>1, <1>3, <2>2, <2>3, <2>5, PlaceSettled
  <1> QED BY <1>1, <1>4, <1>5 DEF ConsumeRead, call

(* A commit that finds its entries changed.                                *)
LEMMA MissedSettled ==
    ASSUME IInv, NEW c \in Clients, Retry(c), ServiceOnly,
           client[c].repo.at \in {"create_commit", "reauthorize_commit", "revoke_commit",
                                  "put_commit", "consume_commit"}
    PROVE  IInv'
  <1>1. PICK f : f = client[c]
    OBVIOUS
  <1>2. CallOK(f, f.repo)
    BY <1>1, InCall
  <1>3. Asked(f, f.repo.call, f.repo.start) /\ f.step \notin {"exchange", "start"}
    <2> USE <1>1, <1>2 DEF CallOK, Asked
    <2>1. CASE f.repo.at = "create_commit"
      BY <2>1 DEF CreatePlaces, CreateOK
    <2>2. CASE f.repo.at = "reauthorize_commit"
      BY <2>2 DEF ReauthorizePlaces, ReauthorizeOK
    <2>3. CASE f.repo.at = "revoke_commit"
      BY <2>3 DEF RevokePlaces, RevokeOK
    <2>4. CASE f.repo.at = "put_commit"
      BY <2>4 DEF PutPlaces, PutOK
    <2>5. CASE f.repo.at = "consume_commit"
      BY <2>5 DEF ConsumePlaces, ConsumeOK
    <2> QED BY <2>1, <2>2, <2>3, <2>4, <2>5
  <1> QED BY <1>1, <1>3, RetrySettled

-----------------------------------------------------------------------------
(* What the commits leave stored, on maps from keys to values.             *)
LEMMA SingleMade ==
    ASSUME NEW k, NEW v, NEW single, single = Single(k, v)
    PROVE  DOMAIN single = {k} /\ single[k] = v
  BY DEF Single

ConnectionsTogether(m) ==
    \A key \in DOMAIN m : key[1] = "connection" =>
        /\ key = connection_key(m[key].connection_id)
        /\ m[key] \in StorageConnection /\ m[key].created_at <= m[key].updated_at
        /\ m[key].status = "active" =>
              /\ active_key(m[key].user_id) \in DOMAIN m
              /\ m[active_key(m[key].user_id)].connection_id = m[key].connection_id

ActiveTogether(m) ==
    \A key \in DOMAIN m : key[1] = "active" =>
        /\ connection_key(m[key].connection_id) \in DOMAIN m
        /\ m[connection_key(m[key].connection_id)].status = "active"
        /\ key = active_key(m[connection_key(m[key].connection_id)].user_id)

UsersTogether(m) ==
    \A key \in DOMAIN m : key[1] = "user" => connection_key(key[3]) \in DOMAIN m

TokensTogether(m) ==
    \A key \in DOMAIN m : key[1] = "credentials" =>
        /\ key = credentials_key(key[2]) /\ m[key] \in OAuthCredentials
        /\ connection_key(key[2]) \in DOMAIN m
        /\ m[connection_key(key[2])].status = "active"

LEMMA TogetherParts ==
    ASSUME NEW m
    PROVE  StoredTogether(m) <=> /\ ConnectionsTogether(m) /\ ActiveTogether(m)
                                 /\ UsersTogether(m) /\ TokensTogether(m)
  BY DEF StoredTogether, ConnectionsTogether, ActiveTogether, UsersTogether, TokensTogether

(* A new connection, with its pointers. *)
Creates(m, n, connection) ==
    LET id == connection.connection_id
        entries == {connection_key(id), active_key(connection.user_id),
                    user_key(connection.user_id, id)}
    IN
    /\ connection \in StorageConnection /\ connection.status = "active"
    /\ connection.created_at = connection.updated_at
    /\ entries \cap DOMAIN m = {} /\ DOMAIN n = entries \cup DOMAIN m
    /\ n[connection_key(id)] = connection
    /\ n[active_key(connection.user_id)].connection_id = id
    /\ \A key \in DOMAIN m : n[key] = m[key]

LEMMA CreateTogether ==
    ASSUME NEW m, StoredTogether(m), NEW n, NEW connection, Creates(m, n, connection)
    PROVE  StoredTogether(n)
  <1>1. /\ ConnectionsTogether(m) /\ ActiveTogether(m) /\ UsersTogether(m) /\ TokensTogether(m)
        /\ connection.updated_at \in Nat
    BY TogetherParts DEF Creates, StorageConnection
  <1>2. PICK record, active, pointer :
           /\ record = connection_key(connection.connection_id)
           /\ active = active_key(connection.user_id)
           /\ pointer = user_key(connection.user_id, connection.connection_id)
           /\ record[1] = "connection" /\ record[2] = connection.connection_id
           /\ active[1] = "active" /\ active[2] = connection.user_id
           /\ pointer[1] = "user" /\ pointer[3] = connection.connection_id
    BY KeyParts
  <1> USE <1>2 DEF Creates
  <1>3. ConnectionsTogether(n)
    <2> SUFFICES ASSUME NEW key \in DOMAIN n, key[1] = "connection"
                 PROVE  /\ key = connection_key(n[key].connection_id)
                        /\ n[key] \in StorageConnection /\ n[key].created_at <= n[key].updated_at
                        /\ n[key].status = "active" =>
                              /\ active_key(n[key].user_id) \in DOMAIN n
                              /\ n[active_key(n[key].user_id)].connection_id = n[key].connection_id
      BY DEF ConnectionsTogether
    <2>1. CASE key = record
      BY <1>1, <2>1
    <2>2. CASE key # record
      <3>1. key \in DOMAIN m /\ n[key] = m[key]
        BY <1>2, <2>2
      <3>2. /\ key = connection_key(m[key].connection_id)
            /\ m[key] \in StorageConnection /\ m[key].created_at <= m[key].updated_at
            /\ m[key].status = "active" =>
                  /\ active_key(m[key].user_id) \in DOMAIN m
                  /\ m[active_key(m[key].user_id)].connection_id = m[key].connection_id
        BY <1>1, <3>1 DEF ConnectionsTogether
      <3>3. active_key(m[key].user_id)[1] = "active"
        BY KeyParts
      <3> QED BY <1>2, <3>1, <3>2, <3>3
    <2> QED BY <2>1, <2>2
  <1>4. ActiveTogether(n)
    <2> SUFFICES ASSUME NEW key \in DOMAIN n, key[1] = "active"
                 PROVE  /\ connection_key(n[key].connection_id) \in DOMAIN n
                        /\ n[connection_key(n[key].connection_id)].status = "active"
                        /\ key = active_key(n[connection_key(n[key].connection_id)].user_id)
      BY DEF ActiveTogether
    <2>1. CASE key = active
      BY <2>1
    <2>2. CASE key # active
      <3>1. key \in DOMAIN m /\ n[key] = m[key]
        BY <1>2, <2>2
      <3>2. PICK own : /\ own = connection_key(m[key].connection_id) /\ own[1] = "connection"
                       /\ own \in DOMAIN m /\ m[own].status = "active"
                       /\ key = active_key(m[own].user_id)
        BY <1>1, <3>1, KeyParts DEF ActiveTogether
      <3>3. n[own] = m[own]
        BY <1>2, <3>2
      <3> QED BY <3>1, <3>2, <3>3
    <2> QED BY <2>1, <2>2
  <1>5. UsersTogether(n)
    BY <1>1, <1>2 DEF UsersTogether
  <1>6. TokensTogether(n)
    <2> SUFFICES ASSUME NEW key \in DOMAIN n, key[1] = "credentials"
                 PROVE  /\ key = credentials_key(key[2]) /\ n[key] \in OAuthCredentials
                        /\ connection_key(key[2]) \in DOMAIN n
                        /\ n[connection_key(key[2])].status = "active"
      BY DEF TokensTogether
    <2>1. key \in DOMAIN m /\ n[key] = m[key]
      BY <1>2
    <2>2. PICK own : own = connection_key(key[2]) /\ own[1] = "connection"
      BY KeyParts
    <2>3. /\ key = credentials_key(key[2]) /\ m[key] \in OAuthCredentials
          /\ own \in DOMAIN m /\ m[own].status = "active"
      BY <1>1, <2>1, <2>2 DEF TokensTogether
    <2>4. n[own] = m[own]
      BY <1>2, <2>2, <2>3
    <2> QED BY <2>1, <2>2, <2>3, <2>4
  <1> QED BY <1>3, <1>4, <1>5, <1>6, TogetherParts

(* A connection that gets another status, or a later time. *)
Altered(new, old) ==
    /\ new \in StorageConnection /\ new.created_at <= new.updated_at
    /\ new.connection_id = old.connection_id /\ new.user_id = old.user_id
    /\ new.provider_subject = old.provider_subject

(* A connection made active again, with new tokens. *)
Reauthorizes(m, n, id, connection, granted) ==
    LET pointer == active_key(connection.user_id)
        entries == {connection_key(id), pointer, credentials_key(id)}
    IN
    /\ connection_key(id) \in DOMAIN m /\ Altered(connection, m[connection_key(id)])
    /\ connection.status = "active" /\ granted \in OAuthCredentials
    /\ pointer \in DOMAIN m => m[pointer].connection_id = id
    /\ DOMAIN n = entries \cup DOMAIN m
    /\ n[connection_key(id)] = connection /\ n[pointer].connection_id = id
    /\ n[credentials_key(id)] = granted
    /\ \A key \in DOMAIN m : key \notin entries => n[key] = m[key]

LEMMA ReauthorizeTogether ==
    ASSUME NEW m, StoredTogether(m), NEW n, NEW id, NEW connection, NEW granted,
           Reauthorizes(m, n, id, connection, granted)
    PROVE  StoredTogether(n)
  <1>1. /\ ConnectionsTogether(m) /\ ActiveTogether(m) /\ UsersTogether(m) /\ TokensTogether(m)
    BY TogetherParts
  <1>2. PICK record, active, tokens :
           /\ record = connection_key(id) /\ active = active_key(connection.user_id)
           /\ tokens = credentials_key(id)
           /\ record[1] = "connection" /\ record[2] = id
           /\ active[1] = "active" /\ active[2] = connection.user_id
           /\ tokens[1] = "credentials" /\ tokens[2] = id
    BY KeyParts
  <1> USE <1>2 DEF Reauthorizes
  <1>3. connection.connection_id = id
    BY <1>1, <1>2, KeyParts DEF ConnectionsTogether, Altered
  <1>4. ConnectionsTogether(n)
    <2> SUFFICES ASSUME NEW key \in DOMAIN n, key[1] = "connection"
                 PROVE  /\ key = connection_key(n[key].connection_id)
                        /\ n[key] \in StorageConnection /\ n[key].created_at <= n[key].updated_at
                        /\ n[key].status = "active" =>
                              /\ active_key(n[key].user_id) \in DOMAIN n
                              /\ n[active_key(n[key].user_id)].connection_id = n[key].connection_id
      BY DEF ConnectionsTogether
    <2>1. CASE key = record
      BY <1>3, <2>1 DEF Altered
    <2>2. CASE key # record
      <3>1. key \in DOMAIN m /\ n[key] = m[key]
        BY <1>2, <2>2
      <3>2. PICK pointer : pointer = active_key(m[key].user_id) /\ pointer[1] = "active"
        BY KeyParts
      <3>3. /\ key = connection_key(m[key].connection_id)
            /\ m[key] \in StorageConnection /\ m[key].created_at <= m[key].updated_at
            /\ m[key].status = "active" =>
                  pointer \in DOMAIN m /\ m[pointer].connection_id = m[key].connection_id
        BY <1>1, <3>1, <3>2 DEF ConnectionsTogether
      <3>4. m[key].connection_id # id
        BY <2>2, <3>3
      <3>5. m[key].status = "active" => pointer # active /\ n[pointer] = m[pointer]
        BY <1>2, <3>2, <3>3, <3>4
      <3> QED BY <3>1, <3>2, <3>3, <3>5
    <2> QED BY <2>1, <2>2
  <1>5. ActiveTogether(n)
    <2> SUFFICES ASSUME NEW key \in DOMAIN n, key[1] = "active"
                 PROVE  /\ connection_key(n[key].connection_id) \in DOMAIN n
                        /\ n[connection_key(n[key].connection_id)].status = "active"
                        /\ key = active_key(n[connection_key(n[key].connection_id)].user_id)
      BY DEF ActiveTogether
    <2>1. CASE key = active
      BY <2>1
    <2>2. CASE key # active
      <3>1. key \in DOMAIN m /\ n[key] = m[key]
        BY <1>2, <2>2
      <3>2. PICK own : /\ own = connection_key(m[key].connection_id) /\ own[1] = "connection"
                       /\ own \in DOMAIN m /\ m[own].status = "active"
                       /\ key = active_key(m[own].user_id)
        BY <1>1, <3>1, KeyParts DEF ActiveTogether
      <3>3. own # record
        BY <2>2, <3>2 DEF Altered
      <3>4. n[own] = m[own]
        BY <1>2, <3>2, <3>3
      <3> QED BY <3>1, <3>2, <3>4
    <2> QED BY <2>1, <2>2
  <1>6. UsersTogether(n)
    BY <1>1, <1>2 DEF UsersTogether
  <1>7. TokensTogether(n)
    <2> SUFFICES ASSUME NEW key \in DOMAIN n, key[1] = "credentials"
                 PROVE  /\ key = credentials_key(key[2]) /\ n[key] \in OAuthCredentials
                        /\ connection_key(key[2]) \in DOMAIN n
                        /\ n[connection_key(key[2])].status = "active"
      BY DEF TokensTogether
    <2>1. CASE key = tokens
      BY <1>2, <2>1
    <2>2. CASE key # tokens
      <3>1. key \in DOMAIN m /\ n[key] = m[key]
        BY <1>2, <2>2
      <3>2. PICK own : own = connection_key(key[2]) /\ own[1] = "connection"
        BY KeyParts
      <3>3. /\ key = credentials_key(key[2]) /\ m[key] \in OAuthCredentials
            /\ own \in DOMAIN m /\ m[own].status = "active"
        BY <1>1, <3>1, <3>2 DEF TokensTogether
      <3>4. n[own].status = "active"
        BY <1>2, <3>2, <3>3
      <3> QED BY <3>1, <3>2, <3>3, <3>4
    <2> QED BY <2>1, <2>2
  <1> QED BY <1>4, <1>5, <1>6, <1>7, TogetherParts

(* A connection revoked, its pointer and its tokens deleted. *)
Revokes(m, n, id, connection) ==
    LET pointer == active_key(connection.user_id) IN
    /\ connection_key(id) \in DOMAIN m /\ m[connection_key(id)].status = "active"
    /\ Altered(connection, m[connection_key(id)]) /\ connection.status = "revoked"
    /\ DOMAIN n = DOMAIN m \ {pointer, credentials_key(id)}
    /\ n[connection_key(id)] = connection
    /\ \A key \in DOMAIN n : key # connection_key(id) => n[key] = m[key]

LEMMA RevokeTogether ==
    ASSUME NEW m, StoredTogether(m), NEW n, NEW id, NEW connection, Revokes(m, n, id, connection)
    PROVE  StoredTogether(n)
  <1>1. /\ ConnectionsTogether(m) /\ ActiveTogether(m) /\ UsersTogether(m) /\ TokensTogether(m)
    BY TogetherParts
  <1>2. PICK record, active, tokens :
           /\ record = connection_key(id) /\ active = active_key(connection.user_id)
           /\ tokens = credentials_key(id)
           /\ record[1] = "connection" /\ record[2] = id
           /\ active[1] = "active" /\ active[2] = connection.user_id
           /\ tokens[1] = "credentials" /\ tokens[2] = id
    BY KeyParts
  <1> USE <1>2 DEF Revokes
  <1>3. connection.connection_id = id /\ m[active].connection_id = id
    BY <1>1, <1>2, KeyParts DEF ConnectionsTogether, Altered
  <1>4. ConnectionsTogether(n)
    <2> SUFFICES ASSUME NEW key \in DOMAIN n, key[1] = "connection"
                 PROVE  /\ key = connection_key(n[key].connection_id)
                        /\ n[key] \in StorageConnection /\ n[key].created_at <= n[key].updated_at
                        /\ n[key].status = "active" =>
                              /\ active_key(n[key].user_id) \in DOMAIN n
                              /\ n[active_key(n[key].user_id)].connection_id = n[key].connection_id
      BY DEF ConnectionsTogether
    <2>1. CASE key = record
      BY <1>3, <2>1 DEF Altered
    <2>2. CASE key # record
      <3>1. key \in DOMAIN m /\ n[key] = m[key]
        BY <2>2
      <3>2. PICK pointer : pointer = active_key(m[key].user_id) /\ pointer[1] = "active"
        BY KeyParts
      <3>3. /\ key = connection_key(m[key].connection_id)
            /\ m[key] \in StorageConnection /\ m[key].created_at <= m[key].updated_at
            /\ m[key].status = "active" =>
                  pointer \in DOMAIN m /\ m[pointer].connection_id = m[key].connection_id
        BY <1>1, <3>1, <3>2 DEF ConnectionsTogether
      <3>4. m[key].connection_id # id
        BY <2>2, <3>3
      <3>5. m[key].status = "active" => pointer \in DOMAIN n /\ n[pointer] = m[pointer]
        BY <1>2, <1>3, <3>2, <3>3, <3>4
      <3> QED BY <3>1, <3>2, <3>3, <3>5
    <2> QED BY <2>1, <2>2
  <1>5. ActiveTogether(n)
    <2> SUFFICES ASSUME NEW key \in DOMAIN n, key[1] = "active"
                 PROVE  /\ connection_key(n[key].connection_id) \in DOMAIN n
                        /\ n[connection_key(n[key].connection_id)].status = "active"
                        /\ key = active_key(n[connection_key(n[key].connection_id)].user_id)
      BY DEF ActiveTogether
    <2>1. key \in DOMAIN m /\ n[key] = m[key] /\ key # active
      BY <1>2
    <2>2. PICK own : /\ own = connection_key(m[key].connection_id) /\ own[1] = "connection"
                     /\ own \in DOMAIN m /\ m[own].status = "active"
                     /\ key = active_key(m[own].user_id)
      BY <1>1, <2>1, KeyParts DEF ActiveTogether
    <2>3. own # record
      BY <2>1, <2>2 DEF Altered
    <2>4. own \in DOMAIN n /\ n[own] = m[own]
      BY <1>2, <2>2, <2>3
    <2> QED BY <2>1, <2>2, <2>4
  <1>6. UsersTogether(n)
    <2> SUFFICES ASSUME NEW key \in DOMAIN n, key[1] = "user"
                 PROVE  connection_key(key[3]) \in DOMAIN n
      BY DEF UsersTogether
    <2>1. connection_key(key[3]) \in DOMAIN m /\ connection_key(key[3])[1] = "connection"
      BY <1>1, KeyParts DEF UsersTogether
    <2> QED BY <1>2, <2>1
  <1>7. TokensTogether(n)
    <2> SUFFICES ASSUME NEW key \in DOMAIN n, key[1] = "credentials"
                 PROVE  /\ key = credentials_key(key[2]) /\ n[key] \in OAuthCredentials
                        /\ connection_key(key[2]) \in DOMAIN n
                        /\ n[connection_key(key[2])].status = "active"
      BY DEF TokensTogether
    <2>1. key \in DOMAIN m /\ n[key] = m[key] /\ key # tokens
      BY <1>2
    <2>2. PICK own : own = connection_key(key[2]) /\ own[1] = "connection" /\ own[2] = key[2]
      BY KeyParts
    <2>3. /\ key = credentials_key(key[2]) /\ m[key] \in OAuthCredentials
          /\ own \in DOMAIN m /\ m[own].status = "active"
      BY <1>1, <2>1, <2>2 DEF TokensTogether
    <2>4. own # record
      BY <1>2, <2>1, <2>2, <2>3
    <2>5. own \in DOMAIN n /\ n[own] = m[own]
      BY <1>2, <2>2, <2>3, <2>4
    <2> QED BY <2>1, <2>2, <2>3, <2>5
  <1> QED BY <1>4, <1>5, <1>6, <1>7, TogetherParts

(* Tokens of an active connection. *)
Puts(m, n, id, granted) ==
    /\ connection_key(id) \in DOMAIN m /\ m[connection_key(id)].status = "active"
    /\ granted \in OAuthCredentials
    /\ DOMAIN n = {credentials_key(id)} \cup DOMAIN m /\ n[credentials_key(id)] = granted
    /\ \A key \in DOMAIN m : key # credentials_key(id) => n[key] = m[key]

LEMMA PutTogether ==
    ASSUME NEW m, StoredTogether(m), NEW n, NEW id, NEW granted, Puts(m, n, id, granted)
    PROVE  StoredTogether(n)
  <1>1. /\ ConnectionsTogether(m) /\ ActiveTogether(m) /\ UsersTogether(m) /\ TokensTogether(m)
    BY TogetherParts
  <1>2. PICK tokens : tokens = credentials_key(id) /\ tokens[1] = "credentials" /\ tokens[2] = id
    BY KeyParts
  <1> USE <1>2 DEF Puts
  <1>3. /\ \A i : connection_key(i)[1] = "connection"
        /\ \A i : active_key(i)[1] = "active"
    BY KeyParts
  <1>4. ConnectionsTogether(n)
    BY <1>1, <1>2, <1>3 DEF ConnectionsTogether
  <1>5. ActiveTogether(n)
    BY <1>1, <1>2, <1>3 DEF ActiveTogether
  <1>6. UsersTogether(n)
    BY <1>1, <1>2 DEF UsersTogether
  <1>7. TokensTogether(n)
    BY <1>1, <1>2, <1>3 DEF TokensTogether
  <1> QED BY <1>4, <1>5, <1>6, <1>7, TogetherParts

(* Attempts are apart from connections. *)
LEMMA AttemptTogether ==
    ASSUME NEW m, StoredTogether(m), NEW n, NEW attempt, attempt[1] = "attempt",
           DOMAIN n \ {attempt} = DOMAIN m \ {attempt},
           \A key \in DOMAIN m \ {attempt} : n[key] = m[key]
    PROVE  StoredTogether(n)
  <1>1. /\ ConnectionsTogether(m) /\ ActiveTogether(m) /\ UsersTogether(m) /\ TokensTogether(m)
    BY TogetherParts
  <1>2. /\ \A i : connection_key(i)[1] = "connection"
        /\ \A i : active_key(i)[1] = "active"
    BY KeyParts
  <1>3. \A key \in DOMAIN n : key[1] # "attempt" => key \in DOMAIN m /\ n[key] = m[key]
    OBVIOUS
  <1>4. \A key \in DOMAIN m : key[1] # "attempt" => key \in DOMAIN n /\ n[key] = m[key]
    OBVIOUS
  <1>5. ConnectionsTogether(n)
    BY <1>1, <1>2, <1>3, <1>4 DEF ConnectionsTogether
  <1>6. ActiveTogether(n)
    BY <1>1, <1>2, <1>3, <1>4 DEF ActiveTogether
  <1>7. UsersTogether(n)
    BY <1>1, <1>2, <1>3, <1>4 DEF UsersTogether
  <1>8. TokensTogether(n)
    BY <1>1, <1>2, <1>3, <1>4 DEF TokensTogether
  <1> QED BY <1>5, <1>6, <1>7, <1>8, TogetherParts

-----------------------------------------------------------------------------
(* The commits.                                                            *)
Elsewhere == UNCHANGED <<now, process, requests, ticks, grants, issued, withdrawals, exchanged>>

LEMMA WriteAdvances ==
    ASSUME NumbersOK, EntriesOK, NEW written, NEW removed, Write(written, removed), Elsewhere,
           StoredTogether(Held)', ConnectionsKept,
           \A key \in DOMAIN written : key[1] = "credentials" => Fits(written[key], key[2])
    PROVE  Advance /\ EntriesOK' /\ NumbersOK'
  <1>1. StampsGrow
    BY WriteStamps
  <1>2. GrantsKept
    BY DEF Elsewhere, GrantsKept
  <1>3. ASSUME NEW key, key \in DOMAIN kv', key[1] = "credentials" PROVE Fits(Held[key], key[2])'
    <2>1. PICK credentials, id : credentials = Held'[key] /\ id = key[2]
      OBVIOUS
    <2>2. /\ DOMAIN Held' = DOMAIN kv' /\ DOMAIN Held = DOMAIN kv
          /\ DOMAIN Held' = DOMAIN written \cup (DOMAIN Held \ removed)
          /\ \A k \in DOMAIN Held' :
                Held'[k] = IF k \in DOMAIN written THEN written[k] ELSE Held[k]
      BY WriteHeld DEF Held
    <2>3. Fits(credentials, id)
      BY <1>3, <2>1, <2>2 DEF EntriesOK
    <2>4. Fits(credentials, id)'
      BY <1>2, <2>3, FitsStays
    <2> QED BY <2>1, <2>4 DEF Fits, Owned
  <1>4. EntriesOK'
    BY <1>1, <1>3 DEF EntriesOK, StampsGrow
  <1>5. NumbersOK'
    BY <1>1 DEF NumbersOK, StampsGrow, Elsewhere
  <1> QED BY <1>1, <1>2, <1>4, <1>5 DEF Advance, NumbersOK, Elsewhere

(* The client has the answer of its commit. *)
LEMMA ServedSettled ==
    ASSUME IInv, Advance, NumbersOK', EntriesOK', OneTicket', Elsewhere,
           NEW c \in Clients, NEW f, f = client[c], NEW repo, CallBecomes(c, repo), CallOK(f, repo)'
    PROVE  IInv'
  <1>1. PICK g : g = [f EXCEPT !.repo = repo]
    OBVIOUS
  <1>2. NumbersOK /\ DOMAIN f = FrameShape /\ RequestFrameOK(f)
    BY InCall
  <1>3. /\ DOMAIN g = FrameShape /\ g.step = f.step /\ g.req = f.req /\ g.time = f.time
        /\ g.connection = f.connection /\ g.credentials = f.credentials /\ g.repo = repo
        /\ g.second = f.second
    BY <1>1, <1>2 DEF FrameShape
  <1>4. RequestFrameOK(f)'
    BY <1>2, RequestStays
  <1>5. RequestFrameOK(g)'
    BY <1>3, <1>4 DEF RequestFrameOK
  <1>6. CallOK(g, g.repo)'
    BY <1>3 DEF CallOK, CreateOK, GetOK, IsAskedFor, ConsumeOK, ReplyOK
  <1>7. FrameOK(g)'
    BY <1>3, <1>5, <1>6 DEF FrameOK
  <1>8. Become(c, g) /\ requests' \subseteq requests
    BY <1>1 DEF CallBecomes, Elsewhere
  <1> QED BY <1>7, <1>8, OneServed

(* A commit about connections. *)
LEMMA CommitSettled ==
    ASSUME IInv, NEW written, NEW removed, Write(written, removed), Elsewhere,
           StoredTogether(Held)', ConnectionsKept,
           \A key \in DOMAIN written :
              /\ key[1] # "attempt"
              /\ key[1] = "credentials" => Fits(written[key], key[2]),
           NEW c \in Clients, NEW f, f = client[c], f.step \notin {"exchange", "consume"},
           NEW repo, CallBecomes(c, repo), IsAnswer(repo), CallOK(f, repo)'
    PROVE  IInv'
  <1>1. NumbersOK /\ EntriesOK /\ OneTicket /\ DOMAIN client = Clients /\ DOMAIN f = FrameShape
    BY InCall DEF IInv
  <1>2. Advance /\ EntriesOK' /\ NumbersOK'
    BY <1>1, WriteAdvances
  <1>3. PICK g : g = [f EXCEPT !.repo = repo]
    OBVIOUS
  <1>4. g.repo = repo /\ g.step = f.step
    BY <1>1, <1>3 DEF FrameShape
  <1>5. \A state \in States : ~Holds(g, state)
    BY <1>4 DEF Holds, IsAnswer
  <1>6. DOMAIN kv' \cap {attempt_key(s) : s \in States} \subseteq DOMAIN kv
    <2>1. DOMAIN kv' = DOMAIN written \cup (DOMAIN kv \ removed)
      BY WriteLeaves
    <2>2. \A s : attempt_key(s)[1] = "attempt"
      BY KeyParts
    <2> QED BY <2>1, <2>2
  <1>7. Become(c, g) /\ requests' \subseteq requests /\ UNCHANGED <<grants, exchanged>>
    BY <1>3 DEF CallBecomes, Elsewhere
  <1>8. \A state \in States : Tickets(state)' \subseteq Tickets(state)
    BY <1>1, <1>5, <1>6, <1>7, TicketsOfOne
  <1>9. OneTicket'
    BY <1>1, <1>7, <1>8, NoNewTicket
  <1> QED BY <1>2, <1>9, ServedSettled

(* An answer that says nothing that could change. *)
LEMMA PlainCommitSettled ==
    ASSUME IInv, NEW written, NEW removed, Write(written, removed), Elsewhere,
           StoredTogether(Held)', ConnectionsKept,
           \A key \in DOMAIN written :
              /\ key[1] # "attempt"
              /\ key[1] = "credentials" => Fits(written[key], key[2]),
           NEW c \in Clients, NEW f, f = client[c],
           f.step \in RevokeSteps \cup {"reauthorized", "put", "refresh_stored"},
           Answer(c, "ok") \/ \E connection : AnswerConnection(c, connection)
    PROVE  IInv'
  <1>1. NumbersOK /\ EntriesOK
    BY InCall
  <1>2. PICK repo : /\ CallBecomes(c, repo) /\ IsAnswer(repo)
                    /\ repo.reply.status = "ok"
    <2>1. DOMAIN client = Clients /\ DOMAIN f = FrameShape
      BY InCall
    <2>2. CASE Answer(c, "ok")
      <3>1. PICK repo : /\ CallBecomes(c, repo) /\ IsAnswer(repo)
                        /\ repo.reply = [NoReply EXCEPT !.status = "ok"]
        BY <2>1, <2>2, AnswerIs
      <3>2. repo.reply.status = "ok"
        BY <3>1 DEF NoReply
      <3> QED BY <3>1, <3>2
    <2>3. ASSUME NEW connection, AnswerConnection(c, connection)
          PROVE  \E r : CallBecomes(c, r) /\ IsAnswer(r) /\ r.reply.status = "ok"
      <3>1. PICK repo : /\ CallBecomes(c, repo) /\ IsAnswer(repo)
                        /\ repo.reply = [NoReply EXCEPT !.status = "ok", !.connection = connection]
        BY <2>1, <2>3, AnswerIs
      <3>2. repo.reply.status = "ok"
        BY <3>1 DEF NoReply
      <3> QED BY <3>1, <3>2
    <2> QED BY <2>2, <2>3
  <1>3. ReplyOK(f, repo.reply) /\ f.step \notin {"exchange", "consume"}
    BY DEF ReplyOK, RevokeSteps
  <1>4. CallOK(f, repo)
    BY <1>2, <1>3, GoodAnswer
  <1>5. Advance
    BY <1>1, WriteAdvances
  <1>6. CallOK(f, repo)'
    BY <1>1, <1>4, <1>5, CallStays
  <1> QED BY <1>2, <1>3, <1>6, CommitSettled

(* What each commit does, unless it finds its entries changed.             *)
Missed(c) == Retry(c) /\ UNCHANGED <<kv, clock>>

CreateDone(c, connection) ==
    /\ connection = client[c].repo.call.connection /\ CreateOK(client[c], client[c].repo)
    /\ Write(ConnectionEntries(connection), {}) /\ AnswerConnection(c, connection)
    /\ DOMAIN ConnectionEntries(connection) =
          {connection_key(connection.connection_id), active_key(connection.user_id),
           user_key(connection.user_id, connection.connection_id)}
    /\ Creates(Held, Held', connection)

LEMMA CreateCommits ==
    ASSUME IInv, NEW c \in Clients, CreateCommit(c)
    PROVE  Missed(c) \/ \E connection : CreateDone(c, connection)
  <1>1. PICK f, connection, entries :
           /\ f = client[c] /\ connection = f.repo.call.connection
           /\ entries = ConnectionEntries(connection)
    OBVIOUS
  <1>2. /\ NumbersOK /\ EntriesOK /\ CallOK(f, f.repo) /\ f.repo.at = "create_commit"
        /\ Absent.vs = 0
    BY <1>1, InCall DEF CreateCommit, at, Absent
  <1>3. CreateOK(f, f.repo)
    BY <1>2 DEF CallOK, CreatePlaces
  <1>4. CASE Missed(c)
    BY <1>4
  <1>5. CASE /\ AllCurrent({<<key, Absent.vs>> : key \in DOMAIN entries})
             /\ Write(entries, {}) /\ AnswerConnection(c, connection)
    <2>1. PICK record, active, pointer, id :
             /\ id = connection.connection_id /\ record = connection_key(id)
             /\ active = active_key(connection.user_id)
             /\ pointer = user_key(connection.user_id, id)
             /\ record[1] = "connection" /\ active[1] = "active" /\ pointer[1] = "user"
      BY KeyParts
    <2>2. PICK single, pointers :
             /\ single = Single(record, connection)
             /\ pointers = [key \in {active, pointer} |-> [connection_id |-> id]]
             /\ entries = Overlay(single, pointers)
      BY <1>1, <2>1 DEF ConnectionEntries
    <2>3. DOMAIN single = {record} /\ single[record] = connection
      BY <2>2, SingleMade
    <2>4. DOMAIN pointers = {active, pointer} /\ pointers[active] = [connection_id |-> id]
      BY <2>2
    <2>5. /\ DOMAIN entries = {record, active, pointer} /\ entries[record] = connection
          /\ entries[active] = [connection_id |-> id]
      <3>1. entries = Overlay(single, pointers)
        BY <2>2
      <3>2. /\ DOMAIN entries = DOMAIN single \cup DOMAIN pointers
            /\ \A k \in DOMAIN single : entries[k] = single[k]
            /\ \A k \in DOMAIN pointers : k \notin DOMAIN single => entries[k] = pointers[k]
        BY <3>1 DEF Overlay
      <3> QED BY <2>1, <2>3, <2>4, <3>2
    <2>6. ASSUME NEW key \in DOMAIN entries PROVE key \notin DOMAIN kv
      <3>1. PICK check : check = <<key, Absent.vs>>
        OBVIOUS
      <3>2. check[1] = key /\ check[2] = 0
        BY <1>2, <3>1
      <3>3. get(check[1]).vs = check[2]
        BY <1>5, <3>1 DEF AllCurrent
      <3> QED BY <1>2, <3>2, <3>3, Reading DEF present
    <2>7. /\ DOMAIN Held = DOMAIN kv /\ DOMAIN Held' = DOMAIN entries \cup (DOMAIN Held \ {})
          /\ \A key \in DOMAIN Held' :
                Held'[key] = IF key \in DOMAIN entries THEN entries[key] ELSE Held[key]
      BY <1>5, WriteHeld DEF Held
    <2>8. Creates(Held, Held', connection)
      <3>1. /\ connection \in StorageConnection /\ connection.status = "active"
            /\ connection.created_at = connection.updated_at
        BY <1>1, <1>3 DEF CreateOK
      <3>2. PICK m, n : m = Held /\ n = Held'
        OBVIOUS
      <3>3. /\ {record, active, pointer} \cap DOMAIN m = {}
            /\ DOMAIN n = {record, active, pointer} \cup DOMAIN m
            /\ n[record] = connection /\ n[active] = [connection_id |-> id]
            /\ \A key \in DOMAIN m : n[key] = m[key]
        BY <2>5, <2>6, <2>7, <3>2
      <3>4. n[active].connection_id = id
        BY <3>3
      <3> QED BY <2>1, <3>1, <3>2, <3>3, <3>4 DEF Creates
    <2>9. CreateDone(c, connection)
      BY <1>1, <1>3, <1>5, <2>1, <2>5, <2>8 DEF CreateDone
    <2> QED BY <2>9
  <1> QED BY <1>1, <1>4, <1>5 DEF CreateCommit, Missed, call

LEMMA MissedCommitSettled ==
    ASSUME IInv, NEW c \in Clients, Missed(c), Elsewhere,
           client[c].repo.at \in {"create_commit", "reauthorize_commit", "revoke_commit",
                                  "put_commit", "consume_commit"}
    PROVE  IInv'
  BY MissedSettled DEF Missed, Elsewhere, ServiceOnly

LEMMA CreateCommitSettled ==
    ASSUME IInv, NEW c \in Clients, CreateCommit(c), Elsewhere
    PROVE  IInv'
  <1>1. PICK f : f = client[c] /\ f.repo.at = "create_commit"
    BY DEF CreateCommit, at
  <1>2. /\ NumbersOK /\ EntriesOK /\ StoredTogether(Held) /\ DOMAIN client = Clients
        /\ DOMAIN f = FrameShape
    BY <1>1, InCall
  <1>3. CASE Missed(c)
    BY <1>1, <1>3, MissedCommitSettled
  <1>4. ASSUME NEW connection, CreateDone(c, connection) PROVE IInv'
    <2>1. /\ connection = f.repo.call.connection /\ CreateOK(f, f.repo)
          /\ Write(ConnectionEntries(connection), {}) /\ AnswerConnection(c, connection)
          /\ Creates(Held, Held', connection)
      BY <1>1, <1>4 DEF CreateDone
    <2>2. f.step = "create" /\ connection.provider_subject = f.req.subject
      BY <2>1 DEF CreateOK
    <2>3. PICK m, n : m = Held /\ n = Held'
      OBVIOUS
    <2>4. DOMAIN m = DOMAIN kv /\ DOMAIN n = DOMAIN kv'
      BY <2>3 DEF Held
    <2>5. StoredTogether(Held)'
      BY <1>2, <2>1, CreateTogether
    <2>6. ConnectionsKept
      BY <2>1, <2>3, <2>4 DEF ConnectionsKept, Creates
    <2>7. ASSUME NEW key \in DOMAIN ConnectionEntries(connection)
          PROVE  key[1] # "attempt" /\ key[1] # "credentials"
      BY <1>4, KeyParts DEF CreateDone
    <2>8. PICK repo : /\ CallBecomes(c, repo) /\ IsAnswer(repo)
                      /\ repo.reply = [NoReply EXCEPT !.status = "ok", !.connection = connection]
      <3>1. /\ f = client[c] /\ DOMAIN client = Clients /\ DOMAIN f = FrameShape
            /\ AnswerConnection(c, connection)
        BY <1>1, <1>2, <2>1
      <3> QED BY <3>1, AnswerIs
    <2>9. repo.reply.status = "ok" /\ repo.reply.connection = connection
      BY <2>8 DEF NoReply
    <2>10. Known(connection)'
      BY <2>1, <2>3, <2>4 DEF Known, Creates
    <2>11. ReplyOK(f, repo.reply)'
      BY <2>2, <2>9, <2>10 DEF ReplyOK, Known
    <2>12. CallOK(f, repo)'
      BY <2>8, <2>9, <2>11
      DEF CallOK, IsAnswer, FindPlaces, ListPlaces, CreatePlaces, ReauthorizePlaces, RevokePlaces,
          PutPlaces, ConsumePlaces
    <2>13. f.step \notin {"exchange", "consume"}
      BY <2>2
    <2> QED BY <1>1, <2>1, <2>5, <2>6, <2>7, <2>8, <2>12, <2>13, CommitSettled
  <1> QED BY <1>3, <1>4, CreateCommits

(* The entries that reauthorize and revoke check are those they read.      *)
LEMMA ConnectionChecked ==
    ASSUME IInv, NEW c \in Clients, NEW f, f = client[c], AllCurrent(ConnectionChecks(c)),
           NEW asked, asked = f.repo.call, NEW entry, entry = f.repo.entry,
           NEW record, record = connection_key(asked.id), EntryOK(f.repo)
    PROVE  /\ record \in DOMAIN kv /\ Held[record] = entry.val /\ entry.val.user_id = asked.user
           /\ entry.val \in StorageConnection /\ entry.val.connection_id = asked.id
           /\ asked.time >= entry.val.updated_at /\ entry.val.updated_at >= entry.val.created_at
           /\ get(active_key(asked.user)).vs = f.repo.index.vs
  <1>1. NumbersOK /\ EntriesOK
    BY InCall
  <1>2. /\ get(record).vs = entry.vs
        /\ get(active_key(asked.user)).vs = f.repo.index.vs
    <2>1. PICK first, second :
             /\ first = <<record, entry.vs>>
             /\ second = <<active_key(asked.user), f.repo.index.vs>>
      OBVIOUS
    <2>2. /\ get(first[1]).vs = first[2]
          /\ get(second[1]).vs = second[2]
      BY <2>1 DEF AllCurrent, ConnectionChecks, call
    <2>3. /\ first[1] = record /\ first[2] = entry.vs
          /\ second[1] = active_key(asked.user) /\ second[2] = f.repo.index.vs
      BY <2>1
    <2> QED BY <2>2, <2>3
  <1>3. Seen(entry, record) /\ entry.val.user_id = asked.user /\ asked.time >= entry.val.updated_at
    BY DEF EntryOK
  <1>4. record \in DOMAIN kv /\ Held[record] = entry.val
    BY <1>1, <1>2, <1>3, Current
  <1>5. get(record).val = entry.val
    BY <1>1, <1>4, Reading
  <1>6. /\ entry.val \in StorageConnection /\ entry.val.connection_id = asked.id
        /\ entry.val.created_at <= entry.val.updated_at
    BY <1>1, <1>4, <1>5, StoredKnown
  <1>7. entry.val.created_at \in Nat /\ entry.val.updated_at \in Nat
    BY <1>6 DEF StorageConnection
  <1> QED BY <1>2, <1>3, <1>4, <1>6, <1>7

(* reauthorize. *)
ReauthorizedEntries(asked, connection) ==
    Overlay(Overlay(Single(connection_key(asked.id), connection),
                    Single(active_key(asked.user), [connection_id |-> asked.id])),
            Single(credentials_key(asked.id), asked.credentials))

LEMMA ReauthorizedMade ==
    ASSUME NEW asked, NEW connection, NEW written, written = ReauthorizedEntries(asked, connection)
    PROVE  /\ DOMAIN written = {connection_key(asked.id), active_key(asked.user),
                                credentials_key(asked.id)}
           /\ written[connection_key(asked.id)] = connection
           /\ written[active_key(asked.user)] = [connection_id |-> asked.id]
           /\ written[credentials_key(asked.id)] = asked.credentials
  <1>1. PICK record, active, tokens :
           /\ record = connection_key(asked.id) /\ active = active_key(asked.user)
           /\ tokens = credentials_key(asked.id)
           /\ record[1] = "connection" /\ active[1] = "active" /\ tokens[1] = "credentials"
    BY KeyParts
  <1>0. PICK value : value = [connection_id |-> asked.id]
    OBVIOUS
  <1>2. record # active /\ record # tokens /\ active # tokens
    BY <1>1
  <1>3. PICK inner, p, q, r :
           /\ p = Single(record, connection) /\ q = Single(active, value)
           /\ r = Single(tokens, asked.credentials) /\ inner = Overlay(p, q)
    OBVIOUS
  <1>4. /\ DOMAIN p = {record} /\ p[record] = connection
        /\ DOMAIN q = {active} /\ q[active] = value
        /\ DOMAIN r = {tokens} /\ r[tokens] = asked.credentials
    BY <1>3, SingleMade
  <1>5. inner = Overlay(p, q) /\ written = Overlay(inner, r)
    BY <1>0, <1>1, <1>3 DEF ReauthorizedEntries
  <1>6. /\ DOMAIN inner = DOMAIN p \cup DOMAIN q
        /\ \A k \in DOMAIN p : inner[k] = p[k]
        /\ \A k \in DOMAIN q : k \notin DOMAIN p => inner[k] = q[k]
    BY <1>5 DEF Overlay
  <1>7. DOMAIN inner = {record, active} /\ inner[record] = connection /\ inner[active] = value
    BY <1>2, <1>4, <1>6
  <1>8. /\ DOMAIN written = DOMAIN inner \cup DOMAIN r
        /\ \A k \in DOMAIN inner : written[k] = inner[k]
        /\ \A k \in DOMAIN r : k \notin DOMAIN inner => written[k] = r[k]
    BY <1>5 DEF Overlay
  <1>9. /\ DOMAIN written = {record, active, tokens} /\ written[record] = connection
        /\ written[active] = value /\ written[tokens] = asked.credentials
    BY <1>2, <1>4, <1>7, <1>8
  <1> QED BY <1>0, <1>1, <1>9

(* The stored connection that a commit alters. *)
Owns(asked, old) ==
    /\ connection_key(asked.id) \in DOMAIN kv /\ Held[connection_key(asked.id)] = old
    /\ old \in StorageConnection /\ old.connection_id = asked.id /\ old.user_id = asked.user
    /\ asked.time \in Nat /\ asked.time >= old.updated_at

ReauthorizeDone(c, asked, old, connection) ==
    /\ asked = client[c].repo.call /\ ReauthorizeOK(client[c].step, client[c].repo)
    /\ Owns(asked, old) /\ old.provider_subject = asked.subject
    /\ connection = [old EXCEPT !.status = "active", !.updated_at = asked.time]
    /\ Write(ReauthorizedEntries(asked, connection), {}) /\ AnswerConnection(c, connection)
    /\ connection.user_id = asked.user
    /\ Reauthorizes(Held, Held', asked.id, connection, asked.credentials)

LEMMA ReauthorizeCommits ==
    ASSUME IInv, NEW c \in Clients, ReauthorizeCommit(c)
    PROVE  Missed(c) \/ \E asked, old, connection : ReauthorizeDone(c, asked, old, connection)
  <1>1. PICK f, asked, old, connection :
           /\ f = client[c] /\ asked = f.repo.call /\ old = f.repo.entry.val
           /\ connection = [old EXCEPT !.status = "active", !.updated_at = asked.time]
    OBVIOUS
  <1>2. NumbersOK /\ EntriesOK /\ CallOK(f, f.repo) /\ f.repo.at = "reauthorize_commit"
    BY <1>1, InCall DEF ReauthorizeCommit, at
  <1>3. ReauthorizeOK(f.step, f.repo)
    BY <1>2 DEF CallOK, ReauthorizePlaces
  <1>4. CASE Missed(c)
    BY <1>4
  <1>5. CASE /\ AllCurrent(ConnectionChecks(c))
             /\ Write(ReauthorizedEntries(asked, connection), {})
             /\ AnswerConnection(c, connection)
    <2>1. PICK record, active, tokens, index :
             /\ record = connection_key(asked.id) /\ active = active_key(asked.user)
             /\ tokens = credentials_key(asked.id) /\ index = f.repo.index
      OBVIOUS
    <2>2. /\ EntryOK(f.repo) /\ old.provider_subject = asked.subject /\ asked.time \in Nat
          /\ Owned(asked.credentials, asked.subject)
          /\ \/ index = Absent
             \/ Seen(index, active) /\ index.val.connection_id = asked.id
      BY <1>1, <1>2, <1>3, <2>1 DEF ReauthorizeOK
    <2>3. /\ record \in DOMAIN kv /\ Held[record] = old /\ old.user_id = asked.user
          /\ old \in StorageConnection /\ old.connection_id = asked.id
          /\ asked.time >= old.updated_at /\ old.updated_at >= old.created_at
          /\ get(active).vs = index.vs
      BY <1>1, <1>5, <2>1, <2>2, ConnectionChecked, SMTT(30)
    <2>4. active \in DOMAIN kv => Held[active].connection_id = asked.id
      <3>1. CASE index = Absent
        BY <1>2, <2>3, <3>1, Reading DEF present, Absent
      <3>2. CASE Seen(index, active) /\ index.val.connection_id = asked.id
        BY <1>2, <2>3, <3>2, Current
      <3> QED BY <2>2, <3>1, <3>2
    <2>5. Altered(connection, old) /\ connection.status = "active"
      <3>1. PICK time : time = asked.time
        OBVIOUS
      <3>2. /\ old \in StorageConnection /\ time \in Nat
            /\ time >= old.updated_at /\ old.updated_at >= old.created_at
        BY <2>2, <2>3, <3>1
      <3>3. connection = [old EXCEPT !.status = "active", !.updated_at = time]
        BY <1>1, <3>1
      <3>4. /\ connection \in StorageConnection /\ connection.status = "active"
            /\ connection.updated_at = time /\ connection.created_at = old.created_at
            /\ connection.connection_id = old.connection_id /\ connection.user_id = old.user_id
            /\ connection.provider_subject = old.provider_subject
            /\ old.created_at \in Nat /\ old.updated_at \in Nat
        BY <3>2, <3>3 DEF StorageConnection
      <3>5. connection.created_at <= connection.updated_at
        BY <3>2, <3>4
      <3> QED BY <3>4, <3>5 DEF Altered
    <2>6. PICK written : written = ReauthorizedEntries(asked, connection)
      OBVIOUS
    <2>7. /\ DOMAIN written = {record, active, tokens} /\ written[record] = connection
          /\ written[active] = [connection_id |-> asked.id] /\ written[tokens] = asked.credentials
      <3>1. /\ DOMAIN written = {connection_key(asked.id), active_key(asked.user),
                                 credentials_key(asked.id)}
            /\ written[connection_key(asked.id)] = connection
            /\ written[active_key(asked.user)] = [connection_id |-> asked.id]
            /\ written[credentials_key(asked.id)] = asked.credentials
        BY <2>6, ReauthorizedMade
      <3> QED BY <2>1, <3>1
    <2>8. PICK m, n : m = Held /\ n = Held'
      OBVIOUS
    <2>9. /\ DOMAIN m = DOMAIN kv /\ DOMAIN n = DOMAIN written \cup (DOMAIN m \ {})
          /\ \A key \in DOMAIN n : n[key] = IF key \in DOMAIN written THEN written[key] ELSE m[key]
      <3>1. Write(written, {})
        BY <1>5, <2>6
      <3>2. /\ DOMAIN Held' = DOMAIN written \cup (DOMAIN Held \ {})
            /\ \A key \in DOMAIN Held' :
                  Held'[key] = IF key \in DOMAIN written THEN written[key] ELSE Held[key]
        BY <3>1, WriteHeld
      <3>3. DOMAIN Held = DOMAIN kv
        BY DEF Held
      <3> QED BY <2>8, <3>2, <3>3
    <2>10. /\ DOMAIN n = {record, active, tokens} \cup DOMAIN m
           /\ n[record] = connection /\ n[active] = [connection_id |-> asked.id]
           /\ n[tokens] = asked.credentials
           /\ \A key \in DOMAIN m : key \notin {record, active, tokens} => n[key] = m[key]
      BY <2>7, <2>9
    <2>11. n[active].connection_id = asked.id
      BY <2>10
    <2>12. /\ record \in DOMAIN m /\ Altered(connection, m[record])
           /\ connection.user_id = asked.user
           /\ active \in DOMAIN m => m[active].connection_id = asked.id
           /\ asked.credentials \in OAuthCredentials
      BY <2>2, <2>3, <2>4, <2>5, <2>8, <2>9 DEF Owned, Altered
    <2>13. Reauthorizes(m, n, asked.id, connection, asked.credentials)
      BY <2>1, <2>5, <2>10, <2>11, <2>12 DEF Reauthorizes
    <2>14. Owns(asked, old)
      BY <2>1, <2>2, <2>3 DEF Owns
    <2>15. ReauthorizeDone(c, asked, old, connection)
      BY <1>1, <1>3, <1>5, <2>2, <2>8, <2>12, <2>13, <2>14 DEF ReauthorizeDone
    <2> QED BY <2>15
  <1> QED BY <1>1, <1>4, <1>5 DEF ReauthorizeCommit, ReauthorizedEntries, Missed, call

LEMMA ReauthorizeCommitSettled ==
    ASSUME IInv, NEW c \in Clients, ReauthorizeCommit(c), Elsewhere
    PROVE  IInv'
  <1>1. PICK f : f = client[c] /\ f.repo.at = "reauthorize_commit"
    BY DEF ReauthorizeCommit, at
  <1>2. NumbersOK /\ EntriesOK /\ StoredTogether(Held)
    BY InCall
  <1>3. CASE Missed(c)
    BY <1>1, <1>3, MissedCommitSettled
  <1>4. ASSUME NEW asked, NEW old, NEW connection, ReauthorizeDone(c, asked, old, connection)
        PROVE  IInv'
    <2>1. /\ asked = f.repo.call /\ ReauthorizeOK(f.step, f.repo)
          /\ Owns(asked, old) /\ old.provider_subject = asked.subject
          /\ Write(ReauthorizedEntries(asked, connection), {}) /\ AnswerConnection(c, connection)
          /\ connection.user_id = asked.user
          /\ Reauthorizes(Held, Held', asked.id, connection, asked.credentials)
      BY <1>1, <1>4 DEF ReauthorizeDone
    <2>2. Owned(asked.credentials, asked.subject) /\ f.step = "reauthorized"
      BY <2>1 DEF ReauthorizeOK
    <2>3. PICK m, n : m = Held /\ n = Held'
      OBVIOUS
    <2>4. DOMAIN m = DOMAIN kv /\ DOMAIN n = DOMAIN kv'
      BY <2>3 DEF Held
    <2>5. StoredTogether(Held)'
      BY <1>2, <2>1, ReauthorizeTogether
    <2>6. ConnectionsKept
      <3>1. ASSUME NEW id
            PROVE  connection_key(id) \notin {active_key(connection.user_id),
                                              credentials_key(asked.id)}
        BY KeyParts
      <3> QED BY <2>1, <2>3, <2>4, <3>1 DEF ConnectionsKept, Reauthorizes, Altered
    <2>7. PICK written : written = ReauthorizedEntries(asked, connection)
      OBVIOUS
    <2>8. ASSUME NEW key \in DOMAIN written
          PROVE  /\ key[1] # "attempt"
                 /\ key[1] = "credentials" => Fits(written[key], key[2])
      <3>1. PICK record, active, tokens :
               /\ record = connection_key(asked.id) /\ active = active_key(asked.user)
               /\ tokens = credentials_key(asked.id)
               /\ record[1] = "connection" /\ active[1] = "active"
               /\ tokens[1] = "credentials" /\ tokens[2] = asked.id
        BY KeyParts
      <3>2. DOMAIN written = {record, active, tokens} /\ written[tokens] = asked.credentials
        <4>1. /\ DOMAIN written = {connection_key(asked.id), active_key(asked.user),
                                   credentials_key(asked.id)}
              /\ written[connection_key(asked.id)] = connection
              /\ written[active_key(asked.user)] = [connection_id |-> asked.id]
              /\ written[credentials_key(asked.id)] = asked.credentials
          BY <2>7, ReauthorizedMade
        <4> QED BY <3>1, <4>1
      <3>3. Fits(asked.credentials, asked.id)
        BY <2>1, <2>2 DEF Fits, SubjectOf, Owns
      <3> QED BY <2>8, <3>1, <3>2, <3>3
    <2> QED BY <1>1, <2>1, <2>2, <2>5, <2>6, <2>7, <2>8, PlainCommitSettled
  <1> QED BY <1>3, <1>4, ReauthorizeCommits

(* revoke. *)
RevokeDone(c, asked, old, revoked) ==
    /\ asked = client[c].repo.call /\ RevokeOK(client[c].step, client[c].repo)
    /\ Owns(asked, old) /\ old.status = "active"
    /\ revoked = [old EXCEPT !.status = "revoked", !.updated_at = asked.time]
    /\ Write(Single(connection_key(asked.id), revoked),
             {active_key(asked.user), credentials_key(asked.id)})
    /\ AnswerConnection(c, revoked) /\ revoked.user_id = asked.user
    /\ Revokes(Held, Held', asked.id, revoked)

LEMMA RevokeCommits ==
    ASSUME IInv, NEW c \in Clients, RevokeCommit(c)
    PROVE  Missed(c) \/ \E asked, old, revoked : RevokeDone(c, asked, old, revoked)
  <1>1. PICK f, asked, old, revoked :
           /\ f = client[c] /\ asked = f.repo.call /\ old = f.repo.entry.val
           /\ revoked = [old EXCEPT !.status = "revoked", !.updated_at = asked.time]
    OBVIOUS
  <1>2. NumbersOK /\ EntriesOK /\ CallOK(f, f.repo) /\ f.repo.at = "revoke_commit"
    BY <1>1, InCall DEF RevokeCommit, at
  <1>3. RevokeOK(f.step, f.repo)
    BY <1>2 DEF CallOK, RevokePlaces
  <1>4. CASE Missed(c)
    BY <1>4
  <1>5. CASE /\ AllCurrent(ConnectionChecks(c))
             /\ Write(Single(connection_key(asked.id), revoked),
                      {active_key(asked.user), credentials_key(asked.id)})
             /\ AnswerConnection(c, revoked)
    <2>1. PICK record, active, tokens :
             /\ record = connection_key(asked.id) /\ active = active_key(asked.user)
             /\ tokens = credentials_key(asked.id)
             /\ record[1] = "connection" /\ active[1] = "active" /\ tokens[1] = "credentials"
      BY KeyParts
    <2>2. EntryOK(f.repo) /\ old.status = "active" /\ asked.time \in Nat
      BY <1>1, <1>2, <1>3 DEF RevokeOK
    <2>3. /\ record \in DOMAIN kv /\ Held[record] = old /\ old.user_id = asked.user
          /\ old \in StorageConnection /\ old.connection_id = asked.id
          /\ asked.time >= old.updated_at /\ old.updated_at >= old.created_at
      BY <1>1, <1>5, <2>1, <2>2, ConnectionChecked, SMTT(30)
    <2>4. Altered(revoked, old) /\ revoked.status = "revoked"
      <3>1. PICK time : time = asked.time
        OBVIOUS
      <3>2. /\ old \in StorageConnection /\ time \in Nat
            /\ time >= old.updated_at /\ old.updated_at >= old.created_at
        BY <2>2, <2>3, <3>1
      <3>3. revoked = [old EXCEPT !.status = "revoked", !.updated_at = time]
        BY <1>1, <3>1
      <3>4. /\ revoked \in StorageConnection /\ revoked.status = "revoked"
            /\ revoked.updated_at = time /\ revoked.created_at = old.created_at
            /\ revoked.connection_id = old.connection_id /\ revoked.user_id = old.user_id
            /\ revoked.provider_subject = old.provider_subject
            /\ old.created_at \in Nat /\ old.updated_at \in Nat
        BY <3>2, <3>3 DEF StorageConnection
      <3>5. revoked.created_at <= revoked.updated_at
        BY <3>2, <3>4
      <3> QED BY <3>4, <3>5 DEF Altered
    <2>5. PICK written : written = Single(record, revoked)
      OBVIOUS
    <2>6. DOMAIN written = {record} /\ written[record] = revoked
      BY <2>5, SingleMade
    <2>7. PICK m, n : m = Held /\ n = Held'
      OBVIOUS
    <2>8. Write(written, {active, tokens})
      BY <1>5, <2>1, <2>5
    <2>9. /\ DOMAIN m = DOMAIN kv /\ DOMAIN n = DOMAIN written \cup (DOMAIN m \ {active, tokens})
          /\ \A key \in DOMAIN n : n[key] = IF key \in DOMAIN written THEN written[key] ELSE m[key]
      <3>1. /\ DOMAIN Held' = DOMAIN written \cup (DOMAIN Held \ {active, tokens})
            /\ \A key \in DOMAIN Held' :
                  Held'[key] = IF key \in DOMAIN written THEN written[key] ELSE Held[key]
        BY <2>8, WriteHeld
      <3>2. DOMAIN Held = DOMAIN kv
        BY DEF Held
      <3> QED BY <2>7, <3>1, <3>2
    <2>10. record \in DOMAIN m /\ Altered(revoked, m[record]) /\ m[record].status = "active"
           /\ revoked.user_id = asked.user
      BY <2>2, <2>3, <2>4, <2>7, <2>9 DEF Altered
    <2>11. /\ DOMAIN n = DOMAIN m \ {active, tokens} /\ n[record] = revoked
           /\ \A key \in DOMAIN n : key # record => n[key] = m[key]
      BY <2>1, <2>6, <2>9, <2>10
    <2>12. Revokes(m, n, asked.id, revoked)
      BY <2>1, <2>4, <2>10, <2>11 DEF Revokes
    <2>13. Owns(asked, old)
      BY <2>1, <2>2, <2>3 DEF Owns
    <2>14. RevokeDone(c, asked, old, revoked)
      BY <1>1, <1>3, <1>5, <2>2, <2>7, <2>10, <2>12, <2>13 DEF RevokeDone
    <2> QED BY <2>14
  <1> QED BY <1>1, <1>4, <1>5 DEF RevokeCommit, Revocation, Missed, call

LEMMA RevokeCommitSettled ==
    ASSUME IInv, NEW c \in Clients, RevokeCommit(c), Elsewhere
    PROVE  IInv'
  <1>1. PICK f : f = client[c] /\ f.repo.at = "revoke_commit"
    BY DEF RevokeCommit, at
  <1>2. NumbersOK /\ EntriesOK /\ StoredTogether(Held)
    BY InCall
  <1>3. CASE Missed(c)
    BY <1>1, <1>3, MissedCommitSettled
  <1>4. ASSUME NEW asked, NEW old, NEW revoked, RevokeDone(c, asked, old, revoked)
        PROVE  IInv'
    <2>1. PICK written, removed :
             /\ written = Single(connection_key(asked.id), revoked)
             /\ removed = {active_key(asked.user), credentials_key(asked.id)}
      OBVIOUS
    <2>2. /\ RevokeOK(f.step, f.repo) /\ Owns(asked, old)
          /\ Write(written, removed) /\ AnswerConnection(c, revoked)
          /\ Revokes(Held, Held', asked.id, revoked)
      BY <1>1, <1>4, <2>1 DEF RevokeDone
    <2>3. f.step \in RevokeSteps
      BY <2>2 DEF RevokeOK, RevokeSteps
    <2>4. PICK m, n : m = Held /\ n = Held'
      OBVIOUS
    <2>5. DOMAIN m = DOMAIN kv /\ DOMAIN n = DOMAIN kv'
      BY <2>4 DEF Held
    <2>6. StoredTogether(Held)'
      BY <1>2, <2>2, RevokeTogether
    <2>7. ConnectionsKept
      <3>1. ASSUME NEW id
            PROVE  connection_key(id) \notin {active_key(revoked.user_id), credentials_key(asked.id)}
        BY KeyParts
      <3> QED BY <2>2, <2>4, <2>5, <3>1 DEF ConnectionsKept, Revokes, Altered
    <2>8. ASSUME NEW key \in DOMAIN written PROVE key[1] # "attempt" /\ key[1] # "credentials"
      <3>1. DOMAIN written = {connection_key(asked.id)}
        BY <2>1, SingleMade
      <3> QED BY <3>1, KeyParts
    <2> QED BY <1>1, <2>2, <2>3, <2>6, <2>7, <2>8, PlainCommitSettled
  <1> QED BY <1>3, <1>4, RevokeCommits

(* put_credentials. *)
PutDone(c, asked) ==
    /\ asked = client[c].repo.call /\ PutOK(client[c].step, client[c].repo)
    /\ Write(Single(credentials_key(asked.id), asked.credentials), {}) /\ Answer(c, "ok")
    /\ Puts(Held, Held', asked.id, asked.credentials)

LEMMA PutCommits ==
    ASSUME IInv, NEW c \in Clients, PutCommit(c)
    PROVE  Missed(c) \/ \E asked : PutDone(c, asked)
  <1>1. PICK f, asked : f = client[c] /\ asked = f.repo.call
    OBVIOUS
  <1>2. NumbersOK /\ EntriesOK /\ CallOK(f, f.repo) /\ f.repo.at = "put_commit"
    BY <1>1, InCall DEF PutCommit, at
  <1>3. PutOK(f.step, f.repo)
    BY <1>2 DEF CallOK, PutPlaces
  <1>4. CASE Missed(c)
    BY <1>4
  <1>5. CASE /\ AllCurrent(PutCheck(c))
             /\ Write(Single(credentials_key(asked.id), asked.credentials), {})
             /\ Answer(c, "ok")
    <2>1. PICK record, tokens, entry, granted :
             /\ record = connection_key(asked.id) /\ tokens = credentials_key(asked.id)
             /\ entry = f.repo.entry /\ granted = asked.credentials
      OBVIOUS
    <2>2. Seen(entry, record) /\ entry.val.status = "active" /\ Fits(granted, asked.id)
      BY <1>1, <1>2, <1>3, <2>1 DEF PutOK
    <2>3. get(record).vs = entry.vs
      <3>1. PICK check : check = <<record, entry.vs>>
        OBVIOUS
      <3>2. get(check[1]).vs = check[2]
        BY <1>1, <1>5, <2>1, <3>1 DEF AllCurrent, PutCheck, call
      <3>3. check[1] = record /\ check[2] = entry.vs
        BY <3>1
      <3> QED BY <3>2, <3>3
    <2>4. record \in DOMAIN kv /\ Held[record] = entry.val
      BY <1>2, <2>2, <2>3, Current
    <2>5. PICK written : written = Single(tokens, granted)
      OBVIOUS
    <2>6. DOMAIN written = {tokens} /\ written[tokens] = granted
      BY <2>5, SingleMade
    <2>7. PICK m, n : m = Held /\ n = Held'
      OBVIOUS
    <2>8. /\ DOMAIN m = DOMAIN kv /\ DOMAIN n = DOMAIN written \cup (DOMAIN m \ {})
          /\ \A key \in DOMAIN n : n[key] = IF key \in DOMAIN written THEN written[key] ELSE m[key]
      <3>1. Write(written, {})
        BY <1>5, <2>1, <2>5
      <3>2. /\ DOMAIN Held' = DOMAIN written \cup (DOMAIN Held \ {})
            /\ \A key \in DOMAIN Held' :
                  Held'[key] = IF key \in DOMAIN written THEN written[key] ELSE Held[key]
        BY <3>1, WriteHeld
      <3>3. DOMAIN Held = DOMAIN kv
        BY DEF Held
      <3> QED BY <2>7, <3>2, <3>3
    <2>9. /\ DOMAIN n = {tokens} \cup DOMAIN m /\ n[tokens] = granted
          /\ \A key \in DOMAIN m : key # tokens => n[key] = m[key]
      BY <2>6, <2>8
    <2>10. record \in DOMAIN m /\ m[record].status = "active" /\ granted \in OAuthCredentials
      BY <2>2, <2>4, <2>7, <2>8 DEF Fits, Owned
    <2>11. Puts(m, n, asked.id, granted)
      BY <2>1, <2>9, <2>10 DEF Puts
    <2>12. PutDone(c, asked)
      BY <1>1, <1>3, <1>5, <2>1, <2>7, <2>11 DEF PutDone
    <2> QED BY <2>12
  <1> QED BY <1>1, <1>4, <1>5 DEF PutCommit, Missed, call

LEMMA PutCommitSettled ==
    ASSUME IInv, NEW c \in Clients, PutCommit(c), Elsewhere
    PROVE  IInv'
  <1>1. PICK f : f = client[c] /\ f.repo.at = "put_commit"
    BY DEF PutCommit, at
  <1>2. NumbersOK /\ EntriesOK /\ StoredTogether(Held)
    BY InCall
  <1>3. CASE Missed(c)
    BY <1>1, <1>3, MissedCommitSettled
  <1>4. ASSUME NEW asked, PutDone(c, asked) PROVE IInv'
    <2>1. PICK written, granted, tokens :
             /\ granted = asked.credentials /\ tokens = credentials_key(asked.id)
             /\ written = Single(tokens, granted)
      OBVIOUS
    <2>2. /\ PutOK(f.step, f.repo) /\ asked = f.repo.call /\ Write(written, {}) /\ Answer(c, "ok")
          /\ Puts(Held, Held', asked.id, granted)
      BY <1>1, <1>4, <2>1 DEF PutDone
    <2>3. f.step \in {"put", "refresh_stored"} /\ Fits(granted, asked.id)
      BY <2>1, <2>2 DEF PutOK
    <2>4. PICK m, n : m = Held /\ n = Held'
      OBVIOUS
    <2>5. DOMAIN m = DOMAIN kv /\ DOMAIN n = DOMAIN kv'
      BY <2>4 DEF Held
    <2>6. StoredTogether(Held)'
      BY <1>2, <2>2, PutTogether
    <2>7. ConnectionsKept
      <3>1. ASSUME NEW id PROVE connection_key(id) # credentials_key(asked.id)
        BY KeyParts
      <3> QED BY <2>2, <2>4, <2>5, <3>1 DEF ConnectionsKept, Puts
    <2>8. ASSUME NEW key \in DOMAIN written
          PROVE  /\ key[1] # "attempt"
                 /\ key[1] = "credentials" => Fits(written[key], key[2])
      <3>1. DOMAIN written = {tokens} /\ written[tokens] = granted
        <4>1. written = Single(tokens, granted)
          BY <2>1
        <4> QED BY <4>1 DEF Single
      <3>2. tokens[1] = "credentials" /\ tokens[2] = asked.id
        BY <2>1, KeyParts
      <3> QED BY <2>3, <2>8, <3>1, <3>2
    <2> QED BY <1>1, <2>2, <2>3, <2>6, <2>7, <2>8, PlainCommitSettled
  <1> QED BY <1>3, <1>4, PutCommits

(* The attempts: nothing of a connection changes. *)
LEMMA AttemptAdvances ==
    ASSUME IInv, NEW written, NEW removed, Write(written, removed), Elsewhere,
           NEW key, key[1] = "attempt", DOMAIN written \subseteq {key}, removed \subseteq {key}
    PROVE  Advance /\ EntriesOK' /\ NumbersOK'
  <1>1. NumbersOK /\ EntriesOK /\ StoredTogether(Held)
    BY DEF IInv, EntriesOK
  <1>2. PICK m, n : m = Held /\ n = Held'
    OBVIOUS
  <1>3. DOMAIN m = DOMAIN kv /\ DOMAIN n = DOMAIN kv'
    BY <1>2 DEF Held
  <1>4. /\ DOMAIN n = DOMAIN written \cup (DOMAIN m \ removed)
        /\ \A k \in DOMAIN n : n[k] = IF k \in DOMAIN written THEN written[k] ELSE m[k]
    <2>1. /\ DOMAIN Held' = DOMAIN written \cup (DOMAIN Held \ removed)
          /\ \A k \in DOMAIN Held' :
                Held'[k] = IF k \in DOMAIN written THEN written[k] ELSE Held[k]
      BY WriteHeld
    <2> QED BY <1>2, <2>1
  <1>5. /\ DOMAIN n \ {key} = DOMAIN m \ {key}
        /\ \A k \in DOMAIN m \ {key} : n[k] = m[k]
    BY <1>4
  <1>6. StoredTogether(m)
    BY <1>1, <1>2
  <1>7. StoredTogether(n)
    BY <1>5, <1>6, AttemptTogether
  <1>8. StoredTogether(Held)'
    BY <1>2, <1>7
  <1>9. ConnectionsKept
    <2>1. ASSUME NEW id PROVE connection_key(id) # key
      BY KeyParts
    <2> QED BY <1>2, <1>3, <1>5, <2>1 DEF ConnectionsKept
  <1>10. \A k \in DOMAIN written : k[1] = "credentials" => Fits(written[k], k[2])
    OBVIOUS
  <1> QED BY <1>1, <1>8, <1>9, <1>10, WriteAdvances

(* ... and the client knows nothing of it but that it is done. *)
LEMMA AttemptAnswered ==
    ASSUME IInv, Advance, EntriesOK', NumbersOK', NEW c \in Clients, NEW f, f = client[c],
           f.step \in {"start", "consume"}, Answer(c, "ok")
    PROVE  \E g, repo : /\ g = [f EXCEPT !.repo = repo] /\ DOMAIN f = FrameShape
                        /\ CallBecomes(c, repo) /\ Become(c, g) /\ IsAnswer(repo)
                        /\ repo.reply.status = "ok" /\ CallOK(f, repo)'
  <1>1. DOMAIN client = Clients /\ DOMAIN f = FrameShape /\ NumbersOK
    BY InCall
  <1>2. PICK repo : /\ CallBecomes(c, repo) /\ IsAnswer(repo)
                    /\ repo.reply = [NoReply EXCEPT !.status = "ok"]
    BY <1>1, AnswerIs
  <1>3. repo.reply.status = "ok"
    BY <1>2 DEF NoReply
  <1>4. ReplyOK(f, repo.reply)
    BY DEF ReplyOK
  <1>5. CallOK(f, repo)
    BY <1>2, <1>3, <1>4, GoodAnswer
  <1>6. CallOK(f, repo)'
    BY <1>1, <1>5, CallStays
  <1>7. PICK g : g = [f EXCEPT !.repo = repo]
    OBVIOUS
  <1>8. Become(c, g)
    BY <1>2, <1>7 DEF CallBecomes
  <1> QED BY <1>1, <1>2, <1>3, <1>6, <1>7, <1>8

(* Saved: the attempt stands for the request that asked for it. *)
LEMMA SaveAttemptSettled ==
    ASSUME IInv, NEW c \in Clients, SaveAttempt(c), Elsewhere
    PROVE  IInv'
  <1>1. PICK f, asked, key, written :
           /\ f = client[c] /\ asked = f.repo.call /\ key = attempt_key(asked.state)
           /\ written = Single(key, asked.attempt)
    OBVIOUS
  <1>2. /\ NumbersOK /\ EntriesOK /\ OneTicket /\ DOMAIN client = Clients
        /\ CallOK(f, f.repo) /\ f.repo.at = "save_attempt"
    BY <1>1, InCall DEF SaveAttempt, at, IInv
  <1>3. f.step = "start" /\ asked.state \in States
    BY <1>1, <1>2 DEF CallOK, SaveOK
  <1>4. Write(written, {}) /\ Answer(c, "ok")
    BY <1>1 DEF SaveAttempt, call
  <1>5. DOMAIN written = {key} /\ key[1] = "attempt"
    <2>1. PICK attempt : written = Single(key, attempt)
      BY <1>1
    <2>2. DOMAIN written = {key}
      BY <2>1 DEF Single
    <2> QED BY <1>1, <2>2, KeyParts
  <1>6. Advance /\ EntriesOK' /\ NumbersOK'
    BY <1>4, <1>5, AttemptAdvances
  <1>7. PICK g, repo : /\ g = [f EXCEPT !.repo = repo] /\ DOMAIN f = FrameShape
                       /\ CallBecomes(c, repo) /\ Become(c, g) /\ IsAnswer(repo)
                       /\ repo.reply.status = "ok" /\ CallOK(f, repo)'
    BY <1>1, <1>3, <1>4, <1>6, AttemptAnswered
  <1>8. g.step = "start" /\ g.repo = repo
    BY <1>3, <1>7 DEF FrameShape
  <1>9. \A s : ~Holds(g, s)
    BY <1>7, <1>8 DEF Holds, IsAnswer
  <1>10. DOMAIN kv' = {key} \cup DOMAIN kv
    <2>1. DOMAIN kv' = DOMAIN written \cup (DOMAIN kv \ {})
      BY <1>4, WriteLeaves
    <2> QED BY <1>5, <2>1
  <1>11. \A d \in Clients : client'[d] = IF d = c THEN g ELSE client[d]
    BY <1>2, <1>7 DEF Become
  <1>12. \A s : \A d \in Clients : Holds(client[d], s)' => d # c /\ Holds(client[d], s)
    BY <1>9, <1>11 DEF Holds
  <1>13. ASSUME NEW state \in States
         PROVE  \/ Tickets(state)' \subseteq Tickets(state)
                \/ \E t \in Tickets(state) : \E u :
                      Tickets(state)' \subseteq (Tickets(state) \ {t}) \cup {u}
    <2>1. CASE state = asked.state
      <3>1. Holds(client[c], state)
        BY <1>1, <1>2, <2>1 DEF Holds
      <3>2. <<"held", c>> \in Tickets(state)
        BY <3>1 DEF Tickets
      <3>3. Tickets(state)' \subseteq (Tickets(state) \ {<<"held", c>>}) \cup {<<"stored", key>>}
        BY <1>1, <1>12, <2>1 DEF Tickets, Elsewhere
      <3> QED BY <3>2, <3>3
    <2>2. CASE state # asked.state
      <3>1. attempt_key(state) # key
        BY <1>1, <2>2, KeyParts
      <3>2. Tickets(state)' \subseteq Tickets(state)
        BY <1>10, <1>12, <3>1 DEF Tickets, Elsewhere
      <3> QED BY <3>2
    <2> QED BY <2>1, <2>2
  <1>14. OneTicket'
    BY <1>2, <1>13, TicketMoves DEF Elsewhere
  <1> QED BY <1>1, <1>6, <1>7, <1>14, ServedSettled

(* Consumed: who deleted the attempt may exchange its code. *)
LEMMA ConsumeCommitSettled ==
    ASSUME IInv, NEW c \in Clients, ConsumeCommit(c), Elsewhere
    PROVE  IInv'
  <1>1. PICK f, asked, key :
           /\ f = client[c] /\ asked = f.repo.call /\ key = attempt_key(asked.state)
    OBVIOUS
  <1>2. /\ NumbersOK /\ EntriesOK /\ OneTicket /\ DOMAIN client = Clients
        /\ CallOK(f, f.repo) /\ f.repo.at = "consume_commit"
    BY <1>1, InCall DEF ConsumeCommit, at, IInv
  <1>3. f.step = "consume" /\ asked.state = f.req.state /\ Seen(f.repo.entry, key)
    BY <1>1, <1>2 DEF CallOK, ConsumePlaces, ConsumeOK
  <1>4. CASE Missed(c)
    BY <1>1, <1>2, <1>4, MissedCommitSettled
  <1>5. CASE AllCurrent(AttemptCheck(c)) /\ Write(NoEntries, {key}) /\ Answer(c, "ok")
    <2>1. DOMAIN NoEntries = {} /\ key[1] = "attempt"
      BY <1>1, KeyParts DEF NoEntries
    <2>2. Advance /\ EntriesOK' /\ NumbersOK'
      BY <1>5, <2>1, AttemptAdvances
    <2>3. key \in DOMAIN kv
      <3>1. PICK check, entry : check = <<key, entry.vs>> /\ entry = f.repo.entry
        OBVIOUS
      <3>2. get(check[1]).vs = check[2]
        BY <1>1, <1>5, <3>1 DEF AllCurrent, AttemptCheck, call
      <3>3. check[1] = key /\ check[2] = entry.vs
        BY <3>1
      <3>4. get(key).vs = entry.vs /\ Seen(entry, key)
        BY <1>3, <3>1, <3>2, <3>3
      <3> QED BY <1>2, <3>4, Current
    <2>4. PICK g, repo : /\ g = [f EXCEPT !.repo = repo] /\ DOMAIN f = FrameShape
                         /\ CallBecomes(c, repo) /\ Become(c, g) /\ IsAnswer(repo)
                         /\ repo.reply.status = "ok" /\ CallOK(f, repo)'
      BY <1>1, <1>3, <1>5, <2>2, AttemptAnswered
    <2>5. g.step = "consume" /\ g.req = f.req /\ g.repo = repo
      BY <1>3, <2>4 DEF FrameShape
    <2>6. \A s : Holds(g, s) => s = asked.state
      BY <1>3, <2>4, <2>5 DEF Holds, IsAnswer
    <2>7. DOMAIN kv' = DOMAIN kv \ {key}
      <3>1. DOMAIN kv' = DOMAIN NoEntries \cup (DOMAIN kv \ {key})
        BY <1>5, WriteLeaves
      <3> QED BY <2>1, <3>1
    <2>8. \A d \in Clients : client'[d] = IF d = c THEN g ELSE client[d]
      BY <1>2, <2>4 DEF Become
    <2>9. ASSUME NEW s, NEW d \in Clients, Holds(client[d], s)'
          PROVE  IF d = c THEN s = asked.state ELSE Holds(client[d], s)
      BY <2>6, <2>8, <2>9 DEF Holds
    <2>10. ASSUME NEW state \in States
           PROVE  \/ Tickets(state)' \subseteq Tickets(state)
                  \/ \E t \in Tickets(state) : \E u :
                        Tickets(state)' \subseteq (Tickets(state) \ {t}) \cup {u}
      <3>1. CASE state = asked.state
        <4>1. <<"stored", key>> \in Tickets(state)
          BY <1>1, <2>3, <3>1 DEF Tickets
        <4>2. Tickets(state)' \subseteq (Tickets(state) \ {<<"stored", key>>}) \cup {<<"held", c>>}
          BY <1>1, <2>7, <2>9, <3>1 DEF Tickets, Elsewhere
        <4> QED BY <4>1, <4>2
      <3>2. CASE state # asked.state
        BY <2>7, <2>9, <3>2 DEF Tickets, Elsewhere
      <3> QED BY <3>1, <3>2
    <2>11. OneTicket'
      BY <1>2, <2>10, TicketMoves DEF Elsewhere
    <2> QED BY <1>1, <2>2, <2>4, <2>11, ServedSettled
  <1> QED BY <1>1, <1>4, <1>5 DEF ConsumeCommit, Missed, call

-----------------------------------------------------------------------------
(* Every step. *)
LEMMA ReadsSettled ==
    ASSUME IInv, NEW c \in Clients, ServiceOnly,
           \/ CreateRead(c) \/ FindById(c) \/ FindActiveIndex(c) \/ FindActiveRecord(c)
           \/ FindActiveAgain(c) \/ ListIndex(c) \/ ListRecord(c) \/ ReauthorizeRead(c)
           \/ ReauthorizeActive(c) \/ RevokeRead(c) \/ RevokeActive(c) \/ RevokeAgain(c)
           \/ GetCredentials(c) \/ PutRead(c) \/ ConsumeRead(c)
    PROVE  IInv'
  BY CreateReadSettled, FindByIdSettled, FindIndexSettled, FindRecordSettled, FindAgainSettled,
     ListIndexSettled, ListRecordSettled, ReauthorizeReadSettled, ReauthorizeActiveSettled,
     RevokeReadSettled, RevokeActiveSettled, RevokeAgainSettled, GetCredentialsSettled,
     PutReadSettled, ConsumeReadSettled

Committing(c) ==
    \/ CreateCommit(c) \/ ReauthorizeCommit(c) \/ RevokeCommit(c) \/ PutCommit(c)
    \/ SaveAttempt(c) \/ ConsumeCommit(c)

LEMMA RepositoryParts ==
    ASSUME NEW c \in Clients, Repository(c)
    PROVE  \/ Committing(c) /\ Elsewhere
           \/ /\ ServiceOnly
              /\ \/ CreateRead(c) \/ FindById(c) \/ FindActiveIndex(c) \/ FindActiveRecord(c)
                 \/ FindActiveAgain(c) \/ ListIndex(c) \/ ListRecord(c) \/ ReauthorizeRead(c)
                 \/ ReauthorizeActive(c) \/ RevokeRead(c) \/ RevokeActive(c) \/ RevokeAgain(c)
                 \/ GetCredentials(c) \/ PutRead(c) \/ ConsumeRead(c)
  <1>1. /\ RepositoryStep(c)
        /\ UNCHANGED <<process, requests, ticks, grants, issued, withdrawals, exchanged>>
    BY DEF Repository
  <1>2. Reads => ServiceOnly
    BY <1>1 DEF Reads, ServiceOnly
  <1>3. UNCHANGED now => Elsewhere
    BY <1>1 DEF Elsewhere
  <1>4. Committing(c) => UNCHANGED now
    BY DEF Committing, CreateCommit, ReauthorizeCommit, RevokeCommit, PutCommit, SaveAttempt,
           ConsumeCommit
  <1>5. CASE Committing(c)
    BY <1>3, <1>4, <1>5
  <1>6. CASE \/ CreateRead(c) \/ FindById(c) \/ FindActiveIndex(c) \/ FindActiveRecord(c)
             \/ FindActiveAgain(c) \/ ListIndex(c) \/ ListRecord(c) \/ ReauthorizeRead(c)
             \/ ReauthorizeActive(c) \/ RevokeRead(c) \/ RevokeActive(c) \/ RevokeAgain(c)
             \/ GetCredentials(c) \/ PutRead(c) \/ ConsumeRead(c)
    <2>1. Reads
      BY <1>6
      DEF CreateRead, FindById, FindActiveIndex, FindActiveRecord, FindActiveAgain, ListIndex,
          ListRecord, ReauthorizeRead, ReauthorizeActive, RevokeRead, RevokeActive, RevokeAgain,
          GetCredentials, PutRead, ConsumeRead
    <2> QED BY <1>2, <1>6, <2>1
  <1> QED BY <1>1, <1>5, <1>6 DEF RepositoryStep, Committing

LEMMA RepositorySettled ==
    ASSUME IInv, NEW c \in Clients, Repository(c)
    PROVE  IInv'
  <1>1. CASE Committing(c) /\ Elsewhere
    BY <1>1, CreateCommitSettled, ReauthorizeCommitSettled, RevokeCommitSettled, PutCommitSettled,
       SaveAttemptSettled, ConsumeCommitSettled DEF Committing
  <1> QED BY <1>1, RepositoryParts, ReadsSettled

LEMMA StepSettled ==
    ASSUME IInv, [Next]_vars
    PROVE  IInv'
  <1>1. CASE UNCHANGED vars
    <2>1. /\ UNCHANGED <<kv, clock, now, client, process, requests, ticks, grants, issued>>
          /\ UNCHANGED <<withdrawals, exchanged>>
      BY <1>1 DEF vars
    <2>2. NumbersOK /\ EntriesOK /\ OneTicket /\ DOMAIN client = Clients
      BY DEF IInv
    <2>3. Advance /\ EntriesOK'
      BY <2>1, <2>2, AloneAdvances DEF StoreAlone
    <2>4. NumbersOK' /\ OneTicket'
      <3>1. NumbersOK'
        BY <2>1, <2>2 DEF NumbersOK
      <3>2. \A state \in States : Tickets(state)' \subseteq Tickets(state)
        BY <2>1 DEF Tickets, Holds
      <3> QED BY <2>1, <2>2, <3>1, <3>2, NoNewTicket
    <2> QED BY <2>1, <2>2, <2>3, <2>4, Settled
  <1>2. ASSUME NEW c \in Clients, NEW req \in requests, Receive(c, req) PROVE IInv'
    BY <1>2, ReceiveSettled
  <1>3. ASSUME NEW c \in Clients, Repository(c) PROVE IInv'
    BY <1>3, RepositorySettled
  <1>4. ASSUME NEW c \in Clients,
               \/ Finished(c) \/ Consumed(c) \/ Exchange(c) \/ GrantActive(c) \/ GrantPrior(c)
               \/ Previous(c) \/ Created(c) \/ CredentialsPut(c)
        PROVE  IInv'
    BY <1>4, FinishedSettled, ConsumedSettled, ExchangeSettled, GrantActiveSettled,
       GrantPriorSettled, PreviousSettled, CreatedSettled, CredentialsPutSettled
  <1>5. ASSUME NEW c \in Clients,
               \/ DisconnectFound(c) \/ DisconnectCredentials(c) \/ RemoteRevoke(c)
               \/ ContentFound(c) \/ HaveCredentials(c) \/ Operation(c) \/ Reread(c)
               \/ AskRefresh(c) \/ RefreshStored(c)
        PROVE  IInv'
    BY <1>5, DisconnectFoundSettled, DisconnectCredentialsSettled, RemoteRevokeSettled,
       ContentFoundSettled, HaveCredentialsSettled, OperationSettled, RereadSettled,
       AskRefreshSettled, RefreshStoredSettled
  <1>6. CASE \/ \E c \in Clients : RefreshRefused(c)
             \/ \E p \in Processes : Crash(p)
    BY <1>6, EndedSettled
  <1>7. CASE Withdraw \/ Tick
    BY <1>7, OutsideSettled
  <1> QED BY <1>1, <1>2, <1>3, <1>4, <1>5, <1>6, <1>7 DEF Next

(* The scenarios leave what the invariant asks for. *)
LEMMA StartsSettled ==
    ASSUME Init
    PROVE  IInv
  <1>1. PICK s \in Scenarios :
           /\ kv = Stamped(s.entries, 1) /\ clock = 1
           /\ now = 0 /\ ticks = s.ticks /\ requests = s.requests
           /\ grants = [state \in States |-> IF state \in DOMAIN s.grants
                           THEN [subject |-> s.grants[state], stands |-> TRUE, refused |-> FALSE]
                           ELSE NoGrant]
           /\ issued = Cardinality(DOMAIN s.grants) /\ withdrawals = s.withdrawals
           /\ exchanged = [state \in States |-> 0]
           /\ client = [c \in Clients |-> Idle] /\ process \in [Clients -> Processes]
    BY DEF Init
  <1>2. ScenarioOK(s)
    BY ScenariosAssumption
  <1>3. /\ s.ticks \in Nat /\ s.withdrawals \in Nat /\ IsFiniteSet(DOMAIN s.grants)
        /\ DOMAIN s.grants \subseteq States
        /\ \A state \in DOMAIN s.grants : s.grants[state] \in Subjects
        /\ StoredTogether(s.entries) /\ DrawnOnce(s) /\ \A req \in s.requests : RequestOK(req)
    BY <1>2 DEF ScenarioOK
  <1>4. PICK entries, giver : entries = s.entries /\ giver = s.grants
    OBVIOUS
  <1>5. /\ DOMAIN kv = DOMAIN entries
        /\ \A key \in DOMAIN entries : kv[key] = [vs |-> 1, val |-> entries[key]]
    BY <1>1, <1>4 DEF Stamped
  <1>6. /\ DOMAIN Held = DOMAIN entries
        /\ \A key \in DOMAIN entries : Held[key] = entries[key] /\ kv[key].vs = 1
    <2>1. ASSUME NEW key \in DOMAIN entries PROVE kv[key].val = entries[key] /\ kv[key].vs = 1
      BY <1>5
    <2> QED BY <1>5, <2>1 DEF Held
  <1>7. ASSUME NEW state \in States
        PROVE  /\ grants[state].subject =
                     IF state \in DOMAIN giver THEN giver[state] ELSE None
               /\ grants[state] \in Grant
    <2>1. CASE state \in DOMAIN giver
      <3>1. grants[state] = [subject |-> giver[state], stands |-> TRUE, refused |-> FALSE]
        BY <1>1, <1>4, <2>1
      <3> QED BY <1>3, <1>4, <2>1, <3>1 DEF Grant
    <2>2. CASE state \notin DOMAIN giver
      <3>1. grants[state] = [subject |-> None, stands |-> FALSE, refused |-> FALSE]
        BY <1>1, <1>4, <2>2 DEF NoGrant
      <3> QED BY <2>2, <3>1 DEF Grant
    <2> QED BY <2>1, <2>2
  <1>8. NumbersOK
    <2>1. issued \in Nat
      BY <1>1, <1>3, FS_CardinalityType
    <2>2. grants \in [States -> Grant]
      <3>1. \A state \in States : grants[state] \in Grant
        BY <1>7
      <3> QED BY <1>1, <3>1
    <2>3. exchanged \in [States -> 0..1]
      BY <1>1
    <2> QED BY <1>1, <1>3, <2>1, <2>2, <2>3 DEF NumbersOK
  <1>9. EntriesOK
    <2>1. PICK attempt, m : attempt = attempt_key(None) /\ attempt[1] = "attempt" /\ m = Held
      BY KeyParts
    <2>2. StoredTogether(entries)
      BY <1>3, <1>4
    <2>3. /\ DOMAIN m \ {attempt} = DOMAIN entries \ {attempt}
          /\ \A key \in DOMAIN entries \ {attempt} : m[key] = entries[key]
      BY <1>6, <2>1
    <2>4. StoredTogether(Held)
      <3>1. StoredTogether(m)
        BY <2>1, <2>2, <2>3, AttemptTogether
      <3> QED BY <2>1, <3>1
    <2>5. ASSUME NEW key \in DOMAIN kv, key[1] = "credentials" PROVE Fits(Held[key], key[2])
      <3>1. PICK id, record, credentials, connection :
               /\ id = key[2] /\ record = connection_key(id)
               /\ credentials = entries[key] /\ connection = entries[record]
        OBVIOUS
      <3>2. /\ ConnectionsTogether(entries) /\ TokensTogether(entries)
        BY <2>2, TogetherParts
      <3>3. /\ key = credentials_key(id) /\ credentials \in OAuthCredentials
            /\ record \in DOMAIN entries
        BY <1>5, <2>5, <3>1, <3>2 DEF TokensTogether
      <3>4. record[1] = "connection"
        BY <3>1, KeyParts
      <3>5. record = connection_key(connection.connection_id) /\ connection \in StorageConnection
        BY <3>1, <3>2, <3>3, <3>4 DEF ConnectionsTogether
      <3>6. connection.connection_id = id
        <4>1. PICK other : other = connection.connection_id
          OBVIOUS
        <4>2. record = connection_key(other) /\ record = connection_key(id)
          BY <3>1, <3>5, <4>1
        <4>3. record[2] = other /\ record[2] = id
          BY <4>2, KeyParts
        <4> QED BY <4>1, <4>3
      <3>7. id \in States /\ connection.provider_subject \in Subjects
        BY <3>5, <3>6 DEF StorageConnection
      <3>8. /\ {credentials.access.grant, credentials.refresh} \subseteq DOMAIN giver \cup {None}
            /\ TokensOf(credentials, connection.provider_subject, giver)
        <4>1. credentials_key(id) \in DOMAIN s.entries
          BY <1>4, <1>5, <3>3
        <4>2. /\ {s.entries[credentials_key(id)].access.grant,
                  s.entries[credentials_key(id)].refresh} \subseteq DOMAIN s.grants \cup {None}
              /\ TokensOf(s.entries[credentials_key(id)],
                          s.entries[connection_key(id)].provider_subject, s.grants)
          BY <1>2, <3>7, <4>1 DEF ScenarioOK
        <4> QED BY <1>4, <3>1, <3>3, <4>2
      <3>9. /\ credentials.access.grant \in States /\ None \notin States
            /\ credentials.refresh # None => credentials.refresh \in States
        BY <3>3, StorageAssumption DEF OAuthCredentials
      <3>10. Owned(credentials, connection.provider_subject)
        BY <1>7, <3>3, <3>7, <3>8, <3>9 DEF Owned, TokensOf
      <3>11. record \in DOMAIN kv /\ Held[record] = connection /\ Held[key] = credentials
        BY <1>5, <1>6, <3>1, <3>3
      <3> QED BY <3>1, <3>10, <3>11 DEF Fits, SubjectOf
    <2> QED BY <1>1, <1>5, <1>6, <2>4, <2>5 DEF EntriesOK
  <1>10. \A c \in Clients : client[c] = Idle
    BY <1>1
  <1>11. OneTicket
    <2> SUFFICES ASSUME NEW state \in States
                 PROVE  /\ \A t, u \in Tickets(state) : t = u
                        /\ Spent(state) => Tickets(state) = {}
      BY DEF OneTicket
    <2>1. \A c \in Clients : ~Holds(client[c], state)
      <3>1. Idle.step = "idle" /\ Idle.repo.at = "none"
        BY DEF Idle, NoCall
      <3> QED BY <1>10, <3>1 DEF Holds
    <2>2. /\ \A p, q \in requests : Asks(p, state) /\ Asks(q, state) => p = q
          /\ attempt_key(state) \in DOMAIN kv =>
                state \notin DOMAIN giver /\ \A req \in requests : ~Asks(req, state)
          /\ state \in DOMAIN giver => \A req \in requests : ~Asks(req, state)
      BY <1>1, <1>3, <1>4, <1>5 DEF DrawnOnce, Asks
    <2>3. Spent(state) => state \in DOMAIN giver
      BY <1>1, <1>7 DEF Spent
    <2>4. ASSUME NEW t \in Tickets(state)
          PROVE  \/ \E req \in requests : Asks(req, state) /\ t = <<"asked", req>>
                 \/ attempt_key(state) \in DOMAIN kv /\ t = <<"stored", attempt_key(state)>>
      BY <2>1, <2>4 DEF Tickets
    <2>5. \A t, u \in Tickets(state) : t = u
      BY <2>2, <2>4
    <2> QED BY <2>2, <2>3, <2>4, <2>5
  <1>12. FrameOK(Idle)
    BY IdleRests, RestingOK
  <1> QED BY <1>1, <1>3, <1>8, <1>9, <1>10, <1>11, <1>12 DEF IInv

(* Every state of every behaviour satisfies the invariant: the entries     *)
(* stored belong together, each request knows what it has read, and the    *)
(* code of an attempt has at most one request, entry or callback left that *)
(* may come to exchange it.                                                *)
THEOREM StorageIsSettled == Spec => []IInv
  <1>1. Init => IInv
    BY StartsSettled
  <1>2. IInv /\ [Next]_vars => IInv'
    BY StepSettled
  <1> QED BY <1>1, <1>2, PTL DEF Spec

(* Whatever requests, revocations and crashes overlap, no read or commit   *)
(* of the repository calls what it finds stored an invalid record.         *)
THEOREM RecordsAreNeverFalselyInvalid == Spec => []NoFalseInvalidRecord
  <1>1. IInv => NoFalseInvalidRecord
    BY InCall DEF NoFalseInvalidRecord
  <1> QED BY <1>1, StorageIsSettled, PTL

(* The tokens kept for a connection are those that its account gave, no    *)
(* attempt's code is exchanged twice, and connections stay in their types. *)
THEOREM TokensStayWithTheirAccount == Spec => []TokensOfOwnAccount
  <1>1. ASSUME IInv PROVE TokensOfOwnAccount
    <2>1. NumbersOK /\ EntriesOK /\ None \notin StorageConnection
      BY <1>1, StorageAssumption DEF IInv
    <2>2. ASSUME NEW id \in States, Connections[id] # None
          PROVE  /\ Connections[id].connection_id = id /\ Connections[id].user_id \in Users
                 /\ Connections[id].provider_subject \in Subjects
                 /\ Connections[id].created_at <= Connections[id].updated_at
      <3>1. PICK record, connection : /\ record = connection_key(id)
                                      /\ connection = get(record).val
        OBVIOUS
      <3>2. Connections[id] = connection
        BY <3>1 DEF Connections, stored
      <3>3. record \in DOMAIN kv
        BY <2>1, <2>2, <3>1, <3>2, Reading DEF stored
      <3>4. /\ connection \in StorageConnection /\ connection.connection_id = id
            /\ connection.created_at <= connection.updated_at
        BY <2>1, <3>1, <3>3, StoredKnown
      <3> QED BY <3>2, <3>4 DEF StorageConnection
    <2>3. TypeOK
      BY <2>1, <2>2 DEF TypeOK, NumbersOK, Grant
    <2>4. ASSUME NEW id \in States, Credentials[id] # None
          PROVE  grants[Credentials[id].access.grant].subject = Connections[id].provider_subject
      <3>1. PICK tokens, credentials : /\ tokens = credentials_key(id)
                                       /\ credentials = get(tokens).val
        OBVIOUS
      <3>2. Credentials[id] = credentials
        BY <3>1 DEF Credentials, stored
      <3>3. tokens \in DOMAIN kv
        BY <2>1, <2>4, <3>1, <3>2, Reading DEF stored
      <3>4. Fits(credentials, id)
        BY <2>1, <3>1, <3>3, StoredTokens
      <3>5. Connections[id] = Held[connection_key(id)]
        <4>1. connection_key(id) \in DOMAIN kv
          BY <3>4 DEF Fits
        <4> QED BY <2>1, <4>1, Reading DEF Connections, stored
      <3> QED BY <3>2, <3>4, <3>5 DEF Fits, Owned, SubjectOf
    <2> QED BY <2>3, <2>4 DEF TokensOfOwnAccount
  <1> QED BY <1>1, StorageIsSettled, PTL

-----------------------------------------------------------------------------
(* What a step changes of the connections stored.                          *)
AttemptOnly ==
    \A key : key[1] # "attempt" =>
        /\ key \in DOMAIN kv' <=> key \in DOMAIN kv
        /\ key \in DOMAIN kv => Held'[key] = Held[key]

StoreStep(c) ==
    \/ /\ client[c].repo.at = "create_commit"
       /\ \E connection : CreateDone(c, connection)
    \/ /\ client[c].repo.at = "reauthorize_commit"
       /\ \E asked, old, connection : ReauthorizeDone(c, asked, old, connection)
    \/ /\ client[c].repo.at = "revoke_commit"
       /\ \E asked, old, revoked : RevokeDone(c, asked, old, revoked)
    \/ /\ client[c].repo.at = "put_commit"
       /\ \E asked : PutDone(c, asked)

LEMMA AttemptWritten ==
    ASSUME NEW written, NEW removed, Write(written, removed),
           NEW key, key[1] = "attempt", DOMAIN written \subseteq {key}, removed \subseteq {key}
    PROVE  AttemptOnly
  <1>1. /\ DOMAIN Held' = DOMAIN kv' /\ DOMAIN Held = DOMAIN kv
        /\ DOMAIN Held' = DOMAIN written \cup (DOMAIN Held \ removed)
        /\ \A k \in DOMAIN Held' :
              Held'[k] = IF k \in DOMAIN written THEN written[k] ELSE Held[k]
    BY WriteHeld DEF Held
  <1> QED BY <1>1 DEF AttemptOnly

LEMMA CommitSteps ==
    ASSUME IInv, NEW c \in Clients, Committing(c)
    PROVE  AttemptOnly \/ StoreStep(c)
  <1>1. UNCHANGED kv => AttemptOnly
    BY DEF AttemptOnly, Held
  <1>2. CASE Missed(c)
    BY <1>1, <1>2 DEF Missed
  <1>3. CASE CreateCommit(c)
    BY <1>2, <1>3, CreateCommits DEF CreateCommit, at, StoreStep
  <1>4. CASE ReauthorizeCommit(c)
    BY <1>2, <1>4, ReauthorizeCommits DEF ReauthorizeCommit, at, StoreStep
  <1>5. CASE RevokeCommit(c)
    BY <1>2, <1>5, RevokeCommits DEF RevokeCommit, at, StoreStep
  <1>6. CASE PutCommit(c)
    BY <1>2, <1>6, PutCommits DEF PutCommit, at, StoreStep
  <1>7. PICK key, attempt : /\ key = attempt_key(client[c].repo.call.state) /\ key[1] = "attempt"
                            /\ attempt = client[c].repo.call.attempt
    BY KeyParts
  <1>8. CASE SaveAttempt(c)
    <2>1. PICK written : written = Single(key, attempt) /\ Write(written, {})
      BY <1>7, <1>8 DEF SaveAttempt, call
    <2>2. DOMAIN written = {key}
      BY <2>1 DEF Single
    <2> QED BY <1>7, <2>1, <2>2, AttemptWritten
  <1>9. CASE ConsumeCommit(c)
    <2>1. CASE Write(NoEntries, {key})
      <3>1. DOMAIN NoEntries = {}
        BY DEF NoEntries
      <3> QED BY <1>7, <2>1, <3>1, AttemptWritten
    <2> QED BY <1>2, <1>7, <1>9, <2>1 DEF ConsumeCommit, Missed, call
  <1> QED BY <1>3, <1>4, <1>5, <1>6, <1>8, <1>9 DEF Committing

LEMMA StoreSteps ==
    ASSUME IInv, [Next]_vars
    PROVE  AttemptOnly \/ \E c \in Clients : StoreStep(c)
  <1>1. UNCHANGED kv => AttemptOnly
    BY DEF AttemptOnly, Held
  <1>2. CASE UNCHANGED vars
    BY <1>1, <1>2 DEF vars
  <1>3. ASSUME NEW c \in Clients, NEW req \in requests, Receive(c, req) PROVE UNCHANGED kv
    BY <1>3 DEF Receive
  <1>4. ASSUME NEW c \in Clients, Repository(c)
        PROVE  AttemptOnly \/ \E d \in Clients : StoreStep(d)
    BY <1>1, <1>4, RepositoryParts, CommitSteps DEF ServiceOnly
  <1>5. ASSUME NEW c \in Clients,
               \/ Finished(c) \/ Consumed(c) \/ Exchange(c) \/ GrantActive(c) \/ GrantPrior(c)
               \/ Previous(c) \/ Created(c) \/ CredentialsPut(c)
        PROVE  UNCHANGED kv
    BY <1>5 DEF Finished, Consumed, Exchange, GrantActive, GrantPrior, Previous, Created,
                CredentialsPut, ServiceOnly
  <1>6. ASSUME NEW c \in Clients,
               \/ DisconnectFound(c) \/ DisconnectCredentials(c) \/ RemoteRevoke(c)
               \/ ContentFound(c) \/ HaveCredentials(c) \/ Operation(c) \/ Reread(c)
               \/ AskRefresh(c) \/ RefreshStored(c) \/ RefreshRefused(c)
        PROVE  UNCHANGED kv
    BY <1>6 DEF DisconnectFound, DisconnectCredentials, RemoteRevoke, ContentFound,
                HaveCredentials, Operation, Reread, AskRefresh, RefreshStored, RefreshRefused,
                ServiceOnly
  <1>7. CASE (\E p \in Processes : Crash(p)) \/ Withdraw \/ Tick
    BY <1>1, <1>7 DEF Crash, Withdraw, Tick, ServiceOnly
  <1> QED BY <1>1, <1>2, <1>3, <1>4, <1>5, <1>6, <1>7 DEF Next

LEMMA StoreStepAnswers ==
    ASSUME IInv, NEW c \in Clients, StoreStep(c)
    PROVE  /\ client'[c] # client[c]
           /\ \A d \in Clients : d # c => client'[d] = client[d]
  <1>1. PICK f : f = client[c]
    OBVIOUS
  <1>2. DOMAIN client = Clients /\ DOMAIN f = FrameShape
    BY <1>1, InCall
  <1>3. f.repo.at # "answered" /\ (Answer(c, "ok") \/ \E connection : AnswerConnection(c, connection))
    BY <1>1 DEF StoreStep, CreateDone, ReauthorizeDone, RevokeDone, PutDone
  <1>4. PICK repo : CallBecomes(c, repo) /\ IsAnswer(repo)
    BY <1>1, <1>2, <1>3, AnswerIs
  <1>5. PICK g : g = [f EXCEPT !.repo = repo] /\ Become(c, g)
    BY <1>1, <1>4 DEF CallBecomes
  <1>6. g.repo.at = "answered"
    BY <1>2, <1>4, <1>5 DEF FrameShape, IsAnswer
  <1> QED BY <1>1, <1>2, <1>3, <1>5, <1>6 DEF Become

(* A connection that is revoked is revoked by the client that asks for it. *)
LEMMA RevokedBy ==
    ASSUME IInv, [Next]_vars, NEW id, NEW record, record = connection_key(id),
           record \in DOMAIN kv, Held[record].status = "active",
           record \in DOMAIN kv' => Held'[record].status = "revoked"
    PROVE  \E c \in Clients : StoreStep(c) /\ client[c].step \in RevokeSteps
  <1>1. PICK m, n : m = Held /\ n = Held'
    OBVIOUS
  <1>2. /\ DOMAIN m = DOMAIN kv /\ DOMAIN n = DOMAIN kv'
    BY <1>1 DEF Held
  <1>3. /\ record[1] = "connection" /\ \A i : active_key(i) # record
        /\ \A i : credentials_key(i) # record
    BY KeyParts
  <1>4. ~AttemptOnly
    BY <1>3 DEF AttemptOnly
  <1>5. PICK c \in Clients : StoreStep(c)
    BY <1>4, StoreSteps
  <1>6. ASSUME NEW connection, CreateDone(c, connection) PROVE FALSE
    BY <1>1, <1>2, <1>6 DEF CreateDone, Creates
  <1>7. ASSUME NEW asked, NEW old, NEW connection, ReauthorizeDone(c, asked, old, connection)
        PROVE  FALSE
    <2>1. PICK other, user, granted :
             other = asked.id /\ user = connection.user_id /\ granted = asked.credentials
      OBVIOUS
    <2>2. Reauthorizes(m, n, other, connection, granted)
      BY <1>1, <1>7, <2>1 DEF ReauthorizeDone
    <2>3. /\ connection.status = "active" /\ n[connection_key(other)] = connection
          /\ record \in DOMAIN n
          /\ record \notin {connection_key(other), active_key(user), credentials_key(other)}
                => n[record] = m[record]
      BY <1>2, <2>1, <2>2 DEF Reauthorizes
    <2> QED BY <1>1, <1>2, <1>3, <2>3
  <1>8. ASSUME NEW asked, PutDone(c, asked) PROVE FALSE
    BY <1>1, <1>2, <1>3, <1>8 DEF PutDone, Puts
  <1>9. ASSUME NEW asked, NEW old, NEW revoked, RevokeDone(c, asked, old, revoked)
        PROVE  client[c].step \in RevokeSteps
    BY <1>9 DEF RevokeDone, RevokeOK, RevokeSteps
  <1> QED BY <1>5, <1>6, <1>7, <1>8, <1>9 DEF StoreStep

(* Only credentials that were refused take a connection away from content: *)
(* an outage, a busy store or another request's refresh does not.          *)
THEOREM RefusalAloneRevokes == Spec => RevokedOnlyOnRefusal
  <1> DEFINE Allowed ==
        \A c \in Clients : \A id \in States :
            client[c].req # None /\ client[c].req.kind = "content" /\ client'[c] # client[c]
            /\ Connections[id] # None /\ Connections[id].status = "active"
            /\ Connections[id]'.status = "revoked" =>
               Refused(client[c].credentials, client[c].second)
  <1>1. ASSUME IInv, IInv', [Next]_vars PROVE Allowed
    <2> SUFFICES ASSUME NEW c \in Clients, NEW id \in States,
                        client[c].req.kind = "content", client'[c] # client[c],
                        Connections[id] # None, Connections[id].status = "active",
                        Connections[id]'.status = "revoked"
                 PROVE  Refused(client[c].credentials, client[c].second)
      OBVIOUS
    <2>1. PICK record : record = connection_key(id)
      OBVIOUS
    <2>2. NumbersOK /\ EntriesOK /\ NumbersOK' /\ EntriesOK'
      BY <1>1 DEF IInv
    <2>3. Connections[id] = stored(record) /\ Connections[id]' = stored(record)'
      BY <2>1 DEF Connections
    <2>4. record \in DOMAIN kv /\ Held[record] = Connections[id]
      BY <2>2, <2>3, Reading DEF stored
    <2>5. record \in DOMAIN kv' => Held'[record].status = "revoked"
      <3>1. ASSUME record \in DOMAIN kv' PROVE stored(record)' = Held'[record]
        BY <3>1 DEF stored, get, Held
      <3> QED BY <2>3, <3>1
    <2>6. PICK d \in Clients : StoreStep(d) /\ client[d].step \in RevokeSteps
      BY <1>1, <2>1, <2>4, <2>5, RevokedBy
    <2>7. d = c
      BY <1>1, <2>6, StoreStepAnswers
    <2>8. PICK f : f = client[c] /\ f.step \in RevokeSteps /\ RequestFrameOK(f)
      BY <1>1, <2>6, <2>7, InCall
    <2>9. f.req.kind = KindOf(f.step) /\ f.req.kind = "content"
      BY <2>8 DEF RequestFrameOK, RevokeSteps
    <2>10. f.step \in {"refused", "refresh_refused"}
      BY <2>8, <2>9 DEF KindOf, RevokeSteps, CallbackSteps, DisconnectSteps
    <2> QED BY <2>8, <2>10 DEF RequestFrameOK
  <1>2. ASSUME IInv, IInv', [Next]_vars PROVE [Allowed]_vars
    BY <1>1, <1>2
  <1> QED BY <1>2, StorageIsSettled, PTL DEF Spec, RevokedOnlyOnRefusal

-----------------------------------------------------------------------------
(* The store that the entries stand for.                                   *)
ConnectionsIn(m) ==
    [id \in States |-> IF connection_key(id) \in DOMAIN m THEN m[connection_key(id)] ELSE None]
ActiveIn(m) ==
    [user \in Users |-> IF active_key(user) \in DOMAIN m THEN m[active_key(user)].connection_id
                        ELSE None]
TokensIn(m) ==
    [id \in States |-> IF credentials_key(id) \in DOMAIN m THEN m[credentials_key(id)] ELSE None]

LEMMA Viewed ==
    ASSUME NumbersOK, EntriesOK
    PROVE  /\ Connections = ConnectionsIn(Held) /\ ActiveConnections = ActiveIn(Held)
           /\ Credentials = TokensIn(Held)
  <1>1. \A key : /\ present(get(key)) <=> key \in DOMAIN Held
                 /\ stored(key) = IF key \in DOMAIN Held THEN Held[key] ELSE None
    BY Reading DEF Held, stored
  <1>2. Connections = ConnectionsIn(Held)
    BY <1>1 DEF Connections, ConnectionsIn
  <1>3. ActiveConnections = ActiveIn(Held)
    <2>1. ASSUME NEW user \in Users
          PROVE  ActiveConnections[user] = ActiveIn(Held)[user]
      <3>1. CASE active_key(user) \in DOMAIN Held
        BY <1>1, <3>1 DEF ActiveConnections, ActiveIn
      <3>2. CASE active_key(user) \notin DOMAIN Held
        BY <1>1, <3>2 DEF ActiveConnections, ActiveIn
      <3> QED BY <3>1, <3>2
    <2> QED BY <2>1 DEF ActiveConnections, ActiveIn
  <1>4. Credentials = TokensIn(Held)
    BY <1>1 DEF Credentials, TokensIn
  <1> QED BY <1>2, <1>3, <1>4

LEMMA ViewedNext ==
    (NumbersOK /\ EntriesOK)' =>
        /\ Connections' = ConnectionsIn(Held') /\ ActiveConnections' = ActiveIn(Held')
        /\ Credentials' = TokensIn(Held')
  <1>1. NumbersOK /\ EntriesOK =>
            /\ Connections = ConnectionsIn(Held) /\ ActiveConnections = ActiveIn(Held)
            /\ Credentials = TokensIn(Held)
    BY Viewed
  <1>2. (NumbersOK /\ EntriesOK)' =>
            (/\ Connections = ConnectionsIn(Held) /\ ActiveConnections = ActiveIn(Held)
             /\ Credentials = TokensIn(Held))'
    BY <1>1, PTL
  <1>3. /\ ConnectionsIn(Held)' = ConnectionsIn(Held') /\ ActiveIn(Held)' = ActiveIn(Held')
        /\ TokensIn(Held)' = TokensIn(Held')
    BY DEF ConnectionsIn, ActiveIn, TokensIn
  <1> QED BY <1>2, <1>3

(* Nothing but attempts written: the store is the same. *)
LEMMA AttemptsUnseen ==
    ASSUME AttemptOnly, NumbersOK, EntriesOK, NumbersOK', EntriesOK'
    PROVE  <<Connections, ActiveConnections, Credentials>>'
               = <<Connections, ActiveConnections, Credentials>>
  <1>1. PICK m, n : m = Held /\ n = Held'
    OBVIOUS
  <1>2. DOMAIN m = DOMAIN kv /\ DOMAIN n = DOMAIN kv'
    BY <1>1 DEF Held
  <1>3. \A key : key[1] # "attempt" => /\ key \in DOMAIN n <=> key \in DOMAIN m
                                       /\ key \in DOMAIN m => n[key] = m[key]
    BY <1>1, <1>2 DEF AttemptOnly
  <1>4. /\ \A i : connection_key(i)[1] # "attempt" /\ active_key(i)[1] # "attempt"
        /\ \A i : credentials_key(i)[1] # "attempt"
    BY KeyParts
  <1>5. ConnectionsIn(n) = ConnectionsIn(m) /\ TokensIn(n) = TokensIn(m)
    BY <1>3, <1>4 DEF ConnectionsIn, TokensIn
  <1>6. ActiveIn(n) = ActiveIn(m)
    <2>1. ASSUME NEW user \in Users PROVE ActiveIn(n)[user] = ActiveIn(m)[user]
      <3>1. CASE active_key(user) \in DOMAIN m
        BY <1>3, <1>4, <3>1 DEF ActiveIn
      <3>2. CASE active_key(user) \notin DOMAIN m
        BY <1>3, <1>4, <3>2 DEF ActiveIn
      <3> QED BY <3>1, <3>2
    <2> QED BY <2>1 DEF ActiveIn
  <1>7. /\ Connections = ConnectionsIn(m) /\ ActiveConnections = ActiveIn(m)
        /\ Credentials = TokensIn(m)
    BY <1>1, Viewed
  <1>8. /\ Connections' = ConnectionsIn(n) /\ ActiveConnections' = ActiveIn(n)
        /\ Credentials' = TokensIn(n)
    BY <1>1, ViewedNext
  <1> QED BY <1>5, <1>6, <1>7, <1>8

(* What the commits do to that store: each part changes at one place.      *)
Alike(m, n, key) == /\ key \in DOMAIN n <=> key \in DOMAIN m
                    /\ key \in DOMAIN m => n[key] = m[key]

Placed(f, g, i, value) == g = [f EXCEPT ![i] = value]

LEMMA KeysApart ==
    ASSUME NEW i, NEW j, i # j
    PROVE  /\ connection_key(i) # connection_key(j) /\ active_key(i) # active_key(j)
           /\ credentials_key(i) # credentials_key(j)
  BY KeyParts

LEMMA AlikeSeen ==
    ASSUME NEW m, NEW n
    PROVE  /\ \A i \in States : Alike(m, n, connection_key(i)) =>
                 ConnectionsIn(n)[i] = ConnectionsIn(m)[i]
           /\ \A u \in Users : Alike(m, n, active_key(u)) => ActiveIn(n)[u] = ActiveIn(m)[u]
           /\ \A i \in States : Alike(m, n, credentials_key(i)) => TokensIn(n)[i] = TokensIn(m)[i]
  <1>1. ASSUME NEW i \in States, Alike(m, n, connection_key(i))
        PROVE  ConnectionsIn(n)[i] = ConnectionsIn(m)[i]
    BY <1>1 DEF Alike, ConnectionsIn
  <1>2. ASSUME NEW u \in Users, Alike(m, n, active_key(u)) PROVE ActiveIn(n)[u] = ActiveIn(m)[u]
    <2>1. CASE active_key(u) \in DOMAIN m
      BY <1>2, <2>1 DEF Alike, ActiveIn
    <2>2. CASE active_key(u) \notin DOMAIN m
      BY <1>2, <2>2 DEF Alike, ActiveIn
    <2> QED BY <2>1, <2>2
  <1>3. ASSUME NEW i \in States, Alike(m, n, credentials_key(i))
        PROVE  TokensIn(n)[i] = TokensIn(m)[i]
    BY <1>3 DEF Alike, TokensIn
  <1> QED BY <1>1, <1>2, <1>3

(* All of it, or all but one place, is as before. *)
LEMMA PartsSeen ==
    ASSUME NEW m, NEW n
    PROVE  /\ (\A i \in States : Alike(m, n, connection_key(i))) =>
                 ConnectionsIn(n) = ConnectionsIn(m)
           /\ (\A u \in Users : Alike(m, n, active_key(u))) => ActiveIn(n) = ActiveIn(m)
           /\ (\A i \in States : Alike(m, n, credentials_key(i))) => TokensIn(n) = TokensIn(m)
           /\ \A id \in States : (\A i \in States : i # id => Alike(m, n, connection_key(i))) =>
                 Placed(ConnectionsIn(m), ConnectionsIn(n), id, ConnectionsIn(n)[id])
           /\ \A user \in Users : (\A u \in Users : u # user => Alike(m, n, active_key(u))) =>
                 Placed(ActiveIn(m), ActiveIn(n), user, ActiveIn(n)[user])
           /\ \A id \in States : (\A i \in States : i # id => Alike(m, n, credentials_key(i))) =>
                 Placed(TokensIn(m), TokensIn(n), id, TokensIn(n)[id])
  <1>1. PICK a, b, c, d, e, f :
           /\ a = ConnectionsIn(m) /\ b = ConnectionsIn(n) /\ c = ActiveIn(m) /\ d = ActiveIn(n)
           /\ e = TokensIn(m) /\ f = TokensIn(n)
    OBVIOUS
  <1>2. /\ a = [i \in States |-> a[i]] /\ b = [i \in States |-> b[i]]
        /\ c = [u \in Users |-> c[u]] /\ d = [u \in Users |-> d[u]]
        /\ e = [i \in States |-> e[i]] /\ f = [i \in States |-> f[i]]
    BY <1>1 DEF ConnectionsIn, ActiveIn, TokensIn
  <1>3. /\ \A i \in States : Alike(m, n, connection_key(i)) => b[i] = a[i]
        /\ \A u \in Users : Alike(m, n, active_key(u)) => d[u] = c[u]
        /\ \A i \in States : Alike(m, n, credentials_key(i)) => f[i] = e[i]
    BY <1>1, AlikeSeen
  <1>4. /\ (\A i \in States : Alike(m, n, connection_key(i))) => b = a
        /\ (\A u \in Users : Alike(m, n, active_key(u))) => d = c
        /\ (\A i \in States : Alike(m, n, credentials_key(i))) => f = e
    BY <1>2, <1>3
  <1>5. ASSUME NEW id \in States, \A i \in States : i # id => Alike(m, n, connection_key(i))
        PROVE  Placed(a, b, id, b[id])
    BY <1>2, <1>3, <1>5 DEF Placed
  <1>6. ASSUME NEW user \in Users, \A u \in Users : u # user => Alike(m, n, active_key(u))
        PROVE  Placed(c, d, user, d[user])
    BY <1>2, <1>3, <1>6 DEF Placed
  <1>7. ASSUME NEW id \in States, \A i \in States : i # id => Alike(m, n, credentials_key(i))
        PROVE  Placed(e, f, id, f[id])
    BY <1>2, <1>3, <1>7 DEF Placed
  <1> QED BY <1>1, <1>4, <1>5, <1>6, <1>7

LEMMA CreateSeen ==
    ASSUME NEW m, NEW n, NEW connection, NEW id, NEW user, id = connection.connection_id,
           user = connection.user_id, Creates(m, n, connection)
    PROVE  /\ id \in States /\ user \in Users
           /\ ConnectionsIn(m)[id] = None /\ ActiveIn(m)[user] = None
           /\ Placed(ConnectionsIn(m), ConnectionsIn(n), id, connection)
           /\ Placed(ActiveIn(m), ActiveIn(n), user, id) /\ TokensIn(n) = TokensIn(m)
  <1>1. PICK record, pointer, entry :
           /\ record = connection_key(id) /\ pointer = active_key(user)
           /\ entry = user_key(user, id)
           /\ record[1] = "connection" /\ pointer[1] = "active" /\ entry[1] = "user"
    BY KeyParts
  <1>2. /\ {record, pointer, entry} \cap DOMAIN m = {}
        /\ DOMAIN n = {record, pointer, entry} \cup DOMAIN m
        /\ n[record] = connection /\ n[pointer].connection_id = id
        /\ \A key \in DOMAIN m : n[key] = m[key]
        /\ id \in States /\ user \in Users
    BY <1>1 DEF Creates, StorageConnection
  <1>3. \A key : key \notin {record, pointer, entry} => Alike(m, n, key)
    BY <1>2 DEF Alike
  <1>4. /\ \A i : i # id => Alike(m, n, connection_key(i))
        /\ \A u : u # user => Alike(m, n, active_key(u))
        /\ \A i : Alike(m, n, credentials_key(i))
    BY <1>1, <1>3, KeyParts, KeysApart
  <1>5. /\ ConnectionsIn(m)[id] = None /\ ActiveIn(m)[user] = None
        /\ ConnectionsIn(n)[id] = connection /\ ActiveIn(n)[user] = id
    BY <1>1, <1>2 DEF ConnectionsIn, ActiveIn
  <1> QED BY <1>2, <1>4, <1>5, PartsSeen

LEMMA ReauthorizeSeen ==
    ASSUME NEW m, NEW n, NEW id \in States, NEW connection, NEW granted, NEW user \in Users,
           user = connection.user_id, Reauthorizes(m, n, id, connection, granted)
    PROVE  /\ ConnectionsIn(m)[id] = m[connection_key(id)] /\ ActiveIn(m)[user] \in {None, id}
           /\ Placed(ConnectionsIn(m), ConnectionsIn(n), id, connection)
           /\ Placed(ActiveIn(m), ActiveIn(n), user, id)
           /\ Placed(TokensIn(m), TokensIn(n), id, granted)
  <1>1. PICK record, pointer, tokens :
           /\ record = connection_key(id) /\ pointer = active_key(user)
           /\ tokens = credentials_key(id)
           /\ record[1] = "connection" /\ pointer[1] = "active" /\ tokens[1] = "credentials"
    BY KeyParts
  <1>2. /\ record \in DOMAIN m /\ DOMAIN n = {record, pointer, tokens} \cup DOMAIN m
        /\ n[record] = connection /\ n[pointer].connection_id = id /\ n[tokens] = granted
        /\ \A key \in DOMAIN m : key \notin {record, pointer, tokens} => n[key] = m[key]
        /\ pointer \in DOMAIN m => m[pointer].connection_id = id
    BY <1>1 DEF Reauthorizes
  <1>3. \A key : key \notin {record, pointer, tokens} => Alike(m, n, key)
    BY <1>2 DEF Alike
  <1>4. /\ \A i : i # id => Alike(m, n, connection_key(i)) /\ Alike(m, n, credentials_key(i))
        /\ \A u : u # user => Alike(m, n, active_key(u))
    BY <1>1, <1>3, KeyParts, KeysApart
  <1>5. /\ ConnectionsIn(m)[id] = m[record] /\ ActiveIn(m)[user] \in {None, id}
        /\ ConnectionsIn(n)[id] = connection /\ ActiveIn(n)[user] = id /\ TokensIn(n)[id] = granted
    BY <1>1, <1>2 DEF ConnectionsIn, ActiveIn, TokensIn
  <1> QED BY <1>1, <1>4, <1>5, PartsSeen

LEMMA RevokeSeen ==
    ASSUME NEW m, NEW n, NEW id \in States, NEW connection, NEW user \in Users,
           user = connection.user_id, Revokes(m, n, id, connection)
    PROVE  /\ ConnectionsIn(m)[id] = m[connection_key(id)]
           /\ Placed(ConnectionsIn(m), ConnectionsIn(n), id, connection)
           /\ Placed(ActiveIn(m), ActiveIn(n), user, None)
           /\ Placed(TokensIn(m), TokensIn(n), id, None)
  <1>1. PICK record, pointer, tokens :
           /\ record = connection_key(id) /\ pointer = active_key(user)
           /\ tokens = credentials_key(id)
           /\ record[1] = "connection" /\ pointer[1] = "active" /\ tokens[1] = "credentials"
    BY KeyParts
  <1>2. /\ record \in DOMAIN m /\ DOMAIN n = DOMAIN m \ {pointer, tokens}
        /\ n[record] = connection /\ \A key \in DOMAIN n : key # record => n[key] = m[key]
    BY <1>1 DEF Revokes
  <1>3. \A key : key \notin {record, pointer, tokens} => Alike(m, n, key)
    BY <1>2 DEF Alike
  <1>4. /\ \A i : i # id => Alike(m, n, connection_key(i)) /\ Alike(m, n, credentials_key(i))
        /\ \A u : u # user => Alike(m, n, active_key(u))
    BY <1>1, <1>3, KeyParts, KeysApart
  <1>5. /\ ConnectionsIn(m)[id] = m[record] /\ ConnectionsIn(n)[id] = connection
        /\ ActiveIn(n)[user] = None /\ TokensIn(n)[id] = None
    BY <1>1, <1>2 DEF ConnectionsIn, ActiveIn, TokensIn
  <1> QED BY <1>1, <1>4, <1>5, PartsSeen

LEMMA PutSeen ==
    ASSUME NEW m, NEW n, NEW id \in States, NEW granted, Puts(m, n, id, granted)
    PROVE  /\ ConnectionsIn(m)[id] = m[connection_key(id)]
           /\ ConnectionsIn(n) = ConnectionsIn(m) /\ ActiveIn(n) = ActiveIn(m)
           /\ Placed(TokensIn(m), TokensIn(n), id, granted)
  <1>1. PICK record, tokens :
           /\ record = connection_key(id) /\ tokens = credentials_key(id)
           /\ record[1] = "connection" /\ tokens[1] = "credentials"
    BY KeyParts
  <1>2. /\ record \in DOMAIN m /\ DOMAIN n = {tokens} \cup DOMAIN m
        /\ n[tokens] = granted /\ \A key \in DOMAIN m : key # tokens => n[key] = m[key]
    BY <1>1 DEF Puts
  <1>3. \A key : key # tokens => Alike(m, n, key)
    BY <1>2 DEF Alike
  <1>4. /\ \A i : Alike(m, n, connection_key(i)) /\ Alike(m, n, active_key(i))
        /\ \A i : i # id => Alike(m, n, credentials_key(i))
    BY <1>1, <1>3, KeyParts, KeysApart
  <1>5. ConnectionsIn(m)[id] = m[record] /\ TokensIn(n)[id] = granted
    BY <1>1, <1>2 DEF ConnectionsIn, TokensIn
  <1>6. ConnectionsIn(n) = ConnectionsIn(m) /\ ActiveIn(n) = ActiveIn(m)
    BY <1>4, PartsSeen
  <1>7. Placed(TokensIn(m), TokensIn(n), id, TokensIn(n)[id])
    <2>1. \A i \in States : i # id => Alike(m, n, credentials_key(i))
      BY <1>4
    <2> QED BY <2>1, PartsSeen
  <1> QED BY <1>1, <1>5, <1>6, <1>7

(* Each commit is the operation that was asked for. *)
LEMMA CommitRequested ==
    ASSUME IInv, IInv', NEW c \in Clients, StoreStep(c)
    PROVE  RequestedOperation(client[c].repo)
  <1>1. PICK m, n, repo : m = Held /\ n = Held' /\ repo = client[c].repo
    OBVIOUS
  <1>2. /\ Connections = ConnectionsIn(m) /\ ActiveConnections = ActiveIn(m)
        /\ Credentials = TokensIn(m)
    BY <1>1, Viewed DEF IInv
  <1>3. /\ Connections' = ConnectionsIn(n) /\ ActiveConnections' = ActiveIn(n)
        /\ Credentials' = TokensIn(n)
    BY <1>1, ViewedNext DEF IInv
  <1>4. None \notin StorageConnection
    BY StorageAssumption
  <1>5. ASSUME NEW connection, repo.at = "create_commit", CreateDone(c, connection)
        PROVE  RequestedOperation(repo)
    <2>1. connection = repo.call.connection /\ Creates(m, n, connection)
      BY <1>1, <1>5 DEF CreateDone
    <2>2. PICK id, user : id = connection.connection_id /\ user = connection.user_id
      OBVIOUS
    <2>3. /\ ConnectionsIn(m)[id] = None /\ ActiveIn(m)[user] = None
          /\ Placed(ConnectionsIn(m), ConnectionsIn(n), id, connection)
          /\ Placed(ActiveIn(m), ActiveIn(n), user, id) /\ TokensIn(n) = TokensIn(m)
          /\ connection.status = "active"
      BY <2>1, <2>2, CreateSeen DEF Creates
    <2>4. Abstract!create(connection)
      BY <1>2, <1>3, <2>2, <2>3 DEF Abstract!create, Placed
    <2> QED BY <1>5, <2>1, <2>4 DEF RequestedOperation
  <1>6. ASSUME NEW asked, NEW old, NEW connection, repo.at = "reauthorize_commit",
               ReauthorizeDone(c, asked, old, connection)
        PROVE  RequestedOperation(repo)
    <2>1. PICK id, user, time, granted, subject :
             /\ id = asked.id /\ user = asked.user /\ time = asked.time
             /\ granted = asked.credentials /\ subject = asked.subject
      OBVIOUS
    <2>2. /\ asked = repo.call /\ Owns(asked, old) /\ old.provider_subject = subject
          /\ connection = [old EXCEPT !.status = "active", !.updated_at = time]
          /\ connection.user_id = user /\ Reauthorizes(m, n, id, connection, granted)
      BY <1>1, <1>6, <2>1 DEF ReauthorizeDone
    <2>3. /\ m[connection_key(id)] = old /\ old \in StorageConnection
          /\ old.connection_id = id /\ old.user_id = user /\ time >= old.updated_at
      BY <1>1, <2>1, <2>2 DEF Owns
    <2>4. id \in States /\ user \in Users /\ old # None
      BY <1>4, <2>3 DEF StorageConnection
    <2>5. /\ ConnectionsIn(m)[id] = old /\ ActiveIn(m)[user] \in {None, id}
          /\ Placed(ConnectionsIn(m), ConnectionsIn(n), id, connection)
          /\ Placed(ActiveIn(m), ActiveIn(n), user, id)
          /\ Placed(TokensIn(m), TokensIn(n), id, granted)
      <3>1. user = connection.user_id /\ Reauthorizes(m, n, id, connection, granted)
        BY <2>2
      <3>2. /\ ConnectionsIn(m)[id] = m[connection_key(id)] /\ ActiveIn(m)[user] \in {None, id}
            /\ Placed(ConnectionsIn(m), ConnectionsIn(n), id, connection)
            /\ Placed(ActiveIn(m), ActiveIn(n), user, id)
            /\ Placed(TokensIn(m), TokensIn(n), id, granted)
        BY <2>4, <3>1, ReauthorizeSeen
      <3> QED BY <2>3, <3>2
    <2>6. ConnectionsIn(n)
             = [ConnectionsIn(m) EXCEPT ![id].status = "active", ![id].updated_at = time]
      BY <2>2, <2>4, <2>5 DEF ConnectionsIn, Placed
    <2>7. Abstract!reauthorize(id, subject, granted, time)
      BY <1>2, <1>3, <2>2, <2>3, <2>4, <2>5, <2>6 DEF Abstract!reauthorize, Placed
    <2> QED BY <1>6, <2>1, <2>2, <2>7 DEF RequestedOperation
  <1>7. ASSUME NEW asked, NEW old, NEW revoked, repo.at = "revoke_commit",
               RevokeDone(c, asked, old, revoked)
        PROVE  RequestedOperation(repo)
    <2>1. PICK id, user, time : id = asked.id /\ user = asked.user /\ time = asked.time
      OBVIOUS
    <2>2. /\ asked = repo.call /\ Owns(asked, old) /\ old.status = "active"
          /\ revoked = [old EXCEPT !.status = "revoked", !.updated_at = time]
          /\ revoked.user_id = user /\ Revokes(m, n, id, revoked)
      BY <1>1, <1>7, <2>1 DEF RevokeDone
    <2>3. /\ m[connection_key(id)] = old /\ old \in StorageConnection
          /\ old.connection_id = id /\ old.user_id = user /\ time >= old.updated_at
      BY <1>1, <2>1, <2>2 DEF Owns
    <2>4. id \in States /\ user \in Users /\ old # None
      BY <1>4, <2>3 DEF StorageConnection
    <2>5. /\ ConnectionsIn(m)[id] = old
          /\ Placed(ConnectionsIn(m), ConnectionsIn(n), id, revoked)
          /\ Placed(ActiveIn(m), ActiveIn(n), user, None)
          /\ Placed(TokensIn(m), TokensIn(n), id, None)
      <3>1. user = revoked.user_id /\ Revokes(m, n, id, revoked)
        BY <2>2
      <3>2. /\ ConnectionsIn(m)[id] = m[connection_key(id)]
            /\ Placed(ConnectionsIn(m), ConnectionsIn(n), id, revoked)
            /\ Placed(ActiveIn(m), ActiveIn(n), user, None)
            /\ Placed(TokensIn(m), TokensIn(n), id, None)
        BY <2>4, <3>1, RevokeSeen
      <3> QED BY <2>3, <3>2
    <2>6. ConnectionsIn(n)
             = [ConnectionsIn(m) EXCEPT ![id].status = "revoked", ![id].updated_at = time]
      BY <2>2, <2>4, <2>5 DEF ConnectionsIn, Placed
    <2>7. Abstract!revoke(id, time)
      BY <1>2, <1>3, <2>2, <2>3, <2>4, <2>5, <2>6 DEF Abstract!revoke, Placed
    <2> QED BY <1>7, <2>1, <2>2, <2>7 DEF RequestedOperation
  <1>8. ASSUME NEW asked, repo.at = "put_commit", PutDone(c, asked)
        PROVE  RequestedOperation(repo)
    <2>1. PICK id, granted : id = asked.id /\ granted = asked.credentials
      OBVIOUS
    <2>2. asked = repo.call /\ Puts(m, n, id, granted)
      BY <1>1, <1>8, <2>1 DEF PutDone
    <2>3. PICK record, old : /\ record = connection_key(id) /\ old = m[record]
                             /\ record[1] = "connection" /\ record[2] = id
      BY KeyParts
    <2>4. /\ record \in DOMAIN m /\ old.status = "active" /\ StoredTogether(m)
      BY <1>1, <2>2, <2>3 DEF Puts, IInv, EntriesOK
    <2>5. record = connection_key(old.connection_id) /\ old \in StorageConnection
      BY <2>3, <2>4, TogetherParts DEF ConnectionsTogether
    <2>6. old.connection_id = id
      <3>1. PICK other : other = old.connection_id /\ record = connection_key(other)
        BY <2>5
      <3>2. record[2] = other
        BY <3>1, KeyParts
      <3> QED BY <2>3, <3>1, <3>2
    <2>7. id \in States /\ old # None
      BY <1>4, <2>5, <2>6 DEF StorageConnection
    <2>8. /\ ConnectionsIn(m)[id] = old
          /\ ConnectionsIn(n) = ConnectionsIn(m) /\ ActiveIn(n) = ActiveIn(m)
          /\ Placed(TokensIn(m), TokensIn(n), id, granted)
      BY <2>2, <2>3, <2>7, PutSeen
    <2>9. Abstract!put_credentials(id, granted)
      BY <1>2, <1>3, <2>4, <2>7, <2>8 DEF Abstract!put_credentials, Placed
    <2> QED BY <1>8, <2>1, <2>2, <2>9 DEF RequestedOperation
  <1> QED BY <1>1, <1>5, <1>6, <1>7, <1>8 DEF StoreStep

(* The connections change only as the in-memory repository would change    *)
(* them: by one operation at a time, one that the client which gets its    *)
(* answer asked for, and under that operation's conditions.                *)
THEOREM CommitsAreOperations == Spec => ImplementsConnectionStore
  <1> DEFINE Operates ==
        <<Connections, ActiveConnections, Credentials>>'
            # <<Connections, ActiveConnections, Credentials>>
        => \E c \in Clients : client'[c] # client[c] /\ RequestedOperation(client[c].repo)
  <1>1. ASSUME IInv, IInv', [Next]_vars PROVE Operates
    <2>1. CASE AttemptOnly
      BY <1>1, <2>1, AttemptsUnseen DEF IInv
    <2>2. ASSUME NEW c \in Clients, StoreStep(c)
          PROVE  client'[c] # client[c] /\ RequestedOperation(client[c].repo)
      BY <1>1, <2>2, StoreStepAnswers, CommitRequested
    <2> QED BY <1>1, <2>1, <2>2, StoreSteps
  <1>2. ASSUME IInv, IInv', [Next]_vars PROVE [Operates]_vars
    BY <1>1, <1>2
  <1> QED BY <1>2, StorageIsSettled, PTL DEF Spec, ImplementsConnectionStore

(* So the entries keep what the in-memory repository promises: tokens for  *)
(* active connections only, and one active connection per user, the one    *)
(* its index leads to.                                                     *)
THEOREM EntriesKeepCustody == Spec => []Abstract!CustodyCoherent
  <1>1. ASSUME IInv PROVE Abstract!CustodyCoherent
    <2>1. PICK m : m = Held
      OBVIOUS
    <2>2. /\ Connections = ConnectionsIn(m) /\ ActiveConnections = ActiveIn(m)
          /\ Credentials = TokensIn(m)
      BY <1>1, <2>1, Viewed DEF IInv
    <2>3. ConnectionsTogether(m) /\ ActiveTogether(m) /\ TokensTogether(m)
      BY <1>1, <2>1, TogetherParts DEF IInv, EntriesOK
    <2>4. None \notin StorageConnection /\ None \notin States
      BY StorageAssumption
    <2>5. ASSUME NEW id \in States, NEW record, record = connection_key(id), record \in DOMAIN m
          PROVE  /\ m[record] \in StorageConnection /\ m[record].connection_id = id
                 /\ m[record] # None /\ ConnectionsIn(m)[id] = m[record]
      <3>1. record[1] = "connection" /\ record[2] = id
        BY <2>5, KeyParts
      <3>2. PICK other : other = m[record].connection_id /\ record = connection_key(other)
        BY <2>3, <2>5, <3>1 DEF ConnectionsTogether
      <3>3. record[2] = other
        BY <3>2, KeyParts
      <3>4. m[record] \in StorageConnection
        BY <2>3, <2>5, <3>1 DEF ConnectionsTogether
      <3> QED BY <2>4, <2>5, <3>1, <3>2, <3>3, <3>4 DEF ConnectionsIn
    <2>6. ASSUME NEW id \in States, TokensIn(m)[id] # None
          PROVE  ConnectionsIn(m)[id] # None /\ ConnectionsIn(m)[id].status = "active"
      <3>1. PICK key : /\ key = credentials_key(id)
                       /\ key[1] = "credentials" /\ key[2] = id
        BY KeyParts
      <3>2. key \in DOMAIN m
        BY <2>6, <3>1 DEF TokensIn
      <3>3. connection_key(id) \in DOMAIN m /\ m[connection_key(id)].status = "active"
        BY <2>3, <3>1, <3>2 DEF TokensTogether
      <3> QED BY <2>5, <3>3
    <2>7. ASSUME NEW id \in States, ConnectionsIn(m)[id] # None
          PROVE  /\ ConnectionsIn(m)[id].connection_id = id
                 /\ ConnectionsIn(m)[id].status = "active"
                       <=> ActiveIn(m)[ConnectionsIn(m)[id].user_id] = id
      <3>1. PICK record, connection, user, pointer :
               /\ record = connection_key(id) /\ connection = m[record]
               /\ user = connection.user_id /\ pointer = active_key(user)
               /\ record[1] = "connection" /\ pointer[1] = "active"
        BY KeyParts
      <3>2. record \in DOMAIN m
        BY <2>7, <3>1 DEF ConnectionsIn
      <3>3. /\ connection \in StorageConnection /\ connection.connection_id = id
            /\ ConnectionsIn(m)[id] = connection
        BY <2>5, <3>1, <3>2
      <3>4. user \in Users
        BY <3>1, <3>3 DEF StorageConnection
      <3>5. ActiveIn(m)[user] = IF pointer \in DOMAIN m THEN m[pointer].connection_id ELSE None
        BY <3>1, <3>4 DEF ActiveIn
      <3>6. connection.status = "active" =>
               pointer \in DOMAIN m /\ m[pointer].connection_id = id
        BY <2>3, <3>1, <3>2, <3>3 DEF ConnectionsTogether
      <3>7. pointer \in DOMAIN m /\ m[pointer].connection_id = id => connection.status = "active"
        BY <2>3, <3>1 DEF ActiveTogether
      <3> QED BY <2>4, <3>1, <3>3, <3>5, <3>6, <3>7
    <2>8. ASSUME NEW user \in Users, ActiveIn(m)[user] # None
          PROVE  /\ ConnectionsIn(m)[ActiveIn(m)[user]] # None
                 /\ ConnectionsIn(m)[ActiveIn(m)[user]].user_id = user
      <3>1. PICK pointer : /\ pointer = active_key(user)
                           /\ pointer[1] = "active" /\ pointer[2] = user
        BY KeyParts
      <3>2. PICK id, record : /\ id = m[pointer].connection_id /\ record = connection_key(id)
                              /\ record[1] = "connection" /\ record[2] = id
        BY KeyParts
      <3>3. pointer \in DOMAIN m /\ ActiveIn(m)[user] = id
        BY <2>8, <3>1, <3>2 DEF ActiveIn
      <3>4. PICK owner : /\ owner = m[record].user_id /\ record \in DOMAIN m
                         /\ pointer = active_key(owner)
        BY <2>3, <3>1, <3>2, <3>3 DEF ActiveTogether
      <3>5. owner = user
        BY <3>1, <3>4, KeyParts
      <3>6. PICK other : /\ other = m[record].connection_id /\ record = connection_key(other)
                         /\ m[record] \in StorageConnection
        BY <2>3, <3>2, <3>4 DEF ConnectionsTogether
      <3>7. other = id
        BY <3>2, <3>6, KeyParts
      <3>8. id \in States
        BY <3>6, <3>7 DEF StorageConnection
      <3> QED BY <2>5, <3>2, <3>3, <3>4, <3>5, <3>8
    <2> QED BY <2>2, <2>6, <2>7, <2>8
        DEF Abstract!CustodyCoherent, Abstract!TokensOfActive, Abstract!OneActivePerUser
  <1> QED BY <1>1, StorageIsSettled, PTL

-----------------------------------------------------------------------------
(* The store itself: CustodyCoherent holds of every sequence of repository *)
(* operations, for any users, connections, accounts and tokens.            *)
CONSTANTS ConnectionIds, Tokens

VARIABLES all_connections, all_active, all_credentials

Store == INSTANCE StorageConnectionStore WITH
             connections <- all_connections, active <- all_active, credentials <- all_credentials

(* What is assumed of the constants: None is nothing else.                 *)
StoreApart == None \notin ConnectionIds \cup Tokens \cup Store!StorageConnection

CustodyIInv == Store!TypeOK /\ Store!CustodyCoherent

LEMMA StoreStarts == Store!Init => CustodyIInv
  BY DEF Store!Init, CustodyIInv, Store!TypeOK, Store!CustodyCoherent, Store!TokensOfActive,
         Store!OneActivePerUser

LEMMA CreatePreserves ==
    ASSUME StoreApart, CustodyIInv, NEW connection \in Store!StorageConnection,
           Store!create(connection)
    PROVE  CustodyIInv'
  <1> DEFINE id == connection.connection_id
             user == connection.user_id
  <1>1. id \in ConnectionIds /\ user \in Users /\ connection # None
    BY DEF StoreApart, Store!StorageConnection
  <1>2. Store!TypeOK'
    BY <1>1 DEF CustodyIInv, Store!TypeOK, Store!create
  <1>3. Store!TokensOfActive'
    BY <1>1 DEF CustodyIInv, Store!TypeOK, Store!CustodyCoherent, Store!TokensOfActive, Store!create
  <1>4. Store!OneActivePerUser'
    <2>1. ASSUME NEW other \in ConnectionIds, all_connections'[other] # None
          PROVE  /\ all_connections'[other].connection_id = other
                 /\ all_connections'[other].status = "active"
                        <=> all_active'[all_connections'[other].user_id] = other
      <3>1. CASE other = id
        BY <1>1, <3>1 DEF CustodyIInv, Store!TypeOK, Store!create
      <3>2. CASE other # id
        <4>1. all_connections'[other] = all_connections[other] /\ all_connections[other] # None
          BY <2>1, <3>2 DEF CustodyIInv, Store!TypeOK, Store!create
        <4>2. all_connections[other] \in Store!StorageConnection
          BY <4>1 DEF CustodyIInv, Store!TypeOK
        <4>3. CASE all_connections[other].user_id = user
          <5>1. all_active[user] = None /\ all_active'[user] = id
            BY <1>1 DEF CustodyIInv, Store!TypeOK, Store!create
          <5> QED BY <4>1, <4>3, <5>1, <3>2
                  DEF StoreApart, CustodyIInv, Store!CustodyCoherent, Store!OneActivePerUser
        <4>4. CASE all_connections[other].user_id # user
          <5>1. all_active'[all_connections[other].user_id] = all_active[all_connections[other].user_id]
            BY <4>2, <4>4 DEF CustodyIInv, Store!TypeOK, Store!create, Store!StorageConnection
          <5> QED BY <4>1, <5>1 DEF CustodyIInv, Store!CustodyCoherent, Store!OneActivePerUser
        <4> QED BY <4>3, <4>4
      <3> QED BY <3>1, <3>2
    <2>2. ASSUME NEW u \in Users, all_active'[u] # None
          PROVE  all_connections'[all_active'[u]] # None /\ all_connections'[all_active'[u]].user_id = u
      <3>1. CASE u = user
        BY <1>1, <3>1 DEF CustodyIInv, Store!TypeOK, Store!create
      <3>2. CASE u # user
        BY <1>1, <2>2, <3>2
           DEF CustodyIInv, Store!TypeOK, Store!CustodyCoherent, Store!OneActivePerUser,
               Store!create
      <3> QED BY <3>1, <3>2
    <2> QED BY <2>1, <2>2 DEF Store!OneActivePerUser
  <1> QED BY <1>2, <1>3, <1>4 DEF CustodyIInv, Store!CustodyCoherent

(* A connection is switched on or off: what holds of the two operations    *)
(* that change the status of one connection and the index of its user.   *)
LEMMA SwitchPreserves ==
    ASSUME StoreApart, CustodyIInv, NEW id \in ConnectionIds, NEW time \in Nat,
           NEW granted \in Tokens \cup {None},
           NEW told \in {"active", "revoked"},
           all_connections[id] # None,
           told = "active" => all_active[all_connections[id].user_id] \in {None, id},
           told = "revoked" => all_connections[id].status = "active" /\ granted = None,
           all_connections' = [all_connections EXCEPT ![id].status = told, ![id].updated_at = time],
           all_active' = [all_active EXCEPT ![all_connections[id].user_id] =
                          IF told = "active" THEN id ELSE None],
           all_credentials' = [all_credentials EXCEPT ![id] = granted]
    PROVE  CustodyIInv'
  <1> DEFINE user == all_connections[id].user_id
             switched == [all_connections[id] EXCEPT !.status = told, !.updated_at = time]
  <1>1. all_connections[id] \in Store!StorageConnection /\ user \in Users
    BY DEF CustodyIInv, Store!TypeOK, Store!StorageConnection
  <1>2. all_connections' = [all_connections EXCEPT ![id] = switched]
    BY DEF CustodyIInv, Store!TypeOK
  <1>3. /\ switched \in Store!StorageConnection /\ switched # None
        /\ switched.status = told /\ switched.user_id = user
        /\ switched.connection_id = all_connections[id].connection_id
    <2>1. switched \in Store!StorageConnection
      BY <1>1 DEF Store!StorageConnection
    <2>2. /\ switched.status = told /\ switched.user_id = user
          /\ switched.connection_id = all_connections[id].connection_id
      BY <1>1 DEF Store!StorageConnection
    <2> QED BY <2>1, <2>2 DEF StoreApart
  <1>a. all_connections'[id] = switched
    BY <1>2 DEF CustodyIInv, Store!TypeOK
  <1>b. \A other \in ConnectionIds : other # id => all_connections'[other] = all_connections[other]
    BY <1>2 DEF CustodyIInv, Store!TypeOK
  <1>c. all_active'[user] = IF told = "active" THEN id ELSE None
    BY <1>1 DEF CustodyIInv, Store!TypeOK
  <1>d. \A u \in Users : u # user => all_active'[u] = all_active[u]
    BY <1>1 DEF CustodyIInv, Store!TypeOK
  <1>e. id # None
    BY DEF StoreApart
  <1> HIDE DEF switched
  <1>4. Store!TypeOK'
    <2>1. all_connections' \in [ConnectionIds -> Store!StorageConnection \cup {None}]
      BY <1>2, <1>3 DEF CustodyIInv, Store!TypeOK
    <2>2. all_active' \in [Users -> ConnectionIds \cup {None}]
      BY DEF CustodyIInv, Store!TypeOK
    <2>3. all_credentials' \in [ConnectionIds -> Tokens \cup {None}]
      BY DEF CustodyIInv, Store!TypeOK
    <2> QED BY <2>1, <2>2, <2>3 DEF Store!TypeOK
  <1>5. Store!TokensOfActive'
    <2> SUFFICES ASSUME NEW other \in ConnectionIds, all_credentials'[other] # None
                 PROVE  all_connections'[other] # None /\ all_connections'[other].status = "active"
      BY DEF Store!TokensOfActive
    <2>1. CASE other = id
      BY <1>a, <1>3, <2>1 DEF CustodyIInv, Store!TypeOK
    <2>2. CASE other # id
      BY <1>b, <2>2 DEF CustodyIInv, Store!TypeOK, Store!CustodyCoherent, Store!TokensOfActive
    <2> QED BY <2>1, <2>2
  <1>6. Store!OneActivePerUser'
    <2>1. ASSUME NEW other \in ConnectionIds, all_connections'[other] # None
          PROVE  /\ all_connections'[other].connection_id = other
                 /\ all_connections'[other].status = "active"
                        <=> all_active'[all_connections'[other].user_id] = other
      <3>1. CASE other = id
        <4>1. all_connections[id].connection_id = id
          BY DEF CustodyIInv, Store!CustodyCoherent, Store!OneActivePerUser
        <4> QED BY <1>a, <1>3, <1>c, <1>e, <3>1, <4>1
      <3>2. CASE other # id
        <4>1. all_connections'[other] = all_connections[other] /\ all_connections[other] # None
          BY <1>b, <2>1, <3>2
        <4>2. all_connections[other] \in Store!StorageConnection /\ all_connections[other].user_id \in Users
          BY <4>1 DEF CustodyIInv, Store!TypeOK, Store!StorageConnection
        <4>3. /\ all_connections[other].connection_id = other
              /\ all_connections[other].status = "active" <=> all_active[all_connections[other].user_id] = other
          BY <4>1 DEF CustodyIInv, Store!CustodyCoherent, Store!OneActivePerUser
        <4>4. CASE all_connections[other].user_id = user
          <5>1. all_active[user] \in {None, id}
            BY DEF CustodyIInv, Store!CustodyCoherent, Store!OneActivePerUser
          <5> QED BY <4>1, <4>3, <4>4, <5>1, <3>2, <1>c DEF StoreApart
        <4>5. CASE all_connections[other].user_id # user
          BY <4>1, <4>2, <4>3, <4>5, <1>d
        <4> QED BY <4>4, <4>5
      <3> QED BY <3>1, <3>2
    <2>2. ASSUME NEW u \in Users, all_active'[u] # None
          PROVE  all_connections'[all_active'[u]] # None /\ all_connections'[all_active'[u]].user_id = u
      <3>1. CASE u = user
        BY <1>a, <1>3, <1>c, <2>2, <3>1
      <3>2. CASE u # user
        <4>1. all_active'[u] = all_active[u] /\ all_active[u] \in ConnectionIds
          BY <1>d, <2>2, <3>2 DEF CustodyIInv, Store!TypeOK
        <4>2. all_connections[all_active[u]] # None /\ all_connections[all_active[u]].user_id = u
          BY <2>2, <4>1 DEF CustodyIInv, Store!CustodyCoherent, Store!OneActivePerUser
        <4>3. all_active[u] # id
          BY <3>2, <4>2
        <4> QED BY <1>b, <4>1, <4>2, <4>3
      <3> QED BY <3>1, <3>2
    <2> QED BY <2>1, <2>2 DEF Store!OneActivePerUser
  <1> QED BY <1>4, <1>5, <1>6 DEF CustodyIInv, Store!CustodyCoherent

LEMMA PutPreserves ==
    ASSUME StoreApart, CustodyIInv, NEW id \in ConnectionIds, NEW granted \in Tokens,
           Store!put_credentials(id, granted)
    PROVE  CustodyIInv'
  <1>1. Store!TypeOK'
    BY DEF CustodyIInv, Store!TypeOK, Store!put_credentials
  <1>2. Store!TokensOfActive'
    BY DEF CustodyIInv, Store!TypeOK, Store!CustodyCoherent, Store!TokensOfActive,
           Store!put_credentials
  <1>3. Store!OneActivePerUser'
    BY DEF CustodyIInv, Store!CustodyCoherent, Store!OneActivePerUser, Store!put_credentials
  <1> QED BY <1>1, <1>2, <1>3 DEF CustodyIInv, Store!CustodyCoherent

LEMMA StorePreserves == StoreApart /\ CustodyIInv /\ [Store!Next]_(Store!vars) => CustodyIInv'
  <1> SUFFICES ASSUME StoreApart, CustodyIInv, [Store!Next]_(Store!vars) PROVE CustodyIInv'
    OBVIOUS
  <1>1. ASSUME NEW connection \in Store!StorageConnection, Store!create(connection)
        PROVE  CustodyIInv'
    BY <1>1, CreatePreserves
  <1>2. ASSUME NEW id \in ConnectionIds, NEW granted \in Tokens, NEW subject \in Subjects,
               NEW time \in Nat, Store!reauthorize(id, subject, granted, time)
        PROVE  CustodyIInv'
    BY <1>2, SwitchPreserves DEF Store!reauthorize
  <1>3. ASSUME NEW id \in ConnectionIds, NEW granted \in Tokens, Store!put_credentials(id, granted)
        PROVE  CustodyIInv'
    BY <1>3, PutPreserves
  <1>4. ASSUME NEW id \in ConnectionIds, NEW time \in Nat, Store!revoke(id, time) PROVE CustodyIInv'
    BY <1>4, SwitchPreserves DEF Store!revoke
  <1>5. CASE UNCHANGED Store!vars
    BY <1>5
       DEF Store!vars, CustodyIInv, Store!TypeOK, Store!CustodyCoherent, Store!TokensOfActive,
           Store!OneActivePerUser
  <1> QED BY <1>1, <1>2, <1>3, <1>4, <1>5 DEF Store!Next

(* The tokens of a connection are gone as soon as it is no longer active,  *)
(* and a user's active connection is the one its index leads to, through   *)
(* every sequence of create, reauthorize, revoke and put_credentials.      *)
THEOREM CustodyIsCoherent == StoreApart => (Store!Spec => []Store!CustodyCoherent)
  <1> SUFFICES ASSUME StoreApart PROVE Store!Spec => []Store!CustodyCoherent
    OBVIOUS
  <1>1. CustodyIInv /\ [Store!Next]_(Store!vars) => CustodyIInv'
    BY StorePreserves
  <1>2. CustodyIInv => Store!CustodyCoherent
    BY DEF CustodyIInv
  <1> QED BY <1>1, <1>2, StoreStarts, PTL DEF Store!Spec
=============================================================================
