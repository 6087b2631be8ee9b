------------------------------ MODULE SignInProofs ------------------------------
(***************************************************************************)
(* The identities and the sessions of SignIn, for any number of concurrent *)
(* requests, scenarios and crashes: a user for every identity and an       *)
(* identity for every user, observations that never go back, sessions that *)
(* sign in once, codes that are exchanged once, and the in-memory          *)
(* repository that the one over KV implements.  There are three            *)
(* arguments: versionstamps, for what a repository reads and then commits; *)
(* session versions, for what a request knows of its session across the    *)
(* whole sign-in; tickets, for who may still come to exchange a code.      *)
(***************************************************************************)
EXTENDS SignIn, TLAPS, FiniteSetTheorems

-----------------------------------------------------------------------------
(* The inductive invariant.                                                *)
(* An entry read earlier: it is the one stored now if the stamps agree.    *)
Seen(entry, key) ==
    /\ entry.vs \in 1..clock
    /\ get(key).vs = entry.vs => get(key) = entry

(* The entries stored: with stamps given out, the sessions as those of the *)
(* first requests, an index entry that has not expired leading to the      *)
(* session of its bearer, and every user the user of one identity.         *)
StoredAt(key, record) == StoredSession(record) /\ \E id \in Credentials : key = record_key(id)

EntriesOK ==
    /\ clock \in Nat /\ now \in Nat
    /\ \A key \in DOMAIN kv : kv[key].vs \in 1..clock
    /\ \A key \in DOMAIN kv : key[1] = "session" => StoredAt(key, kv[key].val)

IndexOK(key) ==
    LET index == kv[key].val
        own == record_key(index.session_id)
    IN
    /\ index.expires \in Nat
    /\ index.expires > now =>
          /\ own \in DOMAIN kv /\ kv[own].val.absolute_expires = index.expires
          /\ key = credential_key(kv[own].val.credential)

IndexesOK == \A key \in DOMAIN kv : key[1] = "credential" => IndexOK(key)

Known(subject) == identity_key(subject) \in DOMAIN kv
UserOf(subject) == kv[identity_key(subject)].val.user_id

IdentitiesPaired ==
    /\ \A a \in Subjects : Known(a) =>
          kv[identity_key(a)].val \in StoredIdentity /\ user_key(UserOf(a)) \in DOMAIN kv
    /\ \A u \in UserIds : user_key(u) \in DOMAIN kv => \E a \in Subjects : Known(a) /\ UserOf(a) = u
    /\ \A a, b \in Subjects : Known(a) /\ Known(b) /\ UserOf(a) = UserOf(b) => a = b

(* The places of a repository call, and the steps that wait there.         *)
FindPlaces == {"find index", "find record", "drop index"}
CreatePlaces == {"read new", "create"}
UpdatePlaces == {"load", "read credential", "recheck", "commit"}
IdentityPlaces ==
    {"read identity", "read new user", "read identity again", "create identity", "read user",
     "update identity", "reread identity"}

(* An attempt is saved by a request that starts with its state, and        *)
(* consumed by one that returns with it.                                   *)
AttemptAsked(req, call) ==
    /\ call.op = "save" => Starts(req, call.state) /\ call.state \in States /\ call.expires \in Nat
    /\ call.op = "consume" => Returns(req, call.state)

(* A call that will change a session.                                      *)
UpdateAsked(f, call) ==
    /\ f.step \in {"revoke", "renew", "save", "consume", "upgrade", "logout", "expired"}
    /\ call.op \in {"revoke", "renew", "save", "consume", "upgrade", "logout"}
    /\ f.step \in {"renew", "consume", "save"} => call.op = f.step
    /\ call.op \in {"consume", "save"} => f.step = call.op
    /\ AttemptAsked(f.req, call)
    /\ call.time \in Nat
    /\ call.op \in {"renew", "upgrade"} => call.idle_expires \in Nat
    /\ call.op = "upgrade" =>
          /\ call.expected_version = 1 /\ call.user_id \in UserIds
          /\ call.credential \in Credentials /\ call.absolute_expires \in Nat

(* A lookup that has found the index entry, and then that it leads nowhere. *)
FindOK(repo) ==
    /\ repo.at \in {"find record", "drop index"} =>
          Seen(repo.index, credential_key(repo.call.credential))
    /\ repo.at = "drop index" => repo.index.val.expires \in Nat /\ repo.index.val.expires <= now

UpdateOK(f, repo) ==
    LET call == repo.call IN
    /\ repo.start = "load" /\ UpdateAsked(f, call)
    /\ repo.at # "load" =>
          /\ Seen(repo.entry, record_key(call.id)) /\ StoredSession(repo.entry.val)
          /\ call.id \in Credentials
          /\ ~StaleVersion(repo.entry.val, call) /\ Refusal(repo.entry.val, call) = None

IdentityOK(f, repo) ==
    /\ f.step = "identify" /\ repo.call.subject \in Subjects /\ repo.call.time \in Nat
    /\ repo.at \in {"read new user", "create identity"} => repo.index \in UserIds
    /\ repo.at \in {"read user", "update identity"} =>
          /\ Seen(repo.entry, identity_key(repo.call.subject))
          /\ repo.entry.val \in StoredIdentity
    /\ repo.at = "update identity" => repo.entry.val.updated_at <= repo.call.time

(* A call that will store a new session.                                   *)
CreationAsked(f, call) ==
    /\ f.step = "create guest" /\ StoredSession(call.record)
    /\ call.id \in Credentials /\ call.record.credential \in Credentials
    /\ call.record.version = 1 /\ call.record.attempts = <<>>

ReplyOK(step, id, record) ==
    /\ step \in {"find", "renew", "create guest", "upgrade"} => StoredSession(record)
    /\ step \in {"renew", "create guest"} => ~record.revoked
    /\ step = "identify" => id \in UserIds

CallOK(f, repo) ==
    /\ DOMAIN repo = {"at", "call", "start", "round", "entry", "index", "reply"}
    /\ repo.at \in FindPlaces => f.step = "find" /\ repo.start = "find index" /\ FindOK(repo)
    /\ repo.at \in CreatePlaces => CreationAsked(f, repo.call)
    /\ repo.at \in UpdatePlaces => UpdateOK(f, repo)
    /\ repo.at \in IdentityPlaces => IdentityOK(f, repo)
    /\ repo.at = "answered" /\ repo.reply.status = "ok" =>
          ReplyOK(f.step, repo.reply.id, repo.reply.record)

(* What the steps of a sign-in rely on: a callback that has got past its   *)
(* session's lookup belongs to a guest's session, in its first version.    *)
Ready(f, step) ==
    /\ step \in {"consume", "exchange"} => f.req.kind = "callback"
    /\ step \in {"begin", "save"} => f.req.kind = "start"
    /\ step \in {"consume", "exchange", "identify", "upgrade"} => f.session.version = 1
    /\ step = "upgrade" => f.user \in UserIds

Bearer == Credentials \cup {None}

RequestOK(f) ==
    /\ f.sent \in Bearer /\ f.set_cookie \in Bearer /\ f.at \in Nat
    /\ f.step # "idle" => IsRequest(f.req)
    /\ Ready(f, f.step)

FrameOK(f) ==
    /\ DOMAIN f = {"step", "req", "sent", "session", "set_cookie", "at", "tries", "user",
                   "failed", "repo"}
    /\ RequestOK(f) /\ CallOK(f, f.repo)

BrowserOK ==
    /\ \A req \in requests : IsRequest(req)
    /\ pool \subseteq Credentials /\ cookie \in Bearer

IInv ==
    /\ EntriesOK /\ IndexesOK /\ IdentitiesPaired /\ BrowserOK
    /\ DOMAIN client = Clients
    /\ \A c \in Clients : FrameOK(client[c])

-----------------------------------------------------------------------------
(* Keys of different families, or of different data, are different keys.   *)
LEMMA KeysDiffer ==
    /\ \A i : record_key(i)[1] = "session" /\ credential_key(i)[1] = "credential"
    /\ \A i : user_key(i)[1] = "user" /\ identity_key(i)[1] = "identity"
    /\ \A i, j : record_key(i) = record_key(j) => i = j
    /\ \A i, j : user_key(i) = user_key(j) => i = j
    /\ \A i, j : identity_key(i) = identity_key(j) => i = j
    /\ \A i, j : user_key(i) # identity_key(j)
  <1>1. \A i : record_key(i)[1] = "session" /\ credential_key(i)[1] = "credential"
    BY DEF record_key, credential_key
  <1>2. \A i : user_key(i)[1] = "user" /\ identity_key(i)[1] = "identity"
    BY DEF user_key, identity_key
  <1>3. /\ \A i, j : record_key(i) = record_key(j) => i = j
        /\ \A i, j : user_key(i) = user_key(j) => i = j
        /\ \A i, j : identity_key(i) = identity_key(j) => i = j
    BY DEF record_key, user_key, identity_key
  <1>4. \A i, j : user_key(i) # identity_key(j)
    BY DEF user_key, identity_key
  <1> QED BY <1>1, <1>2, <1>3, <1>4

(* What a committed atomic operation leaves in the store.                  *)
LEMMA WriteLeaves ==
    ASSUME NEW written, NEW removed, Write(written, removed)
    PROVE  /\ clock' = clock + 1
           /\ DOMAIN kv' = DOMAIN written \cup (DOMAIN kv \ removed)
           /\ \A key \in DOMAIN kv' : kv'[key] = IF key \in DOMAIN written
                                THEN [vs |-> clock + 1, val |-> written[key]] ELSE kv[key]
  <1> DEFINE kept == [k \in DOMAIN kv \ removed |-> kv[k]]
             fresh == [k \in DOMAIN written |-> [vs |-> clock + 1, val |-> written[k]]]
  <1>1. kv' = Overlay(fresh, kept) /\ clock' = clock + 1
    BY DEF Write, Stamped
  <1>2. kv' = [k \in DOMAIN fresh \cup DOMAIN kept |->
                  IF k \in DOMAIN fresh THEN fresh[k] ELSE kept[k]]
    BY <1>1 DEF Overlay
  <1>3. DOMAIN kept = DOMAIN kv \ removed /\ DOMAIN fresh = DOMAIN written
    OBVIOUS
  <1>4. DOMAIN kv' = DOMAIN written \cup (DOMAIN kv \ removed)
    BY <1>2, <1>3
  <1>5. \A key \in DOMAIN kv' : kv'[key] = IF key \in DOMAIN fresh THEN fresh[key] ELSE kept[key]
    BY <1>2
  <1> QED BY <1>1, <1>3, <1>4, <1>5

(* Time goes on; an entry keeps its stamp, is removed or gets a new, larger *)
(* one.                                                                    *)
StampsGrow ==
    /\ clock' \in Nat /\ clock <= clock'
    /\ now \in Nat /\ now' \in Nat /\ now <= now'
    /\ \A key : get(key)' = get(key) \/ get(key)' = Absent \/ get(key)'.vs > clock

(* What was read of an entry stays right: a later write gives a stamp that *)
(* was never read.                                                         *)
LEMMA SeenStays ==
    ASSUME clock \in Nat, StampsGrow, NEW entry, NEW key, Seen(entry, key)
    PROVE  Seen(entry, key)'
  <1>1. /\ clock' \in Nat /\ clock <= clock' /\ Absent.vs = 0
        /\ get(key)' = get(key) \/ get(key)' = Absent \/ get(key)'.vs > clock
    BY DEF StampsGrow, Absent
  <1>2. entry.vs \in 1..clock /\ (get(key).vs = entry.vs => get(key) = entry)
    BY DEF Seen
  <1>3. entry.vs \in 1..clock'
    BY <1>1, <1>2
  <1>4. get(key)'.vs = entry.vs => get(key)' = entry
    <2>1. CASE get(key)' = get(key)
      BY <1>2, <2>1
    <2>2. CASE get(key)' = Absent
      BY <1>1, <1>2, <2>2
    <2>3. CASE get(key)'.vs > clock
      BY <1>1, <1>2, <2>3
    <2> QED BY <1>1, <2>1, <2>2, <2>3
  <1> QED BY <1>3, <1>4 DEF Seen

(* So what a request knows stays right while others write.                 *)
LEMMA FrameStays ==
    ASSUME clock \in Nat, StampsGrow, NEW f, FrameOK(f)
    PROVE  FrameOK(f)'
  <1>1. UpdateOK(f, f.repo) => UpdateOK(f, f.repo)'
    BY SeenStays DEF UpdateOK
  <1>2. IdentityOK(f, f.repo) => IdentityOK(f, f.repo)'
    BY SeenStays DEF IdentityOK
  <1>3. FindOK(f.repo) => FindOK(f.repo)'
    <2>1. PICK index, key : index = f.repo.index /\ key = credential_key(f.repo.call.credential)
      OBVIOUS
    <2>2. Seen(index, key) => Seen(index, key)'
      BY SeenStays
    <2>3. index.val.expires \in Nat /\ index.val.expires <= now => index.val.expires <= now'
      BY DEF StampsGrow
    <2>4. now' \in Nat
      BY DEF StampsGrow
    <2> QED BY <2>1, <2>2, <2>3, <2>4 DEF FindOK, Seen, get
  <1> QED BY <1>1, <1>2, <1>3 DEF FrameOK, CallOK

(* The browser sends its requests, and keeps a bearer it was given.        *)
BrowserKept ==
    requests' \subseteq requests /\ pool' \subseteq pool /\ cookie' \in Bearer

(* What a step of one client leaves of the invariant.                      *)
LEMMA Settled ==
    ASSUME IInv, NEW c \in Clients, NEW g, client' = [client EXCEPT ![c] = g], FrameOK(g)',
           StampsGrow, EntriesOK', IndexesOK', IdentitiesPaired', BrowserKept
    PROVE  IInv'
  <1>1. DOMAIN client' = Clients
    BY DEF IInv
  <1>2. ASSUME NEW d \in Clients PROVE FrameOK(client[d])'
    <2>1. CASE d = c
      <3>1. client'[d] = g
        BY <2>1 DEF IInv
      <3> QED BY <3>1 DEF FrameOK
    <2>2. CASE d # c
      <3>1. client'[d] = client[d] /\ FrameOK(client[d]) /\ clock \in Nat
        BY <2>2 DEF IInv, EntriesOK
      <3> SUFFICES ASSUME NEW f, f = client[d] PROVE FrameOK(f)'
        BY <3>1 DEF FrameOK, RequestOK, Ready, CallOK, FindOK, UpdateOK, IdentityOK, ReplyOK
      <3> QED BY <3>1, FrameStays
    <2> QED BY <2>1, <2>2
  <1>3. BrowserOK'
    BY DEF IInv, BrowserOK, BrowserKept
  <1> QED BY <1>1, <1>2, <1>3 DEF IInv

-----------------------------------------------------------------------------
(* The pending attempts of a session.                                      *)
(* An enumeration of a set of positions in their order.                    *)
Enumerates(place, positions) ==
    /\ place \in [1 .. Cardinality(positions) -> positions]
    /\ \A j, k \in 1 .. Cardinality(positions) : j < k => place[j] < place[k]

(* A finite set of positions has one: each at its rank.                    *)
LEMMA Enumerated ==
    ASSUME NEW n \in Nat, NEW positions, positions \subseteq 1..n
    PROVE  /\ \E place : Enumerates(place, positions)
           /\ Cardinality(positions) \in Nat /\ Cardinality(positions) <= n
  <1>1. IsFiniteSet(1..n) /\ Cardinality(1..n) = n
    BY FS_Interval
  <1>2. /\ IsFiniteSet(positions) /\ Cardinality(positions) \in Nat
        /\ Cardinality(positions) <= n
    BY <1>1, FS_Subset, FS_CardinalityType
  <1> DEFINE upto(i) == {j \in positions : j <= i}
             rank == [i \in positions |-> Cardinality(upto(i))]
             ranks == 1 .. Cardinality(positions)
  <1>3. ASSUME NEW i \in positions
        PROVE  IsFiniteSet(upto(i)) /\ rank[i] \in ranks
    <2>1. IsFiniteSet(upto(i)) /\ Cardinality(upto(i)) <= Cardinality(positions)
      BY <1>2, FS_Subset
    <2>2. Cardinality(upto(i)) \in Nat /\ upto(i) # {}
      BY <2>1, FS_CardinalityType
    <2>3. Cardinality(upto(i)) # 0
      BY <2>1, <2>2, FS_EmptySet
    <2> QED BY <1>2, <2>1, <2>2, <2>3
  <1>4. ASSUME NEW i \in positions, NEW j \in positions, i < j
        PROVE  rank[i] < rank[j]
    <2>0. i \in Int /\ j \in Int /\ \A k \in positions : k \in Int
      BY <1>2
    <2>1. upto(i) \subseteq upto(j) /\ j \in upto(j) /\ j \notin upto(i)
      <3>1. ASSUME NEW k \in upto(i) PROVE k \in upto(j)
        <4>1. k \in positions /\ k <= i
          OBVIOUS
        <4>2. k <= j
          BY <1>4, <2>0, <4>1
        <4> QED BY <4>1, <4>2
      <3>2. j \in upto(j) /\ j \notin upto(i)
        BY <1>4, <2>0
      <3> QED BY <3>1, <3>2
    <2>2. Cardinality(upto(i)) <= Cardinality(upto(j)) /\ Cardinality(upto(i)) # Cardinality(upto(j))
      BY <1>3, <2>1, FS_Subset
    <2>3. Cardinality(upto(i)) \in Nat /\ Cardinality(upto(j)) \in Nat
      BY <1>3, FS_CardinalityType
    <2> QED BY <2>2, <2>3
  <1> HIDE DEF rank, upto
  <1>5. rank \in Injection(positions, ranks)
    <2>1. rank \in [positions -> ranks]
      BY <1>3 DEF rank
    <2>2. ASSUME NEW i \in positions, NEW j \in positions, rank[i] = rank[j] PROVE i = j
      <3>1. i \in Nat /\ j \in Nat /\ rank[i] \in Nat /\ rank[j] \in Nat
        BY <1>2, <2>1
      <3>2. ~(i < j) /\ ~(j < i)
        BY <1>4, <2>2, <3>1
      <3> QED BY <3>1, <3>2
    <2> QED BY <2>1, <2>2 DEF Injection, IsInjective
  <1>6. IsFiniteSet(ranks) /\ Cardinality(ranks) = Cardinality(positions)
    BY <1>2, FS_Interval
  <1>7. rank \in Surjection(positions, ranks)
    BY <1>2, <1>5, <1>6, FS_Injection
  <1> DEFINE place == [k \in ranks |-> CHOOSE i \in positions : rank[i] = k]
  <1>8. \A k \in ranks : place[k] \in positions /\ rank[place[k]] = k
    BY <1>7 DEF Surjection
  <1>9. ASSUME NEW j \in ranks, NEW k \in ranks, j < k PROVE place[j] < place[k]
    <2>1. place[j] \in Nat /\ place[k] \in Nat /\ j \in Nat /\ k \in Nat
      <3>1. place[j] \in positions /\ place[k] \in positions
        BY <1>8
      <3>2. \A i \in positions : i \in Nat
        OBVIOUS
      <3>3. \A i \in ranks : i \in Nat
        BY <1>2
      <3> HIDE DEF place, ranks
      <3> QED BY <3>1, <3>2, <3>3
    <2>2. place[j] # place[k] /\ ~(place[k] < place[j])
      BY <1>4, <1>8, <1>9, <2>1
    <2> QED BY <2>1, <2>2
  <1>10. Enumerates(place, positions)
    BY <1>8, <1>9 DEF Enumerates
  <1> QED BY <1>2, <1>10

(* The elements at some positions: no more than there are, and each that   *)
(* of a position of its own.                                               *)
LEMMA FilteredIs ==
    ASSUME NEW S, NEW attempts \in Seq(S), NEW positions, positions \subseteq DOMAIN attempts
    PROVE  /\ Filtered(attempts, positions) \in Seq(S)
           /\ Len(Filtered(attempts, positions)) <= Len(attempts)
           /\ \E place : /\ place \in [DOMAIN Filtered(attempts, positions) -> positions]
                         /\ \A j, k \in DOMAIN Filtered(attempts, positions) :
                               j # k => place[j] # place[k]
                         /\ \A k \in DOMAIN Filtered(attempts, positions) :
                               Filtered(attempts, positions)[k] = attempts[place[k]]
  <1>1. Len(attempts) \in Nat /\ DOMAIN attempts = 1 .. Len(attempts)
    OBVIOUS
  <1> DEFINE count == Cardinality(positions)
             place == CHOOSE f \in [1 .. count -> positions] :
                         \A j, k \in 1 .. count : j < k => f[j] < f[k]
             filtered == [k \in 1 .. count |-> attempts[place[k]]]
  <1>2. (\E f : Enumerates(f, positions)) /\ count \in Nat /\ count <= Len(attempts)
    BY <1>1, Enumerated
  <1>3. Enumerates(place, positions)
    BY <1>2 DEF Enumerates
  <1>4. Filtered(attempts, positions) = filtered
    BY DEF Filtered
  <1> HIDE DEF place
  <1>5. place \in [1 .. count -> positions]
    BY <1>3 DEF Enumerates
  <1>6. \A k \in 1 .. count : attempts[place[k]] \in S
    BY <1>1, <1>5
  <1>7. filtered \in Seq(S) /\ Len(filtered) = count
    BY <1>2, <1>6
  <1>8. ASSUME NEW j \in 1 .. count, NEW k \in 1 .. count, j # k PROVE place[j] # place[k]
    <2>1. j < k \/ k < j
      BY <1>2, <1>8
    <2>2. place[j] < place[k] \/ place[k] < place[j]
      BY <1>3, <2>1 DEF Enumerates
    <2>3. place[j] \in Nat /\ place[k] \in Nat
      BY <1>1, <1>5
    <2> QED BY <2>2, <2>3
  <1> QED BY <1>2, <1>4, <1>5, <1>7, <1>8

(* The attempts at some positions are stored attempts, of those states.    *)
LEMMA FilteredStored ==
    ASSUME NEW attempts, StoredAttempts(attempts), NEW positions, positions \subseteq DOMAIN attempts,
           NEW filtered, filtered = Filtered(attempts, positions)
    PROVE  /\ StoredAttempts(filtered)
           /\ \A s : HasState(filtered, s) => \E i \in positions : attempts[i].state = s
  <1> DEFINE S == [state : States, expires : Nat]
  <1>1. attempts \in Seq(S) /\ Len(attempts) <= max_pending_attempts /\ Len(attempts) \in Nat
    BY DEF StoredAttempts, Attempt
  <1>2. filtered \in Seq(S) /\ Len(filtered) <= Len(attempts) /\ Len(filtered) \in Nat
    <2> HIDE DEF S
    <2> QED BY <1>1, FilteredIs
  <1>3. PICK place : /\ place \in [DOMAIN filtered -> positions]
                     /\ \A j, k \in DOMAIN filtered : j # k => place[j] # place[k]
                     /\ \A k \in DOMAIN filtered : filtered[k] = attempts[place[k]]
    <2> HIDE DEF S
    <2> QED BY <1>1, FilteredIs
  <1>4. Len(filtered) <= max_pending_attempts
    BY <1>1, <1>2, SignInAssumption
  <1>5. ASSUME NEW j \in DOMAIN filtered, NEW k \in DOMAIN filtered,
               filtered[j].state = filtered[k].state
        PROVE  j = k
    BY <1>3, <1>5 DEF StoredAttempts, Attempt
  <1>6. StoredAttempts(filtered)
    BY <1>2, <1>4, <1>5 DEF StoredAttempts, Attempt
  <1>7. ASSUME NEW s, HasState(filtered, s) PROVE \E i \in positions : attempts[i].state = s
    BY <1>3, <1>7 DEF HasState
  <1> QED BY <1>6, <1>7

(* Attempts that are no others than those of a session.                    *)
KeepsAttempts(kept, attempts) ==
    /\ StoredAttempts(kept)
    /\ \A s : HasState(kept, s) => HasState(attempts, s)

(* Expired attempts go, and the one consumed: none of its state is left.   *)
LEMMA ActiveKeeps ==
    ASSUME NEW attempts, StoredAttempts(attempts), NEW at
    PROVE  KeepsAttempts(Active(attempts, at), attempts)
  <1>1. PICK positions : positions = {i \in DOMAIN attempts : attempts[i].expires > at}
    OBVIOUS
  <1>2. positions \subseteq DOMAIN attempts /\ Active(attempts, at) = Filtered(attempts, positions)
    BY <1>1 DEF Active
  <1> QED BY <1>2, FilteredStored DEF KeepsAttempts, HasState

LEMMA ConsumeKeeps ==
    ASSUME NEW attempts, StoredAttempts(attempts), NEW state
    PROVE  /\ KeepsAttempts(Consume(attempts, state), attempts)
           /\ ~HasState(Consume(attempts, state), state)
  <1> DEFINE matched(i) == /\ attempts[i].state = state
                           /\ \A j \in DOMAIN attempts : j < i => attempts[j].state # state
  <1>1. PICK positions : positions = {i \in DOMAIN attempts : ~matched(i)}
    OBVIOUS
  <1>2. /\ positions \subseteq DOMAIN attempts
        /\ Consume(attempts, state) = Filtered(attempts, positions)
    BY <1>1 DEF Consume
  <1>3. ASSUME NEW i \in positions PROVE attempts[i].state # state
    <2>1. i \in DOMAIN attempts /\ ~matched(i)
      BY <1>1
    <2>2. attempts[i].state = state => \A j \in DOMAIN attempts : j < i => attempts[j].state # state
      <3>1. ASSUME NEW j \in DOMAIN attempts, j < i, attempts[i].state = state,
                   attempts[j].state = state
            PROVE  FALSE
        <4>1. i = j
          BY <2>1, <3>1 DEF StoredAttempts, Attempt
        <4>2. i \in Nat
          BY <2>1 DEF StoredAttempts, Attempt
        <4> QED BY <3>1, <4>1, <4>2
      <3> QED BY <3>1
    <2> QED BY <2>1, <2>2
  <1>4. \A s : HasState(Consume(attempts, state), s) => \E i \in positions : attempts[i].state = s
    BY <1>2, FilteredStored
  <1>5. StoredAttempts(Consume(attempts, state))
    BY <1>2, FilteredStored
  <1> QED BY <1>2, <1>3, <1>4, <1>5 DEF KeepsAttempts, HasState

(* The newest attempts, with room for another.                             *)
LEMMA RetainedKeeps ==
    ASSUME NEW attempts, StoredAttempts(attempts)
    PROVE  /\ KeepsAttempts(Retained(attempts), attempts)
           /\ Len(Retained(attempts)) < max_pending_attempts
  <1> DEFINE S == [state : States, expires : Nat]
             n == Len(attempts)
             m == IF n >= max_pending_attempts THEN n - max_pending_attempts + 2 ELSE 1
  <1>1. attempts \in Seq(S) /\ n <= max_pending_attempts /\ n \in Nat
    BY DEF StoredAttempts, Attempt
  <1>2. max_pending_attempts \in Nat \ {0}
    BY SignInAssumption
  <1>3. m \in Nat /\ 1 <= m /\ m <= n + 1 /\ n - m + 1 < max_pending_attempts
    <2>1. CASE n >= max_pending_attempts
      <3>1. n = max_pending_attempts
        BY <1>1, <1>2, <2>1
      <3>2. m = 2
        BY <1>1, <2>1, <3>1
      <3> HIDE DEF m
      <3> QED BY <1>1, <1>2, <3>1, <3>2
    <2>2. CASE ~(n >= max_pending_attempts)
      <3>1. m = 1
        BY <2>2
      <3> HIDE DEF m
      <3> QED BY <1>1, <1>2, <2>2, <3>1
    <2> QED BY <2>1, <2>2
  <1>4. PICK kept : kept = Retained(attempts)
    OBVIOUS
  <1>5. kept = SubSeq(attempts, m, n)
    BY <1>4 DEF Retained
  <1> HIDE DEF m, S
  <1>6. kept \in Seq(S) /\ Len(kept) = n - m + 1 /\ \A i \in 1 .. n - m + 1 : kept[i] = attempts[i + m - 1]
    BY <1>1, <1>3, <1>5
  <1>7. DOMAIN kept = 1 .. n - m + 1 /\ Len(kept) < max_pending_attempts /\ Len(kept) \in Nat
    BY <1>3, <1>6
  <1>8. ASSUME NEW i \in DOMAIN kept
        PROVE  i + m - 1 \in DOMAIN attempts /\ kept[i] = attempts[i + m - 1] /\ i \in Nat
    <2>1. i \in 1 .. n - m + 1 /\ DOMAIN attempts = 1 .. n
      BY <1>1, <1>7
    <2>2. i + m - 1 \in 1 .. n /\ i \in Nat
      BY <1>1, <1>3, <2>1
    <2> QED BY <1>6, <2>1, <2>2
  <1>9. ASSUME NEW i \in DOMAIN kept, NEW j \in DOMAIN kept, kept[i].state = kept[j].state
        PROVE  i = j
    <2>1. i + m - 1 = j + m - 1
      BY <1>8, <1>9 DEF StoredAttempts, Attempt
    <2> QED BY <1>3, <1>8, <2>1
  <1>10. StoredAttempts(kept)
    BY <1>2, <1>6, <1>7, <1>9 DEF StoredAttempts, Attempt, S
  <1>11. \A s : HasState(kept, s) => HasState(attempts, s)
    BY <1>8 DEF HasState
  <1> QED BY <1>4, <1>7, <1>10, <1>11 DEF KeepsAttempts

(* A new attempt of a state of its own.                                    *)
LEMMA AppendStored ==
    ASSUME NEW kept, StoredAttempts(kept), Len(kept) < max_pending_attempts,
           NEW attempt \in [state : States, expires : Nat], ~HasState(kept, attempt.state),
           NEW attempts, attempts = Append(kept, attempt)
    PROVE  /\ StoredAttempts(attempts)
           /\ \A s : HasState(attempts, s) => HasState(kept, s) \/ s = attempt.state
  <1> DEFINE S == [state : States, expires : Nat]
             n == Len(kept)
  <1>1. kept \in Seq(S) /\ n \in Nat
    BY DEF StoredAttempts, Attempt
  <1>2. attempt \in S
    OBVIOUS
  <1> HIDE DEF S
  <1>4. /\ attempts \in Seq(S) /\ Len(attempts) = n + 1 /\ DOMAIN attempts = 1 .. n + 1
        /\ DOMAIN kept = 1 .. n
        /\ attempts[n + 1] = attempt /\ \A i \in 1 .. n : attempts[i] = kept[i]
    BY <1>1, <1>2
  <1>5. \A i \in DOMAIN attempts : i = n + 1 \/ i \in DOMAIN kept
    BY <1>1, <1>4
  <1>6. \A i \in DOMAIN kept : attempts[i].state # attempt.state /\ attempts[i] = kept[i]
    BY <1>4 DEF HasState
  <1>7. ASSUME NEW i \in DOMAIN attempts, NEW j \in DOMAIN attempts,
               attempts[i].state = attempts[j].state
        PROVE  i = j
    BY <1>4, <1>5, <1>6, <1>7 DEF StoredAttempts, Attempt
  <1>8. Len(attempts) <= max_pending_attempts
    BY <1>1, <1>4, SignInAssumption
  <1>9. StoredAttempts(attempts)
    BY <1>4, <1>7, <1>8 DEF StoredAttempts, Attempt, S
  <1>10. \A s : HasState(attempts, s) => HasState(kept, s) \/ s = attempt.state
    BY <1>4, <1>5, <1>6 DEF HasState
  <1> QED BY <1>9, <1>10

-----------------------------------------------------------------------------
(* The steps of a request between its calls: they leave the store alone.   *)
Still == UNCHANGED <<kv, clock, now>> /\ BrowserKept

Shaped(f) ==
    /\ DOMAIN f = {"step", "req", "sent", "session", "set_cookie", "at", "tries", "user",
                   "failed", "repo"}
    /\ IsRequest(f.req) /\ f.sent \in Bearer /\ f.set_cookie \in Bearer /\ f.at \in Nat

(* A step that only changes the request of one client.                     *)
LEMMA StillSettled ==
    ASSUME IInv, Still, NEW c \in Clients, NEW g, Become(c, g), FrameOK(g)
    PROVE  IInv'
  <1>1. clock \in Nat /\ now \in Nat
    BY DEF IInv, EntriesOK
  <1>2. StampsGrow
    BY <1>1 DEF StampsGrow, Still, get
  <1>3. EntriesOK' /\ IndexesOK' /\ IdentitiesPaired'
    BY DEF IInv, EntriesOK, IndexesOK, IndexOK, IdentitiesPaired, Known, UserOf, Still
  <1>4. FrameOK(g)'
    BY <1>1, <1>2, FrameStays
  <1>5. client' = [client EXCEPT ![c] = g] /\ BrowserKept
    BY DEF Become, Still
  <1> QED BY <1>2, <1>3, <1>4, <1>5, Settled

(* A frame without a call knows nothing of the store.                      *)
LEMMA NoCallMade ==
    ASSUME NEW f, Shaped(f), RequestOK(f), f.repo = NoCall
    PROVE  FrameOK(f)
  <1>1. f.repo.at = "none"
    BY DEF NoCall
  <1>2. DOMAIN f.repo = {"at", "call", "start", "round", "entry", "index", "reply"}
    BY DEF NoCall
  <1>3. CallOK(f, f.repo)
    BY <1>1, <1>2 DEF CallOK, FindPlaces, CreatePlaces, UpdatePlaces, IdentityPlaces
  <1> QED BY <1>3 DEF FrameOK, Shaped

(* A request that responds knows nothing any more ...                      *)
LEMMA Responds ==
    ASSUME IInv, Still, NEW c \in Clients, NEW f, Shaped(f), Respond(c, f)
    PROVE  IInv'
  <1> DEFINE g == [f EXCEPT !.step = "respond", !.repo = NoCall]
  <1>1. /\ g.step = "respond" /\ g.repo = NoCall /\ g.req = f.req /\ DOMAIN g = DOMAIN f
        /\ g.sent = f.sent /\ g.set_cookie = f.set_cookie /\ g.at = f.at
    BY DEF Shaped
  <1> HIDE DEF g
  <1>2. Shaped(g) /\ RequestOK(g)
    BY <1>1 DEF Shaped, RequestOK, Ready
  <1>3. Become(c, g)
    BY DEF Respond, g
  <1> QED BY <1>1, <1>2, <1>3, NoCallMade, StillSettled

(* ... and neither does one that fails.                                    *)
LEMMA Fails ==
    ASSUME IInv, Still, NEW c \in Clients, NEW f, Shaped(f), Fail(c, f)
    PROVE  IInv'
  <1>1. Shaped([f EXCEPT !.failed = TRUE])
    BY DEF Shaped
  <1> QED BY <1>1, Responds DEF Fail

IsCalled(g, f, call, start) ==
    /\ Shaped(g) /\ g.step = f.step /\ g.req = f.req /\ g.session = f.session /\ g.user = f.user
    /\ g.repo.at = start /\ g.repo.start = start /\ g.repo.call = call
    /\ DOMAIN g.repo = {"at", "call", "start", "round", "entry", "index", "reply"}

(* A frame that has called the repository: the request and its session are *)
(* what they were.                                                         *)
LEMMA Called ==
    ASSUME NEW f, Shaped(f), NEW call, NEW start
    PROVE  IsCalled(Calling(f, call, start), f, call, start)
  <1> SUFFICES ASSUME NEW g, g = Calling(f, call, start) PROVE IsCalled(g, f, call, start)
    OBVIOUS
  <1> DEFINE repo == [NoCall EXCEPT !.call = call, !.start = start, !.at = start]
  <1>1. /\ repo.at = start /\ repo.start = start /\ repo.call = call
        /\ DOMAIN repo = {"at", "call", "start", "round", "entry", "index", "reply"}
    BY DEF NoCall
  <1>2. g = [f EXCEPT !.repo = repo]
    BY DEF Calling
  <1> HIDE DEF repo
  <1>3. /\ DOMAIN g = DOMAIN f /\ g.repo = repo
        /\ g.step = f.step /\ g.req = f.req /\ g.session = f.session /\ g.user = f.user
        /\ g.sent = f.sent /\ g.set_cookie = f.set_cookie /\ g.at = f.at
    BY <1>2 DEF Shaped
  <1>4. Shaped(g)
    BY <1>3 DEF Shaped
  <1> QED BY <1>1, <1>3, <1>4 DEF IsCalled

(* The service asks for an update.                                         *)
LEMMA CallsUpdate ==
    ASSUME IInv, Still, NEW c \in Clients, NEW f, Shaped(f), RequestOK(f), NEW call,
           UpdateAsked(f, call), Become(c, Calling(f, call, "load"))
    PROVE  IInv'
  <1> SUFFICES ASSUME NEW g, g = Calling(f, call, "load") PROVE IInv'
    OBVIOUS
  <1>1. IsCalled(g, f, call, "load")
    BY Called
  <1>2. RequestOK(g)
    BY <1>1 DEF IsCalled, RequestOK, Ready, Shaped
  <1>3. UpdateOK(g, g.repo)
    BY <1>1 DEF IsCalled, UpdateOK, UpdateAsked
  <1>4. CallOK(g, g.repo)
    BY <1>1, <1>3 DEF IsCalled, CallOK, FindPlaces, CreatePlaces, UpdatePlaces, IdentityPlaces
  <1>5. FrameOK(g)
    BY <1>1, <1>2, <1>4 DEF IsCalled, FrameOK, Shaped
  <1> QED BY <1>5, StillSettled

(* A guest's session starts in its first version, unrevoked.               *)
LEMMA GuestIsNew ==
    ASSUME NEW credential \in Credentials, NEW at \in Nat,
           NEW record, record = guest(credential, at)
    PROVE  /\ StoredSession(record) /\ record.version = 1 /\ record.attempts = <<>>
           /\ record.credential = credential
  <1>1. StoredAttempts(<<>>)
    BY SignInAssumption DEF StoredAttempts, Attempt
  <1>2. PICK end : end = at + guest_absolute_lifetime
    OBVIOUS
  <1>3. end \in Nat /\ <<>> \in Seq(Attempt)
    BY <1>2, SignInAssumption
  <1>4. record = [kind |-> "guest", version |-> 1, user_id |-> None, csrf_token |-> None,
                  credential |-> credential, last_seen |-> at, idle_expires |-> 0,
                  absolute_expires |-> end, revoked |-> FALSE, attempts |-> <<>>]
    BY <1>2 DEF guest
  <1>5. record \in SessionRecord
    BY <1>3, <1>4 DEF SessionRecord
  <1> QED BY <1>1, <1>4, <1>5 DEF StoredSession

(* The service asks for a new session.                                     *)
LEMMA CallsCreate ==
    ASSUME IInv, Still, NEW c \in Clients, NEW f, Shaped(f), NEW call, CreationAsked(f, call),
           Become(c, Calling(f, call, "read new"))
    PROVE  IInv'
  <1> SUFFICES ASSUME NEW g, g = Calling(f, call, "read new") PROVE IInv'
    OBVIOUS
  <1>1. IsCalled(g, f, call, "read new")
    BY Called
  <1>2. RequestOK(g)
    BY <1>1 DEF IsCalled, RequestOK, Ready, Shaped, CreationAsked
  <1>3. CallOK(g, g.repo)
    BY <1>1
    DEF IsCalled, CallOK, CreationAsked, FindPlaces, CreatePlaces, UpdatePlaces, IdentityPlaces
  <1>4. FrameOK(g)
    BY <1>1, <1>2, <1>3 DEF IsCalled, FrameOK, Shaped
  <1> QED BY <1>4, StillSettled

(* #create_guest: a bearer is drawn and a session asked for, or the        *)
(* request fails.                                                          *)
LEMMA CreatesGuest ==
    ASSUME IInv, Still, NEW c \in Clients, NEW f, Shaped(f), NEW tries, CreateGuest(c, f, tries)
    PROVE  IInv'
  <1>1. CASE Fail(c, f)
    BY <1>1, Fails
  <1>2. ASSUME NEW drawn \in pool,
               Become(c, Calling([f EXCEPT !.step = "create guest", !.tries = tries],
                                 [op |-> "create", id |-> drawn, record |-> guest(drawn, f.at)],
                                 "read new"))
        PROVE  IInv'
    <2>1. PICK h : h = [f EXCEPT !.step = "create guest", !.tries = tries]
      OBVIOUS
    <2>2. PICK call : call = [op |-> "create", id |-> drawn, record |-> guest(drawn, f.at)]
      OBVIOUS
    <2>3. Shaped(h) /\ h.step = "create guest"
      BY <2>1 DEF Shaped
    <2>4. /\ StoredSession(call.record)
          /\ call.record.version = 1 /\ call.record.attempts = <<>>
          /\ call.id \in Credentials /\ call.record.credential \in Credentials
      <3>1. drawn \in Credentials /\ f.at \in Nat
        BY <1>2 DEF IInv, BrowserOK, Shaped
      <3>2. call.record = guest(drawn, f.at) /\ call.id = drawn
        BY <2>2
      <3> QED BY <3>1, <3>2, GuestIsNew
    <2>5. Become(c, Calling(h, call, "read new"))
      BY <1>2, <2>1, <2>2
    <2> QED BY <2>3, <2>4, <2>5, CallsCreate DEF CreationAsked
  <1> QED BY <1>1, <1>2 DEF CreateGuest

(* The service asks for the session of a bearer.                           *)
LEMMA CallsFind ==
    ASSUME IInv, Still, NEW c \in Clients, NEW f, Shaped(f), f.step = "find", NEW call,
           Become(c, Calling(f, call, "find index"))
    PROVE  IInv'
  <1> SUFFICES ASSUME NEW g, g = Calling(f, call, "find index") PROVE IInv'
    OBVIOUS
  <1>1. IsCalled(g, f, call, "find index")
    BY Called
  <1>2. RequestOK(g)
    BY <1>1 DEF IsCalled, RequestOK, Ready, Shaped
  <1>3. CallOK(g, g.repo)
    BY <1>1 DEF IsCalled, CallOK, FindOK, FindPlaces, CreatePlaces, UpdatePlaces, IdentityPlaces
  <1>4. FrameOK(g)
    BY <1>1, <1>2, <1>3 DEF IsCalled, FrameOK, Shaped
  <1> QED BY <1>4, StillSettled

(* A step after which the request waits for no call.                       *)
LEMMA Rests ==
    ASSUME IInv, Still, NEW c \in Clients, NEW f, Shaped(f), f.repo = NoCall,
           Ready(f, f.step), Become(c, f)
    PROVE  IInv'
  <1>1. RequestOK(f)
    BY DEF RequestOK, Ready, Shaped
  <1> QED BY <1>1, NoCallMade, StillSettled

(* The step after one that leaves the request and its session alone.       *)
Follows(h, f, step) ==
    Shaped(h) /\ h.step = step /\ h.req = f.req /\ h.session = f.session /\ h.user = f.user

(* A step that asks for an update of the request's session.                *)
LEMMA UpdateFollows ==
    ASSUME IInv, Still, NEW c \in Clients, NEW f, NEW h, NEW step, Follows(h, f, step),
           Ready(f, step), NEW call, UpdateAsked(h, call), Become(c, Calling(h, call, "load"))
    PROVE  IInv'
  <1>1. Shaped(h) /\ RequestOK(h)
    BY DEF Follows, Ready, RequestOK, Shaped
  <1> QED BY <1>1, CallsUpdate

(* The service revokes a guest's session that is over.                     *)
LEMMA Expired ==
    ASSUME IInv, Still, NEW c \in Clients, NEW f, Shaped(f),
           Become(c, Calling([f EXCEPT !.step = "expired"], revoke(f.session), "load"))
    PROVE  IInv'
  <1>1. PICK h : h = [f EXCEPT !.step = "expired"]
    OBVIOUS
  <1>2. PICK call : call = revoke(f.session)
    OBVIOUS
  <1>3. Follows(h, f, "expired")
    BY <1>1 DEF Follows, Shaped
  <1>4. UpdateAsked(h, call)
    BY <1>2, <1>3 DEF UpdateAsked, AttemptAsked, Follows, revoke, IInv, EntriesOK
  <1>5. Become(c, Calling(h, call, "load")) /\ Ready(f, "expired")
    BY <1>1, <1>2 DEF Ready
  <1> QED BY <1>3, <1>4, <1>5, UpdateFollows

(* The two ways on of a guest's session: revoked if it is over, or called  *)
(* upon.                                                                   *)
LEMMA Proceeds ==
    ASSUME IInv, Still, NEW c \in Clients, NEW f, Shaped(f), NEW step, step \in {"save", "consume"},
           Ready(f, step), NEW call, call.op = step, AttemptAsked(f.req, call),
           call.time = now, Unexpired(c, f, call, step)
    PROVE  IInv'
  <1>1. CASE Become(c, Calling([f EXCEPT !.step = "expired"], revoke(f.session), "load"))
    BY <1>1, Expired
  <1>2. CASE Become(c, Calling([f EXCEPT !.step = step], call, "load"))
    <2>1. PICK h : h = [f EXCEPT !.step = step]
      OBVIOUS
    <2>2. Follows(h, f, step)
      BY <2>1 DEF Follows, Shaped
    <2>3. UpdateAsked(h, call)
      BY <2>2 DEF UpdateAsked, Follows, IInv, EntriesOK
    <2>4. Become(c, Calling(h, call, "load"))
      BY <1>2, <2>1
    <2> QED BY <2>2, <2>3, <2>4, UpdateFollows
  <1> QED BY <1>1, <1>2 DEF Unexpired

(* A route gets a session that was found in use: a guest's is in its first *)
(* version.                                                                *)
LEMMA Routes ==
    ASSUME IInv, Still, NEW c \in Clients, NEW f, Shaped(f),
           f.session.kind = "guest" => f.session.version = 1, Route(c, f)
    PROVE  IInv'
  <1>1. CASE Respond(c, f)
    BY <1>1, Responds
  <1>2. CASE Fail(c, f)
    BY <1>2, Fails
  <1>3. CASE f.req.kind = "start" /\ Become(c, [f EXCEPT !.step = "begin", !.repo = NoCall])
    <2>1. PICK h : h = [f EXCEPT !.step = "begin", !.repo = NoCall]
      OBVIOUS
    <2>2. /\ h.step = "begin" /\ h.repo = NoCall /\ h.req = f.req /\ DOMAIN h = DOMAIN f
          /\ h.sent = f.sent /\ h.set_cookie = f.set_cookie /\ h.at = f.at
      BY <2>1 DEF Shaped
    <2>3. Shaped(h) /\ Ready(h, h.step)
      BY <1>3, <2>2 DEF Shaped, Ready
    <2> QED BY <1>3, <2>1, <2>2, <2>3, Rests
  <1>4. CASE /\ f.req.kind = "callback" /\ f.session.kind = "guest"
             /\ Unexpired(c, f, consume_attempt(f), "consume")
    <2>1. PICK call : call = consume_attempt(f)
      OBVIOUS
    <2>2. /\ call.op = "consume" /\ AttemptAsked(f.req, call) /\ Ready(f, "consume")
          /\ call.time = now
      BY <1>4, <2>1 DEF consume_attempt, AttemptAsked, Returns, Ready
    <2> QED BY <1>4, <2>1, <2>2, Proceeds
  <1>5. CASE Become(c, Calling([f EXCEPT !.step = "logout", !.at = now],
                               [op |-> "logout", id |-> f.session.id,
                                expected_version |-> f.session.version, time |-> now,
                                csrf_token |-> f.req.csrf_token], "load"))
    <2>1. PICK h : h = [f EXCEPT !.step = "logout", !.at = now]
      OBVIOUS
    <2>2. PICK call : call = [op |-> "logout", id |-> f.session.id,
                              expected_version |-> f.session.version, time |-> now,
                              csrf_token |-> f.req.csrf_token]
      OBVIOUS
    <2>3. Follows(h, f, "logout")
      BY <2>1 DEF Follows, Shaped, IInv, EntriesOK
    <2>4. UpdateAsked(h, call) /\ Ready(f, "logout")
      BY <2>2, <2>3 DEF UpdateAsked, AttemptAsked, Follows, Ready, IInv, EntriesOK
    <2>5. Become(c, Calling(h, call, "load"))
      BY <1>5, <2>1, <2>2
    <2> QED BY <2>3, <2>4, <2>5, UpdateFollows
  <1> QED BY <1>1, <1>2, <1>3, <1>4, <1>5 DEF Route

(* The frame of a client that serves a request.                            *)
LEMMA Serving ==
    ASSUME IInv, NEW c \in Clients
    PROVE  /\ FrameOK(client[c])
           /\ client[c].step # "idle" => Shaped(client[c])
  BY DEF IInv, FrameOK, RequestOK, Shaped

(* What a session in use says of itself. *)
LEMMA InUse ==
    ASSUME NEW id, NEW record, StoredSession(record), ~record.revoked
    PROVE  public_session(id, record).kind = "guest" => public_session(id, record).version = 1
  <1>1. /\ public_session(id, record).kind = record.kind
        /\ public_session(id, record).version = record.version
    BY DEF public_session
  <1>2. record.version \in Nat \ {0} /\ (record.version > 1 => record.kind = "authenticated")
    BY DEF StoredSession, SessionRecord
  <1> QED BY <1>1, <1>2

(* RequestContextMiddleware.handle receives a request.                     *)
LEMMA ReceiveSettled ==
    ASSUME IInv, NEW c \in Clients, NEW req \in requests, Receive(c, req)
    PROVE  IInv'
  <1>1. PICK f : f = [Idle EXCEPT !.req = req, !.sent = cookie, !.at = now]
    OBVIOUS
  <1>2. Shaped(f)
    <2>1. f.req = req
      BY <1>1 DEF Idle
    <2>2. DOMAIN f = {"step", "req", "sent", "session", "set_cookie", "at", "tries", "user",
                      "failed", "repo"}
      BY <1>1 DEF Idle
    <2>3. f.sent = cookie /\ f.set_cookie = None /\ f.at = now
      BY <1>1 DEF Idle
    <2> QED BY <2>1, <2>2, <2>3 DEF Shaped, IInv, EntriesOK, BrowserOK, Bearer
  <1>3. Still
    BY DEF Receive, Still, BrowserKept, IInv, BrowserOK
  <1>4. CASE Respond(c, f)
    BY <1>2, <1>3, <1>4, Responds
  <1>5. CASE CreateGuest(c, f, 0)
    BY <1>2, <1>3, <1>5, CreatesGuest
  <1>6. CASE Become(c, Calling([f EXCEPT !.step = "find"],
                               [op |-> "find", credential |-> cookie], "find index"))
    <2>1. PICK h : h = [f EXCEPT !.step = "find"]
      OBVIOUS
    <2>2. PICK call : call = [op |-> "find", credential |-> cookie]
      OBVIOUS
    <2>3. Shaped(h) /\ h.step = "find"
      BY <1>2, <2>1 DEF Shaped
    <2>4. Become(c, Calling(h, call, "find index"))
      BY <1>6, <2>1, <2>2
    <2> QED BY <1>3, <2>3, <2>4, CallsFind
  <1> QED BY <1>1, <1>4, <1>5, <1>6 DEF Receive

(* What a renewal asks for is a time. *)
LEMMA RenewalIs ==
    ASSUME NEW record, StoredSession(record), now \in Nat
    PROVE  renewal(record) \in Nat
  BY SignInAssumption DEF renewal, earlier, StoredSession, SessionRecord

(* SessionService.resolve goes on with the session found, or without one.  *)
LEMMA FoundSettled ==
    ASSUME IInv, NEW c \in Clients, Found(c)
    PROVE  IInv'
  <1>1. PICK f : f = [client[c] EXCEPT !.at = now]
    OBVIOUS
  <1>2. PICK session : session = replied_session(c)
    OBVIOUS
  <1>3. /\ Shaped(client[c]) /\ client[c].step = "find"
        /\ status(c) = "ok" => StoredSession(client[c].repo.reply.record)
    BY Serving DEF Found, Replied, status, FrameOK, CallOK, ReplyOK
  <1>4. Shaped(f) /\ f.repo = client[c].repo
    BY <1>1, <1>3 DEF Shaped, IInv, EntriesOK
  <1>5. Still
    BY DEF Found, ServiceOnly, Still, BrowserKept, IInv, BrowserOK
  <1>6. CASE status(c) = "threw" /\ Fail(c, f)
    BY <1>4, <1>5, <1>6, Fails
  <1>7. CASE status(c) = "null" /\ CreateGuest(c, f, 0)
    BY <1>4, <1>5, <1>7, CreatesGuest
  <1>8. CASE Become(c, Calling([f EXCEPT !.step = "revoke"], revoke(session), "load"))
    <2>1. PICK h : h = [f EXCEPT !.step = "revoke"]
      OBVIOUS
    <2>2. PICK call : call = revoke(session)
      OBVIOUS
    <2>3. Follows(h, f, "revoke")
      BY <1>4, <2>1 DEF Follows, Shaped
    <2>4. UpdateAsked(h, call) /\ Ready(f, "revoke")
      BY <2>2, <2>3 DEF UpdateAsked, AttemptAsked, Follows, revoke, Ready, IInv, EntriesOK
    <2>5. Become(c, Calling(h, call, "load"))
      BY <1>8, <2>1, <2>2
    <2> QED BY <1>5, <2>3, <2>4, <2>5, UpdateFollows
  <1>9. CASE /\ status(c) = "ok"
             /\ Become(c, Calling([f EXCEPT !.step = "renew"],
                [op |-> "renew", id |-> session.id, expected_version |-> session.version,
                 time |-> now, idle_expires |-> renewal(f.repo.reply.record)], "load"))
    <2>1. PICK h : h = [f EXCEPT !.step = "renew"]
      OBVIOUS
    <2>2. PICK call :
            call = [op |-> "renew", id |-> session.id, expected_version |-> session.version,
                    time |-> now, idle_expires |-> renewal(f.repo.reply.record)]
      OBVIOUS
    <2>3. Follows(h, f, "renew")
      BY <1>4, <2>1 DEF Follows, Shaped
    <2>4. UpdateAsked(h, call) /\ Ready(f, "renew")
      <3>1. renewal(f.repo.reply.record) \in Nat /\ now \in Nat
        BY <1>3, <1>4, <1>9, RenewalIs DEF IInv, EntriesOK
      <3> QED BY <2>2, <2>3, <3>1 DEF UpdateAsked, AttemptAsked, Follows, Ready
    <2>5. Become(c, Calling(h, call, "load"))
      BY <1>9, <2>1, <2>2
    <2> QED BY <1>5, <2>3, <2>4, <2>5, UpdateFollows
  <1>10. CASE /\ status(c) = "ok" /\ ~is_unusable(f.repo.reply.record)
              /\ Route(c, [f EXCEPT !.session = session])
    <2>1. PICK h : h = [f EXCEPT !.session = session]
      OBVIOUS
    <2>2. Shaped(h) /\ h.session = session
      BY <1>4, <2>1 DEF Shaped
    <2>3. session.kind = "guest" => session.version = 1
      BY <1>2, <1>3, <1>4, <1>10, InUse DEF replied_session, is_unusable
    <2> QED BY <1>5, <1>10, <2>1, <2>2, <2>3, Routes
  <1> QED BY <1>1, <1>2, <1>6, <1>7, <1>8, <1>9, <1>10 DEF Found

(* ... after it revoked an unusable session.                               *)
LEMMA RevokedSettled ==
    ASSUME IInv, NEW c \in Clients, Revoked(c)
    PROVE  IInv'
  <1>1. Shaped(client[c])
    BY Serving DEF Revoked, Replied
  <1>2. Still
    BY DEF Revoked, ServiceOnly, Still, BrowserKept, IInv, BrowserOK
  <1> QED BY <1>1, <1>2, Fails, CreatesGuest DEF Revoked

(* The session of a renewal or a creation is in use. *)
LEMMA RepliedSession ==
    ASSUME IInv, NEW c \in Clients, client[c].repo.at = "answered", status(c) = "ok",
           client[c].step \in {"renew", "create guest"}
    PROVE  replied_session(c).kind = "guest" => replied_session(c).version = 1
  <1>1. StoredSession(client[c].repo.reply.record) /\ ~client[c].repo.reply.record.revoked
    BY Serving DEF status, FrameOK, CallOK, ReplyOK
  <1> QED BY <1>1, InUse DEF replied_session

(* ... after it renewed one.                                               *)
LEMMA RenewedSettled ==
    ASSUME IInv, NEW c \in Clients, Renewed(c)
    PROVE  IInv'
  <1>1. PICK f : f = client[c]
    OBVIOUS
  <1>2. Shaped(f) /\ f.step = "renew" /\ f.repo.at = "answered"
    BY <1>1, Serving DEF Renewed, Replied
  <1>3. Still
    BY DEF Renewed, ServiceOnly, Still, BrowserKept, IInv, BrowserOK
  <1>4. CASE Fail(c, f)
    BY <1>2, <1>3, <1>4, Fails
  <1>5. CASE CreateGuest(c, f, 0)
    BY <1>2, <1>3, <1>5, CreatesGuest
  <1>6. CASE /\ status(c) = "ok"
             /\ Route(c, [f EXCEPT !.session = replied_session(c), !.set_cookie = f.sent])
    <2>1. PICK h : h = [f EXCEPT !.session = replied_session(c), !.set_cookie = f.sent]
      OBVIOUS
    <2>2. Shaped(h) /\ h.session = replied_session(c)
      BY <1>2, <2>1 DEF Shaped
    <2>3. h.session.kind = "guest" => h.session.version = 1
      BY <1>1, <1>2, <1>6, <2>2, RepliedSession
    <2> QED BY <1>3, <1>6, <2>1, <2>2, <2>3, Routes
  <1> QED BY <1>1, <1>4, <1>5, <1>6 DEF Renewed

(* ... after it created a guest's.                                         *)
LEMMA GuestCreatedSettled ==
    ASSUME IInv, NEW c \in Clients, GuestCreated(c)
    PROVE  IInv'
  <1>1. PICK f : f = client[c]
    OBVIOUS
  <1>2. PICK h : h = [f EXCEPT !.session = replied_session(c),
                               !.set_cookie = f.repo.reply.record.credential]
    OBVIOUS
  <1>3. Shaped(f) /\ f.step = "create guest" /\ f.repo.at = "answered"
    BY <1>1, Serving DEF GuestCreated, Replied
  <1>4. DOMAIN h = DOMAIN f /\ h.session = replied_session(c) /\ h.req = f.req
        /\ h.sent = f.sent /\ h.set_cookie = f.repo.reply.record.credential /\ h.at = f.at
    BY <1>2, <1>3 DEF Shaped
  <1>9. status(c) = "ok" => Shaped(h)
    <2>1. status(c) = "ok" => StoredSession(f.repo.reply.record)
      BY <1>1, <1>3, Serving DEF status, FrameOK, CallOK, ReplyOK
    <2> QED BY <1>3, <1>4, <2>1 DEF Shaped, StoredSession, SessionRecord, Bearer
  <1>5. Still
    BY DEF GuestCreated, ServiceOnly, Still, BrowserKept, IInv, BrowserOK
  <1>6. CASE CreateGuest(c, f, f.tries + 1)
    BY <1>3, <1>5, <1>6, CreatesGuest
  <1>7. CASE status(c) = "ok" /\ Route(c, h)
    <2>1. h.session.kind = "guest" => h.session.version = 1
      BY <1>1, <1>3, <1>4, <1>7, RepliedSession
    <2> QED BY <1>5, <1>7, <1>9, <2>1, Routes
  <1>8. CASE status(c) = "ok" /\ Respond(c, h)
    BY <1>5, <1>8, <1>9, Responds
  <1> QED BY <1>1, <1>2, <1>6, <1>7, <1>8 DEF GuestCreated

(* AuthenticationService.start draws a state.                              *)
LEMMA BeginSettled ==
    ASSUME IInv, NEW c \in Clients, Begin(c)
    PROVE  IInv'
  <1>1. PICK f : f = client[c]
    OBVIOUS
  <1>2. Shaped(f) /\ f.req.kind = "start"
    BY <1>1, Serving DEF Begin, FrameOK, RequestOK, Ready
  <1>3. Still
    BY DEF Begin, ServiceOnly, Still, BrowserKept, IInv, BrowserOK
  <1>4. CASE Fail(c, f)
    BY <1>2, <1>3, <1>4, Fails
  <1>5. ASSUME NEW state \in f.req.states, Unexpired(c, f, save_attempt(f, state), "save")
        PROVE  IInv'
    <2>1. PICK call : call = save_attempt(f, state)
      OBVIOUS
    <2>2. call.op = "save" /\ call.state = state /\ call.time = now
          /\ call.expires = now + authentication_attempt_lifetime
      BY <2>1 DEF save_attempt
    <2>3. state \in States /\ Starts(f.req, state) /\ call.expires \in Nat
      BY <1>2, <1>5, <2>2, SignInAssumption DEF Shaped, IsRequest, Starts, IInv, EntriesOK
    <2>4. AttemptAsked(f.req, call) /\ Ready(f, "save")
      BY <1>2, <2>2, <2>3 DEF AttemptAsked, Ready
    <2> QED BY <1>2, <1>3, <1>5, <2>1, <2>2, <2>4, Proceeds
  <1> QED BY <1>1, <1>4, <1>5 DEF Begin

(* ... and has saved the attempt, or tries again.                          *)
LEMMA SavedSettled ==
    ASSUME IInv, NEW c \in Clients, Saved(c)
    PROVE  IInv'
  <1>1. PICK f : f = client[c]
    OBVIOUS
  <1>2. Shaped(f) /\ f.req.kind = "start"
    BY <1>1, Serving DEF Saved, Replied, FrameOK, RequestOK, Ready
  <1>3. Still
    BY DEF Saved, ServiceOnly, Still, BrowserKept, IInv, BrowserOK
  <1>4. CASE Respond(c, f)
    BY <1>2, <1>3, <1>4, Responds
  <1>5. CASE Fail(c, f)
    BY <1>2, <1>3, <1>5, Fails
  <1>6. CASE Become(c, [f EXCEPT !.step = "begin", !.tries = @ + 1, !.repo = NoCall])
    <2>1. PICK h : h = [f EXCEPT !.step = "begin", !.tries = @ + 1, !.repo = NoCall]
      OBVIOUS
    <2>2. /\ h.step = "begin" /\ h.repo = NoCall /\ h.req = f.req /\ DOMAIN h = DOMAIN f
          /\ h.sent = f.sent /\ h.set_cookie = f.set_cookie /\ h.at = f.at
      BY <1>2, <2>1 DEF Shaped
    <2>3. Shaped(h) /\ Ready(h, h.step)
      BY <1>2, <2>2 DEF Shaped, Ready
    <2> QED BY <1>3, <1>6, <2>1, <2>2, <2>3, Rests
  <1> QED BY <1>1, <1>4, <1>5, <1>6 DEF Saved

(* The session over is revoked: the request fails.                         *)
LEMMA ExpiredSettled ==
    ASSUME IInv, NEW c \in Clients, ExpiredRevoked(c)
    PROVE  IInv'
  <1>1. Shaped(client[c])
    BY Serving DEF ExpiredRevoked, Replied
  <1>2. Still
    BY DEF ExpiredRevoked, ServiceOnly, Still, BrowserKept, IInv, BrowserOK
  <1> QED BY <1>1, <1>2, Fails DEF ExpiredRevoked

(* AuthenticationService.complete has consumed the attempt.                *)
LEMMA ConsumedSettled ==
    ASSUME IInv, NEW c \in Clients, Consumed(c)
    PROVE  IInv'
  <1>1. PICK f : f = client[c]
    OBVIOUS
  <1>2. Shaped(f) /\ f.step = "consume" /\ RequestOK(f)
    BY <1>1, Serving DEF Consumed, Replied, FrameOK
  <1>3. Still
    BY DEF Consumed, ServiceOnly, Still, BrowserKept, IInv, BrowserOK
  <1>4. CASE Fail(c, f)
    BY <1>2, <1>3, <1>4, Fails
  <1>5. CASE Become(c, [f EXCEPT !.step = "exchange", !.repo = NoCall])
    <2>1. PICK h : h = [f EXCEPT !.step = "exchange", !.repo = NoCall]
      OBVIOUS
    <2>2. /\ h.step = "exchange" /\ h.repo = NoCall /\ h.req = f.req
          /\ h.session = f.session /\ DOMAIN h = DOMAIN f
          /\ h.sent = f.sent /\ h.set_cookie = f.set_cookie /\ h.at = f.at
      BY <1>2, <2>1 DEF Shaped
    <2>3. Shaped(h) /\ Ready(h, h.step)
      BY <1>2, <2>2 DEF Shaped, RequestOK, Ready
    <2> QED BY <1>3, <1>5, <2>1, <2>2, <2>3, Rests
  <1> QED BY <1>1, <1>4, <1>5 DEF Consumed

(* ... exchanges the code, and asks for the user of the identity.          *)
LEMMA ExchangeSettled ==
    ASSUME IInv, NEW c \in Clients, Exchange(c)
    PROVE  IInv'
  <1>1. PICK f : f = client[c]
    OBVIOUS
  <1>2. Shaped(f) /\ f.step = "exchange" /\ RequestOK(f)
    BY <1>1, Serving DEF Exchange, FrameOK
  <1>3. Still
    BY DEF Exchange, Still, BrowserKept, IInv, BrowserOK
  <1>4. CASE Fail(c, f)
    BY <1>2, <1>3, <1>4, Fails
  <1>5. CASE Become(c, Calling([f EXCEPT !.step = "identify"],
                               [op |-> "find_or_create", subject |-> f.req.subject, time |-> now],
                               "read identity"))
    <2>1. PICK h : h = [f EXCEPT !.step = "identify"]
      OBVIOUS
    <2>2. PICK call : call = [op |-> "find_or_create", subject |-> f.req.subject, time |-> now]
      OBVIOUS
    <2>3. PICK g : g = Calling(h, call, "read identity")
      OBVIOUS
    <2>4. Follows(h, f, "identify")
      BY <1>2, <2>1 DEF Follows, Shaped
    <2>5. call.subject \in Subjects /\ call.time \in Nat
      BY <1>2, <2>2 DEF RequestOK, Ready, Shaped, IsRequest, IInv, EntriesOK
    <2>6. IsCalled(g, h, call, "read identity")
      BY <2>3, <2>4, Called DEF Follows
    <2>7. RequestOK(g)
      BY <1>2, <2>4, <2>6 DEF IsCalled, Follows, RequestOK, Ready, Shaped
    <2>8. IdentityOK(g, g.repo)
      BY <2>4, <2>5, <2>6 DEF IsCalled, Follows, IdentityOK
    <2>9. CallOK(g, g.repo)
      BY <2>6, <2>8
      DEF IsCalled, CallOK, FindPlaces, CreatePlaces, UpdatePlaces, IdentityPlaces
    <2>10. FrameOK(g)
      BY <2>6, <2>7, <2>9 DEF IsCalled, FrameOK, Shaped
    <2> QED BY <1>3, <1>5, <2>1, <2>2, <2>3, <2>10, StillSettled
  <1> QED BY <1>1, <1>4, <1>5 DEF Exchange

(* A bearer is drawn for the upgrade of the session, which is in its first *)
(* version.                                                                *)
LEMMA Draws ==
    ASSUME IInv, Still, NEW c \in Clients, NEW f, Shaped(f), f.session.version = 1,
           f.user \in UserIds, NEW tries, DrawCredential(c, f, tries)
    PROVE  IInv'
  <1>1. CASE Fail(c, f)
    BY <1>1, Fails
  <1>2. ASSUME NEW drawn \in pool, NEW absolute \in Nat, NEW idle \in Nat,
               Become(c, Calling([f EXCEPT !.step = "upgrade", !.tries = tries],
                 [op |-> "upgrade", id |-> f.session.id, expected_version |-> f.session.version,
                  credential |-> drawn, user_id |-> f.user, time |-> f.at,
                  absolute_expires |-> absolute, idle_expires |-> idle], "load"))
        PROVE  IInv'
    <2>1. PICK h : h = [f EXCEPT !.step = "upgrade", !.tries = tries]
      OBVIOUS
    <2>2. PICK call :
            call = [op |-> "upgrade", id |-> f.session.id, expected_version |-> f.session.version,
                    credential |-> drawn, user_id |-> f.user, time |-> f.at,
                    absolute_expires |-> absolute, idle_expires |-> idle]
      OBVIOUS
    <2>3. Follows(h, f, "upgrade")
      BY <2>1 DEF Follows, Shaped
    <2>4. UpdateAsked(h, call) /\ Ready(f, "upgrade")
      <3>1. drawn \in Credentials
        BY <1>2 DEF IInv, BrowserOK
      <3> QED BY <2>2, <2>3, <3>1 DEF UpdateAsked, AttemptAsked, Follows, Ready, Shaped
    <2>5. Become(c, Calling(h, call, "load"))
      BY <1>2, <2>1, <2>2
    <2> QED BY <2>3, <2>4, <2>5, UpdateFollows
  <1>3. PICK absolute, idle : absolute = f.at + authenticated_absolute_lifetime
                              /\ idle = earlier(f.at + authenticated_idle_lifetime, absolute)
    OBVIOUS
  <1>4. absolute \in Nat /\ idle \in Nat
    BY <1>3, SignInAssumption DEF earlier, Shaped
  <1> QED BY <1>1, <1>2, <1>3, <1>4 DEF DrawCredential

(* ... has the user, and upgrades the session.                             *)
LEMMA IdentifiedSettled ==
    ASSUME IInv, NEW c \in Clients, Identified(c)
    PROVE  IInv'
  <1>1. PICK f : f = [client[c] EXCEPT !.user = client[c].repo.reply.id, !.at = now]
    OBVIOUS
  <1>2. Shaped(client[c]) /\ client[c].session.version = 1
    BY Serving DEF Identified, Replied, FrameOK, RequestOK, Ready
  <1>3. Shaped(f) /\ f.session.version = 1 /\ f.user = client[c].repo.reply.id
    BY <1>1, <1>2 DEF Shaped, IInv, EntriesOK
  <1>8. status(c) = "ok" => f.user \in UserIds
    BY <1>3, Serving DEF Identified, Replied, status, FrameOK, CallOK, ReplyOK
  <1>4. Still
    BY DEF Identified, ServiceOnly, Still, BrowserKept, IInv, BrowserOK
  <1>5. CASE Fail(c, f)
    BY <1>3, <1>4, <1>5, Fails
  <1>6. CASE Become(c, Calling([f EXCEPT !.step = "expired"], revoke(f.session), "load"))
    BY <1>3, <1>4, <1>6, Expired
  <1>7. CASE status(c) = "ok" /\ DrawCredential(c, f, 0)
    BY <1>3, <1>4, <1>7, <1>8, Draws
  <1> QED BY <1>1, <1>5, <1>6, <1>7 DEF Identified

(* ... has upgraded it, or tries another bearer.                           *)
LEMMA UpgradedSettled ==
    ASSUME IInv, NEW c \in Clients, Upgraded(c)
    PROVE  IInv'
  <1>1. PICK f : f = client[c]
    OBVIOUS
  <1>2. PICK h : h = [f EXCEPT !.session = replied_session(c),
                               !.set_cookie = f.repo.reply.record.credential]
    OBVIOUS
  <1>3. Shaped(f) /\ f.session.version = 1 /\ f.user \in UserIds
    BY <1>1, Serving DEF Upgraded, Replied, FrameOK, RequestOK, Ready
  <1>4. status(c) = "ok" => Shaped(h)
    <2>1. status(c) = "ok" => StoredSession(f.repo.reply.record)
      BY <1>1, Serving DEF Upgraded, Replied, status, FrameOK, CallOK, ReplyOK
    <2>2. /\ DOMAIN h = DOMAIN f /\ h.req = f.req /\ h.sent = f.sent
          /\ h.set_cookie = f.repo.reply.record.credential /\ h.at = f.at
      BY <1>2, <1>3 DEF Shaped
    <2> QED BY <1>3, <2>1, <2>2 DEF Shaped, StoredSession, SessionRecord, Bearer
  <1>5. Still
    BY DEF Upgraded, ServiceOnly, Still, BrowserKept, IInv, BrowserOK
  <1>6. CASE status(c) = "ok" /\ Respond(c, h)
    BY <1>4, <1>5, <1>6, Responds
  <1>7. CASE DrawCredential(c, f, f.tries + 1)
    BY <1>3, <1>5, <1>7, Draws
  <1>8. CASE Fail(c, f)
    BY <1>3, <1>5, <1>8, Fails
  <1> QED BY <1>1, <1>2, <1>6, <1>7, <1>8 DEF Upgraded

(* AuthenticationService.logout has revoked the session.                   *)
LEMMA LoggedOutSettled ==
    ASSUME IInv, NEW c \in Clients, LoggedOut(c)
    PROVE  IInv'
  <1>1. Shaped(client[c])
    BY Serving DEF LoggedOut, Replied
  <1>2. Still
    BY DEF LoggedOut, ServiceOnly, Still, BrowserKept, IInv, BrowserOK
  <1> QED BY <1>1, <1>2, Fails, CreatesGuest DEF LoggedOut

(* Receipt and Crash. *)
LEMMA IdleSettled ==
    ASSUME IInv, Still, NEW c \in Clients, Become(c, Idle)
    PROVE  IInv'
  <1>1. PICK f : f = Idle
    OBVIOUS
  <1>2. /\ f.step = "idle" /\ f.repo = NoCall /\ f.sent = None /\ f.set_cookie = None /\ f.at = 0
        /\ DOMAIN f = {"step", "req", "sent", "session", "set_cookie", "at", "tries", "user",
                       "failed", "repo"}
    BY <1>1 DEF Idle
  <1>3. /\ f.repo.at = "none"
        /\ DOMAIN f.repo = {"at", "call", "start", "round", "entry", "index", "reply"}
    BY <1>2 DEF NoCall
  <1>4. CallOK(f, f.repo)
    BY <1>3 DEF CallOK, FindPlaces, CreatePlaces, UpdatePlaces, IdentityPlaces
  <1>5. FrameOK(f)
    BY <1>2, <1>4 DEF FrameOK, RequestOK, Ready, Bearer
  <1> QED BY <1>1, <1>5, StillSettled

-----------------------------------------------------------------------------
(* The steps of the repositories.                                          *)
StoreOK ==
    /\ StampsGrow /\ EntriesOK' /\ IndexesOK' /\ IdentitiesPaired'
    /\ BrowserKept

Rewritten(c, f, r) == client' = [client EXCEPT ![c] = [f EXCEPT !.repo = r]]

(* A step that leaves the store alone keeps what is said of it.            *)
LEMMA StillStore ==
    ASSUME IInv, Still
    PROVE  StoreOK
  <1>1. StampsGrow
    BY DEF IInv, EntriesOK, StampsGrow, Still, get
  <1>2. EntriesOK' /\ IndexesOK' /\ IdentitiesPaired'
    BY DEF IInv, EntriesOK, IndexesOK, IndexOK, IdentitiesPaired, Known, UserOf, Still
  <1> QED BY <1>1, <1>2 DEF Still, StoreOK

(* A step that changes only the call of one client, and perhaps the store. *)
LEMMA RepoSettled ==
    ASSUME IInv, StoreOK, NEW c \in Clients, NEW f, f = client[c], NEW r, Rewritten(c, f, r),
           CallOK(f, r)'
    PROVE  IInv'
  <1>1. PICK g : g = [f EXCEPT !.repo = r]
    OBVIOUS
  <1>2. FrameOK(f)
    BY Serving
  <1>3. /\ DOMAIN g = DOMAIN f /\ g.repo = r
        /\ g.step = f.step /\ g.req = f.req /\ g.session = f.session /\ g.user = f.user
        /\ g.sent = f.sent /\ g.set_cookie = f.set_cookie /\ g.at = f.at
    BY <1>1, <1>2 DEF FrameOK
  <1>4. RequestOK(g)
    BY <1>2, <1>3 DEF FrameOK, RequestOK, Ready
  <1>5. CallOK(g, g.repo)'
    BY <1>3 DEF CallOK, CreationAsked, UpdateOK, UpdateAsked, IdentityOK, FindOK
  <1>6. FrameOK(g)'
    BY <1>2, <1>3, <1>4, <1>5 DEF FrameOK
  <1>7. client' = [client EXCEPT ![c] = g]
    BY <1>1 DEF Rewritten
  <1> QED BY <1>6, <1>7, Settled DEF StoreOK

(* The same, when the store is left alone.                                 *)
LEMMA StillRepo ==
    ASSUME IInv, Still, NEW c \in Clients, NEW f, f = client[c], NEW r, Rewritten(c, f, r),
           CallOK(f, r)
    PROVE  IInv'
  <1>1. UpdateOK(f, r) => UpdateOK(f, r)'
    BY DEF UpdateOK, Seen, get, Still
  <1>2. IdentityOK(f, r) => IdentityOK(f, r)'
    BY DEF IdentityOK, Seen, get, Still
  <1>3. FindOK(r) => FindOK(r)'
    BY DEF FindOK, Seen, get, Still
  <1>4. CallOK(f, r)'
    BY <1>1, <1>2, <1>3 DEF CallOK
  <1> QED BY <1>4, StillStore, RepoSettled

(* A repository answers without a record.                                  *)
LEMMA Answers ==
    ASSUME IInv, StoreOK, NEW c \in Clients, NEW answer, answer # "ok", Answer(c, answer)
    PROVE  IInv'
  <1>1. PICK f : f = client[c]
    OBVIOUS
  <1>2. PICK r : r = [NoCall EXCEPT !.at = "answered", !.reply.status = answer]
    OBVIOUS
  <1>3. /\ r.at = "answered" /\ r.reply.status = answer
        /\ DOMAIN r = {"at", "call", "start", "round", "entry", "index", "reply"}
    BY <1>2 DEF NoCall, NoReply
  <1>4. CallOK(f, r)'
    BY <1>3 DEF CallOK, FindPlaces, CreatePlaces, UpdatePlaces, IdentityPlaces
  <1>5. Rewritten(c, f, r)
    BY <1>1, <1>2 DEF Answer, Rewritten
  <1> QED BY <1>1, <1>4, <1>5, RepoSettled

(* A repository answers with a record the service may rely on.             *)
LEMMA AnswersWith ==
    ASSUME IInv, StoreOK, NEW c \in Clients, NEW id, NEW record, AnswerWith(c, id, record),
           NEW f, f = client[c], ReplyOK(f.step, id, record)
    PROVE  IInv'
  <1>2. PICK r : r = [NoCall EXCEPT !.at = "answered",
                                    !.reply = [status |-> "ok", id |-> id, record |-> record]]
    OBVIOUS
  <1>3. /\ r.at = "answered" /\ r.reply.id = id /\ r.reply.record = record
        /\ DOMAIN r = {"at", "call", "start", "round", "entry", "index", "reply"}
    BY <1>2 DEF NoCall
  <1>4. CallOK(f, r)'
    BY <1>3 DEF CallOK, FindPlaces, CreatePlaces, UpdatePlaces, IdentityPlaces
  <1>5. Rewritten(c, f, r)
    BY <1>2 DEF AnswerWith, Rewritten
  <1> QED BY <1>4, <1>5, RepoSettled

(* The call at its next place, with what it has read so far.               *)
Moved(r, f, at) ==
    /\ r.at = at /\ r.call = f.repo.call /\ r.start = f.repo.start
    /\ r.entry = f.repo.entry /\ r.index = f.repo.index
    /\ DOMAIN r = {"at", "call", "start", "round", "entry", "index", "reply"}

(* Goto, as one changed call.                                              *)
LEMMA Goes ==
    ASSUME IInv, NEW c \in Clients, NEW at, Goto(c, at), NEW f, f = client[c]
    PROVE  \E r : Moved(r, f, at) /\ Rewritten(c, f, r)
  <1>1. PICK r : r = [f.repo EXCEPT !.at = at]
    OBVIOUS
  <1>2. DOMAIN f.repo = {"at", "call", "start", "round", "entry", "index", "reply"}
    BY Serving DEF FrameOK, CallOK
  <1>3. Moved(r, f, at)
    BY <1>1, <1>2 DEF Moved
  <1>4. Rewritten(c, f, r)
    BY <1>1 DEF Goto, Rewritten
  <1> QED BY <1>3, <1>4

(* A call starts again where it started. *)
LEMMA Retries ==
    ASSUME IInv, StoreOK, NEW c \in Clients, Retry(c),
           client[c].repo.at \in FindPlaces \cup UpdatePlaces
    PROVE  IInv'
  <1>1. PICK f : f = client[c]
    OBVIOUS
  <1>2. CASE Answer(c, "threw")
    BY <1>2, Answers
  <1>3. CASE client' = [client EXCEPT ![c].repo =
            [NoCall EXCEPT !.call = f.repo.call, !.start = f.repo.start, !.at = f.repo.start,
                           !.round = f.repo.round + 1]]
    <2>1. PICK r : r = [NoCall EXCEPT !.call = f.repo.call, !.start = f.repo.start,
                                      !.at = f.repo.start, !.round = f.repo.round + 1]
      OBVIOUS
    <2>2. /\ r.at = f.repo.start /\ r.start = f.repo.start /\ r.call = f.repo.call
          /\ DOMAIN r = {"at", "call", "start", "round", "entry", "index", "reply"}
      BY <2>1 DEF NoCall
    <2>3. CallOK(f, f.repo)
      BY <1>1, Serving DEF FrameOK
    <2>4. CASE f.repo.at \in FindPlaces
      <3>1. f.step = "find" /\ f.repo.start = "find index"
        BY <2>3, <2>4 DEF CallOK
      <3>2. CallOK(f, r)'
        BY <2>2, <3>1 DEF CallOK, FindOK, FindPlaces, CreatePlaces, UpdatePlaces, IdentityPlaces
      <3>3. Rewritten(c, f, r)
        BY <1>1, <1>3, <2>1 DEF Rewritten
      <3> QED BY <1>1, <3>2, <3>3, RepoSettled
    <2>5. CASE f.repo.at \in UpdatePlaces
      <3>1. UpdateOK(f, f.repo) /\ r.at = "load"
        BY <2>2, <2>3, <2>5 DEF CallOK, UpdateOK
      <3>2. UpdateOK(f, r)'
        BY <2>2, <3>1 DEF UpdateOK
      <3>3. CallOK(f, r)'
        BY <2>2, <3>1, <3>2 DEF CallOK, FindPlaces, CreatePlaces, UpdatePlaces, IdentityPlaces
      <3>4. Rewritten(c, f, r)
        BY <1>1, <1>3, <2>1 DEF Rewritten
      <3> QED BY <1>1, <3>3, <3>4, RepoSettled
    <2> QED BY <1>1, <2>4, <2>5
  <1> QED BY <1>1, <1>2, <1>3 DEF Retry

(* What is stored under a session's key is a session, and stamped. *)
LEMMA PresentSession ==
    ASSUME IInv, NEW id, present(get(record_key(id)))
    PROVE  /\ StoredSession(get(record_key(id)).val) /\ Seen(get(record_key(id)), record_key(id))
           /\ id \in Credentials
  <1>1. record_key(id) \in DOMAIN kv /\ get(record_key(id)) = kv[record_key(id)]
    BY DEF present, get, Absent
  <1>2. record_key(id)[1] = "session"
    BY KeysDiffer
  <1>3. StoredAt(record_key(id), kv[record_key(id)].val)
    BY <1>1, <1>2 DEF IInv, EntriesOK
  <1>4. id \in Credentials
    BY <1>3, KeysDiffer DEF StoredAt
  <1> QED BY <1>1, <1>3, <1>4 DEF IInv, EntriesOK, StoredAt, Seen

(* An index entry that was read, and still stands, leads to a session, or  *)
(* has expired.                                                            *)
LEMMA PresentIndex ==
    ASSUME IInv, NEW credential, NEW index, index = get(credential_key(credential))
    PROVE  /\ present(index) => Seen(index, credential_key(credential))
           /\ present(index) /\ ~present(get(record_key(index.val.session_id))) =>
                 index.val.expires \in Nat /\ index.val.expires <= now
  <1>1. PICK key : key = credential_key(credential)
    OBVIOUS
  <1>2. SUFFICES ASSUME present(index)
                 PROVE  /\ Seen(index, key)
                        /\ ~present(get(record_key(index.val.session_id))) =>
                              index.val.expires \in Nat /\ index.val.expires <= now
    BY <1>1
  <1>3. key \in DOMAIN kv /\ index = kv[key] /\ key[1] = "credential"
    BY <1>1, <1>2, KeysDiffer DEF present, get, Absent
  <1>4. Seen(index, key)
    BY <1>1, <1>3 DEF IInv, EntriesOK, Seen
  <1>5. IndexOK(key)
    BY <1>3 DEF IInv, IndexesOK
  <1>6. ASSUME NEW own, own \in DOMAIN kv PROVE present(get(own))
    <2>1. kv[own].vs \in 1..clock /\ clock \in Nat
      BY <1>6 DEF IInv, EntriesOK
    <2> QED BY <1>6, <2>1 DEF present, get
  <1>7. index.val.expires \in Nat /\ now \in Nat
    BY <1>3, <1>5 DEF IndexOK, IInv, EntriesOK
  <1>8. ~present(get(record_key(index.val.session_id))) => ~(index.val.expires > now)
    BY <1>3, <1>5, <1>6 DEF IndexOK
  <1> QED BY <1>4, <1>7, <1>8

(* find_by_credential_hash reads the index.                                *)
LEMMA FindIndexSettled ==
    ASSUME IInv, Still, NEW c \in Clients, FindIndex(c)
    PROVE  IInv'
  <1>1. PICK f : f = client[c]
    OBVIOUS
  <1>2. CASE Answer(c, "null")
    BY <1>2, Answers, StillStore
  <1>3. ASSUME NEW index, index = get(credential_key(f.repo.call.credential)), present(index),
               client' = [client EXCEPT ![c].repo.at = "find record", ![c].repo.index = index]
        PROVE  IInv'
    <2>1. PICK r : r = [f.repo EXCEPT !.at = "find record", !.index = index]
      OBVIOUS
    <2>2. /\ DOMAIN f.repo = {"at", "call", "start", "round", "entry", "index", "reply"}
          /\ f.step = "find" /\ f.repo.start = "find index"
      BY <1>1, Serving DEF FrameOK, CallOK, FindIndex, FindPlaces
    <2>3. /\ r.at = "find record" /\ r.start = f.repo.start /\ DOMAIN r = DOMAIN f.repo
          /\ r.index = index /\ r.call = f.repo.call
      BY <2>1, <2>2
    <2>6. FindOK(r)
      BY <1>3, <2>3, PresentIndex DEF FindOK
    <2>4. CallOK(f, r)
      BY <2>2, <2>3, <2>6 DEF CallOK, FindPlaces, CreatePlaces, UpdatePlaces, IdentityPlaces
    <2>5. Rewritten(c, f, r)
      <3>1. DOMAIN f = {"step", "req", "sent", "session", "set_cookie", "at", "tries", "user",
                        "failed", "repo"}
        BY <1>1, Serving DEF FrameOK
      <3> QED BY <1>1, <1>3, <2>1, <3>1 DEF Rewritten, IInv
    <2> QED BY <1>1, <2>4, <2>5, StillRepo
  <1> QED BY <1>1, <1>2, <1>3 DEF FindIndex

(* ... and the record it leads to.                                         *)
LEMMA FindRecordSettled ==
    ASSUME IInv, Still, NEW c \in Clients, FindRecord(c)
    PROVE  IInv'
  <1>1. PICK f : f = client[c]
    OBVIOUS
  <1>2. CallOK(f, f.repo) /\ f.repo.at = "find record"
    BY <1>1, Serving DEF FrameOK, FindRecord
  <1>3. f.step = "find" /\ f.repo.start = "find index" /\ FindOK(f.repo)
    BY <1>2 DEF CallOK, FindPlaces
  <1>4. CASE Retry(c)
    BY <1>1, <1>2, <1>4, Retries, StillStore DEF FindPlaces
  <1>8. PICK index : index = get(credential_key(f.repo.call.credential))
    OBVIOUS
  <1>5. CASE /\ index.vs = f.repo.index.vs
             /\ ~present(get(record_key(f.repo.index.val.session_id)))
             /\ Goto(c, "drop index")
    <2>1. PICK r : Moved(r, f, "drop index") /\ Rewritten(c, f, r)
      BY <1>1, <1>5, Goes
    <2>3. Seen(f.repo.index, credential_key(f.repo.call.credential)) /\ f.repo.index = index
      BY <1>2, <1>3, <1>5, <1>8 DEF FindOK, Seen
    <2>4. present(index)
      BY <2>3 DEF Seen, present, IInv, EntriesOK
    <2>5. index.val.expires \in Nat /\ index.val.expires <= now
      BY <1>5, <1>8, <2>3, <2>4, PresentIndex
    <2>6. FindOK(r)
      BY <2>1, <2>3, <2>5 DEF Moved, FindOK
    <2>2. CallOK(f, r)
      BY <1>3, <2>1, <2>6
      DEF Moved, CallOK, FindPlaces, CreatePlaces, UpdatePlaces, IdentityPlaces
    <2> QED BY <1>1, <2>1, <2>2, StillRepo
  <1>6. CASE Answer(c, "threw")
    BY <1>6, Answers, StillStore
  <1>7. ASSUME NEW id, present(get(record_key(id))), AnswerWith(c, id, get(record_key(id)).val)
        PROVE  IInv'
    <2>1. PICK record : record = get(record_key(id)).val
      OBVIOUS
    <2>2. ReplyOK(f.step, id, record)
      BY <1>3, <1>7, <2>1, PresentSession DEF ReplyOK
    <2> QED BY <1>1, <1>7, <2>1, <2>2, AnswersWith, StillStore
  <1> QED BY <1>1, <1>4, <1>5, <1>6, <1>7, <1>8 DEF FindRecord

(* create reads the keys of the new session.                               *)
LEMMA ReadNewSettled ==
    ASSUME IInv, Still, NEW c \in Clients, ReadNew(c)
    PROVE  IInv'
  <1>1. PICK f : f = client[c]
    OBVIOUS
  <1>2. CallOK(f, f.repo) /\ f.repo.at = "read new"
    BY <1>1, Serving DEF FrameOK, ReadNew
  <1>3. CASE Answer(c, "taken")
    BY <1>3, Answers, StillStore
  <1>4. CASE Goto(c, "create")
    <2>1. PICK r : Moved(r, f, "create") /\ Rewritten(c, f, r)
      BY <1>1, <1>4, Goes
    <2>2. CallOK(f, r)
      BY <1>2, <2>1 DEF Moved, CallOK, FindPlaces, CreatePlaces, UpdatePlaces, IdentityPlaces
    <2> QED BY <1>1, <2>1, <2>2, StillRepo
  <1> QED BY <1>3, <1>4 DEF ReadNew

(* #load_record: the record read, with its version, is what the commit     *)
(* will check.                                                             *)
LEMMA LoadSettled ==
    ASSUME IInv, Still, NEW c \in Clients, Load(c)
    PROVE  IInv'
  <1>1. PICK f : f = client[c]
    OBVIOUS
  <1>2. CallOK(f, f.repo) /\ f.repo.at = "load"
    BY <1>1, Serving DEF FrameOK, Load
  <1>3. UpdateOK(f, f.repo)
    BY <1>2 DEF CallOK, UpdatePlaces
  <1>4. CASE Answer(c, "stale_session")
    BY <1>4, Answers, StillStore
  <1>5. ASSUME NEW refusal \in {"not_guest", "state_collision", "not_found", "not_authenticated",
                                "invalid_csrf"}, Answer(c, refusal)
        PROVE  IInv'
    BY <1>5, Answers, StillStore
  <1>6. ASSUME NEW entry, entry = get(record_key(f.repo.call.id)), present(entry),
               ~StaleVersion(entry.val, f.repo.call), Refusal(entry.val, f.repo.call) = None,
               NEW at \in {"read credential", "commit"},
               client' = [client EXCEPT ![c].repo.at = at, ![c].repo.entry = entry]
        PROVE  IInv'
    <2>1. PICK r : r = [f.repo EXCEPT !.at = at, !.entry = entry]
      OBVIOUS
    <2>2. DOMAIN f.repo = {"at", "call", "start", "round", "entry", "index", "reply"}
      BY <1>2 DEF CallOK
    <2>3. /\ r.at = at /\ r.start = f.repo.start /\ r.call = f.repo.call /\ r.entry = entry
          /\ DOMAIN r = DOMAIN f.repo
      BY <2>1, <2>2
    <2>4. /\ StoredSession(entry.val) /\ Seen(entry, record_key(f.repo.call.id))
          /\ f.repo.call.id \in Credentials
      BY <1>6, PresentSession
    <2>5. UpdateOK(f, r)
      BY <1>3, <1>6, <2>3, <2>4 DEF UpdateOK
    <2>6. CallOK(f, r)
      BY <1>6, <2>2, <2>3, <2>5
      DEF CallOK, FindPlaces, CreatePlaces, UpdatePlaces, IdentityPlaces
    <2>7. Rewritten(c, f, r)
      <3>1. DOMAIN f = {"step", "req", "sent", "session", "set_cookie", "at", "tries", "user",
                        "failed", "repo"}
        BY <1>1, Serving DEF FrameOK
      <3> QED BY <1>1, <1>6, <2>1, <2>2, <3>1 DEF Rewritten, IInv
    <2> QED BY <1>1, <2>6, <2>7, StillRepo
  <1>7. \A record, call : Refusal(record, call) \in
           {None, "not_guest", "state_collision", "not_found", "not_authenticated", "invalid_csrf"}
    BY DEF Refusal
  <1> QED BY <1>1, <1>4, <1>5, <1>6, <1>7 DEF Load

(* upgrade reads the new credential's index.                               *)
LEMMA ReadCredentialSettled ==
    ASSUME IInv, Still, NEW c \in Clients, ReadCredential(c)
    PROVE  IInv'
  <1>1. PICK f : f = client[c]
    OBVIOUS
  <1>2. CallOK(f, f.repo) /\ f.repo.at = "read credential"
    BY <1>1, Serving DEF FrameOK, ReadCredential
  <1>3. UpdateOK(f, f.repo)
    BY <1>2 DEF CallOK, UpdatePlaces
  <1>4. ASSUME NEW at \in {"recheck", "commit"}, Goto(c, at)
        PROVE  IInv'
    <2>1. PICK r : Moved(r, f, at) /\ Rewritten(c, f, r)
      BY <1>1, <1>4, Goes
    <2>2. UpdateOK(f, r)
      BY <1>2, <1>3, <2>1 DEF Moved, UpdateOK
    <2>3. CallOK(f, r)
      BY <1>4, <2>1, <2>2
      DEF Moved, CallOK, FindPlaces, CreatePlaces, UpdatePlaces, IdentityPlaces
    <2> QED BY <1>1, <2>1, <2>3, StillRepo
  <1> QED BY <1>4 DEF ReadCredential

(* ... and, if it is taken, the record again.                              *)
LEMMA RecheckSettled ==
    ASSUME IInv, Still, NEW c \in Clients, Recheck(c)
    PROVE  IInv'
  <1>1. CASE Retry(c)
    BY <1>1, Retries, StillStore DEF Recheck, UpdatePlaces
  <1>2. CASE Answer(c, "credential_collision")
    BY <1>2, Answers, StillStore
  <1> QED BY <1>1, <1>2 DEF Recheck

(* What leaves the entries of identities and users alone leaves them in    *)
(* pairs.                                                                  *)
LEMMA PairsKept ==
    ASSUME IdentitiesPaired,
           \A key : key[1] \in {"user", "identity"} =>
               /\ key \in DOMAIN kv' <=> key \in DOMAIN kv
               /\ key \in DOMAIN kv => kv'[key] = kv[key]
    PROVE  IdentitiesPaired'
  <1>1. \A a : Known(a)' = Known(a) /\ (Known(a) => kv'[identity_key(a)] = kv[identity_key(a)])
    BY KeysDiffer DEF Known
  <1>2. \A a : Known(a) => UserOf(a)' = UserOf(a)
    BY <1>1 DEF UserOf
  <1>3. \A u : user_key(u) \in DOMAIN kv' <=> user_key(u) \in DOMAIN kv
    BY KeysDiffer
  <1> QED BY <1>1, <1>2, <1>3 DEF IdentitiesPaired

(* An atomic operation gives stamps that are new.                          *)
LEMMA WriteGrows ==
    ASSUME clock \in Nat, now \in Nat, UNCHANGED now,
           NEW written, NEW removed, Write(written, removed)
    PROVE  StampsGrow
  <1>1. /\ clock' = clock + 1
        /\ DOMAIN kv' = DOMAIN written \cup (DOMAIN kv \ removed)
        /\ \A key \in DOMAIN kv' : kv'[key] = IF key \in DOMAIN written
                             THEN [vs |-> clock + 1, val |-> written[key]] ELSE kv[key]
    BY WriteLeaves
  <1>2. clock' \in Nat /\ clock <= clock' /\ clock + 1 > clock
    BY <1>1
  <1>3. ASSUME NEW key
        PROVE  get(key)' = get(key) \/ get(key)' = Absent \/ get(key)'.vs > clock
    <2>1. CASE key \notin DOMAIN kv'
      BY <2>1 DEF get, Absent
    <2>2. CASE key \in DOMAIN kv' /\ key \in DOMAIN written
      <3>1. get(key)' = [vs |-> clock + 1, val |-> written[key]]
        BY <1>1, <2>2 DEF get
      <3>2. get(key)'.vs = clock + 1
        BY <3>1
      <3> QED BY <1>2, <3>2
    <2>3. CASE key \in DOMAIN kv' /\ key \notin DOMAIN written
      BY <1>1, <2>3 DEF get
    <2> QED BY <2>1, <2>2, <2>3
  <1> QED BY <1>2, <1>3 DEF StampsGrow

(* A session stays with the bearer and the end it has, or its index entry  *)
(* goes, or is a new one.                                                  *)
SessionKept(own) ==
    LET record == kv[own].val IN
    \/ /\ own \in DOMAIN kv' /\ kv'[own].val.absolute_expires = record.absolute_expires
       /\ kv'[own].val.credential = record.credential
    \/ record.absolute_expires <= now
    \/ \A key \in DOMAIN kv' : key = credential_key(record.credential) => IndexOK(key)'

(* Then the index entries left lead where they led, until they expire.     *)
LEMMA IndexesStay ==
    ASSUME IndexesOK, now \in Nat, now' \in Nat, now <= now',
           \A key \in DOMAIN kv' : key[1] = "credential" =>
               IndexOK(key)' \/ (key \in DOMAIN kv /\ kv'[key] = kv[key]),
           \A own \in DOMAIN kv : own[1] = "session" => SessionKept(own)
    PROVE  IndexesOK'
  <1>1. ASSUME NEW key \in DOMAIN kv', key[1] = "credential", key \in DOMAIN kv, kv'[key] = kv[key],
               ~IndexOK(key)'
        PROVE  FALSE
    <2>1. PICK index, own : index = kv[key].val /\ own = record_key(index.session_id)
      OBVIOUS
    <2>2. /\ index.expires \in Nat
          /\ index.expires > now =>
                /\ own \in DOMAIN kv /\ kv[own].val.absolute_expires = index.expires
                /\ key = credential_key(kv[own].val.credential)
      BY <1>1, <2>1 DEF IndexesOK, IndexOK
    <2>3. ~(/\ index.expires \in Nat
            /\ index.expires > now' =>
                /\ own \in DOMAIN kv' /\ kv'[own].val.absolute_expires = index.expires
                /\ key = credential_key(kv'[own].val.credential))
      BY <1>1, <2>1 DEF IndexOK
    <2>4. index.expires > now
      BY <2>2, <2>3
    <2>5. SessionKept(own)
      BY <2>1, <2>2, <2>4, KeysDiffer
    <2>7. ~(kv[own].val.absolute_expires <= now)
      BY <2>2, <2>4
    <2>8. ~\A k \in DOMAIN kv' : k = credential_key(kv[own].val.credential) => IndexOK(k)'
      BY <1>1, <2>2, <2>4
    <2>6. own \in DOMAIN kv' /\ kv'[own].val.absolute_expires = kv[own].val.absolute_expires
          /\ kv'[own].val.credential = kv[own].val.credential
      BY <2>5, <2>7, <2>8 DEF SessionKept
    <2> QED BY <2>2, <2>3, <2>4, <2>6
  <1> QED BY <1>1 DEF IndexesOK

(* What leaves sessions and index entries alone.                           *)
LEMMA IndexesAlone ==
    ASSUME IInv, UNCHANGED now,
           \A key : key[1] \in {"session", "credential"} =>
               /\ key \in DOMAIN kv' <=> key \in DOMAIN kv
               /\ key \in DOMAIN kv => kv'[key] = kv[key]
    PROVE  IndexesOK'
  <1>1. IndexesOK /\ now \in Nat
    BY DEF IInv, EntriesOK
  <1>2. \A own \in DOMAIN kv : own[1] = "session" => SessionKept(own)
    BY DEF SessionKept
  <1> QED BY <1>1, <1>2, IndexesStay

(* An atomic operation on sessions and their index entries.                *)
LEMMA SessionWrite ==
    ASSUME IInv, NEW written, NEW removed, Write(written, removed), UNCHANGED now,
           BrowserKept,
           \A key \in DOMAIN written \cup removed : key[1] \in {"session", "credential"},
           \A key \in DOMAIN written : key[1] = "session" => StoredAt(key, written[key]),
           IndexesOK'
    PROVE  StoreOK
  <1>1. /\ clock' = clock + 1
        /\ DOMAIN kv' = DOMAIN written \cup (DOMAIN kv \ removed)
        /\ \A key \in DOMAIN kv' : kv'[key] = IF key \in DOMAIN written
                             THEN [vs |-> clock + 1, val |-> written[key]] ELSE kv[key]
    BY WriteLeaves
  <1>2. clock \in Nat /\ now \in Nat
    BY DEF IInv, EntriesOK
  <1>3. StampsGrow
    BY <1>2, WriteGrows
  <1>4. EntriesOK'
    <2>1. ASSUME NEW key \in DOMAIN kv'
          PROVE  /\ kv'[key].vs \in 1..clock'
                 /\ key[1] = "session" => StoredAt(key, kv'[key].val)
      <3>1. CASE key \in DOMAIN written
        <4>1. PICK entry : entry = kv'[key]
          OBVIOUS
        <4>2. entry = [vs |-> clock + 1, val |-> written[key]]
          BY <1>1, <3>1, <4>1
        <4>3. entry.vs = clock + 1 /\ entry.val = written[key]
          BY <4>2
        <4>4. entry.vs \in 1..clock'
          BY <1>1, <1>2, <4>3
        <4>5. key[1] = "session" => StoredAt(key, entry.val)
          BY <3>1, <4>3
        <4> QED BY <4>1, <4>4, <4>5
      <3>2. CASE key \notin DOMAIN written
        <4>1. kv'[key] = kv[key] /\ key \in DOMAIN kv
          BY <1>1, <3>2
        <4>2. kv[key].vs \in 1..clock /\ (key[1] = "session" => StoredAt(key, kv[key].val))
          BY <4>1 DEF IInv, EntriesOK
        <4>3. kv[key].vs \in 1..clock'
          BY <1>1, <1>2, <4>2
        <4> QED BY <4>1, <4>2, <4>3
      <3> QED BY <3>1, <3>2
    <2> QED BY <1>1, <1>2, <2>1 DEF EntriesOK
  <1>5. IdentitiesPaired'
    <2>1. ASSUME NEW key, key[1] \in {"user", "identity"}
          PROVE  /\ key \in DOMAIN kv' <=> key \in DOMAIN kv
                 /\ key \in DOMAIN kv => kv'[key] = kv[key]
      BY <1>1, <2>1
    <2> QED BY <2>1, PairsKept DEF IInv
  <1> QED BY <1>3, <1>4, <1>5 DEF StoreOK

(* The two entries of a session.                                           *)
IsSessionEntries(entries, id, record) ==
    /\ DOMAIN entries = {record_key(id), credential_key(record.credential)}
    /\ entries[record_key(id)] = record
    /\ entries[credential_key(record.credential)] = Index(id, record)
    /\ \A key \in DOMAIN entries : key[1] \in {"session", "credential"}
    /\ \A key \in DOMAIN entries : key[1] = "session" => entries[key] = record

(* SessionEntries, as the two entries it is.                               *)
LEMMA TwoEntries ==
    ASSUME NEW id, NEW record
    PROVE  IsSessionEntries(SessionEntries(id, record), id, record)
  <1> SUFFICES ASSUME NEW entries, entries = SessionEntries(id, record)
               PROVE  IsSessionEntries(entries, id, record)
    OBVIOUS
  <1> DEFINE r == record_key(id)
             h == credential_key(record.credential)
             first == [k \in {r} |-> record]
             second == [k \in {h} |-> Index(id, record)]
  <1>1. r[1] = "session" /\ h[1] = "credential"
    BY KeysDiffer
  <1>2. entries = [k \in DOMAIN first \cup DOMAIN second |->
                      IF k \in DOMAIN first THEN first[k] ELSE second[k]]
    BY DEF SessionEntries, Overlay, Single
  <1> HIDE DEF r, h
  <1>3. DOMAIN entries = {r, h} /\ entries[r] = record /\ entries[h] = Index(id, record)
    BY <1>1, <1>2
  <1> QED BY <1>1, <1>3 DEF IsSessionEntries, r, h

(* What the versioned operations make of a session that is in use.         *)
Succeeds(record, updated) ==
    /\ StoredSession(updated)
    /\ updated.version >= record.version
    /\ record.user_id # None => updated.user_id = record.user_id

SameEnd(record, updated) ==
    /\ updated.absolute_expires = record.absolute_expires
    /\ updated.credential = record.credential

(* The attempts that the operations on a guest's session leave: those that *)
(* are pending, but for the one consumed, and the one saved.               *)
LEMMA UpdatedAttempts ==
    ASSUME NEW record, StoredSession(record), NEW call, call.op \in {"save", "consume"},
           call.op = "save" => call.state \in States /\ call.expires \in Nat,
           Refusal(record, call) = None,
           NEW updated, updated = Updated(record, call)
    PROVE  /\ updated = [record EXCEPT !.attempts = updated.attempts]
           /\ StoredAttempts(updated.attempts)
           /\ \A s : HasState(updated.attempts, s) =>
                 HasState(record.attempts, s) \/ (call.op = "save" /\ s = call.state)
           /\ call.op = "consume" => ~HasState(updated.attempts, call.state)
  <1>1. PICK active : active = Active(record.attempts, call.time)
    OBVIOUS
  <1>2. KeepsAttempts(active, record.attempts)
    BY <1>1, ActiveKeeps DEF StoredSession, SessionRecord
  <1>3. CASE call.op = "consume"
    <2>1. updated = [record EXCEPT !.attempts = Consume(active, call.state)]
      BY <1>1, <1>3 DEF Updated
    <2>2. PICK kept : kept = Consume(active, call.state)
      OBVIOUS
    <2>3. updated = [record EXCEPT !.attempts = kept] /\ updated.attempts = kept
      BY <2>1, <2>2 DEF StoredSession, SessionRecord
    <2>4. KeepsAttempts(kept, active) /\ ~HasState(kept, call.state)
      BY <1>2, <2>2, ConsumeKeeps DEF KeepsAttempts
    <2> QED BY <1>2, <1>3, <2>3, <2>4 DEF KeepsAttempts
  <1>4. CASE call.op = "save"
    <2>1. PICK kept, attempt, attempts :
            /\ kept = Retained(active) /\ attempts = Append(kept, attempt)
            /\ attempt = [state |-> call.state, expires |-> call.expires]
      OBVIOUS
    <2>2. updated = [record EXCEPT !.attempts = attempts]
      BY <1>1, <1>4, <2>1 DEF Updated
    <2>3. updated.attempts = attempts
      BY <2>2 DEF StoredSession, SessionRecord
    <2>4. KeepsAttempts(kept, active) /\ Len(kept) < max_pending_attempts
      BY <1>2, <2>1, RetainedKeeps DEF KeepsAttempts
    <2>5. ~HasState(active, call.state)
      <3>1. record.kind \in {"guest", "authenticated"} /\ None # "state_collision" /\ None # "not_guest"
        BY SignInAssumption DEF StoredSession, SessionRecord
      <3>2. record.kind = "guest"
        BY <1>4, <3>1 DEF Refusal
      <3>3. ~HasState(Active(record.attempts, call.time), call.state)
        BY <1>4, <3>1, <3>2 DEF Refusal
      <3> QED BY <1>1, <3>3
    <2>6. /\ StoredAttempts(attempts)
          /\ \A s : HasState(attempts, s) => HasState(kept, s) \/ s = call.state
      <3>1. /\ attempt \in [state : States, expires : Nat] /\ attempt.state = call.state
            /\ attempts = Append(kept, attempt)
        BY <1>4, <2>1
      <3>2. ~HasState(kept, attempt.state) /\ StoredAttempts(kept)
        BY <2>4, <2>5, <3>1 DEF KeepsAttempts
      <3>3. /\ StoredAttempts(attempts)
            /\ \A s : HasState(attempts, s) => HasState(kept, s) \/ s = attempt.state
        BY <2>4, <3>1, <3>2, AppendStored
      <3> QED BY <3>1, <3>3
    <2> QED BY <1>2, <1>4, <2>2, <2>3, <2>4, <2>6 DEF KeepsAttempts
  <1> QED BY <1>3, <1>4

(* Each versioned operation makes a session of a session: never an earlier *)
(* version, never another user.                                            *)
LEMMA UpdatedStored ==
    ASSUME NEW f, NEW call, UpdateAsked(f, call),
           NEW record, StoredSession(record), ~StaleVersion(record, call),
           Refusal(record, call) = None,
           NEW updated, updated = Updated(record, call)
    PROVE  Succeeds(record, updated) /\ (call.op = "renew" => ~updated.revoked)
  <1>1. record.version \in Nat \ {0} /\ ~record.revoked /\ record.version = call.expected_version
    BY DEF StoredSession, SessionRecord, StaleVersion
  <1>2. StoredAttempts(<<>>)
    BY SignInAssumption DEF StoredAttempts, Attempt
  <1>3. CASE call.op = "renew"
    <2>1. PICK seen \in Nat, idle \in Nat :
            updated = [record EXCEPT !.last_seen = seen, !.idle_expires = idle]
      BY <1>3 DEF Updated, later, UpdateAsked, StoredSession, SessionRecord
    <2>2. /\ DOMAIN updated = DOMAIN record
          /\ updated.version = record.version /\ updated.kind = record.kind
          /\ updated.user_id = record.user_id /\ updated.revoked = record.revoked
          /\ updated.credential = record.credential /\ updated.attempts = record.attempts
      BY <2>1 DEF StoredSession, SessionRecord
    <2>3. updated \in SessionRecord
      BY <2>1 DEF StoredSession, SessionRecord
    <2> QED BY <1>1, <2>2, <2>3 DEF StoredSession, Succeeds
  <1>4. CASE call.op \in {"save", "consume"}
    <2>1. PICK attempts : updated = [record EXCEPT !.attempts = attempts] /\ StoredAttempts(attempts)
      <3>1. call.op = "save" => call.state \in States /\ call.expires \in Nat
        BY DEF UpdateAsked, AttemptAsked
      <3> QED BY <1>4, <3>1, UpdatedAttempts
    <2>2. /\ DOMAIN updated = DOMAIN record
          /\ updated.version = record.version /\ updated.kind = record.kind
          /\ updated.user_id = record.user_id /\ updated.revoked = record.revoked
          /\ updated.credential = record.credential /\ updated.attempts = attempts
      BY <2>1 DEF StoredSession, SessionRecord
    <2>3. updated \in SessionRecord
      BY <2>1 DEF StoredSession, SessionRecord, StoredAttempts
    <2> QED BY <1>1, <1>4, <2>1, <2>2, <2>3 DEF StoredSession, Succeeds
  <1>5. CASE call.op = "upgrade"
    <2>1. updated = [record EXCEPT !.kind = "authenticated", !.version = record.version + 1,
                           !.user_id = call.user_id, !.csrf_token = call.credential,
                           !.credential = call.credential, !.last_seen = call.time,
                           !.idle_expires = call.idle_expires,
                           !.absolute_expires = call.absolute_expires, !.attempts = <<>>]
      BY <1>5 DEF Updated
    <2> DEFINE v == record.version + 1
    <2>2. /\ DOMAIN updated = DOMAIN record
          /\ updated.version = v /\ updated.kind = "authenticated"
          /\ updated.revoked = record.revoked /\ updated.user_id = call.user_id
          /\ updated.credential = call.credential /\ updated.attempts = <<>>
      BY <2>1 DEF StoredSession, SessionRecord
    <2>3. /\ v \in Nat /\ v = 2 /\ record.version = 1 /\ record.user_id = None
          /\ call.user_id \in UserIds /\ call.credential \in Credentials
      BY <1>1, <1>5 DEF StoredSession, SessionRecord, UpdateAsked
    <2> HIDE DEF v
    <2>4. updated \in SessionRecord
      <3>1. /\ call.time \in Nat /\ call.idle_expires \in Nat /\ call.absolute_expires \in Nat
            /\ <<>> \in Seq(Attempt) /\ record.revoked \in BOOLEAN
        BY <1>5 DEF UpdateAsked, StoredSession, SessionRecord
      <3>2. updated = [kind |-> "authenticated", version |-> v, user_id |-> call.user_id,
                       csrf_token |-> call.credential, credential |-> call.credential,
                       last_seen |-> call.time, idle_expires |-> call.idle_expires,
                       absolute_expires |-> call.absolute_expires, revoked |-> record.revoked,
                       attempts |-> <<>>]
        BY <2>1 DEF StoredSession, SessionRecord, v
      <3> QED BY <2>3, <3>1, <3>2 DEF SessionRecord
    <2> QED BY <1>1, <1>2, <1>5, <2>2, <2>3, <2>4 DEF StoredSession, Succeeds
  <1>6. CASE call.op \in {"logout", "revoke"}
    <2>1. PICK v :
            /\ updated = [record EXCEPT !.version = v, !.revoked = TRUE, !.attempts = <<>>]
            /\ v = record.version + 1
      BY <1>6 DEF Updated, revoked_record
    <2>2. /\ DOMAIN updated = DOMAIN record
          /\ updated.version = v /\ updated.revoked = TRUE /\ updated.kind = record.kind
          /\ updated.user_id = record.user_id
          /\ updated.credential = record.credential /\ updated.attempts = <<>>
      BY <2>1 DEF StoredSession, SessionRecord
    <2>3. v \in Nat \ {0} /\ v > 1 /\ v >= record.version
      BY <1>1, <2>1
    <2>4. StoredSession(updated)
      <3>1. updated.version \in Nat \ {0} /\ updated.version # 1
        BY <2>2, <2>3
      <3>2. updated.revoked \in BOOLEAN /\ updated.revoked
        BY <2>2
      <3>3. updated \in SessionRecord
        <4>1. <<>> \in Seq(Attempt)
          OBVIOUS
        <4> QED BY <2>1, <2>3, <4>1 DEF StoredSession, SessionRecord
      <3> QED BY <1>2, <2>2, <3>1, <3>2, <3>3 DEF StoredSession
    <2>5. Succeeds(record, updated)
      BY <2>2, <2>3, <2>4 DEF Succeeds
    <2> QED BY <1>6, <2>5
  <1> QED BY <1>3, <1>4, <1>5, <1>6 DEF UpdateAsked

(* All of them but upgrade leave a session its end and its bearer.          *)
LEMMA EndStays ==
    ASSUME NEW f, NEW call, UpdateAsked(f, call), call.op # "upgrade",
           NEW record, StoredSession(record), Refusal(record, call) = None,
           NEW updated, updated = Updated(record, call)
    PROVE  SameEnd(record, updated)
  <1>1. CASE call.op = "renew"
    <2>1. PICK seen, idle :
            updated = [record EXCEPT !.last_seen = seen, !.idle_expires = idle]
      BY <1>1 DEF Updated
    <2> QED BY <2>1 DEF StoredSession, SessionRecord, SameEnd
  <1>2. CASE call.op \in {"save", "consume"}
    <2>1. call.op = "save" => call.state \in States /\ call.expires \in Nat
      BY DEF UpdateAsked, AttemptAsked
    <2>2. PICK attempts : updated = [record EXCEPT !.attempts = attempts]
      BY <1>2, <2>1, UpdatedAttempts
    <2> QED BY <2>2 DEF StoredSession, SessionRecord, SameEnd
  <1>3. CASE call.op \in {"logout", "revoke"}
    <2>1. PICK v : updated = [record EXCEPT !.version = v, !.revoked = TRUE, !.attempts = <<>>]
      BY <1>3 DEF Updated, revoked_record
    <2> QED BY <2>1 DEF StoredSession, SessionRecord, SameEnd
  <1> QED BY <1>1, <1>2, <1>3 DEF UpdateAsked

(* A check that a key is absent.                                           *)
LEMMA CheckedAbsent ==
    ASSUME IInv, NEW key, get(key).vs = Absent.vs
    PROVE  key \notin DOMAIN kv
  <1>1. Absent.vs = 0
    BY DEF Absent
  <1>2. key \in DOMAIN kv => get(key).vs \in 1..clock
    BY DEF get, IInv, EntriesOK
  <1> QED BY <1>1, <1>2

(* Keys checked to be absent are.                                          *)
LEMMA AllAbsent ==
    ASSUME IInv, NEW keys, AllCurrent({<<key, Absent.vs>> : key \in keys}), NEW key \in keys
    PROVE  key \notin DOMAIN kv
  <1>1. \A check \in {<<k, Absent.vs>> : k \in keys} : get(check[1]).vs = check[2]
    BY DEF AllCurrent
  <1>2. <<key, Absent.vs>> \in {<<k, Absent.vs>> : k \in keys}
    OBVIOUS
  <1>3. get(key).vs = Absent.vs
    BY <1>1, <1>2
  <1> QED BY <1>3, CheckedAbsent

(* A check that an entry is the one read.                                  *)
LEMMA CheckedSame ==
    ASSUME IInv, NEW key, NEW entry, Seen(entry, key), get(key).vs = entry.vs
    PROVE  key \in DOMAIN kv /\ kv[key] = entry
  <1>1. get(key) = entry /\ entry.vs \in 1..clock /\ Absent.vs = 0
    BY DEF Seen, Absent
  <1>2. key \in DOMAIN kv
    BY <1>1 DEF get, IInv, EntriesOK
  <1> QED BY <1>1, <1>2 DEF get

(* A session's entries written over what was stored of it: its index entry *)
(* too, if it gets another end or another bearer, and the old one goes.    *)
LEMMA IndexesWritten ==
    ASSUME IInv, UNCHANGED now, NEW written, NEW removed, Write(written, removed),
           NEW id, NEW own, own = record_key(id), NEW record, StoredSession(record),
           own \in DOMAIN written /\ written[own] = record,
           \A key \in DOMAIN written :
               \/ key = own
               \/ key = credential_key(record.credential) /\ written[key] = Index(id, record),
           \A key \in removed : key[1] = "credential",
           own \in DOMAIN kv =>
               \/ /\ record.absolute_expires = kv[own].val.absolute_expires
                  /\ record.credential = kv[own].val.credential
               \/ credential_key(kv[own].val.credential) \in removed
    PROVE  IndexesOK'
  <1>1. /\ DOMAIN kv' = DOMAIN written \cup (DOMAIN kv \ removed)
        /\ \A key \in DOMAIN kv' : kv'[key] = IF key \in DOMAIN written
                             THEN [vs |-> clock + 1, val |-> written[key]] ELSE kv[key]
    BY WriteLeaves
  <1>2. IndexesOK /\ now \in Nat
    BY DEF IInv, EntriesOK
  <1>3. own \in DOMAIN kv' /\ kv'[own].val = record
    <2>1. kv'[own] = [vs |-> clock + 1, val |-> written[own]]
      BY <1>1
    <2> QED BY <1>1, <2>1
  <1>4. own[1] = "session"
    BY KeysDiffer
  <1>5. ASSUME NEW key \in DOMAIN kv', key[1] = "credential", key \in DOMAIN written
        PROVE  IndexOK(key)'
    <2>1. PICK index : index = kv'[key].val
      OBVIOUS
    <2>2. key = credential_key(record.credential) /\ written[key] = Index(id, record)
      BY <1>4, <1>5
    <2>3. kv'[key] = [vs |-> clock + 1, val |-> written[key]]
      BY <1>1, <1>5
    <2>4. index = Index(id, record)
      BY <2>1, <2>2, <2>3
    <2>5. index.session_id = id /\ index.expires = record.absolute_expires
      BY <2>4 DEF Index
    <2>6. record.absolute_expires \in Nat
      BY DEF StoredSession, SessionRecord
    <2>7. /\ index.expires \in Nat
          /\ own = record_key(index.session_id) /\ own \in DOMAIN kv'
          /\ kv'[own].val.absolute_expires = index.expires
          /\ key = credential_key(kv'[own].val.credential)
      BY <1>3, <2>2, <2>5, <2>6
    <2> QED BY <2>1, <2>7 DEF IndexOK
  <1>6. ASSUME NEW key \in DOMAIN kv', key[1] = "credential", key \notin DOMAIN written
        PROVE  key \in DOMAIN kv /\ kv'[key] = kv[key]
    BY <1>1, <1>6
  <1>7. ASSUME NEW other \in DOMAIN kv, other[1] = "session"
        PROVE  SessionKept(other)
    <2>1. CASE other # own
      <3>1. other \notin DOMAIN written /\ other \notin removed
        BY <1>7, <2>1, KeysDiffer
      <3>2. other \in DOMAIN kv' /\ kv'[other] = kv[other]
        BY <1>1, <3>1
      <3> QED BY <3>2 DEF SessionKept
    <2>2. CASE other = own
      <3>1. CASE /\ record.absolute_expires = kv[own].val.absolute_expires
                 /\ record.credential = kv[own].val.credential
        BY <1>3, <2>2, <3>1 DEF SessionKept
      <3>2. CASE credential_key(kv[own].val.credential) \in removed
        <4>1. ASSUME NEW key \in DOMAIN kv', key = credential_key(kv[own].val.credential)
              PROVE  IndexOK(key)'
          <5>1. key \in DOMAIN written /\ key[1] = "credential"
            BY <1>1, <3>2, <4>1, KeysDiffer
          <5> QED BY <1>5, <5>1
        <4> QED BY <2>2, <4>1 DEF SessionKept
      <3> QED BY <1>7, <2>2, <3>1, <3>2
    <2> QED BY <2>1, <2>2
  <1> QED BY <1>2, <1>5, <1>6, <1>7, IndexesStay

(* find_by_credential_hash drops an index entry that leads nowhere.        *)
LEMMA DropIndexSettled ==
    ASSUME IInv, BrowserKept, NEW c \in Clients, DropIndex(c)
    PROVE  IInv'
  <1>1. StoreOK
    <2>1. CASE UNCHANGED <<kv, clock>>
      <3>1. Still
        BY <2>1 DEF DropIndex, Still
      <3> QED BY <3>1, StillStore
    <2>2. ASSUME NEW key, key[1] = "credential", Write(NoEntries, {key})
          PROVE  StoreOK
      <3>1. DOMAIN NoEntries = {}
        BY DEF NoEntries
      <3>2. UNCHANGED now
        BY DEF DropIndex
      <3>3. DOMAIN kv' = DOMAIN kv \ {key} /\ \A k \in DOMAIN kv' : kv'[k] = kv[k]
        <4>1. PICK written, removed : written = NoEntries /\ removed = {key}
          OBVIOUS
        <4>2. /\ DOMAIN kv' = DOMAIN written \cup (DOMAIN kv \ removed)
              /\ \A k \in DOMAIN kv' : kv'[k] = IF k \in DOMAIN written
                             THEN [vs |-> clock + 1, val |-> written[k]] ELSE kv[k]
          BY <2>2, <4>1, WriteLeaves
        <4> QED BY <3>1, <4>1, <4>2
      <3>4. ASSUME NEW own \in DOMAIN kv, own[1] = "session" PROVE SessionKept(own)
        BY <2>2, <3>3, <3>4 DEF SessionKept
      <3>5. IndexesOK'
        BY <3>2, <3>3, <3>4, IndexesStay DEF IInv, EntriesOK
      <3> QED BY <2>2, <3>1, <3>2, <3>5, SessionWrite
    <2> QED BY <2>1, <2>2, KeysDiffer DEF DropIndex
  <1> QED BY <1>1, Answers DEF DropIndex

(* create commits.                                                         *)
LEMMA CreateCommitSettled ==
    ASSUME IInv, BrowserKept, NEW c \in Clients, CreateCommit(c)
    PROVE  IInv'
  <1>1. PICK f : f = client[c]
    OBVIOUS
  <1>2. PICK record, id : record = f.repo.call.record /\ id = f.repo.call.id
    OBVIOUS
  <1>3. CallOK(f, f.repo) /\ f.repo.at = "create"
    BY <1>1, Serving DEF FrameOK, CreateCommit
  <1>4. f.step = "create guest" /\ StoredSession(record) /\ record.version = 1
    BY <1>2, <1>3 DEF CallOK, CreatePlaces, CreationAsked
  <1>5. ReplyOK(f.step, id, record)
    BY <1>4 DEF ReplyOK, StoredSession, SessionRecord
  <1>9. StoredSession(record)
    BY <1>4
  <1>6. PICK entries : entries = SessionEntries(id, record)
    OBVIOUS
  <1>7. CASE /\ AllCurrent({<<key, Absent.vs>> : key \in DOMAIN entries})
              /\ Write(entries, {}) /\ AnswerWith(c, id, record)
    <2>5. IsSessionEntries(entries, id, record)
      BY <1>6, TwoEntries
    <2>1. /\ \A key \in DOMAIN entries : key[1] \in {"session", "credential"}
          /\ \A key \in DOMAIN entries : key[1] = "session" => StoredAt(key, entries[key])
      <3>1. credential_key(record.credential)[1] = "credential" /\ id \in Credentials
        BY <1>2, <1>3, KeysDiffer DEF CallOK, CreatePlaces, CreationAsked
      <3>2. \A key \in DOMAIN entries : key[1] = "session" => key = record_key(id)
        BY <2>5, <3>1 DEF IsSessionEntries
      <3> QED BY <1>4, <2>5, <3>1, <3>2 DEF IsSessionEntries, StoredAt
    <2>2. UNCHANGED now
      BY DEF CreateCommit
    <2>4. IndexesOK'
      <3>1. PICK own, removed : own = record_key(id) /\ removed = {}
        OBVIOUS
      <3>2. own \in DOMAIN entries
        BY <2>5, <3>1 DEF IsSessionEntries
      <3>3. own \notin DOMAIN kv
        BY <1>7, <3>2, AllAbsent
      <3>4. /\ entries[own] = record
            /\ \A key \in DOMAIN entries :
                  \/ key = own
                  \/ key = credential_key(record.credential) /\ entries[key] = Index(id, record)
        BY <2>5, <3>1 DEF IsSessionEntries
      <3>5. Write(entries, removed)
        BY <1>7, <3>1
      <3>6. \A key \in removed : key[1] = "credential"
        BY <3>1
      <3> QED BY <1>9, <2>2, <3>1, <3>2, <3>3, <3>4, <3>5, <3>6, IndexesWritten
    <2>3. StoreOK
      BY <1>7, <2>1, <2>2, <2>4, SessionWrite
    <2> QED BY <1>1, <1>5, <1>7, <2>3, AnswersWith
  <1>8. CASE UNCHANGED <<kv, clock>> /\ Answer(c, "taken")
    <2>1. Still
      BY <1>8 DEF CreateCommit, Still
    <2> QED BY <1>8, <2>1, StillStore, Answers
  <1> QED BY <1>1, <1>2, <1>6, <1>7, <1>8 DEF CreateCommit

(* What a versioned commit stores, if the session is still the one read.   *)
Stores(repo, updated) ==
    IF repo.call.op = "upgrade" THEN SessionEntries(repo.call.id, updated)
    ELSE Single(record_key(repo.call.id), updated)

IsCommitted(f, written, updated) ==
    /\ Succeeds(f.repo.entry.val, updated)
    /\ f.step = "renew" => ~updated.revoked
    /\ f.step \notin {"find", "create guest", "identify"}
    /\ record_key(f.repo.call.id) \in DOMAIN written
    /\ \A key \in DOMAIN written : key[1] \in {"session", "credential"}
    /\ \A key \in DOMAIN written : key[1] = "session" =>
          key = record_key(f.repo.call.id) /\ written[key] = updated
    /\ \A key \in DOMAIN written : key[1] # "session" =>
          /\ key = credential_key(updated.credential)
          /\ written[key] = Index(f.repo.call.id, updated)
    /\ f.repo.call.op # "upgrade" => SameEnd(f.repo.entry.val, updated)
    /\ f.repo.call.id \in Credentials

(* What the commit of an update would store follows from the record read.  *)
LEMMA CommitStores ==
    ASSUME IInv, NEW c \in Clients, NEW f, f = client[c], f.repo.at = "commit", NEW updated,
           updated = Updated(f.repo.entry.val, f.repo.call)
    PROVE  IsCommitted(f, Stores(f.repo, updated), updated)
  <1>1. PICK repo, call, record : repo = f.repo /\ call = repo.call /\ record = repo.entry.val
    OBVIOUS
  <1>2. UpdateOK(f, repo)
    BY <1>1, Serving DEF FrameOK, CallOK, UpdatePlaces
  <1>3. /\ StoredSession(record) /\ ~StaleVersion(record, call) /\ Refusal(record, call) = None
        /\ UpdateAsked(f, call)
        /\ f.step = "renew" => call.op = "renew"
        /\ f.step \notin {"find", "create guest", "identify"}
        /\ call.id \in Credentials
    BY <1>1, <1>2 DEF UpdateOK, UpdateAsked
  <1>4. Succeeds(record, updated) /\ (call.op = "renew" => ~updated.revoked)
    BY <1>1, <1>3, UpdatedStored
  <1>5. PICK written : written = Stores(repo, updated)
    OBVIOUS
  <1>6. PICK key : key = record_key(call.id)
    OBVIOUS
  <1>7. /\ key \in DOMAIN written
        /\ \A k \in DOMAIN written : k[1] \in {"session", "credential"}
        /\ \A k \in DOMAIN written : k[1] = "session" => k = key /\ written[k] = updated
        /\ \A k \in DOMAIN written : k[1] # "session" =>
              k = credential_key(updated.credential) /\ written[k] = Index(call.id, updated)
    <2>1. CASE call.op = "upgrade"
      <3>1. written = SessionEntries(call.id, updated)
        BY <1>1, <1>5, <2>1 DEF Stores
      <3>2. IsSessionEntries(written, call.id, updated)
        BY <3>1, TwoEntries
      <3>3. credential_key(updated.credential)[1] = "credential" /\ key[1] = "session"
        BY <1>6, KeysDiffer
      <3> QED BY <1>6, <3>2, <3>3 DEF IsSessionEntries
    <2>2. CASE call.op # "upgrade"
      <3>1. written = [k \in {key} |-> updated]
        BY <1>1, <1>5, <1>6, <2>2 DEF Stores, Single
      <3>2. key[1] = "session"
        BY <1>6, KeysDiffer
      <3> QED BY <3>1, <3>2
    <2> QED BY <2>1, <2>2
  <1>8. call.op # "upgrade" => SameEnd(record, updated)
    BY <1>1, <1>3, EndStays
  <1> QED BY <1>1, <1>3, <1>4, <1>5, <1>6, <1>7, <1>8 DEF IsCommitted

(* An update commits, or starts again.                                     *)
LEMMA CommitSettled ==
    ASSUME IInv, BrowserKept, NEW c \in Clients, Commit(c)
    PROVE  IInv'
  <1>1. PICK f : f = client[c]
    OBVIOUS
  <1>2. PICK updated : updated = Updated(f.repo.entry.val, f.repo.call)
    OBVIOUS
  <1>3. f.repo.at = "commit" /\ UNCHANGED now
    BY <1>1 DEF Commit
  <1>4. PICK written : written = Stores(f.repo, updated)
    OBVIOUS
  <1>5. PICK removed : removed = OldCredential(f.repo)
    OBVIOUS
  <1>6. \A key \in removed : key[1] = "credential"
    BY <1>5, KeysDiffer DEF OldCredential
  <1>9. PICK own : own = record_key(f.repo.call.id)
    OBVIOUS
  <1>7. CASE get(own).vs = f.repo.entry.vs /\ Write(written, removed)
    <2>1. IsCommitted(f, written, updated)
      BY <1>1, <1>2, <1>3, <1>4, CommitStores
    <2>2. /\ \A key \in DOMAIN written : key[1] \in {"session", "credential"}
          /\ \A key \in DOMAIN written : key[1] = "session" => StoredAt(key, written[key])
      BY <2>1 DEF IsCommitted, Succeeds, StoredAt
    <2>7. own \in DOMAIN kv /\ kv[own] = f.repo.entry
      <3>1. UpdateOK(f, f.repo)
        BY <1>1, <1>3, Serving DEF FrameOK, CallOK, UpdatePlaces
      <3>2. Seen(f.repo.entry, own)
        BY <1>3, <1>9, <3>1 DEF UpdateOK
      <3> QED BY <1>7, <3>2, CheckedSame
    <2>8. IndexesOK'
      <3>1. StoredSession(updated)
        BY <2>1 DEF IsCommitted, Succeeds
      <3>2. /\ own \in DOMAIN written /\ written[own] = updated
            /\ \A key \in DOMAIN written :
                  \/ key = own
                  \/ /\ key = credential_key(updated.credential)
                     /\ written[key] = Index(f.repo.call.id, updated)
        BY <1>9, <2>1, KeysDiffer DEF IsCommitted
      <3>3. \/ SameEnd(kv[own].val, updated)
            \/ credential_key(kv[own].val.credential) \in removed
        BY <1>5, <2>1, <2>7 DEF IsCommitted, OldCredential
      <3> QED BY <1>3, <1>6, <1>7, <1>9, <3>1, <3>2, <3>3, IndexesWritten DEF SameEnd
    <2>3. StoreOK
      BY <1>3, <1>6, <1>7, <2>2, <2>8, SessionWrite
    <2>4. CASE Answer(c, "not_found")
      BY <2>3, <2>4, Answers
    <2>5. CASE AnswerWith(c, f.repo.call.id, updated)
      <3>1. ReplyOK(f.step, f.repo.call.id, updated)
        BY <2>1 DEF IsCommitted, ReplyOK, Succeeds
      <3> QED BY <1>1, <2>3, <2>5, <3>1, AnswersWith
    <2>6. CASE Retry(c)
      BY <1>1, <1>3, <2>3, <2>6, Retries DEF UpdatePlaces
    <2> QED BY <1>1, <1>2, <2>4, <2>5, <2>6 DEF Commit
  <1>8. CASE Retry(c) /\ UNCHANGED <<kv, clock>>
    <2>1. Still
      BY <1>3, <1>8 DEF Still
    <2> QED BY <1>1, <1>3, <1>8, <2>1, StillStore, Retries DEF UpdatePlaces
  <1>10. ASSUME NEW others, AllCurrent(RecordCheck(f.repo) \cup others)
         PROVE  get(own).vs = f.repo.entry.vs
    <2>1. <<own, f.repo.entry.vs>> \in RecordCheck(f.repo) \cup others
      BY <1>9 DEF RecordCheck
    <2> QED BY <1>10, <2>1 DEF AllCurrent
  <1> QED BY <1>1, <1>2, <1>4, <1>5, <1>7, <1>8, <1>10 DEF Commit, Stores

(* Every step of the session repository.                                   *)
LEMMA RepositorySettled ==
    ASSUME IInv, BrowserKept, NEW c \in Clients, RepositoryStep(c)
    PROVE  IInv'
  <1>1. Still \/ DropIndex(c) \/ CreateCommit(c) \/ Commit(c)
    BY DEF RepositoryStep, Still, Reads, FindIndex, FindRecord, ReadNew, Load, ReadCredential,
           Recheck
  <1>2. Reads => Still
    BY DEF Reads, Still
  <1>3. FindIndex(c) => IInv'
    BY <1>2, FindIndexSettled DEF FindIndex
  <1>4. FindRecord(c) => IInv'
    BY <1>2, FindRecordSettled DEF FindRecord
  <1>5. ReadNew(c) => IInv'
    BY <1>2, ReadNewSettled DEF ReadNew
  <1>6. Load(c) => IInv'
    BY <1>2, LoadSettled DEF Load
  <1>7. ReadCredential(c) => IInv'
    BY <1>2, ReadCredentialSettled DEF ReadCredential
  <1>8. Recheck(c) => IInv'
    BY <1>2, RecheckSettled DEF Recheck
  <1> QED BY <1>3, <1>4, <1>5, <1>6, <1>7, <1>8, DropIndexSettled, CreateCommitSettled,
             CommitSettled DEF RepositoryStep

(* An entry of a session that expires.                                     *)
LEMMA ExpireSettled ==
    ASSUME IInv, Expire, BrowserKept
    PROVE  IInv'
  <1>1. PICK key \in DOMAIN kv : /\ key[1] \in {"session", "credential"}
                                 /\ key[1] = "session" => kv[key].val.absolute_expires <= now
                                 /\ kv' = [k \in DOMAIN kv \ {key} |-> kv[k]]
    BY DEF Expire
  <1>2. UNCHANGED <<clock, now, client>>
    BY DEF Expire
  <1>3. DOMAIN kv' = DOMAIN kv \ {key} /\ \A k \in DOMAIN kv' : kv'[k] = kv[k]
    BY <1>1
  <1>4. clock \in Nat
    BY DEF IInv, EntriesOK
  <1>5. StampsGrow
    BY <1>2, <1>3, <1>4 DEF StampsGrow, get, IInv, EntriesOK
  <1>6. EntriesOK'
    BY <1>2, <1>3 DEF IInv, EntriesOK, StoredAt
  <1>9. IndexesOK'
    <2>1. ASSUME NEW own \in DOMAIN kv, own[1] = "session" PROVE SessionKept(own)
      BY <1>1, <1>3, <2>1 DEF SessionKept
    <2> QED BY <1>2, <1>3, <2>1, IndexesStay DEF IInv, EntriesOK
  <1>7. IdentitiesPaired'
    <2>1. ASSUME NEW k, k[1] \in {"user", "identity"}
          PROVE  /\ k \in DOMAIN kv' <=> k \in DOMAIN kv
                 /\ k \in DOMAIN kv => kv'[k] = kv[k]
      BY <1>1, <1>3, <2>1
    <2> QED BY <2>1, PairsKept DEF IInv
  <1>8. ASSUME NEW d \in Clients PROVE FrameOK(client[d])'
    <2>1. PICK f : f = client[d]
      OBVIOUS
    <2>2. FrameOK(f)'
      BY <1>4, <1>5, <2>1, FrameStays, Serving
    <2>3. client'[d] = f
      BY <1>2, <2>1
    <2> QED BY <2>2, <2>3 DEF FrameOK, RequestOK, Ready, CallOK, FindOK, UpdateOK, IdentityOK, ReplyOK
  <1> QED BY <1>2, <1>6, <1>7, <1>8, <1>9 DEF IInv, BrowserOK, BrowserKept

-----------------------------------------------------------------------------
(* The steps of find_or_create.                                            *)
IdentitiesGrow ==
    \A a \in Subjects : Known(a) =>
        /\ Known(a)' /\ UserOf(a)' = UserOf(a)
        /\ kv'[identity_key(a)].val.updated_at >= kv[identity_key(a)].val.updated_at

(* A first sign-in stores a user and its identity together, where there    *)
(* was neither.                                                            *)
LEMMA IdentityCreated ==
    ASSUME IInv, NEW subject \in Subjects, NEW user \in UserIds, NEW at \in Nat,
           ~Known(subject), user_key(user) \notin DOMAIN kv, UNCHANGED now,
           BrowserKept,
           Write(Overlay(Single(user_key(user), [created_at |-> at]),
                         Single(identity_key(subject), [user_id |-> user, updated_at |-> at])), {})
    PROVE  StoreOK /\ IdentitiesGrow
  <1> DEFINE u == user_key(user)
             i == identity_key(subject)
             first == [k \in {u} |-> [created_at |-> at]]
             second == [k \in {i} |-> [user_id |-> user, updated_at |-> at]]
  <1>1. PICK written : written = Overlay(first, second)
    OBVIOUS
  <1>2. u # i /\ u[1] = "user" /\ i[1] = "identity"
    BY KeysDiffer
  <1>3. written = [k \in DOMAIN first \cup DOMAIN second |->
                      IF k \in DOMAIN first THEN first[k] ELSE second[k]]
    BY <1>1 DEF Overlay
  <1>4. Write(written, {})
    BY <1>1 DEF Single
  <1> HIDE DEF u, i
  <1>5. DOMAIN written = {u, i} /\ written[i] = [user_id |-> user, updated_at |-> at]
    BY <1>2, <1>3
  <1>6. /\ clock' = clock + 1
        /\ DOMAIN kv' = DOMAIN written \cup (DOMAIN kv \ {})
        /\ \A key \in DOMAIN kv' : kv'[key] = IF key \in DOMAIN written
                             THEN [vs |-> clock + 1, val |-> written[key]] ELSE kv[key]
    BY <1>4, WriteLeaves
  <1>7. clock \in Nat /\ now \in Nat /\ clock' \in Nat
    BY <1>6 DEF IInv, EntriesOK
  <1>8. StampsGrow
    BY <1>4, <1>7, WriteGrows
  <1>9. u \notin DOMAIN kv /\ i \notin DOMAIN kv
    BY DEF Known, u, i
  <1>10. DOMAIN kv' = DOMAIN kv \cup {u, i} /\ \A key \in DOMAIN kv : kv'[key] = kv[key]
    BY <1>5, <1>6, <1>9
  <1>11. /\ kv'[i].val = [user_id |-> user, updated_at |-> at]
         /\ kv'[u].vs = clock + 1 /\ kv'[i].vs = clock + 1
    <2>1. ASSUME NEW key \in {u, i}
          PROVE  kv'[key].vs = clock + 1 /\ kv'[key].val = written[key]
      <3>1. kv'[key] = [vs |-> clock + 1, val |-> written[key]]
        BY <1>5, <1>6, <2>1
      <3> QED BY <3>1
    <2> QED BY <1>5, <2>1
  <1>12. EntriesOK'
    <2>1. ASSUME NEW key \in DOMAIN kv'
          PROVE  kv'[key].vs \in 1..clock' /\ (key[1] = "session" => StoredAt(key, kv'[key].val))
      <3>1. CASE key \in {u, i}
        BY <1>2, <1>6, <1>7, <1>11, <3>1
      <3>2. CASE key \notin {u, i}
        <4>1. key \in DOMAIN kv /\ kv'[key] = kv[key]
          BY <1>10, <3>2
        <4>2. kv[key].vs \in 1..clock /\ (key[1] = "session" => StoredAt(key, kv[key].val))
          BY <4>1 DEF IInv, EntriesOK
        <4> QED BY <1>6, <1>7, <4>1, <4>2
      <3> QED BY <3>1, <3>2
    <2> QED BY <1>7, <2>1 DEF EntriesOK
  <1>13. ASSUME NEW a, a # subject
         PROVE  (Known(a)' <=> Known(a)) /\ (Known(a) => kv'[identity_key(a)] = kv[identity_key(a)])
    <2>1. identity_key(a) \notin {u, i}
      BY <1>13, KeysDiffer DEF u, i
    <2> QED BY <1>10, <2>1 DEF Known
  <1>14. Known(subject)' /\ kv'[identity_key(subject)].val = [user_id |-> user, updated_at |-> at]
    BY <1>10, <1>11 DEF Known, i
  <1>15. UserOf(subject)' = user
    BY <1>14 DEF UserOf
  <1>16. \A a : a # subject /\ Known(a) => UserOf(a)' = UserOf(a)
    BY <1>13 DEF UserOf
  <1>17. \A a \in Subjects : Known(a) =>
             /\ kv[identity_key(a)].val \in StoredIdentity
             /\ user_key(UserOf(a)) \in DOMAIN kv /\ UserOf(a) # user
    BY DEF IInv, IdentitiesPaired
  <1>18. IdentitiesPaired'
    <2>1. ASSUME NEW a \in Subjects, Known(a)'
          PROVE  kv'[identity_key(a)].val \in StoredIdentity /\ user_key(UserOf(a)') \in DOMAIN kv'
      <3>1. CASE a = subject
        BY <1>10, <1>14, <1>15, <3>1 DEF StoredIdentity, u
      <3>2. CASE a # subject
        BY <1>10, <1>13, <1>16, <1>17, <2>1, <3>2
      <3> QED BY <3>1, <3>2
    <2>2. ASSUME NEW w \in UserIds, user_key(w) \in DOMAIN kv'
          PROVE  \E a \in Subjects : Known(a)' /\ UserOf(a)' = w
      <3>1. CASE w = user
        BY <1>14, <1>15, <3>1
      <3>2. CASE w # user
        <4>1. user_key(w) \in DOMAIN kv
          BY <1>10, <2>2, <3>2, KeysDiffer DEF u, i
        <4>2. PICK a \in Subjects : Known(a) /\ UserOf(a) = w
          BY <4>1 DEF IInv, IdentitiesPaired
        <4>3. a # subject
          BY <4>2
        <4> QED BY <1>13, <1>16, <4>2, <4>3
      <3> QED BY <3>1, <3>2
    <2>3. ASSUME NEW a \in Subjects, NEW b \in Subjects, Known(a)', Known(b)',
                 UserOf(a)' = UserOf(b)', a # b
          PROVE  FALSE
      <3>1. CASE a = subject
        BY <1>13, <1>15, <1>16, <1>17, <2>3, <3>1
      <3>2. CASE b = subject
        BY <1>13, <1>15, <1>16, <1>17, <2>3, <3>2
      <3>3. CASE a # subject /\ b # subject
        BY <1>13, <1>16, <2>3, <3>3 DEF IInv, IdentitiesPaired
      <3> QED BY <3>1, <3>2, <3>3
    <2> QED BY <2>1, <2>2, <2>3 DEF IdentitiesPaired
  <1>19. IdentitiesGrow
    <2>1. ASSUME NEW a \in Subjects, Known(a)
          PROVE  /\ Known(a)' /\ UserOf(a)' = UserOf(a)
                 /\ kv'[identity_key(a)].val.updated_at >= kv[identity_key(a)].val.updated_at
      <3>1. a # subject
        BY <2>1
      <3>2. kv[identity_key(a)].val.updated_at \in Nat
        BY <1>17, <2>1 DEF StoredIdentity
      <3> QED BY <1>13, <1>16, <2>1, <3>1, <3>2
    <2> QED BY <2>1 DEF IdentitiesGrow
  <1>20. IndexesOK'
    <2>1. ASSUME NEW key, key[1] \in {"session", "credential"}
          PROVE  /\ key \in DOMAIN kv' <=> key \in DOMAIN kv
                 /\ key \in DOMAIN kv => kv'[key] = kv[key]
      BY <1>2, <1>10, <2>1
    <2> QED BY <2>1, IndexesAlone
  <1> QED BY <1>8, <1>12, <1>18, <1>19, <1>20 DEF StoreOK

(* An observation not older than the stored one is stored; the user stays. *)
LEMMA IdentityUpdated ==
    ASSUME IInv, NEW subject \in Subjects, Known(subject), NEW at \in Nat, NEW identity,
           identity = kv[identity_key(subject)].val, identity.updated_at <= at,
           UNCHANGED now, BrowserKept,
           Write(Single(identity_key(subject), [identity EXCEPT !.updated_at = at]), {})
    PROVE  StoreOK /\ IdentitiesGrow
  <1> DEFINE i == identity_key(subject)
  <1>1. PICK updated : updated = [identity EXCEPT !.updated_at = at]
    OBVIOUS
  <1>2. PICK written : written = [k \in {i} |-> updated]
    OBVIOUS
  <1>3. Write(written, {})
    BY <1>1, <1>2 DEF Single
  <1>4. i[1] = "identity"
    BY KeysDiffer
  <1>5. i \in DOMAIN kv /\ identity \in StoredIdentity
    BY DEF Known, IInv, IdentitiesPaired
  <1>6. updated \in StoredIdentity /\ updated.user_id = identity.user_id /\ updated.updated_at = at
    BY <1>1, <1>5 DEF StoredIdentity
  <1> HIDE DEF i
  <1>7. DOMAIN written = {i} /\ written[i] = updated
    BY <1>2
  <1>8. /\ clock' = clock + 1
        /\ DOMAIN kv' = DOMAIN written \cup (DOMAIN kv \ {})
        /\ \A key \in DOMAIN kv' : kv'[key] = IF key \in DOMAIN written
                             THEN [vs |-> clock + 1, val |-> written[key]] ELSE kv[key]
    BY <1>3, WriteLeaves
  <1>9. clock \in Nat /\ now \in Nat /\ clock' \in Nat
    BY <1>8 DEF IInv, EntriesOK
  <1>10. StampsGrow
    BY <1>3, <1>9, WriteGrows
  <1>11. /\ DOMAIN kv' = DOMAIN kv
         /\ \A key \in DOMAIN kv : key # i => kv'[key] = kv[key]
         /\ kv'[i].val = updated /\ kv'[i].vs = clock + 1
    <2>1. /\ DOMAIN kv' = DOMAIN kv
          /\ \A key \in DOMAIN kv : key # i => kv'[key] = kv[key]
      BY <1>5, <1>7, <1>8
    <2>2. kv'[i] = [vs |-> clock + 1, val |-> updated]
      BY <1>7, <1>8
    <2> QED BY <2>1, <2>2
  <1>12. EntriesOK'
    <2>1. ASSUME NEW key \in DOMAIN kv'
          PROVE  kv'[key].vs \in 1..clock' /\ (key[1] = "session" => StoredAt(key, kv'[key].val))
      <3>1. CASE key = i
        BY <1>4, <1>8, <1>9, <1>11, <3>1
      <3>2. CASE key # i
        <4>1. key \in DOMAIN kv /\ kv'[key] = kv[key]
          BY <1>11, <3>2
        <4>2. kv[key].vs \in 1..clock /\ (key[1] = "session" => StoredAt(key, kv[key].val))
          BY <4>1 DEF IInv, EntriesOK
        <4> QED BY <1>8, <1>9, <4>1, <4>2
      <3> QED BY <3>1, <3>2
    <2> QED BY <1>9, <2>1 DEF EntriesOK
  <1>13. ASSUME NEW a, a # subject
         PROVE  (Known(a)' <=> Known(a)) /\ (Known(a) => kv'[identity_key(a)] = kv[identity_key(a)])
    <2>1. identity_key(a) # i
      BY <1>13, KeysDiffer DEF i
    <2> QED BY <1>11, <2>1 DEF Known
  <1>14. Known(subject)' /\ kv'[identity_key(subject)].val = updated
    BY <1>5, <1>11 DEF Known, i
  <1>15. \A a : (Known(a)' <=> Known(a))
    BY <1>13, <1>14
  <1>16. \A a : Known(a) => UserOf(a)' = UserOf(a)
    BY <1>6, <1>13, <1>14 DEF UserOf
  <1>17. \A a \in Subjects : Known(a) => kv'[identity_key(a)].val \in StoredIdentity
    BY <1>6, <1>13, <1>14 DEF IInv, IdentitiesPaired
  <1>18. IdentitiesPaired'
    BY <1>11, <1>15, <1>16, <1>17 DEF IInv, IdentitiesPaired
  <1>19. IdentitiesGrow
    <2>1. ASSUME NEW a \in Subjects, Known(a)
          PROVE  kv'[identity_key(a)].val.updated_at >= kv[identity_key(a)].val.updated_at
      <3>1. kv[identity_key(a)].val.updated_at \in Nat
        BY <2>1 DEF IInv, IdentitiesPaired, StoredIdentity
      <3>2. CASE a = subject
        BY <1>6, <1>14, <3>2
      <3>3. CASE a # subject
        BY <1>13, <2>1, <3>1, <3>3
      <3> QED BY <3>2, <3>3
    <2> QED BY <1>15, <1>16, <2>1 DEF IdentitiesGrow
  <1>20. IndexesOK'
    <2>1. ASSUME NEW key, key[1] \in {"session", "credential"}
          PROVE  /\ key \in DOMAIN kv' <=> key \in DOMAIN kv
                 /\ key \in DOMAIN kv => kv'[key] = kv[key]
      BY <1>4, <1>11, <2>1
    <2> QED BY <2>1, IndexesAlone
  <1> QED BY <1>10, <1>12, <1>18, <1>19, <1>20 DEF StoreOK

(* What a find_or_create under way knows.                                  *)
LEMMA Identifying ==
    ASSUME IInv, NEW c \in Clients, client[c].repo.at \in IdentityPlaces
    PROVE  IdentityOK(client[c], client[c].repo) /\ client[c].step = "identify"
  BY Serving DEF FrameOK, CallOK, IdentityOK

(* What is stored under an identity's key is an identity.                  *)
LEMMA PresentIdentity ==
    ASSUME IInv, NEW subject \in Subjects, present(get(identity_key(subject)))
    PROVE  /\ Known(subject) /\ get(identity_key(subject)) = kv[identity_key(subject)]
           /\ get(identity_key(subject)).val \in StoredIdentity
           /\ Seen(get(identity_key(subject)), identity_key(subject))
  <1>1. Known(subject) /\ get(identity_key(subject)) = kv[identity_key(subject)]
    BY DEF present, get, Absent, Known
  <1> QED BY <1>1 DEF Known, IInv, IdentitiesPaired, EntriesOK, Seen

(* A user id is drawn for an identity that was not there.                  *)
LEMMA DrawsUser ==
    ASSUME IInv, Still, NEW c \in Clients, client[c].repo.at \in IdentityPlaces, NEW round,
           DrawUser(c, round)
    PROVE  IInv'
  <1>1. PICK f : f = client[c]
    OBVIOUS
  <1>2. CASE Answer(c, "threw")
    BY <1>2, Answers, StillStore
  <1>3. ASSUME NEW user \in UserIds,
               client' = [client EXCEPT ![c].repo.at = "read new user", ![c].repo.index = user,
                                        ![c].repo.round = round]
        PROVE  IInv'
    <2>1. PICK r : r = [f.repo EXCEPT !.at = "read new user", !.index = user, !.round = round]
      OBVIOUS
    <2>2. /\ DOMAIN f.repo = {"at", "call", "start", "round", "entry", "index", "reply"}
          /\ DOMAIN f = {"step", "req", "sent", "session", "set_cookie", "at", "tries", "user",
                         "failed", "repo"}
      BY <1>1, Serving DEF FrameOK, CallOK
    <2>3. /\ r.at = "read new user" /\ r.call = f.repo.call /\ r.index = user
          /\ DOMAIN r = DOMAIN f.repo
      BY <2>1, <2>2
    <2>4. IdentityOK(f, r)
      BY <1>1, <2>3, Identifying DEF IdentityOK
    <2>5. CallOK(f, r)
      BY <2>2, <2>3, <2>4 DEF CallOK, FindPlaces, CreatePlaces, UpdatePlaces, IdentityPlaces
    <2>6. Rewritten(c, f, r)
      BY <1>1, <1>3, <2>1, <2>2 DEF Rewritten, IInv
    <2> QED BY <1>1, <2>5, <2>6, StillRepo
  <1> QED BY <1>2, <1>3 DEF DrawUser

(* #resolve_existing starts with the entry just read.                      *)
LEMMA ResolvesExisting ==
    ASSUME IInv, Still, NEW c \in Clients, client[c].repo.at \in IdentityPlaces, NEW round,
           NEW entry, entry = get(ThisIdentity(c)), present(entry), Existing(c, entry, round)
    PROVE  IInv'
  <1>1. PICK f : f = client[c]
    OBVIOUS
  <1>2. PICK r : r = [f.repo EXCEPT !.at = "read user", !.entry = entry, !.round = round]
    OBVIOUS
  <1>3. /\ DOMAIN f.repo = {"at", "call", "start", "round", "entry", "index", "reply"}
        /\ DOMAIN f = {"step", "req", "sent", "session", "set_cookie", "at", "tries", "user",
                       "failed", "repo"}
    BY <1>1, Serving DEF FrameOK, CallOK
  <1>4. /\ r.at = "read user" /\ r.call = f.repo.call /\ r.entry = entry
        /\ DOMAIN r = DOMAIN f.repo
    BY <1>2, <1>3
  <1>5. IdentityOK(f, f.repo)
    BY <1>1, Identifying
  <1>6. f.repo.call.subject \in Subjects /\ entry = get(identity_key(f.repo.call.subject))
    BY <1>1, <1>5 DEF IdentityOK, ThisIdentity
  <1>7. entry.val \in StoredIdentity /\ Seen(entry, identity_key(f.repo.call.subject))
    BY <1>6, PresentIdentity
  <1>8. IdentityOK(f, r)
    BY <1>4, <1>5, <1>7 DEF IdentityOK
  <1>9. CallOK(f, r)
    BY <1>3, <1>4, <1>8 DEF CallOK, FindPlaces, CreatePlaces, UpdatePlaces, IdentityPlaces
  <1>10. Rewritten(c, f, r)
    BY <1>1, <1>2, <1>3 DEF Existing, Rewritten, IInv
  <1> QED BY <1>1, <1>9, <1>10, StillRepo

(* A move from one place of find_or_create to one that needs no more.      *)
LEMMA GoesOn ==
    ASSUME IInv, Still, NEW c \in Clients, client[c].repo.at \in IdentityPlaces,
           NEW at \in IdentityPlaces, Goto(c, at),
           at = "create identity" => client[c].repo.index \in UserIds,
           at \notin {"read new user", "read user"},
           at = "update identity" =>
               /\ client[c].repo.at = "read user"
               /\ client[c].repo.entry.val.updated_at <= client[c].repo.call.time
    PROVE  IInv'
  <1>1. PICK f : f = client[c]
    OBVIOUS
  <1>2. PICK r : Moved(r, f, at) /\ Rewritten(c, f, r)
    BY <1>1, Goes
  <1>3. IdentityOK(f, f.repo)
    BY <1>1, Identifying
  <1>4. IdentityOK(f, r)
    BY <1>1, <1>2, <1>3 DEF Moved, IdentityOK
  <1>5. CallOK(f, r)
    BY <1>2, <1>4 DEF Moved, CallOK, FindPlaces, CreatePlaces, UpdatePlaces, IdentityPlaces
  <1> QED BY <1>1, <1>2, <1>5, StillRepo

(* find_or_create reads the identity.                                      *)
LEMMA ReadIdentitySettled ==
    ASSUME IInv, Still, NEW c \in Clients, ReadIdentity(c)
    PROVE  IInv'
  <1>1. client[c].repo.at \in IdentityPlaces
    BY DEF ReadIdentity, IdentityPlaces
  <1> QED BY <1>1, DrawsUser, ResolvesExisting DEF ReadIdentity

(* ... and the key of the user id drawn.                                   *)
LEMMA ReadNewUserSettled ==
    ASSUME IInv, Still, NEW c \in Clients, ReadNewUser(c)
    PROVE  IInv'
  <1>1. client[c].repo.at \in IdentityPlaces /\ client[c].repo.at = "read new user"
    BY DEF ReadNewUser, IdentityPlaces
  <1>2. client[c].repo.index \in UserIds
    BY <1>1, Identifying DEF IdentityOK
  <1>3. CASE Goto(c, "read identity again")
    <2>1. PICK at : at = "read identity again"
      OBVIOUS
    <2>2. at \in IdentityPlaces
      BY <2>1 DEF IdentityPlaces
    <2> QED BY <1>1, <1>3, <2>1, <2>2, GoesOn
  <1>4. CASE Goto(c, "create identity")
    <2>1. PICK at : at = "create identity"
      OBVIOUS
    <2>2. at \in IdentityPlaces
      BY <2>1 DEF IdentityPlaces
    <2> QED BY <1>1, <1>2, <1>4, <2>1, <2>2, GoesOn
  <1> QED BY <1>3, <1>4 DEF ReadNewUser

(* ... and the identity again, when it was refused.                        *)
LEMMA ReadIdentityAgainSettled ==
    ASSUME IInv, Still, NEW c \in Clients, ReadIdentityAgain(c)
    PROVE  IInv'
  <1>1. client[c].repo.at \in IdentityPlaces
    BY DEF ReadIdentityAgain, IdentityPlaces
  <1> QED BY <1>1, DrawsUser, ResolvesExisting DEF ReadIdentityAgain

(* find_or_create answers with a user.                                     *)
LEMMA AnswersIdentity ==
    ASSUME IInv, StoreOK, NEW c \in Clients, client[c].repo.at \in IdentityPlaces,
           NEW id \in UserIds, AnswerWith(c, id, None)
    PROVE  IInv'
  <1>1. PICK f : f = client[c]
    OBVIOUS
  <1>2. ReplyOK(f.step, id, None)
    BY <1>1, Identifying DEF ReplyOK
  <1> QED BY <1>1, <1>2, AnswersWith

(* #resolve_existing reads the identity's user, and whether the            *)
(* observation is newer.                                                   *)
LEMMA ReadUserSettled ==
    ASSUME IInv, Still, NEW c \in Clients, ReadUser(c)
    PROVE  IInv'
  <1>1. client[c].repo.at \in IdentityPlaces /\ client[c].repo.at = "read user"
    BY DEF ReadUser, IdentityPlaces
  <1>2. CASE Answer(c, "threw")
    BY <1>2, Answers, StillStore
  <1>3. CASE AnswerWith(c, client[c].repo.entry.val.user_id, None)
    <2>1. client[c].repo.entry.val.user_id \in UserIds
      BY <1>1, Identifying DEF IdentityOK, StoredIdentity
    <2> QED BY <1>1, <1>3, <2>1, AnswersIdentity, StillStore
  <1>4. CASE /\ ~Outdated(client[c].repo.entry.val, client[c].repo.call.time)
             /\ Goto(c, "update identity")
    <2>1. PICK at : at = "update identity"
      OBVIOUS
    <2>2. at \in IdentityPlaces
      BY <2>1 DEF IdentityPlaces
    <2>3. client[c].repo.entry.val \in StoredIdentity /\ client[c].repo.call.time \in Nat
      BY <1>1, Identifying DEF IdentityOK
    <2>4. client[c].repo.entry.val.updated_at <= client[c].repo.call.time
      <3>1. PICK identity, time : /\ identity = client[c].repo.entry.val
                                  /\ time = client[c].repo.call.time
        OBVIOUS
      <3>2. identity.updated_at \in Nat /\ time \in Nat
        BY <2>3, <3>1 DEF StoredIdentity
      <3>3. ~(time < identity.updated_at)
        BY <1>4, <3>1 DEF Outdated
      <3> QED BY <3>1, <3>2, <3>3
    <2> QED BY <1>1, <1>4, <2>1, <2>2, <2>4, GoesOn
  <1> QED BY <1>2, <1>3, <1>4 DEF ReadUser

(* ... and the identity again, when its update was refused.                *)
LEMMA RereadIdentitySettled ==
    ASSUME IInv, Still, NEW c \in Clients, RereadIdentity(c)
    PROVE  IInv'
  <1>1. client[c].repo.at \in IdentityPlaces
    BY DEF RereadIdentity, IdentityPlaces
  <1> QED BY <1>1, Answers, StillStore, ResolvesExisting DEF RereadIdentity

(* A step that leaves the store alone takes no identity back.              *)
LEMMA StillGrow ==
    ASSUME IInv, UNCHANGED kv
    PROVE  IdentitiesGrow
  BY DEF IInv, IdentitiesPaired, StoredIdentity, IdentitiesGrow, Known, UserOf

(* find_or_create commits a new identity, if there is none yet.            *)
LEMMA CreateIdentitySettled ==
    ASSUME IInv, BrowserKept, NEW c \in Clients, CreateIdentity(c)
    PROVE  IInv' /\ IdentitiesGrow
  <1>1. client[c].repo.at \in IdentityPlaces /\ client[c].repo.at = "create identity"
    BY DEF CreateIdentity, IdentityPlaces
  <1>2. PICK subject, user, at : /\ subject = client[c].repo.call.subject
                                 /\ user = client[c].repo.index
                                 /\ at = client[c].repo.call.time
    OBVIOUS
  <1>3. subject \in Subjects /\ user \in UserIds /\ at \in Nat
    BY <1>1, <1>2, Identifying DEF IdentityOK
  <1>4. UNCHANGED now
    BY DEF CreateIdentity
  <1>5. CASE /\ AllCurrent(CreationChecks(c))
             /\ Write(Overlay(Single(user_key(user), [created_at |-> at]),
                              Single(identity_key(subject),
                                     [user_id |-> user, updated_at |-> at])), {})
             /\ AnswerWith(c, user, None)
    <2>1. /\ get(user_key(user)).vs = Absent.vs
          /\ get(identity_key(subject)).vs = Absent.vs
      <3>1. /\ <<user_key(user), Absent.vs>> \in CreationChecks(c)
            /\ <<identity_key(subject), Absent.vs>> \in CreationChecks(c)
        BY <1>2 DEF CreationChecks, ThisIdentity
      <3>2. \A check \in CreationChecks(c) : get(check[1]).vs = check[2]
        BY <1>5 DEF AllCurrent
      <3> QED BY <3>1, <3>2
    <2>2. ~Known(subject) /\ user_key(user) \notin DOMAIN kv
      BY <2>1, CheckedAbsent DEF Known
    <2>3. StoreOK /\ IdentitiesGrow
      BY <1>3, <1>4, <1>5, <2>2, IdentityCreated
    <2> QED BY <1>1, <1>3, <1>5, <2>3, AnswersIdentity
  <1>6. CASE Goto(c, "read identity again") /\ UNCHANGED <<kv, clock>>
    <2>1. PICK place : place = "read identity again"
      OBVIOUS
    <2>2. place \in IdentityPlaces
      BY <2>1 DEF IdentityPlaces
    <2>3. Still
      BY <1>4, <1>6 DEF Still
    <2> QED BY <1>1, <1>6, <2>1, <2>2, <2>3, GoesOn, StillGrow
  <1> QED BY <1>2, <1>5, <1>6 DEF CreateIdentity, ThisIdentity

(* #resolve_existing commits an observation, if the entry is the one read. *)
LEMMA UpdateIdentitySettled ==
    ASSUME IInv, BrowserKept, NEW c \in Clients, UpdateIdentity(c)
    PROVE  IInv' /\ IdentitiesGrow
  <1>1. client[c].repo.at \in IdentityPlaces /\ client[c].repo.at = "update identity"
    BY DEF UpdateIdentity, IdentityPlaces
  <1>2. PICK subject, entry, at : /\ subject = client[c].repo.call.subject
                                  /\ entry = client[c].repo.entry
                                  /\ at = client[c].repo.call.time
    OBVIOUS
  <1>3. /\ subject \in Subjects /\ at \in Nat /\ Seen(entry, identity_key(subject))
        /\ entry.val.updated_at <= at
    BY <1>1, <1>2, Identifying DEF IdentityOK
  <1>4. UNCHANGED now
    BY DEF UpdateIdentity
  <1>5. CASE /\ AllCurrent({<<identity_key(subject), entry.vs>>})
             /\ Write(Single(identity_key(subject), [entry.val EXCEPT !.updated_at = at]), {})
             /\ AnswerWith(c, entry.val.user_id, None)
    <2>1. get(identity_key(subject)).vs = entry.vs
      BY <1>5 DEF AllCurrent
    <2>2. identity_key(subject) \in DOMAIN kv /\ kv[identity_key(subject)] = entry
      BY <1>3, <2>1, CheckedSame
    <2>3. PICK identity : identity = entry.val
      OBVIOUS
    <2>4. /\ Known(subject) /\ identity = kv[identity_key(subject)].val
          /\ identity.updated_at <= at
          /\ Write(Single(identity_key(subject), [identity EXCEPT !.updated_at = at]), {})
      BY <1>3, <1>5, <2>2, <2>3 DEF Known
    <2>5. StoreOK /\ IdentitiesGrow
      BY <1>3, <1>4, <2>4, IdentityUpdated
    <2>6. entry.val.user_id \in UserIds
      BY <1>1, <1>2, Identifying DEF IdentityOK, StoredIdentity
    <2> QED BY <1>1, <1>5, <2>5, <2>6, AnswersIdentity
  <1>6. CASE Goto(c, "reread identity") /\ UNCHANGED <<kv, clock>>
    <2>1. PICK place : place = "reread identity"
      OBVIOUS
    <2>2. place \in IdentityPlaces
      BY <2>1 DEF IdentityPlaces
    <2>3. Still
      BY <1>4, <1>6 DEF Still
    <2> QED BY <1>1, <1>6, <2>1, <2>2, <2>3, GoesOn, StillGrow
  <1> QED BY <1>2, <1>5, <1>6 DEF UpdateIdentity, ThisIdentity

(* Every step of the identity repository.                                  *)
LEMMA IdentitySettled ==
    ASSUME IInv, BrowserKept, NEW c \in Clients, IdentityStep(c)
    PROVE  IInv' /\ IdentitiesGrow
  <1>1. Reads => Still /\ UNCHANGED kv
    BY DEF Reads, Still
  <1>2. ReadIdentity(c) => IInv' /\ IdentitiesGrow
    BY <1>1, ReadIdentitySettled, StillGrow DEF ReadIdentity
  <1>3. ReadNewUser(c) => IInv' /\ IdentitiesGrow
    BY <1>1, ReadNewUserSettled, StillGrow DEF ReadNewUser
  <1>4. ReadIdentityAgain(c) => IInv' /\ IdentitiesGrow
    BY <1>1, ReadIdentityAgainSettled, StillGrow DEF ReadIdentityAgain
  <1>5. ReadUser(c) => IInv' /\ IdentitiesGrow
    BY <1>1, ReadUserSettled, StillGrow DEF ReadUser
  <1>6. RereadIdentity(c) => IInv' /\ IdentitiesGrow
    BY <1>1, RereadIdentitySettled, StillGrow DEF RereadIdentity
  <1> QED BY <1>2, <1>3, <1>4, <1>5, <1>6, CreateIdentitySettled, UpdateIdentitySettled
          DEF IdentityStep

-----------------------------------------------------------------------------
(* The invariant.                                                          *)
LEMMA Initially == Init => IInv
  <1> SUFFICES ASSUME Init PROVE IInv
    OBVIOUS
  <1>1. PICK s \in Scenarios :
          /\ kv = Stamped(s.entries, 1) /\ clock = 1 /\ now = 0
          /\ requests = s.requests /\ pool = s.pool /\ cookie = s.cookie
          /\ client = [c \in Clients |-> Idle]
    BY DEF Init
  <1>2. ScenarioOK(s)
    BY StoredBefore
  <1>3. PICK entries : entries = s.entries
    OBVIOUS
  <1>4. /\ DOMAIN kv = DOMAIN entries
        /\ \A key \in DOMAIN kv : kv[key].vs = 1 /\ kv[key].val = entries[key]
    <2>1. kv = [k \in DOMAIN entries |-> [vs |-> 1, val |-> entries[k]]]
      BY <1>1, <1>3 DEF Stamped
    <2> QED BY <2>1
  <1>5. EntriesOK
    <2>1. \A key \in DOMAIN entries : key[1] = "session" => StoredAt(key, entries[key])
      BY <1>2, <1>3 DEF ScenarioOK, StoredAt
    <2>2. clock \in Nat /\ now \in Nat /\ 1 \in 1..clock
      BY <1>1
    <2> QED BY <1>4, <2>1, <2>2 DEF EntriesOK
  <1>11. IndexesOK
    <2>1. \A key \in DOMAIN entries : key[1] = "credential" => Indexes(key, entries)
      BY <1>2, <1>3 DEF ScenarioOK
    <2>2. ASSUME NEW key \in DOMAIN kv, key[1] = "credential" PROVE IndexOK(key)
      BY <1>1, <1>4, <2>1, <2>2 DEF Indexes, IndexOK
    <2> QED BY <2>2 DEF IndexesOK
  <1>6. \A a : Known(a) => UserOf(a) = entries[identity_key(a)].user_id
    BY <1>4 DEF Known, UserOf
  <1>7. IdentitiesPaired
    <2>1. /\ \A a \in Subjects : identity_key(a) \in DOMAIN entries =>
                /\ entries[identity_key(a)] \in StoredIdentity
                /\ user_key(entries[identity_key(a)].user_id) \in DOMAIN entries
          /\ \A u \in UserIds : user_key(u) \in DOMAIN entries =>
                \E a \in Subjects : /\ identity_key(a) \in DOMAIN entries
                                    /\ entries[identity_key(a)].user_id = u
          /\ \A a, b \in Subjects :
                /\ identity_key(a) \in DOMAIN entries /\ identity_key(b) \in DOMAIN entries
                /\ entries[identity_key(a)].user_id = entries[identity_key(b)].user_id
                => a = b
      BY <1>2, <1>3 DEF ScenarioOK
    <2>2. \A a : Known(a) <=> identity_key(a) \in DOMAIN entries
      BY <1>4 DEF Known
    <2>3. \A a : Known(a) => kv[identity_key(a)].val = entries[identity_key(a)]
      BY <1>4 DEF Known
    <2> QED BY <1>4, <1>6, <2>1, <2>2, <2>3 DEF IdentitiesPaired
  <1>8. BrowserOK
    BY <1>1, <1>2 DEF ScenarioOK, BrowserOK, Bearer
  <1>9. ASSUME NEW c \in Clients PROVE FrameOK(client[c])
    <2>1. PICK f : f = client[c]
      OBVIOUS
    <2>2. /\ f.step = "idle" /\ f.repo = NoCall /\ f.sent = None /\ f.set_cookie = None /\ f.at = 0
          /\ DOMAIN f = {"step", "req", "sent", "session", "set_cookie", "at", "tries", "user",
                         "failed", "repo"}
      BY <1>1, <2>1 DEF Idle
    <2>3. /\ f.repo.at = "none"
          /\ DOMAIN f.repo = {"at", "call", "start", "round", "entry", "index", "reply"}
      BY <2>2 DEF NoCall
    <2>4. CallOK(f, f.repo)
      BY <2>3 DEF CallOK, FindPlaces, CreatePlaces, UpdatePlaces, IdentityPlaces
    <2>5. FrameOK(f)
      BY <2>2, <2>4 DEF FrameOK, RequestOK, Ready, Bearer
    <2> QED BY <2>1, <2>5
  <1>10. DOMAIN client = Clients
    BY <1>1
  <1> QED BY <1>5, <1>7, <1>8, <1>9, <1>10, <1>11 DEF IInv

(* Every step keeps the invariant: the handlers, the repositories,         *)
(* crashes, expiry and time.                                               *)
LEMMA StepPreserves == IInv /\ [Next]_vars => IInv'
  <1> SUFFICES ASSUME IInv, [Next]_vars PROVE IInv'
    OBVIOUS
  <1>1. ASSUME NEW c \in Clients, NEW req \in requests, Receive(c, req) PROVE IInv'
    BY <1>1, ReceiveSettled
  <1>2. ASSUME NEW c \in Clients, Repositories(c) PROVE IInv'
    <2>1. BrowserKept
      BY <1>2 DEF Repositories, BrowserKept, IInv, BrowserOK
    <2> QED BY <1>2, <2>1, RepositorySettled, IdentitySettled DEF Repositories
  <1>3. ASSUME NEW c \in Clients,
               \/ Found(c) \/ Revoked(c) \/ Renewed(c) \/ GuestCreated(c)
               \/ Begin(c) \/ Saved(c) \/ ExpiredRevoked(c)
               \/ Consumed(c) \/ Exchange(c) \/ Identified(c) \/ Upgraded(c) \/ LoggedOut(c)
        PROVE  IInv'
    BY <1>3, FoundSettled, RevokedSettled, RenewedSettled, GuestCreatedSettled, BeginSettled,
       SavedSettled, ExpiredSettled, ConsumedSettled, ExchangeSettled, IdentifiedSettled,
       UpgradedSettled, LoggedOutSettled
  <1>4. ASSUME NEW c \in Clients, Receipt(c) \/ Crash(c) PROVE IInv'
    <2>1. client[c].set_cookie \in Bearer /\ cookie \in Bearer
      BY Serving DEF FrameOK, RequestOK, IInv, BrowserOK
    <2>2. Still /\ Become(c, Idle)
      BY <1>4, <2>1 DEF Receipt, Crash, Still, BrowserKept
    <2> QED BY <2>2, IdleSettled
  <1>5. CASE Expire /\ UNCHANGED <<requests, ticks, pool, cookie, exchanged>>
    BY <1>5, ExpireSettled DEF BrowserKept, IInv, BrowserOK
  <1>6. ASSUME UNCHANGED <<kv, clock, client, requests, pool, cookie>>, now' \in Nat, now <= now'
        PROVE  IInv'
    <2>1. clock \in Nat /\ now \in Nat
      BY DEF IInv, EntriesOK
    <2>2. StampsGrow
      BY <1>6, <2>1 DEF StampsGrow, get
    <2>3. EntriesOK' /\ IdentitiesPaired'
      BY <1>6 DEF IInv, EntriesOK, IdentitiesPaired, Known, UserOf
    <2>5. IndexesOK'
      <3>1. \A own \in DOMAIN kv : own[1] = "session" => SessionKept(own)
        BY <1>6 DEF SessionKept
      <3> QED BY <1>6, <2>1, <3>1, IndexesStay DEF IInv
    <2>4. ASSUME NEW d \in Clients PROVE FrameOK(client[d])'
      <3>1. PICK f : f = client[d]
        OBVIOUS
      <3>2. FrameOK(f)'
        BY <2>1, <2>2, <3>1, FrameStays, Serving
      <3>3. client'[d] = f
        BY <1>6, <3>1
      <3> QED BY <3>2, <3>3 DEF FrameOK, RequestOK, Ready, CallOK, FindOK, UpdateOK, IdentityOK, ReplyOK
    <2> QED BY <1>6, <2>3, <2>4, <2>5 DEF IInv, BrowserOK
  <1>7. CASE Tick
    BY <1>6, <1>7 DEF Tick, IInv, EntriesOK
  <1>8. CASE UNCHANGED vars
    BY <1>6, <1>8 DEF vars, IInv, EntriesOK
  <1> QED BY <1>1, <1>2, <1>3, <1>4, <1>5, <1>7, <1>8 DEF Next

(* What is stored and what every request knows of it stays as IInv says,   *)
(* whatever requests, replays, crashes and expirations come.               *)
THEOREM SignInInvariant == Spec => []IInv
  BY Initially, StepPreserves, PTL DEF Spec

-----------------------------------------------------------------------------
(* One user for an identity, and one identity for a user.                  *)
LEMMA IdentityRead ==
    ASSUME IInv, NEW s \in Subjects
    PROVE  /\ Identity(s) # None <=> Known(s)
           /\ Known(s) => Identity(s) = kv[identity_key(s)].val /\ Identity(s).user_id = UserOf(s)
  <1>1. Known(s) => Identity(s) = kv[identity_key(s)].val
    BY DEF Identity, get, Known
  <1>2. Known(s) => Identity(s) # None
    BY <1>1, StoredBefore DEF IInv, IdentitiesPaired
  <1>3. ~Known(s) => Identity(s) = None
    BY DEF Identity, get, Known, Absent
  <1> QED BY <1>1, <1>2, <1>3 DEF UserOf

(* First sign-ins that race end in one user for an external identity, and  *)
(* a user is never without its identity, in every state.                   *)
THEOREM OneUserForEachIdentity == Spec => []OneUserPerIdentity
  <1>1. ASSUME IInv PROVE OneUserPerIdentity
    <2>1. ASSUME NEW s \in Subjects, Identity(s) # None
          PROVE  user_key(Identity(s).user_id) \in DOMAIN kv
      BY <1>1, <2>1, IdentityRead DEF IInv, IdentitiesPaired
    <2>2. ASSUME NEW u \in UserIds, user_key(u) \in DOMAIN kv
          PROVE  Cardinality({s \in Subjects : Identity(s) # None /\ Identity(s).user_id = u}) = 1
      <3>1. PICK a \in Subjects : Known(a) /\ UserOf(a) = u
        BY <1>1, <2>2 DEF IInv, IdentitiesPaired
      <3>2. ASSUME NEW s \in Subjects
            PROVE  Identity(s) # None /\ Identity(s).user_id = u <=> s = a
        <4>1. Identity(s) # None /\ Identity(s).user_id = u <=> Known(s) /\ UserOf(s) = u
          BY <1>1, IdentityRead
        <4> QED BY <1>1, <3>1, <4>1 DEF IInv, IdentitiesPaired
      <3>3. {s \in Subjects : Identity(s) # None /\ Identity(s).user_id = u} = {a}
        BY <3>1, <3>2
      <3> QED BY <3>3, FS_Singleton
    <2> QED BY <2>1, <2>2 DEF OneUserPerIdentity
  <1> QED BY <1>1, SignInInvariant, PTL

-----------------------------------------------------------------------------
(* What a step does to the store: the steps that write, and what they leave *)
(* alone.                                                                   *)
WritesOnly(families) ==
    \E written, removed :
        /\ Write(written, removed)
        /\ \A key \in DOMAIN written \cup removed : key[1] \in families

(* The steps that write: the others leave the store alone.                 *)
LEMMA WritingSteps ==
    ASSUME IInv, Next
    PROVE  \/ UNCHANGED kv
           \/ \E c \in Clients : \/ IdentityStep(c) /\ BrowserKept
                                 \/ DropIndex(c) \/ CreateCommit(c) \/ Commit(c)
           \/ Expire
  <1>1. ASSUME NEW c \in Clients, NEW req \in requests, Receive(c, req) PROVE UNCHANGED kv
    BY <1>1 DEF Receive
  <1>2. ASSUME NEW c \in Clients, Repositories(c)
        PROVE  \/ UNCHANGED kv
               \/ IdentityStep(c) /\ BrowserKept
               \/ DropIndex(c) \/ CreateCommit(c) \/ Commit(c)
    BY <1>2 DEF Repositories, RepositoryStep, FindIndex, FindRecord, ReadNew, Load,
                ReadCredential, Recheck, Reads, BrowserKept, IInv, BrowserOK
  <1>3. ASSUME NEW c \in Clients,
               \/ Found(c) \/ Revoked(c) \/ Renewed(c) \/ GuestCreated(c)
               \/ Begin(c) \/ Saved(c) \/ ExpiredRevoked(c)
               \/ Consumed(c) \/ Identified(c) \/ Upgraded(c) \/ LoggedOut(c)
        PROVE  UNCHANGED kv
    BY <1>3 DEF Found, Revoked, Renewed, GuestCreated, Begin, Saved, ExpiredRevoked, Consumed,
                Identified, Upgraded, LoggedOut, ServiceOnly
  <1>4. ASSUME NEW c \in Clients, Exchange(c) \/ Receipt(c) \/ Crash(c) PROVE UNCHANGED kv
    BY <1>4 DEF Exchange, Receipt, Crash
  <1>5. Tick => UNCHANGED kv
    BY DEF Tick
  <1> QED BY <1>1, <1>2, <1>3, <1>4, <1>5 DEF Next

(* find_or_create writes users and identities only.                        *)
LEMMA IdentityWrites ==
    ASSUME NEW c \in Clients, IdentityStep(c)
    PROVE  UNCHANGED kv \/ WritesOnly({"user", "identity"})
  <1>1. ASSUME CreateIdentity(c) PROVE UNCHANGED kv \/ WritesOnly({"user", "identity"})
    <2>1. PICK u, i : u = user_key(client[c].repo.index) /\ i = ThisIdentity(c)
      OBVIOUS
    <2>2. u[1] = "user" /\ i[1] = "identity"
      BY <2>1, KeysDiffer DEF ThisIdentity
    <2>3. ASSUME NEW x, NEW y, Write(Overlay(Single(u, x), Single(i, y)), {})
          PROVE  WritesOnly({"user", "identity"})
      <3>1. PICK written : written = Overlay(Single(u, x), Single(i, y))
        OBVIOUS
      <3>2. DOMAIN written = {u, i}
        BY <3>1 DEF Overlay, Single
      <3> QED BY <2>2, <2>3, <3>1, <3>2 DEF WritesOnly
    <2> QED BY <1>1, <2>1, <2>3 DEF CreateIdentity
  <1>2. ASSUME UpdateIdentity(c) PROVE UNCHANGED kv \/ WritesOnly({"user", "identity"})
    <2>1. PICK i : i = ThisIdentity(c)
      OBVIOUS
    <2>2. i[1] = "identity"
      BY <2>1, KeysDiffer DEF ThisIdentity
    <2>3. ASSUME NEW x, Write(Single(i, x), {})
          PROVE  WritesOnly({"user", "identity"})
      <3>1. PICK written : written = Single(i, x)
        OBVIOUS
      <3>2. DOMAIN written = {i}
        BY <3>1 DEF Single
      <3> QED BY <2>2, <2>3, <3>1, <3>2 DEF WritesOnly
    <2> QED BY <1>2, <2>1, <2>3 DEF UpdateIdentity
  <1> QED BY <1>1, <1>2 DEF IdentityStep, ReadIdentity, ReadNewUser, ReadIdentityAgain, ReadUser,
          RereadIdentity, Reads

(* What is stored of a session changes only while it is in use, and as a   *)
(* versioned operation changes it.                                         *)
SessionsGrow ==
    \A key \in DOMAIN kv \cap DOMAIN kv' : key[1] = "session" =>
        \/ kv'[key].val = kv[key].val
        \/ ~kv[key].val.revoked /\ Succeeds(kv[key].val, kv'[key].val)

(* A write leaves the entries of the other families as they are.           *)
LEMMA FamiliesKept ==
    ASSUME NEW families, WritesOnly(families), NEW key, key[1] \notin families
    PROVE  /\ key \in DOMAIN kv' <=> key \in DOMAIN kv
           /\ key \in DOMAIN kv => kv'[key] = kv[key]
  <1>1. PICK written, removed :
          /\ Write(written, removed)
          /\ \A k \in DOMAIN written \cup removed : k[1] \in families
    BY DEF WritesOnly
  <1>2. /\ DOMAIN kv' = DOMAIN written \cup (DOMAIN kv \ removed)
        /\ \A k \in DOMAIN kv' : kv'[k] = IF k \in DOMAIN written
                             THEN [vs |-> clock + 1, val |-> written[k]] ELSE kv[k]
    BY <1>1, WriteLeaves
  <1>3. key \notin DOMAIN written /\ key \notin removed
    BY <1>1
  <1> QED BY <1>2, <1>3

(* A write of other families leaves the sessions as they are.              *)
LEMMA SessionsAlone ==
    ASSUME NEW families, WritesOnly(families), "session" \notin families
    PROVE  SessionsGrow
  <1>1. ASSUME NEW key \in DOMAIN kv \cap DOMAIN kv', key[1] = "session"
        PROVE  kv'[key].val = kv[key].val
    BY <1>1, FamiliesKept
  <1> QED BY <1>1 DEF SessionsGrow

(* What leaves users and identities as they are takes none back.           *)
LEMMA IdentitiesAlone ==
    ASSUME IInv,
           \A key : key[1] \in {"user", "identity"} =>
               /\ key \in DOMAIN kv' <=> key \in DOMAIN kv
               /\ key \in DOMAIN kv => kv'[key] = kv[key]
    PROVE  IdentitiesGrow
  <1>1. ASSUME NEW a \in Subjects, Known(a)
        PROVE  /\ Known(a)' /\ UserOf(a)' = UserOf(a)
               /\ kv'[identity_key(a)].val.updated_at >= kv[identity_key(a)].val.updated_at
    <2>1. identity_key(a)[1] = "identity"
      BY KeysDiffer
    <2>2. Known(a)' /\ kv'[identity_key(a)] = kv[identity_key(a)]
      BY <1>1, <2>1 DEF Known
    <2>3. kv[identity_key(a)].val.updated_at \in Nat
      BY <1>1 DEF IInv, IdentitiesPaired, StoredIdentity
    <2> QED BY <2>2, <2>3 DEF UserOf
  <1> QED BY <1>1 DEF IdentitiesGrow

(* A session's entry is written only where there is none, or with what a   *)
(* versioned operation makes of it.                                        *)
LEMMA SessionsWritten ==
    ASSUME NEW written, NEW removed, Write(written, removed),
           \A key \in DOMAIN written \cap DOMAIN kv : key[1] = "session" =>
               ~kv[key].val.revoked /\ Succeeds(kv[key].val, written[key])
    PROVE  SessionsGrow
  <1>1. /\ DOMAIN kv' = DOMAIN written \cup (DOMAIN kv \ removed)
        /\ \A key \in DOMAIN kv' : kv'[key] = IF key \in DOMAIN written
                             THEN [vs |-> clock + 1, val |-> written[key]] ELSE kv[key]
    BY WriteLeaves
  <1>2. ASSUME NEW key \in DOMAIN kv \cap DOMAIN kv', key[1] = "session"
        PROVE  \/ kv'[key].val = kv[key].val
               \/ ~kv[key].val.revoked /\ Succeeds(kv[key].val, kv'[key].val)
    <2>1. CASE key \in DOMAIN written
      <3>1. kv'[key] = [vs |-> clock + 1, val |-> written[key]]
        BY <1>1, <2>1
      <3>2. kv'[key].val = written[key]
        BY <3>1
      <3> QED BY <1>2, <2>1, <3>2
    <2>2. CASE key \notin DOMAIN written
      BY <1>1, <2>2
    <2> QED BY <2>1, <2>2
  <1> QED BY <1>2 DEF SessionsGrow

(* An index entry dropped is a write of the credentials only.              *)
LEMMA DropIndexGrows ==
    ASSUME NEW c \in Clients, DropIndex(c)
    PROVE  UNCHANGED kv \/ WritesOnly({"credential"})
  <1>1. ASSUME NEW key, key[1] = "credential", Write(NoEntries, {key})
        PROVE  WritesOnly({"credential"})
    <2>1. PICK written, removed : written = NoEntries /\ removed = {key}
      OBVIOUS
    <2>2. DOMAIN written = {}
      BY <2>1 DEF NoEntries
    <2> QED BY <1>1, <2>1, <2>2 DEF WritesOnly
  <1> QED BY <1>1, KeysDiffer DEF DropIndex

(* A new session's entries were checked to be absent.                      *)
LEMMA CreateCommitGrows ==
    ASSUME IInv, NEW c \in Clients, CreateCommit(c)
    PROVE  UNCHANGED kv \/ (WritesOnly({"session", "credential"}) /\ SessionsGrow)
  <1>1. PICK call : call = client[c].repo.call
    OBVIOUS
  <1>2. PICK entries : entries = SessionEntries(call.id, call.record)
    OBVIOUS
  <1>3. IsSessionEntries(entries, call.id, call.record)
    BY <1>2, TwoEntries
  <1>4. CASE AllCurrent({<<key, Absent.vs>> : key \in DOMAIN entries}) /\ Write(entries, {})
    <2>1. \A key \in DOMAIN entries : key \notin DOMAIN kv
      BY <1>4, AllAbsent
    <2>2. SessionsGrow
      BY <1>4, <2>1, SessionsWritten
    <2>3. WritesOnly({"session", "credential"})
      BY <1>3, <1>4 DEF WritesOnly, IsSessionEntries
    <2> QED BY <2>2, <2>3
  <1> QED BY <1>1, <1>2, <1>4 DEF CreateCommit

(* A commit's record was checked to be the one the call decided upon.      *)
LEMMA CommitGrows ==
    ASSUME IInv, NEW c \in Clients, Commit(c)
    PROVE  UNCHANGED kv \/ (WritesOnly({"session", "credential"}) /\ SessionsGrow)
  <1>1. PICK f : f = client[c]
    OBVIOUS
  <1>2. PICK updated : updated = Updated(f.repo.entry.val, f.repo.call)
    OBVIOUS
  <1>3. PICK written : written = Stores(f.repo, updated)
    OBVIOUS
  <1>4. PICK removed : removed = OldCredential(f.repo)
    OBVIOUS
  <1>5. PICK own : own = record_key(f.repo.call.id)
    OBVIOUS
  <1>6. f.repo.at = "commit"
    BY <1>1 DEF Commit
  <1>7. IsCommitted(f, written, updated)
    BY <1>1, <1>2, <1>3, <1>6, CommitStores
  <1>8. \A key \in removed : key[1] = "credential"
    BY <1>4, KeysDiffer DEF OldCredential
  <1>9. CASE get(own).vs = f.repo.entry.vs /\ Write(written, removed)
    <2>1. UpdateOK(f, f.repo)
      BY <1>1, <1>6, Serving DEF FrameOK, CallOK, UpdatePlaces
    <2>2. Seen(f.repo.entry, own) /\ ~f.repo.entry.val.revoked
      BY <1>5, <1>6, <2>1 DEF UpdateOK, StaleVersion
    <2>3. own \in DOMAIN kv /\ kv[own] = f.repo.entry
      BY <1>9, <2>2, CheckedSame
    <2>4. ASSUME NEW key \in DOMAIN written \cap DOMAIN kv, key[1] = "session"
          PROVE  ~kv[key].val.revoked /\ Succeeds(kv[key].val, written[key])
      <3>1. key = own /\ written[key] = updated
        BY <1>5, <1>7, <2>4 DEF IsCommitted
      <3>2. Succeeds(f.repo.entry.val, updated)
        BY <1>7 DEF IsCommitted
      <3> QED BY <2>2, <2>3, <3>1, <3>2
    <2>5. SessionsGrow
      BY <1>9, <2>4, SessionsWritten
    <2>6. \A key \in DOMAIN written \cup removed : key[1] \in {"session", "credential"}
      BY <1>7, <1>8 DEF IsCommitted
    <2>7. WritesOnly({"session", "credential"})
      BY <1>9, <2>6 DEF WritesOnly
    <2> QED BY <2>5, <2>7
  <1>10. CASE UNCHANGED kv
    BY <1>10
  <1>11. ASSUME NEW others, AllCurrent(RecordCheck(f.repo) \cup others)
         PROVE  get(own).vs = f.repo.entry.vs
    <2>1. <<own, f.repo.entry.vs>> \in RecordCheck(f.repo) \cup others
      BY <1>5 DEF RecordCheck
    <2> QED BY <1>11, <2>1 DEF AllCurrent
  <1> QED BY <1>1, <1>2, <1>3, <1>4, <1>9, <1>10, <1>11 DEF Commit, Stores

(* No step takes an identity or a session back.                            *)
LEMMA StepsGrow == IInv /\ [Next]_vars => IdentitiesGrow /\ SessionsGrow
  <1> SUFFICES ASSUME IInv, [Next]_vars PROVE IdentitiesGrow /\ SessionsGrow
    OBVIOUS
  <1>1. CASE UNCHANGED kv
    BY <1>1, StillGrow DEF SessionsGrow
  <1>2. ASSUME NEW c \in Clients, IdentityStep(c), BrowserKept
        PROVE  IdentitiesGrow /\ SessionsGrow
    <2>1. IdentitiesGrow
      BY <1>2, IdentitySettled
    <2>2. PICK families : families = {"user", "identity"}
      OBVIOUS
    <2>3. WritesOnly(families) => SessionsGrow
      BY <2>2, SessionsAlone
    <2> QED BY <1>1, <1>2, <2>1, <2>2, <2>3, IdentityWrites
  <1>3. ASSUME NEW c \in Clients, DropIndex(c) \/ CreateCommit(c) \/ Commit(c)
        PROVE  IdentitiesGrow /\ SessionsGrow
    <2>1. PICK families : families = {"session", "credential"}
      OBVIOUS
    <2>2. WritesOnly({"credential"}) => WritesOnly(families) /\ SessionsGrow
      BY <2>1, SessionsAlone DEF WritesOnly
    <2>3. \/ UNCHANGED kv
          \/ WritesOnly(families) /\ SessionsGrow
      BY <1>3, <2>1, <2>2, DropIndexGrows, CreateCommitGrows, CommitGrows
    <2>4. ASSUME WritesOnly(families) PROVE IdentitiesGrow
      <3>1. ASSUME NEW key, key[1] \in {"user", "identity"}
            PROVE  /\ key \in DOMAIN kv' <=> key \in DOMAIN kv
                   /\ key \in DOMAIN kv => kv'[key] = kv[key]
        <4>1. key[1] \notin families
          BY <2>1, <3>1
        <4> QED BY <2>4, <4>1, FamiliesKept
      <3> QED BY <3>1, IdentitiesAlone
    <2> QED BY <1>1, <2>3, <2>4
  <1>4. CASE Expire
    <2>1. PICK key \in DOMAIN kv : /\ key[1] \in {"session", "credential"}
                                   /\ kv' = [k \in DOMAIN kv \ {key} |-> kv[k]]
      BY <1>4 DEF Expire
    <2>2. DOMAIN kv' = DOMAIN kv \ {key} /\ \A k \in DOMAIN kv' : kv'[k] = kv[k]
      BY <2>1
    <2>3. SessionsGrow
      BY <2>2 DEF SessionsGrow
    <2>4. ASSUME NEW k, k[1] \in {"user", "identity"}
          PROVE  /\ k \in DOMAIN kv' <=> k \in DOMAIN kv
                 /\ k \in DOMAIN kv => kv'[k] = kv[k]
      BY <2>1, <2>2, <2>4
    <2> QED BY <2>3, <2>4, IdentitiesAlone
  <1>5. CASE UNCHANGED vars
    BY <1>1, <1>5 DEF vars
  <1> QED BY <1>1, <1>2, <1>3, <1>4, <1>5, WritingSteps

(* "stale observations cannot overwrite newer data", and an identity never *)
(* changes its user: by every step of every sign-in.                       *)
THEOREM ObservationsNeverGoBack == Spec => IdentitiesNeverGoBack
  <1>1. ASSUME IInv, IInv', IdentitiesGrow, NEW s \in Subjects, Identity(s) # None
        PROVE  /\ Identity(s)' # None
               /\ Identity(s)'.user_id = Identity(s).user_id
               /\ Identity(s)'.updated_at >= Identity(s).updated_at
    <2>1. Known(s) /\ Identity(s) = kv[identity_key(s)].val /\ Identity(s).user_id = UserOf(s)
      BY <1>1, IdentityRead
    <2>2. /\ Known(s)' /\ UserOf(s)' = UserOf(s)
          /\ kv'[identity_key(s)].val.updated_at >= kv[identity_key(s)].val.updated_at
      BY <1>1, <2>1 DEF IdentitiesGrow
    <2>3. Identity(s)' = kv'[identity_key(s)].val
      BY <2>2 DEF Identity, get, Known
    <2>4. Identity(s)' \in StoredIdentity
      BY <1>1, <2>2, <2>3 DEF IInv, IdentitiesPaired
    <2> QED BY <2>1, <2>2, <2>3, <2>4, StoredBefore DEF UserOf
  <1>2. IInv /\ IInv' /\ [Next]_vars =>
          [\A s \in Subjects : Identity(s) # None =>
              /\ Identity(s)' # None
              /\ Identity(s)'.user_id = Identity(s).user_id
              /\ Identity(s)'.updated_at >= Identity(s).updated_at]_vars
    BY <1>1, StepsGrow
  <1> QED BY <1>2, SignInInvariant, PTL DEF Spec, IdentitiesNeverGoBack

(* A session signs in once: whatever callbacks, renewals, logouts and      *)
(* crashes overlap, its user never changes afterwards, what was revoked    *)
(* stays revoked, and its version is never taken back.                     *)
THEOREM EverySessionSignsInOnce == Spec => SessionsSignInOnce
  <1>1. ASSUME IInv, SessionsGrow, NEW id \in Credentials, Sessions[id] # None,
               Sessions[id]' # None
        PROVE  /\ Sessions[id].user_id # None => Sessions[id]'.user_id = Sessions[id].user_id
               /\ Sessions[id].revoked => Sessions[id]' = Sessions[id]
               /\ Sessions[id]'.version >= Sessions[id].version
    <2>1. PICK key : key = record_key(id)
      OBVIOUS
    <2>2. Sessions[id] = get(key).val /\ Sessions[id]' = get(key)'.val
      BY <2>1 DEF Sessions, record_key
    <2>3. key \in DOMAIN kv /\ key \in DOMAIN kv'
      BY <1>1, <2>2 DEF get, Absent
    <2>4. Sessions[id] = kv[key].val /\ Sessions[id]' = kv'[key].val
      BY <2>2, <2>3 DEF get
    <2>5. key[1] = "session"
      BY <2>1, KeysDiffer
    <2>6. kv[key].val.version \in Nat
      BY <1>1, <2>3, <2>5 DEF IInv, EntriesOK, StoredAt, StoredSession, SessionRecord
    <2>7. \/ kv'[key].val = kv[key].val
          \/ ~kv[key].val.revoked /\ Succeeds(kv[key].val, kv'[key].val)
      BY <1>1, <2>3, <2>5 DEF SessionsGrow
    <2> QED BY <2>4, <2>6, <2>7 DEF Succeeds
  <1>2. IInv /\ [Next]_vars =>
          [\A id \in Credentials : Sessions[id] # None /\ Sessions[id]' # None =>
              /\ Sessions[id].user_id # None => Sessions[id]'.user_id = Sessions[id].user_id
              /\ Sessions[id].revoked => Sessions[id]' = Sessions[id]
              /\ Sessions[id]'.version >= Sessions[id].version]_vars
    BY <1>1, StepsGrow
  <1> QED BY <1>2, SignInInvariant, PTL DEF Spec, SessionsSignInOnce
-----------------------------------------------------------------------------
(* One exchange for a state.                                               *)
(* Whoever may come to exchange a code for a state holds a ticket for it:  *)
(* a request that will start or starts with the state, the session that    *)
(* keeps its attempt, and the callback that has consumed the attempt.      *)
AnsweredOK(f) == f.repo.at = "answered" /\ f.repo.reply.status = "ok"

Holds(f, s) ==
    \/ /\ f.step \notin {"idle", "respond"} /\ ~(f.step = "save" /\ AnsweredOK(f))
       /\ Starts(f.req, s)
    \/ /\ f.step = "exchange" \/ (f.step = "consume" /\ AnsweredOK(f))
       /\ Returns(f.req, s)

Pending(key, s) ==
    key \in DOMAIN kv /\ key[1] = "session" /\ HasState(kv[key].val.attempts, s)

Tickets(s) ==
    {<<"asked", req>> : req \in {r \in requests : Starts(r, s)}}
    \cup {<<"held", c>> : c \in {d \in Clients : Holds(client[d], s)}}
    \cup {<<"stored", key>> : key \in {k \in DOMAIN kv : Pending(k, s)}}

(* A callback with the state is still to come, or is served.               *)
Returning(s) ==
    \/ \E req \in requests : Returns(req, s)
    \/ \E c \in Clients : client[c].step # "idle" /\ Returns(client[c].req, s)

(* While a callback may return with a state there is at most one ticket    *)
(* for it, and none once a code was exchanged.                             *)
OneTicket(s) ==
    /\ exchanged[s] <= 1
    /\ Returning(s) => \A t, u \in Tickets(s) : t = u
    /\ Returning(s) /\ Tickets(s) # {} => exchanged[s] = 0

Counted ==
    /\ ticks \in Nat /\ requests \subseteq UNION {s.requests : s \in Scenarios}
    /\ exchanged \in [States -> Nat]

TInv == Counted /\ \A s \in States : OneTicket(s)

(* What a step makes of the tickets for a state: it adds none, it hands    *)
(* one on, or it spends one.                                               *)
NoNewTicket(s) == Tickets(s)' \subseteq Tickets(s)

TicketMoves(s) ==
    \E t \in Tickets(s) : \E u : Tickets(s)' \subseteq (Tickets(s) \ {t}) \cup {u}

TicketSpent(s) ==
    /\ exchanged[s]' = exchanged[s] + 1 /\ Returning(s)
    /\ \E t \in Tickets(s) : Tickets(s)' \subseteq Tickets(s) \ {t}

Kept(s) ==
    /\ exchanged[s]' = exchanged[s] /\ (Returning(s)' => Returning(s))
    /\ NoNewTicket(s) \/ TicketMoves(s)

(* Each of these keeps a state's tickets in order.                         *)
LEMMA TicketKept ==
    ASSUME NEW s \in States, OneTicket(s), exchanged[s] \in Nat, Kept(s) \/ TicketSpent(s),
           Returning(s)' => Returning(s)
    PROVE  OneTicket(s)'
  <1>1. CASE Kept(s) /\ NoNewTicket(s)
    BY <1>1 DEF Kept, NoNewTicket, OneTicket
  <1>2. CASE Kept(s) /\ TicketMoves(s)
    <2>1. PICK t \in Tickets(s) : \E u : Tickets(s)' \subseteq (Tickets(s) \ {t}) \cup {u}
      BY <1>2 DEF TicketMoves
    <2>2. Returning(s)' => \A v, w \in Tickets(s)' : v = w
      BY <2>1 DEF OneTicket
    <2> QED BY <1>2, <2>1, <2>2 DEF Kept, OneTicket
  <1>3. CASE TicketSpent(s)
    <2>1. PICK t \in Tickets(s) : Tickets(s)' \subseteq Tickets(s) \ {t}
      BY <1>3 DEF TicketSpent
    <2>2. Tickets(s)' = {} /\ exchanged[s] = 0
      BY <1>3, <2>1 DEF TicketSpent, OneTicket
    <2>3. exchanged[s]' = 1
      BY <1>3, <2>2 DEF TicketSpent
    <2> QED BY <2>2, <2>3 DEF OneTicket
  <1> QED BY <1>1, <1>2, <1>3 DEF Kept

(* A ticket, as what it stands for.                                        *)
LEMMA TicketIs ==
    ASSUME NEW s, NEW t
    PROVE  t \in Tickets(s) <=>
              \/ \E req \in requests : Starts(req, s) /\ t = <<"asked", req>>
              \/ \E c \in Clients : Holds(client[c], s) /\ t = <<"held", c>>
              \/ \E key : Pending(key, s) /\ t = <<"stored", key>>
  BY DEF Tickets, Pending

LEMMA TicketWas ==
    ASSUME NEW s, NEW t
    PROVE  t \in Tickets(s)' <=>
              \/ \E req \in requests' : Starts(req, s) /\ t = <<"asked", req>>
              \/ \E c \in Clients : Holds(client[c], s)' /\ t = <<"held", c>>
              \/ \E key : Pending(key, s)' /\ t = <<"stored", key>>
  BY DEF Tickets, Pending, Starts

(* No session keeps an attempt of the state that it did not keep before.   *)
NoneStored(s) == \A key : Pending(key, s)' => Pending(key, s)

(* One request is served on, the others wait.                              *)
ServesOne(c) ==
    (\A d \in Clients : d # c => client'[d] = client[d]) /\ requests' \subseteq requests

(* A step that hands no ticket on.                                         *)
LEMMA NothingHandedOn ==
    ASSUME NEW c \in Clients, ServesOne(c), NEW s \in States, NoneStored(s),
           Holds(client[c], s)' => Holds(client[c], s),
           client'[c].step # "idle" =>
               client[c].step # "idle" /\ client'[c].req = client[c].req,
           exchanged[s]' = exchanged[s]
    PROVE  Kept(s)
  <1>1. \A d \in Clients : Holds(client[d], s)' => Holds(client[d], s)
    BY DEF ServesOne, Holds, AnsweredOK
  <1>2. ASSUME NEW t \in Tickets(s)' PROVE t \in Tickets(s)
    BY <1>1, TicketIs, TicketWas DEF ServesOne, NoneStored
  <1>3. Returning(s)' => Returning(s)
    BY DEF Returning, ServesOne, Returns
  <1> QED BY <1>2, <1>3 DEF Kept, NoNewTicket

(* A step that serves no request.                                          *)
LEMMA NothingServed ==
    ASSUME UNCHANGED <<client, requests, exchanged>>, NEW s \in States, NoneStored(s)
    PROVE  Kept(s)
  <1>1. \A d \in Clients : Holds(client[d], s)' => Holds(client[d], s)
    BY DEF Holds, AnsweredOK
  <1>2. ASSUME NEW t \in Tickets(s)' PROVE t \in Tickets(s)
    BY <1>1, TicketIs, TicketWas DEF NoneStored
  <1>3. Returning(s)' => Returning(s)
    BY DEF Returning, Returns
  <1> QED BY <1>2, <1>3 DEF Kept, NoNewTicket

(* A request served on: it is the same, and has neither an answer nor a    *)
(* code to exchange.                                                       *)
ServedOn(c, req) ==
    \E g : /\ Become(c, g) /\ g.req = req /\ g.step \notin {"exchange", "idle"}
           /\ g.repo.at # "answered"

IsFrame(f) ==
    DOMAIN f = {"step", "req", "sent", "session", "set_cookie", "at", "tries", "user",
                "failed", "repo"}

(* It responds, fails or calls a repository ...                            *)
LEMMA RespondsOn ==
    ASSUME NEW c, NEW f, IsFrame(f), Respond(c, f) \/ Fail(c, f)
    PROVE  ServedOn(c, f.req)
  <1>1. ASSUME NEW h, IsFrame(h), h.req = f.req, Respond(c, h) PROVE ServedOn(c, f.req)
    <2>1. PICK g : g = [h EXCEPT !.step = "respond", !.repo = NoCall]
      OBVIOUS
    <2>2. g.req = h.req /\ g.step = "respond" /\ g.repo = NoCall /\ NoCall.at = "none"
      BY <1>1, <2>1 DEF IsFrame, NoCall
    <2>3. Become(c, g)
      BY <1>1, <2>1 DEF Respond
    <2> QED BY <1>1, <2>2, <2>3 DEF ServedOn
  <1>2. PICK h : h = [f EXCEPT !.failed = TRUE]
    OBVIOUS
  <1>3. IsFrame(h) /\ h.req = f.req
    BY <1>2 DEF IsFrame
  <1> QED BY <1>1, <1>2, <1>3 DEF Fail

LEMMA CallsOn ==
    ASSUME NEW c, NEW f, IsFrame(f), f.step \notin {"exchange", "idle"}, NEW call, NEW start,
           start # "answered", Become(c, Calling(f, call, start))
    PROVE  ServedOn(c, f.req)
  <1>1. PICK repo : repo = [NoCall EXCEPT !.call = call, !.start = start, !.at = start]
    OBVIOUS
  <1>2. repo.at = start
    BY <1>1 DEF NoCall
  <1>3. PICK g : g = [f EXCEPT !.repo = repo]
    OBVIOUS
  <1>4. g.req = f.req /\ g.step = f.step /\ g.repo = repo
    BY <1>3 DEF IsFrame
  <1>5. Become(c, g)
    BY <1>1, <1>3 DEF Calling
  <1> QED BY <1>2, <1>4, <1>5 DEF ServedOn

(* ... in the ways the handlers do.                                        *)
LEMMA CreatesOn ==
    ASSUME NEW c, NEW f, IsFrame(f), NEW tries, CreateGuest(c, f, tries)
    PROVE  ServedOn(c, f.req)
  <1>1. ASSUME NEW call,
               Become(c, Calling([f EXCEPT !.step = "create guest", !.tries = tries], call,
                                 "read new"))
        PROVE  ServedOn(c, f.req)
    <2>1. PICK h, start :
            h = [f EXCEPT !.step = "create guest", !.tries = tries] /\ start = "read new"
      OBVIOUS
    <2>2. IsFrame(h) /\ h.step = "create guest" /\ h.req = f.req
      BY <2>1 DEF IsFrame
    <2>3. ServedOn(c, h.req)
      BY <1>1, <2>1, <2>2, CallsOn
    <2> QED BY <2>2, <2>3
  <1> QED BY <1>1, RespondsOn DEF CreateGuest

LEMMA UpdatesOn ==
    ASSUME NEW c, NEW f, IsFrame(f), NEW step, step \notin {"exchange", "idle"}, NEW call,
           Become(c, Calling([f EXCEPT !.step = step], call, "load"))
    PROVE  ServedOn(c, f.req)
  <1>1. PICK h, start : h = [f EXCEPT !.step = step] /\ start = "load"
    OBVIOUS
  <1>2. IsFrame(h) /\ h.step = step /\ h.req = f.req
    BY <1>1 DEF IsFrame
  <1>3. ServedOn(c, h.req)
    BY <1>1, <1>2, CallsOn
  <1> QED BY <1>2, <1>3

LEMMA ProceedsOn ==
    ASSUME NEW c, NEW f, IsFrame(f), NEW step \in {"save", "consume"}, NEW call,
           Unexpired(c, f, call, step)
    PROVE  ServedOn(c, f.req)
  <1>1. "expired" \notin {"exchange", "idle"} /\ step \notin {"exchange", "idle"}
    OBVIOUS
  <1> QED BY <1>1, UpdatesOn DEF Unexpired

LEMMA RoutesOn ==
    ASSUME NEW c, NEW f, IsFrame(f), Route(c, f)
    PROVE  ServedOn(c, f.req)
  <1>1. CASE Respond(c, f) \/ Fail(c, f)
    BY <1>1, RespondsOn
  <1>2. CASE Become(c, [f EXCEPT !.step = "begin", !.repo = NoCall])
    <2>1. PICK g : g = [f EXCEPT !.step = "begin", !.repo = NoCall]
      OBVIOUS
    <2>2. g.req = f.req /\ g.step = "begin" /\ g.repo = NoCall /\ NoCall.at = "none"
      BY <2>1 DEF IsFrame, NoCall
    <2> QED BY <1>2, <2>1, <2>2 DEF ServedOn
  <1>3. CASE Unexpired(c, f, consume_attempt(f), "consume")
    <2>1. PICK call, step : call = consume_attempt(f) /\ step = "consume"
      OBVIOUS
    <2> QED BY <1>3, <2>1, ProceedsOn
  <1>4. ASSUME NEW call, Become(c, Calling([f EXCEPT !.step = "logout", !.at = now], call, "load"))
        PROVE  ServedOn(c, f.req)
    <2>1. PICK h, start : h = [f EXCEPT !.step = "logout", !.at = now] /\ start = "load"
      OBVIOUS
    <2>2. IsFrame(h) /\ h.step = "logout" /\ h.req = f.req
      BY <2>1 DEF IsFrame
    <2>3. ServedOn(c, h.req)
      BY <1>4, <2>1, <2>2, CallsOn
    <2> QED BY <2>2, <2>3
  <1> QED BY <1>1, <1>2, <1>3, <1>4 DEF Route

LEMMA DrawsOn ==
    ASSUME NEW c, NEW f, IsFrame(f), NEW tries, DrawCredential(c, f, tries)
    PROVE  ServedOn(c, f.req)
  <1>1. ASSUME NEW call,
               Become(c, Calling([f EXCEPT !.step = "upgrade", !.tries = tries], call, "load"))
        PROVE  ServedOn(c, f.req)
    <2>1. PICK h, start : h = [f EXCEPT !.step = "upgrade", !.tries = tries] /\ start = "load"
      OBVIOUS
    <2>2. IsFrame(h) /\ h.step = "upgrade" /\ h.req = f.req
      BY <2>1 DEF IsFrame
    <2>3. ServedOn(c, h.req)
      BY <1>1, <2>1, <2>2, CallsOn
    <2> QED BY <2>2, <2>3
  <1> QED BY <1>1, RespondsOn DEF DrawCredential

(* The handlers' steps that go on with a request: none but Consumed takes  *)
(* a code to exchange.                                                     *)
LEMMA HandlersServeOn ==
    ASSUME IInv, NEW c \in Clients,
           \/ Found(c) \/ Revoked(c) \/ Renewed(c) \/ GuestCreated(c)
           \/ Begin(c) \/ ExpiredRevoked(c) \/ Identified(c) \/ Upgraded(c) \/ LoggedOut(c)
    PROVE  ServedOn(c, client[c].req)
  <1>1. PICK f : f = client[c]
    OBVIOUS
  <1>2. IsFrame(f)
    BY <1>1, Serving DEF FrameOK, IsFrame
  <1>3. ASSUME NEW h, IsFrame(h), h.req = f.req, Respond(c, h) \/ Fail(c, h) \/ Route(c, h)
        PROVE  ServedOn(c, f.req)
    <2>1. ServedOn(c, h.req)
      BY <1>3, RespondsOn, RoutesOn
    <2> QED BY <1>3, <2>1
  <1>4. ASSUME NEW h, IsFrame(h), h.req = f.req, NEW tries,
               CreateGuest(c, h, tries) \/ DrawCredential(c, h, tries)
        PROVE  ServedOn(c, f.req)
    <2>1. ServedOn(c, h.req)
      BY <1>4, CreatesOn, DrawsOn
    <2> QED BY <1>4, <2>1
  <1>5. ASSUME NEW h, IsFrame(h), h.req = f.req, NEW step, step \in {"revoke", "renew", "expired"},
               NEW call, Become(c, Calling([h EXCEPT !.step = step], call, "load"))
        PROVE  ServedOn(c, f.req)
    <2>1. step \notin {"exchange", "idle"}
      BY <1>5
    <2>2. ServedOn(c, h.req)
      BY <1>5, <2>1, UpdatesOn
    <2> QED BY <1>5, <2>2
  <1>6. CASE Found(c)
    <2>1. PICK h : h = [f EXCEPT !.at = now]
      OBVIOUS
    <2>2. PICK g : g = [h EXCEPT !.session = replied_session(c)]
      OBVIOUS
    <2>3. IsFrame(h) /\ h.req = f.req /\ IsFrame(g) /\ g.req = f.req
      BY <1>2, <2>1, <2>2 DEF IsFrame
    <2>4. \/ Fail(c, h) \/ CreateGuest(c, h, 0) \/ Route(c, g)
          \/ \E step \in {"revoke", "renew"} : \E call :
                Become(c, Calling([h EXCEPT !.step = step], call, "load"))
      BY <1>1, <1>6, <2>1, <2>2 DEF Found
    <2>5. CASE Fail(c, h) \/ Route(c, g)
      BY <1>1, <1>3, <2>3, <2>5
    <2>6. CASE CreateGuest(c, h, 0)
      BY <1>1, <1>4, <2>3, <2>6
    <2>7. ASSUME NEW step \in {"revoke", "renew"}, NEW call,
                 Become(c, Calling([h EXCEPT !.step = step], call, "load"))
          PROVE  ServedOn(c, f.req)
      <3>1. step \in {"revoke", "renew", "expired"}
        OBVIOUS
      <3> QED BY <1>5, <2>3, <2>7, <3>1
    <2> QED BY <1>1, <2>4, <2>5, <2>6, <2>7
  <1>7. CASE Revoked(c) \/ LoggedOut(c) \/ ExpiredRevoked(c)
    BY <1>1, <1>2, <1>3, <1>4, <1>7 DEF Revoked, LoggedOut, ExpiredRevoked
  <1>8. CASE Renewed(c)
    <2>1. PICK h : h = [f EXCEPT !.session = replied_session(c), !.set_cookie = f.sent]
      OBVIOUS
    <2>2. IsFrame(h) /\ h.req = f.req
      BY <1>2, <2>1 DEF IsFrame
    <2> QED BY <1>1, <1>2, <1>3, <1>4, <1>8, <2>1, <2>2 DEF Renewed
  <1>9. CASE GuestCreated(c) \/ Upgraded(c)
    <2>1. PICK h : h = [f EXCEPT !.session = replied_session(c),
                                 !.set_cookie = f.repo.reply.record.credential]
      OBVIOUS
    <2>2. IsFrame(h) /\ h.req = f.req
      BY <1>2, <2>1 DEF IsFrame
    <2>3. CASE GuestCreated(c)
      BY <1>1, <1>2, <1>3, <1>4, <2>1, <2>2, <2>3 DEF GuestCreated
    <2>4. CASE Upgraded(c)
      BY <1>1, <1>2, <1>3, <1>4, <2>1, <2>2, <2>4 DEF Upgraded
    <2> QED BY <1>9, <2>3, <2>4
  <1>10. CASE Begin(c)
    <2>1. ASSUME NEW state, Unexpired(c, f, save_attempt(f, state), "save")
          PROVE  ServedOn(c, f.req)
      <3>1. PICK call, step : call = save_attempt(f, state) /\ step = "save"
        OBVIOUS
      <3> QED BY <1>2, <2>1, <3>1, ProceedsOn
    <2> QED BY <1>1, <1>2, <1>3, <1>10, <2>1 DEF Begin
  <1>11. CASE Identified(c)
    <2>1. PICK h : h = [f EXCEPT !.user = f.repo.reply.id, !.at = now]
      OBVIOUS
    <2>2. IsFrame(h) /\ h.req = f.req
      BY <1>2, <2>1 DEF IsFrame
    <2>3. \/ Fail(c, h) \/ DrawCredential(c, h, 0)
          \/ Become(c, Calling([h EXCEPT !.step = "expired"], revoke(h.session), "load"))
      BY <1>1, <1>11, <2>1 DEF Identified
    <2>4. CASE Fail(c, h)
      BY <1>1, <1>3, <2>2, <2>4
    <2>5. CASE DrawCredential(c, h, 0)
      BY <1>1, <1>4, <2>2, <2>5
    <2>6. CASE Become(c, Calling([h EXCEPT !.step = "expired"], revoke(h.session), "load"))
      <3>1. PICK step, call : step = "expired" /\ call = revoke(h.session)
        OBVIOUS
      <3> QED BY <1>1, <1>5, <2>2, <2>6, <3>1
    <2> QED BY <2>3, <2>4, <2>5, <2>6
  <1> QED BY <1>1, <1>6, <1>7, <1>8, <1>9, <1>10, <1>11

(* What the handlers make of the tickets: a request that goes on keeps its *)
(* own, one that responds or stops drops it.                               *)
LEMMA ServedKeeps ==
    ASSUME NEW c \in Clients, DOMAIN client = Clients, NEW f, f = client[c],
           f.step \notin {"idle", "respond"}, ~(f.step = "save" /\ AnsweredOK(f)),
           ServedOn(c, f.req), ServiceOnly, NEW s \in States
    PROVE  Kept(s)
  <1>1. PICK g : /\ Become(c, g) /\ g.req = f.req /\ g.step \notin {"exchange", "idle"}
                 /\ g.repo.at # "answered"
    BY DEF ServedOn
  <1>2. client'[c] = g /\ ServesOne(c)
    BY <1>1 DEF Become, ServesOne, ServiceOnly
  <1>3. NoneStored(s) /\ exchanged[s]' = exchanged[s]
    BY DEF NoneStored, Pending, ServiceOnly
  <1>4. Holds(g, s) => Holds(f, s)
    BY <1>1 DEF Holds, AnsweredOK
  <1>5. Holds(client[c], s)' => Holds(client[c], s)
    BY <1>2, <1>4 DEF Holds, AnsweredOK
  <1> QED BY <1>1, <1>2, <1>3, <1>5, NothingHandedOn

Halts(c, req) == \E g : Become(c, g) /\ (g.step = "idle" \/ (g.step = "respond" /\ g.req = req))

LEMMA RespondsHalts ==
    ASSUME NEW c, NEW f, IsFrame(f), Respond(c, f) \/ Fail(c, f)
    PROVE  Halts(c, f.req)
  <1>1. ASSUME NEW h, IsFrame(h), h.req = f.req, Respond(c, h) PROVE Halts(c, f.req)
    <2>1. PICK g : g = [h EXCEPT !.step = "respond", !.repo = NoCall]
      OBVIOUS
    <2>2. g.req = h.req /\ g.step = "respond"
      BY <1>1, <2>1 DEF IsFrame
    <2>3. Become(c, g)
      BY <1>1, <2>1 DEF Respond
    <2> QED BY <1>1, <2>2, <2>3 DEF Halts
  <1>2. PICK h : h = [f EXCEPT !.failed = TRUE]
    OBVIOUS
  <1>3. IsFrame(h) /\ h.req = f.req
    BY <1>2 DEF IsFrame
  <1> QED BY <1>1, <1>2, <1>3 DEF Fail

LEMMA HaltedKeeps ==
    ASSUME NEW c \in Clients, DOMAIN client = Clients, NEW f, f = client[c], f.step # "idle",
           Halts(c, f.req), UNCHANGED <<kv, requests>>, NEW s \in States,
           exchanged[s]' = exchanged[s]
    PROVE  Kept(s)
  <1>1. PICK g : Become(c, g) /\ (g.step = "idle" \/ (g.step = "respond" /\ g.req = f.req))
    BY DEF Halts
  <1>2. client'[c] = g /\ ServesOne(c)
    BY <1>1 DEF Become, ServesOne
  <1>3. NoneStored(s)
    BY DEF NoneStored, Pending
  <1>4. ~Holds(g, s)
    BY <1>1 DEF Holds
  <1>5. ~Holds(client[c], s)'
    BY <1>2, <1>4 DEF Holds, AnsweredOK
  <1> QED BY <1>1, <1>2, <1>3, <1>5, NothingHandedOn

LEMMA HandlersKeep ==
    ASSUME IInv, NEW c \in Clients, NEW s \in States,
           \/ Found(c) \/ Revoked(c) \/ Renewed(c) \/ GuestCreated(c)
           \/ Begin(c) \/ ExpiredRevoked(c) \/ Identified(c) \/ Upgraded(c) \/ LoggedOut(c)
    PROVE  Kept(s)
  <1>1. PICK f : f = client[c]
    OBVIOUS
  <1>2. f.step \notin {"idle", "respond", "save"} /\ ServiceOnly
    BY <1>1 DEF Found, Revoked, Renewed, GuestCreated, Begin, ExpiredRevoked, Identified, Upgraded,
                LoggedOut, Replied
  <1>3. ServedOn(c, f.req)
    BY <1>1, HandlersServeOn
  <1> QED BY <1>1, <1>2, <1>3, ServedKeeps DEF IInv

(* A saved attempt is the session's; a collision starts again.             *)
LEMMA SavedKeeps ==
    ASSUME IInv, NEW c \in Clients, NEW s \in States, Saved(c)
    PROVE  Kept(s)
  <1>1. PICK f : f = client[c]
    OBVIOUS
  <1>2. IsFrame(f) /\ f.step = "save" /\ ServiceOnly /\ DOMAIN client = Clients
    BY <1>1, Serving DEF FrameOK, IsFrame, Saved, Replied, IInv
  <1>3. CASE Respond(c, f) \/ Fail(c, f)
    <2>1. Halts(c, f.req) /\ UNCHANGED <<kv, requests>> /\ exchanged[s]' = exchanged[s]
      BY <1>2, <1>3, RespondsHalts DEF ServiceOnly
    <2> QED BY <1>1, <1>2, <2>1, HaltedKeeps
  <1>4. ASSUME NEW tries, f.repo.reply.status = "state_collision",
               Become(c, [f EXCEPT !.step = "begin", !.tries = tries, !.repo = NoCall])
        PROVE  Kept(s)
    <2>1. PICK g : g = [f EXCEPT !.step = "begin", !.tries = tries, !.repo = NoCall]
      OBVIOUS
    <2>2. g.req = f.req /\ g.step = "begin" /\ g.repo = NoCall /\ NoCall.at = "none"
      BY <1>2, <2>1 DEF IsFrame, NoCall
    <2>3. ServedOn(c, f.req)
      BY <1>4, <2>1, <2>2 DEF ServedOn
    <2>4. ~AnsweredOK(f)
      BY <1>4 DEF AnsweredOK
    <2> QED BY <1>1, <1>2, <2>3, <2>4, ServedKeeps
  <1> QED BY <1>1, <1>3, <1>4 DEF Saved, status

(* The callback that consumed the attempt goes on to the exchange ...      *)
LEMMA ConsumedKeeps ==
    ASSUME IInv, NEW c \in Clients, NEW s \in States, Consumed(c)
    PROVE  Kept(s)
  <1>1. PICK f : f = client[c]
    OBVIOUS
  <1>2. /\ IsFrame(f) /\ f.step = "consume" /\ f.repo.at = "answered"
        /\ ServiceOnly /\ DOMAIN client = Clients
    BY <1>1, Serving DEF FrameOK, IsFrame, Consumed, Replied, IInv
  <1>3. CASE Fail(c, f)
    <2>1. Halts(c, f.req) /\ UNCHANGED <<kv, requests>> /\ exchanged[s]' = exchanged[s]
      BY <1>2, <1>3, RespondsHalts DEF ServiceOnly
    <2> QED BY <1>1, <1>2, <2>1, HaltedKeeps
  <1>4. CASE /\ f.repo.reply.status = "ok"
             /\ Become(c, [f EXCEPT !.step = "exchange", !.repo = NoCall])
    <2>1. PICK g : g = [f EXCEPT !.step = "exchange", !.repo = NoCall]
      OBVIOUS
    <2>2. g.req = f.req /\ g.step = "exchange"
      BY <1>2, <2>1 DEF IsFrame
    <2>3. client'[c] = g /\ ServesOne(c)
      BY <1>2, <1>4, <2>1 DEF Become, ServesOne, ServiceOnly
    <2>4. NoneStored(s) /\ exchanged[s]' = exchanged[s]
      BY <1>2 DEF NoneStored, Pending, ServiceOnly
    <2>5. Holds(g, s) => Holds(f, s)
      BY <1>2, <1>4, <2>2 DEF Holds, AnsweredOK
    <2>6. Holds(client[c], s)' => Holds(client[c], s)
      BY <1>1, <2>3, <2>5 DEF Holds, AnsweredOK
    <2> QED BY <1>1, <1>2, <2>2, <2>3, <2>4, <2>6, NothingHandedOn
  <1> QED BY <1>1, <1>3, <1>4 DEF Consumed, status

(* ... which spends the ticket of its state.                               *)
LEMMA ExchangeSpends ==
    ASSUME IInv, Counted, NEW c \in Clients, NEW s \in States, Exchange(c)
    PROVE  (Kept(s) \/ TicketSpent(s)) /\ (Returning(s)' => Returning(s))
  <1>1. PICK f : f = client[c]
    OBVIOUS
  <1>2. /\ IsFrame(f) /\ f.step = "exchange" /\ DOMAIN client = Clients
        /\ f.req.kind = "callback"
    BY <1>1, Serving DEF FrameOK, RequestOK, Ready, IsFrame, Exchange, IInv
  <1>3. PICK own : own = f.req.state
    OBVIOUS
  <1>4. exchanged' = [exchanged EXCEPT ![own] = exchanged[own] + 1] /\ UNCHANGED <<kv, requests>>
    BY <1>1, <1>3 DEF Exchange
  <1>5. s # own => exchanged[s]' = exchanged[s]
    BY <1>4 DEF Counted
  <1>6. s = own => exchanged[s]' = exchanged[s] + 1
    BY <1>4 DEF Counted
  <1>7. PICK g : Become(c, g) /\ g.req = f.req /\ g.step \notin {"exchange", "idle"}
                 /\ g.repo.at # "answered"
    <2>1. CASE Fail(c, f)
      BY <1>2, <2>1, RespondsOn DEF ServedOn
    <2>2. ASSUME NEW call,
                 Become(c, Calling([f EXCEPT !.step = "identify"], call, "read identity"))
          PROVE  ServedOn(c, f.req)
      <3>1. PICK h, start : h = [f EXCEPT !.step = "identify"] /\ start = "read identity"
        OBVIOUS
      <3>2. IsFrame(h) /\ h.step = "identify" /\ h.req = f.req
        BY <1>2, <3>1 DEF IsFrame
      <3>3. ServedOn(c, h.req)
        BY <2>2, <3>1, <3>2, CallsOn
      <3> QED BY <3>2, <3>3
    <2> QED BY <1>1, <2>1, <2>2 DEF Exchange, ServedOn
  <1>8. client'[c] = g /\ ServesOne(c)
    BY <1>2, <1>4, <1>7 DEF Become, ServesOne
  <1>9. ~Holds(g, s)
    BY <1>2, <1>7 DEF Holds, AnsweredOK, Starts
  <1>10. NoneStored(s) /\ ~Holds(client[c], s)'
    BY <1>4, <1>8, <1>9 DEF NoneStored, Pending, Holds, AnsweredOK
  <1>11. Returning(s)' => Returning(s)
    BY <1>1, <1>2, <1>4, <1>7, <1>8 DEF Returning, ServesOne, Returns
  <1>12. CASE s # own
    BY <1>1, <1>2, <1>5, <1>7, <1>8, <1>10, <1>11, <1>12, NothingHandedOn
  <1>13. CASE s = own
    <2>1. Returning(s) /\ Holds(client[c], s)
      BY <1>1, <1>2, <1>3, <1>13 DEF Returning, Returns, Holds
    <2>2. PICK ticket : ticket = <<"held", c>>
      OBVIOUS
    <2>3. ticket \in Tickets(s)
      BY <2>1, <2>2, TicketIs
    <2>4. ASSUME NEW t \in Tickets(s)' PROVE t \in Tickets(s) /\ t # ticket
      <3>1. ASSUME NEW req \in requests', Starts(req, s), t = <<"asked", req>>
            PROVE  t \in Tickets(s) /\ t # ticket
        BY <1>4, <2>2, <3>1, TicketIs
      <3>2. ASSUME NEW d \in Clients, Holds(client[d], s)', t = <<"held", d>>
            PROVE  t \in Tickets(s) /\ t # ticket
        <4>1. d # c /\ client'[d] = client[d]
          BY <1>8, <1>10, <3>2 DEF ServesOne
        <4>2. Holds(client[d], s)
          BY <3>2, <4>1 DEF Holds, AnsweredOK
        <4>3. t # ticket
          BY <2>2, <3>2, <4>1
        <4> QED BY <3>2, <4>2, <4>3, TicketIs
      <3>3. ASSUME NEW key, Pending(key, s)', t = <<"stored", key>>
            PROVE  t \in Tickets(s) /\ t # ticket
        BY <1>10, <2>2, <3>3, TicketIs DEF NoneStored
      <3> QED BY <3>1, <3>2, <3>3, TicketWas
    <2>5. Tickets(s)' \subseteq Tickets(s) \ {ticket}
      BY <2>4
    <2> QED BY <1>6, <1>11, <1>13, <2>1, <2>3, <2>5 DEF TicketSpent
  <1> QED BY <1>12, <1>13

(* A response that arrives, or a crash, ends the request.                  *)
LEMMA EndedKeeps ==
    ASSUME IInv, NEW c \in Clients, NEW s \in States, Receipt(c) \/ Crash(c)
    PROVE  Kept(s)
  <1>1. PICK f : f = client[c]
    OBVIOUS
  <1>2. f.step # "idle" /\ Become(c, Idle) /\ UNCHANGED <<kv, requests, exchanged>>
    BY <1>1 DEF Receipt, Crash
  <1>3. Idle.step = "idle"
    BY DEF Idle
  <1>4. Halts(c, f.req)
    BY <1>2, <1>3 DEF Halts
  <1>5. UNCHANGED <<kv, requests>> /\ exchanged[s]' = exchanged[s] /\ DOMAIN client = Clients
    BY <1>2 DEF IInv
  <1> QED BY <1>1, <1>2, <1>4, <1>5, HaltedKeeps

(* A request received takes its tickets with it.                           *)
LEMMA ReceiveKeeps ==
    ASSUME IInv, NEW c \in Clients, NEW req \in requests, NEW s \in States, Receive(c, req)
    PROVE  Kept(s)
  <1>1. PICK f : f = [Idle EXCEPT !.req = req, !.sent = cookie, !.at = now]
    OBVIOUS
  <1>2. IsFrame(f) /\ f.req = req
    BY <1>1 DEF IsFrame, Idle
  <1>3. ServedOn(c, req)
    <2>1. CASE Respond(c, f)
      BY <1>2, <2>1, RespondsOn
    <2>2. CASE CreateGuest(c, f, 0)
      BY <1>2, <2>2, CreatesOn
    <2>3. ASSUME NEW call, Become(c, Calling([f EXCEPT !.step = "find"], call, "find index"))
          PROVE  ServedOn(c, req)
      <3>1. PICK h, start : h = [f EXCEPT !.step = "find"] /\ start = "find index"
        OBVIOUS
      <3>2. IsFrame(h) /\ h.step = "find" /\ h.req = req
        BY <1>2, <3>1 DEF IsFrame
      <3>3. ServedOn(c, h.req)
        BY <2>3, <3>1, <3>2, CallsOn
      <3> QED BY <3>2, <3>3
    <2> QED BY <1>1, <2>1, <2>2, <2>3 DEF Receive
  <1>4. PICK g : /\ Become(c, g) /\ g.req = req /\ g.step \notin {"exchange", "idle"}
                 /\ g.repo.at # "answered"
    BY <1>3 DEF ServedOn
  <1>5. /\ client'[c] = g /\ (\A d \in Clients : d # c => client'[d] = client[d])
        /\ client[c].step = "idle"
        /\ requests' = requests \ {req} /\ UNCHANGED <<kv, exchanged>>
    BY <1>4 DEF Receive, Become, IInv
  <1>6. Holds(g, s) => Starts(req, s)
    BY <1>4 DEF Holds, AnsweredOK
  <1>7. Returning(s)' => Returning(s)
    BY <1>4, <1>5 DEF Returning, Returns
  <1>8. PICK asked, held : asked = <<"asked", req>> /\ held = <<"held", c>>
    OBVIOUS
  <1>9. ASSUME NEW t \in Tickets(s)'
        PROVE  t # asked /\ (t \in Tickets(s) \/ (t = held /\ Starts(req, s)))
    <2>1. ASSUME NEW r \in requests', Starts(r, s), t = <<"asked", r>>
          PROVE  t # asked /\ t \in Tickets(s)
      <3>1. r # req /\ r \in requests
        BY <1>5
      <3> QED BY <1>8, <2>1, <3>1, TicketIs
    <2>2. ASSUME NEW d \in Clients, Holds(client[d], s)', t = <<"held", d>>
          PROVE  t # asked /\ (t \in Tickets(s) \/ (t = held /\ Starts(req, s)))
      <3>1. CASE d = c
        <4>1. Holds(g, s)
          BY <1>5, <2>2, <3>1 DEF Holds, AnsweredOK
        <4> QED BY <1>6, <1>8, <2>2, <3>1, <4>1
      <3>2. CASE d # c
        <4>1. Holds(client[d], s)
          BY <1>5, <2>2, <3>2 DEF Holds, AnsweredOK
        <4>2. t \in Tickets(s)
          BY <2>2, <4>1, TicketIs
        <4> QED BY <1>8, <2>2, <4>2
      <3> QED BY <3>1, <3>2
    <2>3. ASSUME NEW key, Pending(key, s)', t = <<"stored", key>>
          PROVE  t # asked /\ t \in Tickets(s)
      <3>1. Pending(key, s)
        BY <1>5, <2>3 DEF Pending
      <3> QED BY <1>8, <2>3, <3>1, TicketIs
    <2> QED BY <2>1, <2>2, <2>3, TicketWas
  <1>10. CASE Starts(req, s)
    <2>1. asked \in Tickets(s)
      BY <1>8, <1>10, TicketIs
    <2>2. Tickets(s)' \subseteq (Tickets(s) \ {asked}) \cup {held}
      BY <1>9
    <2> QED BY <1>5, <1>7, <2>1, <2>2 DEF Kept, TicketMoves
  <1>11. CASE ~Starts(req, s)
    BY <1>5, <1>7, <1>9, <1>11 DEF Kept, NoNewTicket
  <1> QED BY <1>10, <1>11

(* What the repositories make of the tickets.                              *)
(* One call goes on, for the same step of the same request.                *)
OneCall(c) ==
    /\ \A d \in Clients : d # c => client'[d] = client[d]
    /\ client'[c].step = client[c].step /\ client'[c].req = client[c].req

(* Whatever a call becomes.                                                *)
LEMMA CallRewritten ==
    ASSUME IInv, NEW c \in Clients, NEW f, f = client[c], NEW r, Rewritten(c, f, r)
    PROVE  OneCall(c) /\ client'[c].repo = r
  <1>1. IsFrame(f) /\ DOMAIN client = Clients
    BY Serving DEF FrameOK, IsFrame, IInv
  <1>2. PICK g : g = [f EXCEPT !.repo = r]
    OBVIOUS
  <1>3. client' = [client EXCEPT ![c] = g]
    BY <1>2 DEF Rewritten
  <1>4. g.step = f.step /\ g.req = f.req /\ g.repo = r
    BY <1>1, <1>2 DEF IsFrame
  <1> QED BY <1>1, <1>3, <1>4 DEF OneCall

LEMMA CallBecomes ==
    ASSUME IInv, NEW c \in Clients, NEW r, client' = [client EXCEPT ![c].repo = r]
    PROVE  OneCall(c) /\ client'[c].repo = r
  <1>1. PICK f : f = client[c]
    OBVIOUS
  <1>2. Rewritten(c, f, r)
    BY <1>1 DEF Rewritten
  <1> QED BY <1>1, <1>2, CallRewritten

LEMMA CallAnswered ==
    ASSUME IInv, NEW c \in Clients, NEW answer, answer # "ok", Answer(c, answer)
    PROVE  OneCall(c) /\ ~AnsweredOK(client'[c])
  <1>1. PICK r : r = [NoCall EXCEPT !.at = "answered", !.reply.status = answer]
    OBVIOUS
  <1>2. r.reply.status = answer
    BY <1>1 DEF NoCall, NoReply
  <1>3. client' = [client EXCEPT ![c].repo = r]
    BY <1>1 DEF Answer
  <1> QED BY <1>2, <1>3, CallBecomes DEF AnsweredOK

LEMMA CallAnsweredWith ==
    ASSUME IInv, NEW c \in Clients, NEW id, NEW record, AnswerWith(c, id, record)
    PROVE  OneCall(c) /\ AnsweredOK(client'[c])
  <1>1. PICK r : r = [NoCall EXCEPT !.at = "answered",
                                    !.reply = [status |-> "ok", id |-> id, record |-> record]]
    OBVIOUS
  <1>2. r.at = "answered" /\ r.reply.status = "ok"
    BY <1>1 DEF NoCall
  <1>3. client' = [client EXCEPT ![c].repo = r]
    BY <1>1 DEF AnswerWith
  <1> QED BY <1>2, <1>3, CallBecomes DEF AnsweredOK

LEMMA CallRetried ==
    ASSUME IInv, NEW c \in Clients, Retry(c), client[c].repo.start # "answered"
    PROVE  OneCall(c) /\ ~AnsweredOK(client'[c])
  <1>1. PICK repo : repo = client[c].repo
    OBVIOUS
  <1>2. CASE Answer(c, "threw")
    BY <1>2, CallAnswered
  <1>3. CASE client' = [client EXCEPT ![c].repo =
                [NoCall EXCEPT !.call = repo.call, !.start = repo.start, !.at = repo.start,
                               !.round = repo.round + 1]]
    <2>1. PICK r : r = [NoCall EXCEPT !.call = repo.call, !.start = repo.start,
                                      !.at = repo.start, !.round = repo.round + 1]
      OBVIOUS
    <2>2. r.at = repo.start
      BY <2>1 DEF NoCall
    <2>3. PICK f : f = client[c]
      OBVIOUS
    <2>4. Rewritten(c, f, r)
      BY <1>3, <2>1, <2>3 DEF Rewritten
    <2> QED BY <1>1, <2>2, <2>3, <2>4, CallRewritten DEF AnsweredOK
  <1> QED BY <1>1, <1>2, <1>3 DEF Retry

(* A call at its next place ...                                            *)
LEMMA CallMoves ==
    ASSUME IInv, NEW c \in Clients, NEW at, at # "answered", Goto(c, at)
    PROVE  OneCall(c) /\ ~AnsweredOK(client'[c])
  <1>1. PICK f : f = client[c]
    OBVIOUS
  <1>2. PICK r : Moved(r, f, at) /\ Rewritten(c, f, r)
    BY <1>1, Goes
  <1> QED BY <1>1, <1>2, CallRewritten DEF Moved, AnsweredOK

(* ... with what it has read ...                                           *)
LEMMA CallReads ==
    ASSUME IInv, NEW c \in Clients, NEW at, at # "answered", NEW entry,
           client' = [client EXCEPT ![c].repo.at = at, ![c].repo.entry = entry]
    PROVE  OneCall(c) /\ ~AnsweredOK(client'[c])
  <1>1. PICK f : f = client[c]
    OBVIOUS
  <1>2. /\ IsFrame(f) /\ DOMAIN client = Clients
        /\ DOMAIN f.repo = {"at", "call", "start", "round", "entry", "index", "reply"}
    BY <1>1, Serving DEF FrameOK, CallOK, IsFrame, IInv
  <1>3. PICK r : r = [f.repo EXCEPT !.at = at, !.entry = entry]
    OBVIOUS
  <1>4. r.at = at
    BY <1>2, <1>3
  <1>5. Rewritten(c, f, r)
    BY <1>1, <1>2, <1>3 DEF Rewritten, IsFrame
  <1> QED BY <1>1, <1>4, <1>5, CallRewritten DEF AnsweredOK

LEMMA CallReadsIndex ==
    ASSUME IInv, NEW c \in Clients, NEW at, NEW index,
           client' = [client EXCEPT ![c].repo.at = at, ![c].repo.index = index]
    PROVE  OneCall(c)
  <1>1. PICK f : f = client[c]
    OBVIOUS
  <1>2. /\ IsFrame(f) /\ DOMAIN client = Clients
        /\ DOMAIN f.repo = {"at", "call", "start", "round", "entry", "index", "reply"}
    BY <1>1, Serving DEF FrameOK, CallOK, IsFrame, IInv
  <1>3. PICK r : r = [f.repo EXCEPT !.at = at, !.index = index]
    OBVIOUS
  <1>4. Rewritten(c, f, r)
    BY <1>1, <1>2, <1>3 DEF Rewritten, IsFrame
  <1> QED BY <1>1, <1>4, CallRewritten

(* ... or in another round.                                                *)
LEMMA CallResolves ==
    ASSUME IInv, NEW c \in Clients, NEW entry, NEW round, Existing(c, entry, round)
    PROVE  OneCall(c)
  <1>1. PICK f : f = client[c]
    OBVIOUS
  <1>2. /\ IsFrame(f) /\ DOMAIN client = Clients
        /\ DOMAIN f.repo = {"at", "call", "start", "round", "entry", "index", "reply"}
    BY <1>1, Serving DEF FrameOK, CallOK, IsFrame, IInv
  <1>3. PICK r : r = [f.repo EXCEPT !.at = "read user", !.entry = entry, !.round = round]
    OBVIOUS
  <1>4. Rewritten(c, f, r)
    BY <1>1, <1>2, <1>3 DEF Rewritten, IsFrame, Existing
  <1> QED BY <1>1, <1>4, CallRewritten

LEMMA CallDraws ==
    ASSUME IInv, NEW c \in Clients, NEW round, DrawUser(c, round)
    PROVE  OneCall(c)
  <1>1. PICK f : f = client[c]
    OBVIOUS
  <1>2. /\ IsFrame(f) /\ DOMAIN client = Clients
        /\ DOMAIN f.repo = {"at", "call", "start", "round", "entry", "index", "reply"}
    BY <1>1, Serving DEF FrameOK, CallOK, IsFrame, IInv
  <1>3. ASSUME NEW user,
               client' = [client EXCEPT ![c].repo.at = "read new user", ![c].repo.index = user,
                                        ![c].repo.round = round]
        PROVE  OneCall(c)
    <2>1. PICK r : r = [f.repo EXCEPT !.at = "read new user", !.index = user, !.round = round]
      OBVIOUS
    <2>2. Rewritten(c, f, r)
      BY <1>1, <1>2, <1>3, <2>1 DEF Rewritten, IsFrame
    <2> QED BY <1>1, <2>2, CallRewritten
  <1>4. CASE Answer(c, "threw")
    BY <1>4, CallAnswered
  <1> QED BY <1>3, <1>4 DEF DrawUser

(* A call that goes on hands no ticket on unless it answers that an        *)
(* attempt was consumed.                                                   *)
LEMMA CallKeeps ==
    ASSUME IInv, NEW c \in Clients, NEW s \in States, OneCall(c),
           client[c].step \notin {"idle", "respond"}, ~AnsweredOK(client[c]),
           client[c].step = "consume" => ~AnsweredOK(client'[c]),
           UNCHANGED <<requests, exchanged>>, NoneStored(s)
    PROVE  Kept(s)
  <1>1. PICK f, g : f = client[c] /\ g = client'[c]
    OBVIOUS
  <1>2. Holds(g, s) => Holds(f, s)
    BY <1>1 DEF Holds, OneCall
  <1>3. Holds(client[c], s)' => Holds(client[c], s)
    BY <1>1, <1>2 DEF Holds, AnsweredOK
  <1>4. ServesOne(c) /\ exchanged[s]' = exchanged[s]
    BY DEF OneCall, ServesOne
  <1> QED BY <1>3, <1>4, NothingHandedOn DEF OneCall

(* Where a call is, a step of its request waits.                           *)
LEMMA Waiting ==
    ASSUME IInv, NEW c \in Clients, NEW f, f = client[c]
    PROVE  /\ f.repo.at \in FindPlaces => f.step = "find" /\ f.repo.start = "find index"
           /\ f.repo.at \in CreatePlaces => f.step = "create guest"
           /\ f.repo.at \in IdentityPlaces => f.step = "identify"
           /\ f.repo.at \in UpdatePlaces =>
                 f.step \notin {"idle", "respond"} /\ f.repo.start = "load"
           /\ f.repo.at \in FindPlaces \cup CreatePlaces \cup IdentityPlaces \cup UpdatePlaces =>
                 ~AnsweredOK(f)
  <1>1. CallOK(f, f.repo)
    BY Serving DEF FrameOK
  <1>2. f.repo.at \in FindPlaces => f.step = "find" /\ f.repo.start = "find index"
    BY <1>1 DEF CallOK
  <1>3. f.repo.at \in CreatePlaces => f.step = "create guest"
    BY <1>1 DEF CallOK, CreationAsked
  <1>4. f.repo.at \in IdentityPlaces => f.step = "identify"
    BY <1>1 DEF CallOK, IdentityOK
  <1>5. f.repo.at \in UpdatePlaces => f.step \notin {"idle", "respond"} /\ f.repo.start = "load"
    BY <1>1 DEF CallOK, UpdateOK, UpdateAsked
  <1>6. f.repo.at \in FindPlaces \cup CreatePlaces \cup IdentityPlaces \cup UpdatePlaces =>
           ~AnsweredOK(f)
    BY DEF AnsweredOK, FindPlaces, CreatePlaces, IdentityPlaces, UpdatePlaces
  <1> QED BY <1>2, <1>3, <1>4, <1>5, <1>6

(* The calls of find_by_credential_hash ...                                *)
LEMMA FindIndexCall ==
    ASSUME IInv, NEW c \in Clients, FindIndex(c)
    PROVE  OneCall(c)
  <1>1. Answer(c, "null") => OneCall(c)
    BY CallAnswered
  <1>2. ASSUME NEW index,
               client' = [client EXCEPT ![c].repo.at = "find record", ![c].repo.index = index]
        PROVE  OneCall(c)
    <2>1. PICK at : at = "find record"
      OBVIOUS
    <2>2. client' = [client EXCEPT ![c].repo.at = at, ![c].repo.index = index]
      BY <1>2, <2>1
    <2> QED BY <2>2, CallReadsIndex
  <1> QED BY <1>1, <1>2 DEF FindIndex

LEMMA FindRecordCall ==
    ASSUME IInv, NEW c \in Clients, FindRecord(c), client[c].repo.start # "answered"
    PROVE  OneCall(c)
  <1>1. Answer(c, "threw") => OneCall(c)
    BY CallAnswered
  <1>2. Goto(c, "drop index") => OneCall(c)
    BY CallMoves
  <1>3. ASSUME NEW id, AnswerWith(c, id, get(record_key(id)).val) PROVE OneCall(c)
    <2>1. PICK record : record = get(record_key(id)).val
      OBVIOUS
    <2> QED BY <1>3, <2>1, CallAnsweredWith
  <1>4. Retry(c) => OneCall(c)
    BY CallRetried
  <1> QED BY <1>1, <1>2, <1>3, <1>4 DEF FindRecord

LEMMA FindCall ==
    ASSUME IInv, NEW c \in Clients, FindIndex(c) \/ FindRecord(c) \/ DropIndex(c)
    PROVE  OneCall(c) /\ client[c].repo.at \in FindPlaces
  <1>1. client[c].repo.at \in FindPlaces
    BY DEF FindIndex, FindRecord, DropIndex, FindPlaces
  <1>2. client[c].repo.start # "answered"
    BY <1>1, Waiting
  <1>3. Answer(c, "null") => OneCall(c)
    BY CallAnswered
  <1>4. DropIndex(c) => OneCall(c)
    BY <1>3 DEF DropIndex
  <1> QED BY <1>1, <1>2, <1>4, FindIndexCall, FindRecordCall

(* ... create ...                                                          *)
LEMMA CreateCall ==
    ASSUME IInv, NEW c \in Clients, ReadNew(c) \/ CreateCommit(c)
    PROVE  OneCall(c) /\ client[c].repo.at \in CreatePlaces
  <1>1. client[c].repo.at \in CreatePlaces
    BY DEF ReadNew, CreateCommit, CreatePlaces
  <1>2. Answer(c, "taken") => OneCall(c)
    BY CallAnswered
  <1>3. Goto(c, "create") => OneCall(c)
    BY CallMoves
  <1>4. AnswerWith(c, client[c].repo.call.id, client[c].repo.call.record) => OneCall(c)
    BY CallAnsweredWith
  <1>5. ReadNew(c) => OneCall(c)
    BY <1>2, <1>3 DEF ReadNew
  <1>6. CreateCommit(c) => OneCall(c)
    BY <1>2, <1>4 DEF CreateCommit
  <1> QED BY <1>1, <1>5, <1>6

(* ... and find_or_create.                                                 *)
LEMMA IdentityCall ==
    ASSUME IInv, NEW c \in Clients, IdentityStep(c)
    PROVE  OneCall(c) /\ client[c].repo.at \in IdentityPlaces
  <1>1. client[c].repo.at \in IdentityPlaces
    BY DEF IdentityStep, ReadIdentity, ReadNewUser, ReadIdentityAgain, CreateIdentity, ReadUser,
           UpdateIdentity, RereadIdentity, IdentityPlaces
  <1>2. \A entry, round : Existing(c, entry, round) => OneCall(c)
    BY CallResolves
  <1>3. \A round : DrawUser(c, round) => OneCall(c)
    BY CallDraws
  <1>4. /\ Goto(c, "read identity again") => OneCall(c)
        /\ Goto(c, "create identity") => OneCall(c)
        /\ Goto(c, "update identity") => OneCall(c)
        /\ Goto(c, "reread identity") => OneCall(c)
    BY CallMoves
  <1>5. Answer(c, "threw") => OneCall(c)
    BY CallAnswered
  <1>6. \A id : AnswerWith(c, id, None) => OneCall(c)
    BY CallAnsweredWith
  <1>7. ReadIdentity(c) => OneCall(c)
    BY <1>2, <1>3 DEF ReadIdentity
  <1>8. ReadIdentityAgain(c) => OneCall(c)
    BY <1>2, <1>3 DEF ReadIdentityAgain
  <1>9. ReadNewUser(c) => OneCall(c)
    BY <1>4 DEF ReadNewUser
  <1>10. CreateIdentity(c) => OneCall(c)
    BY <1>4, <1>6 DEF CreateIdentity
  <1>11. ReadUser(c) => OneCall(c)
    BY <1>4, <1>5, <1>6 DEF ReadUser
  <1>12. UpdateIdentity(c) => OneCall(c)
    BY <1>4, <1>6 DEF UpdateIdentity
  <1>13. RereadIdentity(c) => OneCall(c)
    BY <1>2, <1>5 DEF RereadIdentity
  <1> QED BY <1>1, <1>7, <1>8, <1>9, <1>10, <1>11, <1>12, <1>13 DEF IdentityStep

(* Those of an update that do not commit answer nothing but refusals.      *)
Refused(c) == OneCall(c) /\ ~AnsweredOK(client'[c])

LEMMA LoadCall ==
    ASSUME IInv, NEW c \in Clients, Load(c)
    PROVE  Refused(c)
  <1>1. PICK f : f = client[c]
    OBVIOUS
  <1>2. ASSUME NEW answer \in {"stale_session", "not_guest", "state_collision", "not_found",
                               "not_authenticated", "invalid_csrf"}, Answer(c, answer)
        PROVE  Refused(c)
    BY <1>2, CallAnswered DEF Refused
  <1>3. ASSUME NEW entry, NEW at \in {"read credential", "commit"},
               client' = [client EXCEPT ![c].repo.at = at, ![c].repo.entry = entry]
        PROVE  Refused(c)
    <2>1. at # "answered"
      OBVIOUS
    <2> QED BY <1>3, <2>1, CallReads DEF Refused
  <1>4. \A record, call : Refusal(record, call) \in
           {None, "not_guest", "state_collision", "not_found", "not_authenticated", "invalid_csrf"}
    BY DEF Refusal
  <1> QED BY <1>1, <1>2, <1>3, <1>4 DEF Load

LEMMA UpdateCall ==
    ASSUME IInv, NEW c \in Clients, Load(c) \/ ReadCredential(c) \/ Recheck(c)
    PROVE  Refused(c) /\ client[c].repo.at \in UpdatePlaces
  <1>1. client[c].repo.at \in UpdatePlaces
    BY DEF Load, ReadCredential, Recheck, UpdatePlaces
  <1>2. client[c].repo.start # "answered"
    BY <1>1, Waiting
  <1>3. Goto(c, "recheck") => Refused(c)
    BY CallMoves DEF Refused
  <1>4. Goto(c, "commit") => Refused(c)
    BY CallMoves DEF Refused
  <1>5. Answer(c, "credential_collision") => Refused(c)
    BY CallAnswered DEF Refused
  <1>6. Retry(c) => Refused(c)
    BY <1>2, CallRetried DEF Refused
  <1>7. ReadCredential(c) => Refused(c)
    BY <1>3, <1>4 DEF ReadCredential
  <1>8. Recheck(c) => Refused(c)
    BY <1>5, <1>6 DEF Recheck
  <1> QED BY <1>1, <1>7, <1>8, LoadCall

(* What the repositories' writes make of the pending attempts: an attempt  *)
(* is pending afterwards in a session written with it, or where it was.    *)
LEMMA WrittenPending ==
    ASSUME NEW written, NEW removed, Write(written, removed), NEW key, NEW s, Pending(key, s)'
    PROVE  \/ key \in DOMAIN written /\ HasState(written[key].attempts, s)
           \/ key \notin DOMAIN written /\ Pending(key, s)
  <1>1. /\ DOMAIN kv' = DOMAIN written \cup (DOMAIN kv \ removed)
        /\ \A k \in DOMAIN kv' : kv'[k] = IF k \in DOMAIN written
                             THEN [vs |-> clock + 1, val |-> written[k]] ELSE kv[k]
    BY WriteLeaves
  <1>2. key \in DOMAIN kv' /\ key[1] = "session" /\ HasState(kv'[key].val.attempts, s)
    BY DEF Pending, HasState
  <1>3. CASE key \in DOMAIN written
    <2>1. kv'[key] = [vs |-> clock + 1, val |-> written[key]]
      BY <1>1, <1>2, <1>3
    <2>2. kv'[key].val = written[key]
      BY <2>1
    <2> QED BY <1>2, <1>3, <2>2
  <1>4. CASE key \notin DOMAIN written
    BY <1>1, <1>2, <1>4 DEF Pending
  <1> QED BY <1>3, <1>4

LEMMA NoneWritten ==
    ASSUME NEW s, UNCHANGED kv \/ \E families : WritesOnly(families) /\ "session" \notin families
    PROVE  NoneStored(s)
  <1>1. CASE UNCHANGED kv
    BY <1>1 DEF NoneStored, Pending
  <1>2. ASSUME NEW families, WritesOnly(families), "session" \notin families
        PROVE  NoneStored(s)
    <2>1. ASSUME NEW key, Pending(key, s)' PROVE Pending(key, s)
      <3>1. key \in DOMAIN kv' /\ key[1] = "session" /\ HasState(kv'[key].val.attempts, s)
        BY <2>1 DEF Pending, HasState
      <3>2. key \in DOMAIN kv /\ kv'[key] = kv[key]
        BY <1>2, <3>1, FamiliesKept
      <3> QED BY <3>1, <3>2 DEF Pending
    <2> QED BY <2>1 DEF NoneStored
  <1> QED BY <1>1, <1>2

(* A new session has no attempts.                                          *)
LEMMA NoneCreated ==
    ASSUME IInv, NEW c \in Clients, CreateCommit(c), NEW s
    PROVE  NoneStored(s)
  <1>1. PICK f, id, record : f = client[c] /\ id = f.repo.call.id /\ record = f.repo.call.record
    OBVIOUS
  <1>2. PICK entries : entries = SessionEntries(id, record)
    OBVIOUS
  <1>3. IsSessionEntries(entries, id, record)
    BY <1>2, TwoEntries
  <1>4. CallOK(f, f.repo) /\ f.repo.at = "create"
    BY <1>1, Serving DEF FrameOK, CreateCommit
  <1>5. record.attempts = <<>>
    BY <1>1, <1>4 DEF CallOK, CreatePlaces, CreationAsked
  <1>6. CASE UNCHANGED kv
    BY <1>6, NoneWritten
  <1>7. CASE Write(entries, {})
    <2>1. ASSUME NEW key, Pending(key, s)' PROVE Pending(key, s)
      <3>1. ~HasState(<<>>, s)
        BY DEF HasState
      <3>2. CASE key \in DOMAIN entries /\ HasState(entries[key].attempts, s)
        <4>1. key[1] = "session"
          BY <2>1 DEF Pending
        <4>2. entries[key] = record
          BY <1>3, <3>2, <4>1 DEF IsSessionEntries
        <4> QED BY <1>5, <3>1, <3>2, <4>2
      <3> QED BY <1>7, <2>1, <3>2, WrittenPending
    <2> QED BY <2>1 DEF NoneStored
  <1> QED BY <1>1, <1>2, <1>6, <1>7 DEF CreateCommit

(* Every call but a commit only reads, or writes no attempts.              *)
LEMMA CallsKeep ==
    ASSUME IInv, NEW c \in Clients, NEW s \in States, UNCHANGED <<requests, exchanged>>,
           \/ FindIndex(c) \/ FindRecord(c) \/ DropIndex(c) \/ ReadNew(c) \/ CreateCommit(c)
           \/ Load(c) \/ ReadCredential(c) \/ Recheck(c) \/ IdentityStep(c)
    PROVE  Kept(s)
  <1>1. NoneStored(s)
    <2>1. CASE \/ FindIndex(c) \/ FindRecord(c) \/ ReadNew(c) \/ Load(c) \/ ReadCredential(c)
               \/ Recheck(c)
      <3>1. UNCHANGED kv
        BY <2>1 DEF FindIndex, FindRecord, ReadNew, Load, ReadCredential, Recheck, Reads
      <3> QED BY <3>1, NoneWritten
    <2>2. CASE DropIndex(c)
      <3>1. PICK families : families = {"credential"}
        OBVIOUS
      <3>2. "session" \notin families /\ (UNCHANGED kv \/ WritesOnly(families))
        BY <2>2, <3>1, DropIndexGrows
      <3> QED BY <3>2, NoneWritten
    <2>3. CASE IdentityStep(c)
      <3>1. PICK families : families = {"user", "identity"}
        OBVIOUS
      <3>2. "session" \notin families /\ (UNCHANGED kv \/ WritesOnly(families))
        BY <2>3, <3>1, IdentityWrites
      <3> QED BY <3>2, NoneWritten
    <2> QED BY <2>1, <2>2, <2>3, NoneCreated
  <1>2. PICK f : f = client[c]
    OBVIOUS
  <1>3. OneCall(c) /\ (f.step = "consume" => ~AnsweredOK(client'[c]))
        /\ f.step \notin {"idle", "respond"} /\ ~AnsweredOK(f)
    <2>1. CASE FindIndex(c) \/ FindRecord(c) \/ DropIndex(c)
      <3>1. OneCall(c) /\ f.repo.at \in FindPlaces
        BY <1>2, <2>1, FindCall
      <3>2. f.step = "find" /\ ~AnsweredOK(f)
        BY <1>2, <3>1, Waiting
      <3> QED BY <3>1, <3>2
    <2>2. CASE ReadNew(c) \/ CreateCommit(c)
      <3>1. OneCall(c) /\ f.repo.at \in CreatePlaces
        BY <1>2, <2>2, CreateCall
      <3>2. f.step = "create guest" /\ ~AnsweredOK(f)
        BY <1>2, <3>1, Waiting
      <3> QED BY <3>1, <3>2
    <2>3. CASE IdentityStep(c)
      <3>1. OneCall(c) /\ f.repo.at \in IdentityPlaces
        BY <1>2, <2>3, IdentityCall
      <3>2. f.step = "identify" /\ ~AnsweredOK(f)
        BY <1>2, <3>1, Waiting
      <3> QED BY <3>1, <3>2
    <2>4. CASE Load(c) \/ ReadCredential(c) \/ Recheck(c)
      <3>1. Refused(c) /\ f.repo.at \in UpdatePlaces
        BY <1>2, <2>4, UpdateCall
      <3>2. f.step \notin {"idle", "respond"} /\ ~AnsweredOK(f)
        BY <1>2, <3>1, Waiting
      <3> QED BY <3>1, <3>2 DEF Refused
    <2> QED BY <2>1, <2>2, <2>3, <2>4
  <1> QED BY <1>1, <1>2, <1>3, CallKeeps

(* The attempts that an operation leaves a session.                        *)
LEMMA OperatedAttempts ==
    ASSUME NEW f, NEW call, UpdateAsked(f, call), NEW record, StoredSession(record),
           Refusal(record, call) = None, NEW updated, updated = Updated(record, call)
    PROVE  /\ \A s : HasState(updated.attempts, s) =>
                 HasState(record.attempts, s) \/ (call.op = "save" /\ s = call.state)
           /\ call.op = "consume" => ~HasState(updated.attempts, call.state)
  <1>1. CASE call.op \in {"save", "consume"}
    <2>1. call.op = "save" => call.state \in States /\ call.expires \in Nat
      BY DEF UpdateAsked, AttemptAsked
    <2> QED BY <1>1, <2>1, UpdatedAttempts
  <1>2. CASE call.op = "renew"
    <2>1. PICK seen, idle :
            updated = [record EXCEPT !.last_seen = seen, !.idle_expires = idle]
      BY <1>2 DEF Updated
    <2>2. updated.attempts = record.attempts
      BY <2>1 DEF StoredSession, SessionRecord
    <2> QED BY <1>2, <2>2
  <1>3. CASE call.op \in {"upgrade", "logout", "revoke"}
    <2>1. updated.attempts = <<>>
      BY <1>3 DEF Updated, revoked_record, StoredSession, SessionRecord
    <2>2. \A s : ~HasState(<<>>, s)
      BY DEF HasState
    <2> QED BY <1>3, <2>1, <2>2
  <1> QED BY <1>1, <1>2, <1>3 DEF UpdateAsked

(* A ticket handed on by the one call that goes on: from one kind of       *)
(* holder to another.                                                      *)
LEMMA HandedOn ==
    ASSUME NEW c \in Clients, NEW s \in States, OneCall(c), UNCHANGED <<requests, exchanged>>,
           client[c].step # "idle",
           NEW t \in Tickets(s), NEW u,
           t[1] \in {"held", "stored"},
           Holds(client[c], s)' =>
               <<"held", c>> = u \/ (Holds(client[c], s) /\ <<"held", c>> # t),
           \A d \in Clients : d # c => <<"held", d>> # t,
           \A key : Pending(key, s)' =>
               <<"stored", key>> = u \/ (Pending(key, s) /\ <<"stored", key>> # t)
    PROVE  Kept(s)
  <1>1. ASSUME NEW v \in Tickets(s)' PROVE v = u \/ (v \in Tickets(s) /\ v # t)
    <2>1. ASSUME NEW req \in requests', Starts(req, s), v = <<"asked", req>>
          PROVE  v \in Tickets(s) /\ v # t
      <3>1. v[1] = "asked" /\ req \in requests
        BY <2>1
      <3> QED BY <2>1, <3>1, TicketIs
    <2>2. ASSUME NEW d \in Clients, Holds(client[d], s)', v = <<"held", d>>
          PROVE  v = u \/ (v \in Tickets(s) /\ v # t)
      <3>1. CASE d = c
        <4>1. v = u \/ (Holds(client[c], s) /\ v # t)
          BY <2>2, <3>1
        <4> QED BY <2>2, <3>1, <4>1, TicketIs
      <3>2. CASE d # c
        <4>1. Holds(client[d], s)
          BY <2>2, <3>2 DEF OneCall, Holds, AnsweredOK
        <4> QED BY <2>2, <3>2, <4>1, TicketIs
      <3> QED BY <3>1, <3>2
    <2>3. ASSUME NEW key, Pending(key, s)', v = <<"stored", key>>
          PROVE  v = u \/ (v \in Tickets(s) /\ v # t)
      <3>1. v = u \/ (Pending(key, s) /\ v # t)
        BY <2>3
      <3> QED BY <2>3, <3>1, TicketIs
    <2> QED BY <2>1, <2>2, <2>3, TicketWas
  <1>2. Tickets(s)' \subseteq (Tickets(s) \ {t}) \cup {u}
    BY <1>1
  <1>3. Returning(s)' => Returning(s)
    BY DEF Returning, Returns, OneCall
  <1> QED BY <1>2, <1>3 DEF Kept, TicketMoves

(* What a commit found and leaves of the attempts of one session.          *)
Commits(c, own, updated) ==
    /\ OneCall(c)
    /\ own \in DOMAIN kv /\ own[1] = "session" /\ kv[own] = client[c].repo.entry
    /\ \A key, s : Pending(key, s)' =>
          Pending(key, s) \/ (key = own /\ HasState(updated.attempts, s))
    /\ \A s : Pending(own, s)' => HasState(updated.attempts, s)
    /\ AnsweredOK(client'[c]) <=> ~Missed(client[c].repo.entry.val, client[c].repo.call)

(* A commit that does not store starts again.                              *)
LEMMA CommitsOrRetries ==
    ASSUME IInv, NEW c \in Clients, Commit(c), NEW f, f = client[c],
           NEW updated, updated = Updated(f.repo.entry.val, f.repo.call),
           NEW own, own = record_key(f.repo.call.id)
    PROVE  (Refused(c) /\ UNCHANGED kv) \/ Commits(c, own, updated)
  <1>1. PICK written, removed : written = Stores(f.repo, updated) /\ removed = OldCredential(f.repo)
    OBVIOUS
  <1>2. f.repo.at = "commit" /\ f.repo.at \in UpdatePlaces
    BY DEF Commit, UpdatePlaces
  <1>3. f.repo.start # "answered" /\ UpdateOK(f, f.repo)
    BY <1>2, Waiting, Serving DEF FrameOK, CallOK
  <1>4. IsCommitted(f, written, updated)
    BY <1>1, <1>2, CommitStores
  <1>5. own[1] = "session"
    BY KeysDiffer
  <1>6. Retry(c) => Refused(c)
    BY <1>3, CallRetried DEF Refused
  <1>7. ASSUME get(own).vs = f.repo.entry.vs, Write(written, removed),
               IF Missed(f.repo.entry.val, f.repo.call)
               THEN Answer(c, "not_found") ELSE AnswerWith(c, f.repo.call.id, updated)
        PROVE  Commits(c, own, updated)
    <2>1. own \in DOMAIN kv /\ kv[own] = f.repo.entry
      <3>1. Seen(f.repo.entry, own)
        BY <1>2, <1>3 DEF UpdateOK
      <3> QED BY <1>7, <3>1, CheckedSame
    <2>2. Answer(c, "not_found") => OneCall(c) /\ ~AnsweredOK(client'[c])
      BY CallAnswered
    <2>3. AnswerWith(c, f.repo.call.id, updated) => OneCall(c) /\ AnsweredOK(client'[c])
      BY CallAnsweredWith
    <2>4. /\ OneCall(c)
          /\ AnsweredOK(client'[c]) <=> ~Missed(f.repo.entry.val, f.repo.call)
      BY <1>7, <2>2, <2>3
    <2>5. ASSUME NEW key, NEW s, Pending(key, s)'
          PROVE  \/ key # own /\ Pending(key, s)
                 \/ key = own /\ HasState(updated.attempts, s)
      <3>1. key[1] = "session"
        BY <2>5 DEF Pending
      <3>2. CASE key \in DOMAIN written /\ HasState(written[key].attempts, s)
        BY <1>4, <3>1, <3>2 DEF IsCommitted
      <3>3. CASE key \notin DOMAIN written /\ Pending(key, s)
        BY <1>4, <3>3 DEF IsCommitted
      <3> QED BY <1>7, <2>5, <3>2, <3>3, WrittenPending
    <2> QED BY <1>5, <2>1, <2>4, <2>5 DEF Commits
  <1>8. ASSUME NEW others, AllCurrent(RecordCheck(f.repo) \cup others)
        PROVE  get(own).vs = f.repo.entry.vs
    <2>1. <<own, f.repo.entry.vs>> \in RecordCheck(f.repo) \cup others
      BY DEF RecordCheck
    <2> QED BY <1>8, <2>1 DEF AllCurrent
  <1> QED BY <1>1, <1>6, <1>7, <1>8 DEF Commit, Stores

(* A saved attempt hands its request's ticket to the session, a consumed   *)
(* one the session's to the callback; other commits keep tickets.          *)
LEMMA CommitKeeps ==
    ASSUME IInv, NEW c \in Clients, NEW s \in States, UNCHANGED <<requests, exchanged>>, Commit(c)
    PROVE  Kept(s)
  <1>1. PICK f, g, call : f = client[c] /\ g = client'[c] /\ call = f.repo.call
    OBVIOUS
  <1>2. PICK record, updated, own :
          /\ record = f.repo.entry.val /\ updated = Updated(record, call)
          /\ own = record_key(call.id)
    OBVIOUS
  <1>3. f.repo.at = "commit" /\ f.repo.at \in UpdatePlaces
    BY <1>1 DEF Commit, UpdatePlaces
  <1>4. f.step \notin {"idle", "respond"} /\ ~AnsweredOK(f)
    BY <1>1, <1>3, Waiting
  <1>5. UpdateOK(f, f.repo) /\ RequestOK(f)
    BY <1>1, <1>3, Serving DEF FrameOK, CallOK
  <1>6. UpdateAsked(f, call) /\ StoredSession(record) /\ Refusal(record, call) = None
    BY <1>1, <1>2, <1>3, <1>5 DEF UpdateOK
  <1>7. /\ HasState(updated.attempts, s) =>
              HasState(record.attempts, s) \/ (call.op = "save" /\ s = call.state)
        /\ call.op = "consume" => ~HasState(updated.attempts, call.state)
    BY <1>2, <1>6, OperatedAttempts
  <1>8. CASE Refused(c) /\ UNCHANGED kv
    BY <1>1, <1>4, <1>8, NoneWritten, CallKeeps DEF Refused
  <1>9. CASE Commits(c, own, updated)
    <2>1. /\ OneCall(c) /\ own[1] = "session"
          /\ own \in DOMAIN kv /\ kv[own].val = record
          /\ AnsweredOK(g) <=> ~Missed(record, call)
      BY <1>1, <1>2, <1>9 DEF Commits
    <2>2. g.step = f.step /\ g.req = f.req /\ (Holds(client[c], s)' <=> Holds(g, s))
      BY <1>1, <2>1 DEF OneCall, Holds, AnsweredOK
    <2>3. \A key : Pending(key, s)' => Pending(key, s) \/ (key = own /\ HasState(updated.attempts, s))
      BY <1>9 DEF Commits
    <2>4. HasState(record.attempts, s) => Pending(own, s)
      BY <2>1 DEF Pending
    <2>5. CASE call.op = "save" /\ s = call.state
      <3>1. f.step = "save" /\ Starts(f.req, s)
        BY <1>6, <2>5 DEF UpdateAsked, AttemptAsked
      <3>2. Holds(f, s)
        BY <1>4, <3>1 DEF Holds
      <3>3. ~Holds(g, s)
        <4>1. AnsweredOK(g)
          BY <2>1, <2>5 DEF Missed
        <4> QED BY <2>2, <3>1, <4>1 DEF Holds
      <3>4. PICK t, u : t = <<"held", c>> /\ u = <<"stored", own>>
        OBVIOUS
      <3>5. t \in Tickets(s) /\ t[1] = "held"
        BY <1>1, <3>2, <3>4, TicketIs
      <3>6. \A key : <<"stored", key>> # t
        BY <3>4
      <3>7. \A d \in Clients : d # c => <<"held", d>> # t
        BY <3>4
      <3>8. \A key : Pending(key, s)' => <<"stored", key>> = u \/ (Pending(key, s) /\ <<"stored", key>> # t)
        BY <2>3, <3>4, <3>6
      <3> QED BY <1>1, <1>4, <2>1, <2>2, <3>3, <3>5, <3>7, <3>8, HandedOn
    <2>6. CASE ~(call.op = "save" /\ s = call.state)
      <3>1. NoneStored(s)
        BY <1>7, <2>3, <2>4, <2>6 DEF NoneStored
      <3>2. CASE f.step = "consume" /\ AnsweredOK(g)
        <4>1. call.op = "consume" /\ Returns(f.req, call.state)
          BY <1>6, <3>2 DEF UpdateAsked, AttemptAsked
        <4>2. ~Missed(record, call) /\ f.req.kind = "callback" /\ f.req.state = call.state
          BY <2>1, <3>2, <4>1 DEF Returns
        <4>3. CASE s # call.state
          <5>1. Holds(g, s) => Holds(f, s)
            BY <2>2, <4>2, <4>3 DEF Holds, Starts, Returns
          <5>2. Holds(client[c], s)' => Holds(client[c], s)
            BY <1>1, <2>2, <5>1
          <5>3. ServesOne(c) /\ exchanged[s]' = exchanged[s]
            BY <2>1 DEF OneCall, ServesOne
          <5> QED BY <1>1, <1>4, <2>2, <3>1, <5>2, <5>3, NothingHandedOn
        <4>4. CASE s = call.state
          <5>1. HasState(record.attempts, s)
            <6>1. HasState(Active(record.attempts, call.time), s)
              BY <4>1, <4>2, <4>4 DEF Missed
            <6>2. StoredAttempts(record.attempts)
              BY <1>6 DEF StoredSession, SessionRecord
            <6> QED BY <6>1, <6>2, ActiveKeeps DEF KeepsAttempts
          <5>2. PICK t, u : t = <<"stored", own>> /\ u = <<"held", c>>
            OBVIOUS
          <5>3. t \in Tickets(s) /\ t[1] = "stored"
            BY <2>4, <5>1, <5>2, TicketIs
          <5>4. ~Pending(own, s)'
            BY <1>7, <1>9, <4>1, <4>4 DEF Commits
          <5>5. \A key : Pending(key, s)' => Pending(key, s) /\ key # own
            BY <3>1, <5>4 DEF NoneStored
          <5>6. \A key : Pending(key, s)' => <<"stored", key>> = u \/ (Pending(key, s) /\ <<"stored", key>> # t)
            BY <5>2, <5>5
          <5>7. \A d \in Clients : d # c => <<"held", d>> # t
            BY <5>2
          <5> QED BY <1>1, <1>4, <2>1, <5>2, <5>3, <5>6, <5>7, HandedOn
        <4> QED BY <4>3, <4>4
      <3>3. CASE ~(f.step = "consume" /\ AnsweredOK(g))
        BY <1>1, <1>4, <2>1, <3>1, <3>3, CallKeeps
      <3> QED BY <3>2, <3>3
    <2> QED BY <2>5, <2>6
  <1> QED BY <1>1, <1>2, <1>8, <1>9, CommitsOrRetries

-----------------------------------------------------------------------------
(* No state is exchanged twice.                                            *)
(* At first a state's tickets are the requests and the sessions that have  *)
(* drawn it.                                                               *)
LEMMA CountedFirst == Init => TInv
  <1> SUFFICES ASSUME Init PROVE TInv
    OBVIOUS
  <1>1. PICK first \in Scenarios :
          /\ kv = Stamped(first.entries, 1) /\ requests = first.requests /\ ticks = first.ticks
          /\ client = [c \in Clients |-> Idle] /\ exchanged = [state \in States |-> 0]
    BY DEF Init
  <1>2. ScenarioOK(first)
    BY StoredBefore
  <1>3. PICK entries : entries = first.entries
    OBVIOUS
  <1>4. /\ DOMAIN kv = DOMAIN entries
        /\ \A key \in DOMAIN kv : kv[key].val = entries[key]
    <2>1. kv = [k \in DOMAIN entries |-> [vs |-> 1, val |-> entries[k]]]
      BY <1>1, <1>3 DEF Stamped
    <2> QED BY <2>1
  <1>5. \A c \in Clients : client[c].step = "idle"
    BY <1>1 DEF Idle
  <1>6. Counted
    <2>1. requests \subseteq UNION {s.requests : s \in Scenarios}
      BY <1>1
    <2>2. ticks \in Nat /\ exchanged \in [States -> Nat]
      BY <1>1, <1>2 DEF ScenarioOK
    <2> QED BY <2>1, <2>2 DEF Counted
  <1>7. ASSUME NEW s \in States PROVE OneTicket(s)
    <2>1. Tickets(s) \subseteq Drawn(requests, entries, s)
      <3>1. ASSUME NEW t \in Tickets(s) PROVE t \in Drawn(requests, entries, s)
        <4>1. CASE \E req \in requests : Starts(req, s) /\ t = <<"asked", req>>
          BY <4>1 DEF Drawn
        <4>2. CASE \E c \in Clients : Holds(client[c], s) /\ t = <<"held", c>>
          BY <1>5, <4>2 DEF Holds
        <4>3. CASE \E key : Pending(key, s) /\ t = <<"stored", key>>
          <5>1. PICK key : Pending(key, s) /\ t = <<"stored", key>>
            BY <4>3
          <5>2. key \in DOMAIN entries /\ key[1] = "session" /\ HasState(entries[key].attempts, s)
            BY <1>4, <5>1 DEF Pending
          <5> QED BY <5>1, <5>2 DEF Drawn
        <4> QED BY <4>1, <4>2, <4>3, TicketIs
      <3> QED BY <3>1
    <2>2. Returning(s) => \E req \in first.requests : Returns(req, s)
      BY <1>1, <1>5 DEF Returning
    <2>3. Returning(s) => \A t, u \in Drawn(requests, entries, s) : t = u
      BY <1>1, <1>2, <1>3, <2>2 DEF ScenarioOK
    <2>4. exchanged[s] = 0
      BY <1>1
    <2> QED BY <2>1, <2>3, <2>4 DEF OneTicket
  <1> QED BY <1>6, <1>7 DEF TInv

(* What Counted says holds by each assignment.                             *)
LEMMA CountedStays ==
    ASSUME Counted, [Next]_vars
    PROVE  Counted'
  <1> DEFINE Fewer == requests' \subseteq requests /\ UNCHANGED <<ticks, exchanged>>
  <1>1. Fewer => Counted'
    BY DEF Counted
  <1>2. ASSUME NEW c \in Clients, NEW req \in requests, Receive(c, req) PROVE Fewer
    BY <1>2 DEF Receive
  <1>3. ASSUME NEW c \in Clients, Repositories(c) PROVE Fewer
    BY <1>3 DEF Repositories
  <1>4. ASSUME NEW c \in Clients,
               \/ Found(c) \/ Revoked(c) \/ Renewed(c) \/ GuestCreated(c)
               \/ Begin(c) \/ Saved(c) \/ ExpiredRevoked(c)
               \/ Consumed(c) \/ Identified(c) \/ Upgraded(c) \/ LoggedOut(c)
        PROVE  Fewer
    BY <1>4 DEF Found, Revoked, Renewed, GuestCreated, Begin, Saved, ExpiredRevoked, Consumed,
                Identified, Upgraded, LoggedOut, ServiceOnly
  <1>5. ASSUME NEW c \in Clients, Receipt(c) \/ Crash(c) PROVE Fewer
    BY <1>5 DEF Receipt, Crash
  <1>6. ASSUME NEW c \in Clients, Exchange(c) PROVE Counted'
    <2>1. PICK state : exchanged' = [exchanged EXCEPT ![state] = exchanged[state] + 1]
      BY <1>6 DEF Exchange
    <2>2. \A s \in States : exchanged[s] \in Nat /\ exchanged[s] + 1 \in Nat
      BY DEF Counted
    <2>3. exchanged' \in [States -> Nat]
      BY <2>1, <2>2 DEF Counted
    <2> QED BY <1>6, <2>3 DEF Exchange, Counted
  <1>7. Tick => Counted'
    BY DEF Tick, Counted
  <1>8. UNCHANGED vars => Fewer
    BY DEF vars
  <1> HIDE DEF Fewer
  <1>9. CASE Expire /\ UNCHANGED <<requests, ticks, pool, cookie, exchanged>>
    BY <1>1, <1>9 DEF Fewer
  <1> QED BY <1>1, <1>2, <1>3, <1>4, <1>5, <1>6, <1>7, <1>8, <1>9 DEF Next

(* An entry that expires takes its attempts with it.                       *)
LEMMA ExpireKeeps ==
    ASSUME Expire, UNCHANGED <<requests, exchanged>>, NEW s \in States
    PROVE  Kept(s)
  <1>1. PICK gone : kv' = [k \in DOMAIN kv \ {gone} |-> kv[k]]
    BY DEF Expire
  <1>2. NoneStored(s)
    BY <1>1 DEF NoneStored, Pending
  <1> QED BY <1>2, NothingServed DEF Expire

(* Every step keeps the tickets of a state in order.                       *)
LEMMA TicketsStay ==
    ASSUME IInv, Counted, [Next]_vars, NEW s \in States
    PROVE  (Kept(s) \/ TicketSpent(s)) /\ (Returning(s)' => Returning(s))
  <1>1. ASSUME NEW c \in Clients, NEW req \in requests, Receive(c, req) PROVE Kept(s)
    BY <1>1, ReceiveKeeps
  <1>2. ASSUME NEW c \in Clients, Repositories(c) PROVE Kept(s)
    <2>1. UNCHANGED <<requests, exchanged>>
      BY <1>2 DEF Repositories
    <2> QED BY <1>2, <2>1, CallsKeep, CommitKeeps DEF Repositories, RepositoryStep
  <1>3. ASSUME NEW c \in Clients,
               \/ Found(c) \/ Revoked(c) \/ Renewed(c) \/ GuestCreated(c)
               \/ Begin(c) \/ ExpiredRevoked(c) \/ Identified(c) \/ Upgraded(c) \/ LoggedOut(c)
        PROVE  Kept(s)
    BY <1>3, HandlersKeep
  <1>4. ASSUME NEW c \in Clients, Saved(c) \/ Consumed(c) \/ Receipt(c) \/ Crash(c) PROVE Kept(s)
    BY <1>4, SavedKeeps, ConsumedKeeps, EndedKeeps
  <1>5. ASSUME NEW c \in Clients, Exchange(c)
        PROVE  (Kept(s) \/ TicketSpent(s)) /\ (Returning(s)' => Returning(s))
    BY <1>5, ExchangeSpends
  <1>6. ASSUME Expire, UNCHANGED <<requests, exchanged>> PROVE Kept(s)
    BY <1>6, ExpireKeeps
  <1>7. ASSUME UNCHANGED <<kv, client, requests, exchanged>> PROVE Kept(s)
    <2>1. NoneStored(s)
      BY <1>7, NoneWritten
    <2> QED BY <1>7, <2>1, NothingServed
  <1>8. Tick \/ UNCHANGED vars => Kept(s)
    BY <1>7 DEF Tick, vars
  <1>9. Kept(s) => (Returning(s)' => Returning(s))
    BY DEF Kept
  <1> QED BY <1>1, <1>2, <1>3, <1>4, <1>5, <1>6, <1>8, <1>9 DEF Next

(* A sign-in's code is exchanged once at most, however callbacks are       *)
(* replayed, overlap, fail or are cut short, and no session holds more     *)
(* pending attempts than its bound.                                        *)
THEOREM CodesAreExchangedOnce == Spec => []OneExchangePerAttempt
  <1>1. ASSUME IInv, Counted, TInv, [Next]_vars PROVE TInv'
    <2>1. ASSUME NEW s \in States PROVE OneTicket(s)'
      <3>1. OneTicket(s) /\ exchanged[s] \in Nat
        BY <1>1 DEF TInv, Counted
      <3> QED BY <1>1, <3>1, TicketsStay, TicketKept
    <2> QED BY <1>1, <2>1, CountedStays DEF TInv
  <1>2. TInv => Counted
    BY DEF TInv
  <1>3. ASSUME IInv, TInv PROVE OneExchangePerAttempt
    <2>1. ASSUME NEW id \in Credentials, Sessions[id] # None
          PROVE  /\ Sessions[id].kind \in {"guest", "authenticated"}
                 /\ Sessions[id].version \in Nat \ {0}
                 /\ Sessions[id].credential \in Credentials
                 /\ Sessions[id].user_id \in UserIds \cup {None}
                 /\ Len(Sessions[id].attempts) <= max_pending_attempts
      <3>1. PICK key : key = record_key(id)
        OBVIOUS
      <3>2. Sessions[id] = get(key).val
        BY <3>1 DEF Sessions
      <3>3. key \in DOMAIN kv
        BY <2>1, <3>2 DEF get, Absent
      <3>4. key[1] = "session" /\ Sessions[id] = kv[key].val
        BY <3>1, <3>2, <3>3, KeysDiffer DEF get
      <3>5. StoredSession(Sessions[id])
        BY <1>3, <3>3, <3>4 DEF IInv, EntriesOK, StoredAt
      <3> QED BY <3>5 DEF StoredSession, SessionRecord, StoredAttempts, Attempt
    <2>2. TypeOK
      BY <1>3, <2>1 DEF TypeOK, TInv, Counted, IInv, EntriesOK, BrowserOK, Bearer
    <2> QED BY <1>3, <2>2 DEF OneExchangePerAttempt, TInv, OneTicket
  <1>4. Init => TInv
    BY CountedFirst
  <1>5. IInv /\ TInv /\ [Next]_vars => TInv'
    BY <1>1, <1>2
  <1>6. IInv /\ TInv => OneExchangePerAttempt
    BY <1>3
  <1> QED BY <1>4, <1>5, <1>6, SignInInvariant, PTL DEF Spec
-----------------------------------------------------------------------------
(* A commit is the operation of the in-memory repository that was asked    *)
(* for, on the sessions stored then.                                       *)

(* What the in-memory repository makes of a record, in the terms of KV's.  *)
LEMMA OperatorsAgree ==
    /\ \A record, call : Abstract!StaleVersion(record, call) <=> StaleVersion(record, call)
    /\ \A record, call : Abstract!Refusal(record, call) = Refusal(record, call)
    /\ \A record, call : Abstract!Updated(record, call) = Updated(record, call)
  <1>1. \A record, call : Abstract!StaleVersion(record, call) <=> StaleVersion(record, call)
    BY DEF Abstract!StaleVersion, StaleVersion
  <1>2. \A attempts, positions : Abstract!Filtered(attempts, positions) = Filtered(attempts, positions)
    BY DEF Abstract!Filtered, Filtered, Abstract!Cardinality, Cardinality
  <1>3. \A attempts, at : Abstract!Active(attempts, at) = Active(attempts, at)
    BY <1>2 DEF Abstract!Active, Active
  <1>4. \A attempts, state : Abstract!HasState(attempts, state) <=> HasState(attempts, state)
    BY DEF Abstract!HasState, HasState
  <1>5. \A attempts, state : Abstract!Consume(attempts, state) = Consume(attempts, state)
    BY <1>2 DEF Abstract!Consume, Consume
  <1>6. \A attempts : Abstract!Retained(attempts) = Retained(attempts)
    BY DEF Abstract!Retained, Retained
  <1>7. \A record, call : Abstract!Pruned(record, call) <=> Pruned(record, call)
    BY <1>3 DEF Abstract!Pruned, Pruned
  <1>8. \A record, call : Abstract!Refusal(record, call) = Refusal(record, call)
    BY <1>3, <1>4, <1>7 DEF Abstract!Refusal, Refusal
  <1>9. \A left, right : Abstract!later(left, right) = later(left, right)
    BY DEF Abstract!later, later
  <1>10. \A record : Abstract!revoked_record(record) = revoked_record(record)
    BY DEF Abstract!revoked_record, revoked_record
  <1>11. \A record, call : Abstract!Updated(record, call) = Updated(record, call)
    BY <1>3, <1>5, <1>6, <1>9, <1>10 DEF Abstract!Updated, Updated
  <1> QED BY <1>1, <1>8, <1>11

(* Different bearers have different index entries.                         *)
LEMMA BearerKeys ==
    /\ \A g, h : credential_key(g) = credential_key(h) => g = h
    /\ \A g, h : credential_key(g) # record_key(h)
  BY DEF credential_key, record_key

(* What a write makes of the sessions and of the bearers.                  *)
LEMMA ViewsWritten ==
    ASSUME NEW written, NEW removed, Write(written, removed)
    PROVE  /\ \A id \in Credentials : Sessions'[id] =
                 IF record_key(id) \in DOMAIN written THEN written[record_key(id)]
                 ELSE IF record_key(id) \in removed THEN None ELSE Sessions[id]
           /\ \A h \in Credentials : Bearers'[h] =
                 IF credential_key(h) \in DOMAIN written
                 THEN written[credential_key(h)].session_id
                 ELSE IF credential_key(h) \in removed THEN None ELSE Bearers[h]
  <1>1. /\ DOMAIN kv' = DOMAIN written \cup (DOMAIN kv \ removed)
        /\ \A key \in DOMAIN kv' : kv'[key] = IF key \in DOMAIN written
                             THEN [vs |-> clock + 1, val |-> written[key]] ELSE kv[key]
    BY WriteLeaves
  <1>2. ASSUME NEW key \in DOMAIN written
        PROVE  key \in DOMAIN kv' /\ kv'[key].val = written[key]
    <2>1. kv'[key] = [vs |-> clock + 1, val |-> written[key]]
      BY <1>1
    <2> QED BY <1>1, <2>1
  <1>3. Absent.val = None
    BY DEF Absent
  <1>4. ASSUME NEW key
        PROVE  get(key)'.val = IF key \in DOMAIN written THEN written[key]
                               ELSE IF key \in removed THEN None ELSE get(key).val
    BY <1>1, <1>2, <1>3 DEF get
  <1>5. ASSUME NEW id \in Credentials
        PROVE  Sessions'[id] =
                 IF record_key(id) \in DOMAIN written THEN written[record_key(id)]
                 ELSE IF record_key(id) \in removed THEN None ELSE Sessions[id]
    <2>1. PICK key : key = record_key(id)
      OBVIOUS
    <2>2. Sessions[id] = get(key).val /\ Sessions'[id] = get(key)'.val
      BY <2>1 DEF Sessions, record_key
    <2> QED BY <1>4, <2>1, <2>2
  <1>6. ASSUME NEW h \in Credentials
        PROVE  Bearers'[h] =
                 IF credential_key(h) \in DOMAIN written
                 THEN written[credential_key(h)].session_id
                 ELSE IF credential_key(h) \in removed THEN None ELSE Bearers[h]
    <2>1. PICK key : key = credential_key(h)
      OBVIOUS
    <2>2. /\ Bearers[h] = IF key \in DOMAIN kv THEN get(key).val.session_id ELSE None
          /\ Bearers'[h] = IF key \in DOMAIN kv' THEN get(key)'.val.session_id ELSE None
      BY <2>1 DEF Bearers, credential_key
    <2> QED BY <1>1, <1>4, <2>1, <2>2
  <1> QED BY <1>5, <1>6

(* A write of one session's entry.                                         *)
LEMMA OneSessionWritten ==
    ASSUME NEW written, NEW removed, Write(written, removed), NEW id \in Credentials, NEW record,
           record_key(id) \in DOMAIN written, written[record_key(id)] = record,
           \A key \in DOMAIN written : key[1] = "session" => key = record_key(id),
           \A key \in removed : key[1] = "credential"
    PROVE  Sessions' = [Sessions EXCEPT ![id] = record]
  <1>1. ASSUME NEW other \in Credentials
        PROVE  Sessions'[other] = IF other = id THEN record ELSE Sessions[other]
    <2>1. record_key(other)[1] = "session" /\ record_key(other) \notin removed
      BY KeysDiffer
    <2>2. record_key(other) \in DOMAIN written <=> other = id
      BY <2>1, KeysDiffer
    <2> QED BY <2>1, <2>2, ViewsWritten
  <1>2. /\ Sessions = [other \in Credentials |-> Sessions[other]]
        /\ Sessions' = [other \in Credentials |-> Sessions'[other]]
    BY DEF Sessions
  <1> QED BY <1>1, <1>2

(* A call that is answered is no longer what it was.                       *)
LEMMA Answering ==
    ASSUME IInv, NEW c \in Clients, client[c].repo.at # "answered",
           \/ \E status_of : Answer(c, status_of)
           \/ \E id, record : AnswerWith(c, id, record)
    PROVE  client'[c] # client[c]
  <1>1. ASSUME NEW answer, Answer(c, answer) PROVE client'[c].repo.at = "answered"
    <2>1. PICK r : r = [NoCall EXCEPT !.at = "answered", !.reply.status = answer]
      OBVIOUS
    <2>2. r.at = "answered"
      BY <2>1 DEF NoCall
    <2>3. client' = [client EXCEPT ![c].repo = r]
      BY <1>1, <2>1 DEF Answer
    <2> QED BY <2>2, <2>3, CallBecomes
  <1>2. ASSUME NEW id, NEW record, AnswerWith(c, id, record) PROVE client'[c].repo.at = "answered"
    <2>1. PICK r : r = [NoCall EXCEPT !.at = "answered",
                                      !.reply = [status |-> "ok", id |-> id, record |-> record]]
      OBVIOUS
    <2>2. r.at = "answered"
      BY <2>1 DEF NoCall
    <2>3. client' = [client EXCEPT ![c].repo = r]
      BY <1>2, <2>1 DEF AnswerWith
    <2> QED BY <2>2, <2>3, CallBecomes
  <1> QED BY <1>1, <1>2

(* The change of a step: an operation of the store, or entries that go.    *)
Unchanged == <<Sessions, Bearers>>' = <<Sessions, Bearers>>

StoreStep ==
    \/ \E c \in Clients : client'[c] # client[c] /\ RequestedOperation(client[c].repo)
    \/ Forgetting

(* A step that leaves the entries of sessions and bearers alone.           *)
LEMMA ViewsAlone ==
    ASSUME \A key : key[1] \in {"session", "credential"} =>
               /\ key \in DOMAIN kv' <=> key \in DOMAIN kv
               /\ key \in DOMAIN kv => kv'[key] = kv[key]
    PROVE  Unchanged
  <1>1. ASSUME NEW key, key[1] \in {"session", "credential"} PROVE get(key)' = get(key)
    BY <1>1 DEF get
  <1>2. ASSUME NEW id \in Credentials PROVE get(record_key(id))' = get(record_key(id))
    BY <1>1, KeysDiffer
  <1>3. ASSUME NEW h \in Credentials
        PROVE  /\ get(credential_key(h))' = get(credential_key(h))
               /\ credential_key(h) \in DOMAIN kv' <=> credential_key(h) \in DOMAIN kv
    BY <1>1, KeysDiffer
  <1>4. Sessions' = Sessions
    BY <1>2 DEF Sessions, record_key
  <1>5. Bearers' = Bearers
    BY <1>3 DEF Bearers, credential_key
  <1> QED BY <1>4, <1>5 DEF Unchanged

(* An entry that goes once it has expired.                                 *)
LEMMA EntryGoes ==
    ASSUME NEW key \in DOMAIN kv,
           DOMAIN kv' = DOMAIN kv \ {key}, \A k \in DOMAIN kv' : kv'[k] = kv[k],
           key[1] = "session" => kv[key].val.absolute_expires <= now,
           key[1] = "credential" => kv[key].val.expires <= now
    PROVE  Forgetting
  <1>1. \A k : k # key => get(k)' = get(k) /\ (k \in DOMAIN kv' <=> k \in DOMAIN kv)
    BY DEF get
  <1>2. key \notin DOMAIN kv' /\ get(key)'.val = None /\ get(key) = kv[key]
    BY DEF get, Absent
  <1>3. ASSUME NEW id \in Credentials, Sessions[id]' # Sessions[id]
        PROVE  Sessions[id]' = None /\ Sessions[id].absolute_expires <= now
    <2>1. PICK k : k = record_key(id)
      OBVIOUS
    <2>2. Sessions[id] = get(k).val /\ Sessions[id]' = get(k)'.val /\ k[1] = "session"
      BY <2>1, KeysDiffer DEF Sessions, record_key
    <2>3. k = key
      BY <1>1, <1>3, <2>2
    <2> QED BY <1>2, <2>2, <2>3
  <1>4. ASSUME NEW h \in Credentials, Bearers[h]' # Bearers[h]
        PROVE  Bearers[h]' = None /\ get(credential_key(h)).val.expires <= now
    <2>1. PICK k : k = credential_key(h)
      OBVIOUS
    <2>2. /\ Bearers[h] = IF k \in DOMAIN kv THEN get(k).val.session_id ELSE None
          /\ Bearers[h]' = IF k \in DOMAIN kv' THEN get(k)'.val.session_id ELSE None
          /\ k[1] = "credential"
      BY <2>1, KeysDiffer DEF Bearers, credential_key
    <2>3. k = key
      BY <1>1, <1>4, <2>2
    <2> QED BY <1>2, <2>1, <2>2, <2>3
  <1> QED BY <1>3, <1>4 DEF Forgetting

(* An index entry is dropped that leads nowhere: it has expired.           *)
LEMMA DropIndexForgets ==
    ASSUME IInv, NEW c \in Clients, DropIndex(c)
    PROVE  Unchanged \/ Forgetting
  <1>1. PICK repo, key : repo = client[c].repo /\ key = credential_key(repo.call.credential)
    OBVIOUS
  <1>2. /\ repo.at = "drop index" /\ Seen(repo.index, key)
        /\ repo.index.val.expires \in Nat /\ repo.index.val.expires <= now
    BY <1>1, Serving DEF DropIndex, FrameOK, CallOK, FindPlaces, FindOK
  <1>3. CASE AllCurrent({<<key, repo.index.vs>>}) /\ Write(NoEntries, {key})
    <2>1. get(key).vs = repo.index.vs
      BY <1>3 DEF AllCurrent
    <2>2. key \in DOMAIN kv /\ kv[key] = repo.index
      BY <1>2, <2>1, CheckedSame
    <2>7. PICK written, removed : written = NoEntries /\ removed = {key}
      OBVIOUS
    <2>3. written = NoEntries /\ removed = {key} /\ DOMAIN written = {}
      BY <2>7 DEF NoEntries
    <2>4. /\ DOMAIN kv' = DOMAIN written \cup (DOMAIN kv \ removed)
          /\ \A k \in DOMAIN kv' : kv'[k] = IF k \in DOMAIN written
                         THEN [vs |-> clock + 1, val |-> written[k]] ELSE kv[k]
      BY <1>3, <2>3, WriteLeaves
    <2>5. DOMAIN kv' = DOMAIN kv \ {key} /\ \A k \in DOMAIN kv' : kv'[k] = kv[k]
      BY <2>3, <2>4
    <2>6. key[1] = "credential"
      BY <1>1, KeysDiffer
    <2> QED BY <1>2, <2>2, <2>5, <2>6, EntryGoes
  <1>4. CASE UNCHANGED kv
    BY <1>4, ViewsAlone
  <1> QED BY <1>1, <1>3, <1>4 DEF DropIndex

(* An entry that Deno KV drops has expired.                                *)
LEMMA ExpireForgets ==
    ASSUME IInv, Expire
    PROVE  Forgetting
  <1>1. PICK key \in DOMAIN kv :
          /\ \/ key[1] = "session" /\ kv[key].val.absolute_expires <= now
             \/ key[1] = "credential" /\ kv[key].val.expires <= now
          /\ kv' = [k \in DOMAIN kv \ {key} |-> kv[k]]
    BY DEF Expire
  <1>2. DOMAIN kv' = DOMAIN kv \ {key} /\ \A k \in DOMAIN kv' : kv'[k] = kv[k]
    BY <1>1
  <1> QED BY <1>1, <1>2, EntryGoes

(* A session that is committed is created.                                 *)
LEMMA CreateCommitCreates ==
    ASSUME IInv, NEW c \in Clients, CreateCommit(c)
    PROVE  Unchanged \/ StoreStep
  <1>1. PICK repo, id, record : repo = client[c].repo /\ id = repo.call.id /\ record = repo.call.record
    OBVIOUS
  <1>2. repo.at = "create" /\ CreationAsked(client[c], repo.call)
    BY <1>1, Serving DEF CreateCommit, FrameOK, CallOK, CreatePlaces
  <1>3. id \in Credentials /\ record.credential \in Credentials
    BY <1>1, <1>2 DEF CreationAsked
  <1>4. PICK entries : entries = SessionEntries(id, record)
    OBVIOUS
  <1>5. IsSessionEntries(entries, id, record)
    BY <1>4, TwoEntries
  <1>6. CASE /\ AllCurrent({<<key, Absent.vs>> : key \in DOMAIN entries})
             /\ Write(entries, {}) /\ AnswerWith(c, id, record)
    <2>1. PICK own, bearer, removed :
            own = record_key(id) /\ bearer = credential_key(record.credential) /\ removed = {}
      OBVIOUS
    <2>2. /\ DOMAIN entries = {own, bearer}
          /\ entries[own] = record /\ entries[bearer] = Index(id, record)
      BY <1>5, <2>1 DEF IsSessionEntries
    <2>3. own \notin DOMAIN kv /\ bearer \notin DOMAIN kv
      BY <1>6, <2>2, AllAbsent
    <2>4. Sessions[id] = None
      BY <1>3, <2>1, <2>3 DEF Sessions, get, Absent
    <2>5. Bearers[record.credential] = None
      BY <1>3, <2>1, <2>3 DEF Bearers
    <2>6. own[1] = "session" /\ bearer[1] = "credential"
      BY <2>1, KeysDiffer
    <2>7. Write(entries, removed)
      BY <1>6, <2>1
    <2>8. Sessions' = [Sessions EXCEPT ![id] = record]
      BY <1>3, <2>1, <2>2, <2>6, <2>7, OneSessionWritten
    <2>9. Bearers' = [Bearers EXCEPT ![record.credential] = id]
      <3>1. entries[bearer].session_id = id
        BY <2>2 DEF Index
      <3>2. ASSUME NEW h \in Credentials
            PROVE  Bearers'[h] = IF h = record.credential THEN id ELSE Bearers[h]
        <4>1. credential_key(h) \in DOMAIN entries <=> h = record.credential
          BY <2>1, <2>2, BearerKeys
        <4> QED BY <2>1, <2>7, <3>1, <4>1, ViewsWritten
      <3>3. /\ Bearers = [h \in Credentials |-> Bearers[h]]
            /\ Bearers' = [h \in Credentials |-> Bearers'[h]]
        BY DEF Bearers
      <3> QED BY <3>2, <3>3
    <2>10. Abstract!create(id, record)
      BY <2>4, <2>5, <2>8, <2>9 DEF Abstract!create
    <2>11. client'[c] # client[c]
      BY <1>1, <1>2, <1>6, Answering
    <2> QED BY <1>1, <1>2, <2>10, <2>11 DEF StoreStep, RequestedOperation
  <1>7. CASE UNCHANGED kv
    BY <1>7, ViewsAlone
  <1> QED BY <1>1, <1>4, <1>6, <1>7 DEF CreateCommit

(* What a versioned commit makes of the bearers.                           *)
LEMMA CommittedBearers ==
    ASSUME NEW repo, NEW call, call = repo.call, NEW updated, NEW written, NEW removed,
           written = Stores(repo, updated), removed = OldCredential(repo),
           Write(written, removed), NEW old \in Credentials, old = repo.entry.val.credential,
           call.op = "upgrade" => updated.credential = call.credential
    PROVE  Bearers' =
              [h \in Credentials |->
                  IF call.op = "upgrade" /\ h = call.credential THEN call.id
                  ELSE IF call.op \in {"upgrade", "logout", "revoke"} /\ h = old THEN None
                  ELSE Bearers[h]]
  <1>1. ASSUME NEW h \in Credentials
        PROVE  Bearers'[h] =
                  IF call.op = "upgrade" /\ h = call.credential THEN call.id
                  ELSE IF call.op \in {"upgrade", "logout", "revoke"} /\ h = old THEN None
                  ELSE Bearers[h]
    <2>1. PICK key : key = credential_key(h)
      OBVIOUS
    <2>2. Bearers'[h] = IF key \in DOMAIN written THEN written[key].session_id
                        ELSE IF key \in removed THEN None ELSE Bearers[h]
      BY <2>1, ViewsWritten
    <2>3. key \in removed <=> call.op \in {"upgrade", "logout", "revoke"} /\ h = old
      BY <2>1, BearerKeys DEF OldCredential
    <2>4. CASE call.op = "upgrade"
      <3>1. IsSessionEntries(written, call.id, updated)
        BY <2>4, TwoEntries DEF Stores
      <3>2. key \in DOMAIN written <=> h = call.credential
        BY <2>1, <2>4, <3>1, BearerKeys DEF IsSessionEntries
      <3>3. h = call.credential => written[key] = Index(call.id, updated)
        BY <2>1, <2>4, <3>1 DEF IsSessionEntries
      <3>4. h = call.credential => written[key].session_id = call.id
        BY <3>3 DEF Index
      <3> QED BY <2>2, <2>3, <2>4, <3>2, <3>4
    <2>5. CASE call.op # "upgrade"
      <3>1. DOMAIN written = {record_key(call.id)}
        BY <2>5 DEF Stores, Single
      <3>2. key \notin DOMAIN written
        BY <2>1, <3>1, BearerKeys
      <3> QED BY <2>2, <2>3, <2>5, <3>2
    <2> QED BY <2>4, <2>5
  <1>2. Bearers' = [h \in Credentials |-> Bearers'[h]]
    BY DEF Bearers
  <1> QED BY <1>1, <1>2

(* A versioned commit is the operation that was called.                    *)
LEMMA CommitOperates ==
    ASSUME IInv, NEW c \in Clients, Commit(c)
    PROVE  Unchanged \/ StoreStep
  <1>1. PICK f, repo, call : f = client[c] /\ repo = f.repo /\ call = repo.call
    OBVIOUS
  <1>2. PICK record, updated : record = repo.entry.val /\ updated = Updated(record, call)
    OBVIOUS
  <1>3. PICK written, removed, own :
          /\ written = Stores(repo, updated) /\ removed = OldCredential(repo)
          /\ own = record_key(call.id)
    OBVIOUS
  <1>4. repo.at = "commit" /\ UpdateOK(f, repo)
    BY <1>1, Serving DEF Commit, FrameOK, CallOK, UpdatePlaces
  <1>5. /\ Seen(repo.entry, own) /\ StoredSession(record) /\ call.id \in Credentials
        /\ ~StaleVersion(record, call) /\ Refusal(record, call) = None /\ UpdateAsked(f, call)
    BY <1>1, <1>2, <1>3, <1>4 DEF UpdateOK
  <1>6. IsCommitted(f, written, updated)
    BY <1>1, <1>2, <1>3, <1>4, CommitStores
  <1>7. record \in SessionRecord /\ record.credential \in Credentials /\ record # None
    BY <1>5, StoredBefore DEF StoredSession, SessionRecord
  <1>8. call.op = "upgrade" => updated.credential = call.credential /\ call.credential \in Credentials
    BY <1>2, <1>5, <1>7 DEF Updated, UpdateAsked, SessionRecord
  <1>9. ASSUME get(own).vs = repo.entry.vs, Write(written, removed),
               call.op = "upgrade" => get(credential_key(call.credential)).vs = Absent.vs,
               (\E answer : Answer(c, answer)) \/ AnswerWith(c, call.id, updated)
        PROVE  StoreStep
    <2>1. own \in DOMAIN kv /\ kv[own] = repo.entry
      BY <1>5, <1>9, CheckedSame
    <2>2. Sessions[call.id] = record
      BY <1>2, <1>3, <1>5, <2>1 DEF Sessions, get
    <2>3. call.op = "upgrade" => Bearers[call.credential] = None
      BY <1>8, <1>9, CheckedAbsent DEF Bearers
    <2>4. Sessions' = [Sessions EXCEPT ![call.id] = updated]
      <3>1. /\ own \in DOMAIN written /\ written[own] = updated
            /\ \A key \in DOMAIN written : key[1] = "session" => key = own
        BY <1>1, <1>3, <1>6, KeysDiffer DEF IsCommitted
      <3>2. \A key \in removed : key[1] = "credential"
        BY <1>3, KeysDiffer DEF OldCredential
      <3> QED BY <1>3, <1>5, <1>9, <3>1, <3>2, OneSessionWritten
    <2>5. PICK without :
            without = IF call.op \in {"upgrade", "logout", "revoke"}
                      THEN [Bearers EXCEPT ![record.credential] = None] ELSE Bearers
      OBVIOUS
    <2>6. Bearers' = IF call.op = "upgrade" THEN [without EXCEPT ![call.credential] = call.id]
                     ELSE without
      <3>1. PICK old \in Credentials : old = record.credential
        BY <1>7
      <3>2. Bearers' =
              [h \in Credentials |->
                  IF call.op = "upgrade" /\ h = call.credential THEN call.id
                  ELSE IF call.op \in {"upgrade", "logout", "revoke"} /\ h = old THEN None
                  ELSE Bearers[h]]
        BY <1>1, <1>2, <1>3, <1>8, <1>9, <3>1, CommittedBearers
      <3>3. without = IF call.op \in {"upgrade", "logout", "revoke"}
                      THEN [Bearers EXCEPT ![old] = None] ELSE Bearers
        BY <2>5, <3>1
      <3>4. Bearers = [h \in Credentials |-> Bearers[h]]
        BY DEF Bearers
      <3>5. without = [h \in Credentials |->
                          IF call.op \in {"upgrade", "logout", "revoke"} /\ h = old THEN None
                          ELSE Bearers[h]]
        BY <3>3, <3>4
      <3>6. CASE call.op = "upgrade"
        BY <1>8, <3>2, <3>5, <3>6
      <3>7. CASE call.op # "upgrade"
        BY <3>2, <3>5, <3>7
      <3> QED BY <3>6, <3>7
    <2>7. /\ ~Abstract!StaleVersion(record, call) /\ Abstract!Refusal(record, call) = None
          /\ updated = Abstract!Updated(record, call)
      BY <1>2, <1>5, OperatorsAgree
    <2>8. Abstract!update(call.id, call)
      BY <1>7, <2>2, <2>3, <2>4, <2>5, <2>6, <2>7 DEF Abstract!update
    <2>9. client'[c] # client[c]
      BY <1>1, <1>4, <1>9, Answering
    <2> QED BY <1>1, <1>4, <2>8, <2>9 DEF StoreStep, RequestedOperation
  <1>10. ASSUME NEW others, AllCurrent(RecordCheck(repo) \cup others)
         PROVE  get(own).vs = repo.entry.vs
    <2>1. <<own, repo.entry.vs>> \in RecordCheck(repo) \cup others
      BY <1>1, <1>3 DEF RecordCheck
    <2> QED BY <1>10, <2>1 DEF AllCurrent
  <1>11. ASSUME NEW others, NEW key, AllCurrent(others \cup {<<key, Absent.vs>>})
         PROVE  get(key).vs = Absent.vs
    <2>1. <<key, Absent.vs>> \in others \cup {<<key, Absent.vs>>}
      OBVIOUS
    <2> QED BY <1>11, <2>1 DEF AllCurrent
  <1>12. CASE UNCHANGED kv
    BY <1>12, ViewsAlone
  <1> QED BY <1>1, <1>2, <1>3, <1>9, <1>10, <1>11, <1>12 DEF Commit, Stores

(* The repository over KV implements the one in memory, however requests,  *)
(* lookups, expiries and crashes overlap: every commit is one operation of *)
(* it on the sessions and bearers of that step, and other steps only       *)
(* forget what has expired.                                                *)
THEOREM SessionsImplementStore == Spec => ImplementsSessionStore
  <1>1. ASSUME IInv, [Next]_vars, <<Sessions, Bearers>>' # <<Sessions, Bearers>>
        PROVE  StoreStep
    <2>1. ~Unchanged
      BY <1>1 DEF Unchanged
    <2>2. CASE UNCHANGED kv
      BY <2>1, <2>2, ViewsAlone
    <2>3. ASSUME NEW c \in Clients, IdentityStep(c) PROVE Unchanged
      <3>1. PICK families : families = {"user", "identity"}
        OBVIOUS
      <3>2. ASSUME WritesOnly(families), NEW key, key[1] \in {"session", "credential"}
            PROVE  /\ key \in DOMAIN kv' <=> key \in DOMAIN kv
                   /\ key \in DOMAIN kv => kv'[key] = kv[key]
        <4>1. key[1] \notin families
          BY <3>1, <3>2
        <4> QED BY <3>2, <4>1, FamiliesKept
      <3>3. UNCHANGED kv \/ WritesOnly(families)
        BY <2>3, <3>1, IdentityWrites
      <3> QED BY <3>2, <3>3, ViewsAlone
    <2>4. ASSUME NEW c \in Clients, DropIndex(c) \/ CreateCommit(c) \/ Commit(c)
          PROVE  StoreStep
      BY <1>1, <2>1, <2>4, DropIndexForgets, CreateCommitCreates, CommitOperates DEF StoreStep
    <2>5. Expire => StoreStep
      BY <1>1, ExpireForgets DEF StoreStep
    <2>6. UNCHANGED vars => UNCHANGED kv
      BY DEF vars
    <2> QED BY <1>1, <2>1, <2>2, <2>3, <2>4, <2>5, <2>6, WritingSteps
  <1>2. IInv /\ [Next]_vars =>
          [<<Sessions, Bearers>>' # <<Sessions, Bearers>> =>
              \/ \E c \in Clients : client'[c] # client[c] /\ RequestedOperation(client[c].repo)
              \/ Forgetting]_vars
    BY <1>1 DEF StoreStep
  <1> QED BY <1>2, SignInInvariant, PTL DEF Spec, ImplementsSessionStore
=============================================================================
