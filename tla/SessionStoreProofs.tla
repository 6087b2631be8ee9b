--------------------------- MODULE SessionStoreProofs ---------------------------
(***************************************************************************)
(* BearersCoherent and VersionsOnlyGrow hold of every sequence of          *)
(* repository operations, for any sessions, credentials and users and any  *)
(* bound on the pending attempts.  What the pending attempts are does not  *)
(* matter to either, so that a record is typed up to its attempts.         *)
(***************************************************************************)
EXTENDS SessionStore, TLAPS

SessionRecord(attempts) ==
    [kind : {"guest", "authenticated"}, version : Nat, user_id : UserIds \cup {None},
     csrf_token : Credentials \cup {None}, credential : Credentials, last_seen : Nat,
     idle_expires : Nat, absolute_expires : Nat, revoked : BOOLEAN, attempts : {attempts}]

(* What is assumed of the constants: None is no session and no record.     *)
NothingApart ==
    /\ None \notin SessionIds
    /\ \A attempts : None \notin SessionRecord(attempts)

RecordOK(record) == record \in SessionRecord(record.attempts)

TypeOK ==
    /\ sessions = [id \in SessionIds |-> sessions[id]]
    /\ \A id \in SessionIds : sessions[id] # None => RecordOK(sessions[id])
    /\ credentials \in [Credentials -> SessionIds \cup {None}]

IInv == TypeOK /\ BearersCoherent

(* What the operations make of a record, as far as the bearers see it.     *)
LEMMA UpgradedRecord ==
    ASSUME NEW record, RecordOK(record), NEW call \in Call, call.op = "upgrade"
    PROVE  LET upgraded == Updated(record, call) IN
           /\ RecordOK(upgraded)
           /\ upgraded.credential = call.credential
           /\ upgraded.version = record.version + 1
           /\ upgraded.revoked = record.revoked
  <1>1. ASSUME NEW none, NEW version \in Nat
        PROVE  LET upgraded ==
                     [record EXCEPT !.kind = "authenticated", !.version = version,
                                    !.user_id = call.user_id, !.csrf_token = call.credential,
                                    !.credential = call.credential, !.last_seen = call.time,
                                    !.idle_expires = call.idle_expires,
                                    !.absolute_expires = call.absolute_expires,
                                    !.attempts = none]
               IN
               /\ RecordOK(upgraded)
               /\ upgraded.credential = call.credential
               /\ upgraded.version = version
               /\ upgraded.revoked = record.revoked
    BY DEF RecordOK, SessionRecord, Call
  <1>2. record.version + 1 \in Nat
    BY DEF RecordOK, SessionRecord
  <1> QED BY <1>1, <1>2 DEF Updated

LEMMA EndedRecord ==
    ASSUME NEW record, RecordOK(record), NEW call \in Call, call.op \in {"logout", "revoke"}
    PROVE  LET ended == Updated(record, call) IN
           RecordOK(ended) /\ ended.version = record.version + 1 /\ ended.revoked
  <1>1. ASSUME NEW none, NEW version \in Nat
        PROVE  LET ended ==
                     [record EXCEPT !.version = version, !.revoked = TRUE, !.attempts = none]
               IN
               RecordOK(ended) /\ ended.version = version /\ ended.revoked
    BY DEF RecordOK, SessionRecord
  <1>2. record.version + 1 \in Nat
    BY DEF RecordOK, SessionRecord
  <1> QED BY <1>1, <1>2 DEF Updated, revoked_record

LEMMA KeptRecord ==
    ASSUME NEW record, RecordOK(record), NEW call \in Call, call.op \in {"renew", "save", "consume"}
    PROVE  LET kept == Updated(record, call) IN
           /\ RecordOK(kept)
           /\ kept.credential = record.credential
           /\ kept.version = record.version
           /\ kept.revoked = record.revoked
  <1>1. CASE call.op = "renew"
    <2>1. Updated(record, call) =
            [record EXCEPT !.last_seen = later(@, call.time),
                           !.idle_expires = later(@, call.idle_expires)]
      BY <1>1 DEF Updated
    <2> QED BY <2>1 DEF RecordOK, SessionRecord, Call, later
  <1>2. ASSUME NEW attempts, Updated(record, call) = [record EXCEPT !.attempts = attempts]
        PROVE  LET kept == Updated(record, call) IN
               /\ RecordOK(kept)
               /\ kept.credential = record.credential
               /\ kept.version = record.version
               /\ kept.revoked = record.revoked
    BY <1>2 DEF RecordOK, SessionRecord
  <1>3. CASE call.op = "save"
    <2>1. Updated(record, call) =
            [record EXCEPT !.attempts = Append(Retained(Active(record.attempts, call.time)),
                                               [state |-> call.state, expires |-> call.expires])]
      BY <1>3 DEF Updated
    <2> QED BY <2>1, <1>2
  <1>4. CASE call.op = "consume"
    <2> DEFINE left == Consume(Active(record.attempts, call.time), call.state)
    <2>1. Updated(record, call) = [record EXCEPT !.attempts = left]
      BY <1>4 DEF Updated
    <2> QED BY <2>1, <1>2
  <1> QED BY <1>1, <1>3, <1>4

LEMMA Initially == Init => IInv
  BY DEF Init, IInv, TypeOK, BearersCoherent, BearersLead, BearersFind

LEMMA CreatePreserves ==
    ASSUME NothingApart, IInv, NEW id \in SessionIds, NEW record \in NewSession,
           create(id, record)
    PROVE  IInv'
  <1>1. RecordOK(record) /\ ~record.revoked /\ record.credential \in Credentials
    <2>1. ASSUME NEW none,
                 record \in [kind : {"guest"}, version : {1}, user_id : {None}, csrf_token : {None},
                             credential : Credentials, last_seen : Nat, idle_expires : Nat,
                             absolute_expires : Nat, revoked : {FALSE}, attempts : {none}]
          PROVE  RecordOK(record) /\ ~record.revoked /\ record.credential \in Credentials
      <3>1. record.version \in Nat
        BY <2>1
      <3> QED BY <2>1, <3>1 DEF RecordOK, SessionRecord
    <2> QED BY <2>1 DEF NewSession
  <1>2. record # None
    BY <1>1 DEF RecordOK, NothingApart
  <1>3. /\ sessions'[id] = record
        /\ \A other \in SessionIds : other # id => sessions'[other] = sessions[other]
        /\ credentials'[record.credential] = id
        /\ \A h \in Credentials : h # record.credential => credentials'[h] = credentials[h]
    BY <1>1, <1>2 DEF IInv, TypeOK, create
  <1>4. TypeOK'
    BY <1>1, <1>3 DEF IInv, TypeOK, create
  <1>5. BearersLead'
    <2> SUFFICES ASSUME NEW h \in Credentials, credentials'[h] # None
                 PROVE  /\ sessions'[credentials'[h]] # None
                        /\ sessions'[credentials'[h]].credential = h
                        /\ ~sessions'[credentials'[h]].revoked
      BY DEF BearersLead
    <2>1. CASE h = record.credential
      BY <1>1, <1>2, <1>3, <2>1
    <2>2. CASE h # record.credential
      <3>1. credentials'[h] = credentials[h] /\ credentials[h] \in SessionIds
        BY <1>3, <2>2 DEF IInv, TypeOK
      <3>2. credentials[h] # id
        BY <3>1 DEF IInv, BearersCoherent, BearersLead, create
      <3> QED BY <1>3, <3>1, <3>2 DEF IInv, BearersCoherent, BearersLead
    <2> QED BY <2>1, <2>2
  <1>6. BearersFind'
    <2> SUFFICES ASSUME NEW other \in SessionIds, sessions'[other] # None,
                        ~sessions'[other].revoked
                 PROVE  credentials'[sessions'[other].credential] = other
      BY DEF BearersFind
    <2>1. CASE other = id
      BY <1>3, <2>1
    <2>2. CASE other # id
      <3>1. sessions'[other] = sessions[other] /\ sessions[other].credential \in Credentials
        BY <1>3, <2>2 DEF IInv, TypeOK, RecordOK, SessionRecord
      <3>2. credentials[sessions[other].credential] = other
        BY <3>1 DEF IInv, BearersCoherent, BearersFind
      <3>3. sessions[other].credential # record.credential
        BY <3>2 DEF create, NothingApart
      <3> QED BY <1>3, <3>1, <3>2, <3>3
    <2> QED BY <2>1, <2>2
  <1> QED BY <1>4, <1>5, <1>6 DEF IInv, BearersCoherent

(* An accepted update changes one record, which its own credential led to. *)
LEMMA UpdateFacts ==
    ASSUME NothingApart, IInv, NEW id \in SessionIds, NEW call \in Call, update(id, call)
    PROVE  /\ RecordOK(sessions[id]) /\ ~sessions[id].revoked
           /\ sessions[id].credential \in Credentials
           /\ credentials[sessions[id].credential] = id
           /\ sessions'[id] = Updated(sessions[id], call)
           /\ sessions' = [other \in SessionIds |-> sessions'[other]]
           /\ \A other \in SessionIds : other # id => sessions'[other] = sessions[other]
  <1>1. RecordOK(sessions[id]) /\ ~sessions[id].revoked
    BY DEF IInv, TypeOK, update, StaleVersion
  <1>2. credentials[sessions[id].credential] = id
    BY <1>1 DEF IInv, BearersCoherent, BearersFind, update
  <1>3. sessions[id].credential \in Credentials
    BY <1>1 DEF RecordOK, SessionRecord
  <1>4. /\ sessions'[id] = Updated(sessions[id], call)
        /\ sessions' = [other \in SessionIds |-> sessions'[other]]
        /\ \A other \in SessionIds : other # id => sessions'[other] = sessions[other]
    BY DEF IInv, TypeOK, update
  <1> QED BY <1>1, <1>2, <1>3, <1>4

LEMMA UpdatePreserves ==
    ASSUME NothingApart, IInv, NEW id \in SessionIds, NEW call \in Call, update(id, call)
    PROVE  IInv'
  <1> DEFINE record == sessions[id]
             updated == Updated(record, call)
  <1>1. /\ RecordOK(record) /\ ~record.revoked /\ record.credential \in Credentials
        /\ credentials[record.credential] = id
        /\ sessions'[id] = updated
        /\ sessions' = [other \in SessionIds |-> sessions'[other]]
        /\ \A other \in SessionIds : other # id => sessions'[other] = sessions[other]
    BY UpdateFacts
  <1>2. call.credential \in Credentials
    BY DEF Call
  <1>3. RecordOK(updated) /\ updated # None
    BY <1>1, UpgradedRecord, EndedRecord, KeptRecord DEF Call, NothingApart, RecordOK
  <1>4. credentials' \in [Credentials -> SessionIds \cup {None}]
    BY <1>1, <1>2 DEF IInv, TypeOK, update
  <1> HIDE DEF record, updated
  <1>5. TypeOK'
    BY <1>1, <1>3, <1>4 DEF IInv, TypeOK
  (* A bearer leads to the same session as before, or to the updated one.  *)
  <1>6. ASSUME \A h \in Credentials :
                   credentials'[h] # None /\ credentials'[h] # id => credentials'[h] = credentials[h],
               \A h \in Credentials :
                   credentials'[h] = id => updated.credential = h /\ ~updated.revoked
        PROVE  BearersLead'
    <2> SUFFICES ASSUME NEW h \in Credentials, credentials'[h] # None
                 PROVE  /\ sessions'[credentials'[h]] # None
                        /\ sessions'[credentials'[h]].credential = h
                        /\ ~sessions'[credentials'[h]].revoked
      BY DEF BearersLead
    <2>1. CASE credentials'[h] = id
      BY <1>1, <1>3, <1>6, <2>1
    <2>2. CASE credentials'[h] # id
      <3>1. credentials'[h] = credentials[h] /\ credentials[h] \in SessionIds
        BY <1>6, <2>2 DEF IInv, TypeOK
      <3> QED BY <1>1, <2>2, <3>1 DEF IInv, BearersCoherent, BearersLead
    <2> QED BY <2>1, <2>2
  <1>7. ASSUME \A h \in Credentials :
                   credentials[h] \notin {None, id} => credentials'[h] = credentials[h],
               ~updated.revoked => credentials'[updated.credential] = id
        PROVE  BearersFind'
    <2> SUFFICES ASSUME NEW other \in SessionIds, sessions'[other] # None,
                        ~sessions'[other].revoked
                 PROVE  credentials'[sessions'[other].credential] = other
      BY DEF BearersFind
    <2>1. CASE other = id
      BY <1>1, <1>7, <2>1
    <2>2. CASE other # id
      <3>1. sessions'[other] = sessions[other] /\ sessions[other].credential \in Credentials
        BY <1>1, <2>2 DEF IInv, TypeOK, RecordOK, SessionRecord
      <3>2. credentials[sessions[other].credential] = other
        BY <3>1 DEF IInv, BearersCoherent, BearersFind
      <3> QED BY <1>7, <2>2, <3>1, <3>2 DEF NothingApart
    <2> QED BY <2>1, <2>2
  (* What led to the session is its own credential.                        *)
  <1>8. \A h \in Credentials : credentials[h] = id => h = record.credential
    BY DEF IInv, BearersCoherent, BearersLead, NothingApart, record
  <1>9. CASE call.op = "upgrade"
    <2>1. updated.credential = call.credential /\ updated.revoked = record.revoked
      BY <1>1, <1>9, UpgradedRecord DEF updated
    <2>2. /\ credentials[call.credential] = None
          /\ credentials' = [[credentials EXCEPT ![record.credential] = None]
                                 EXCEPT ![call.credential] = id]
      BY <1>9 DEF update, record
    <2>3. /\ call.credential # record.credential
          /\ credentials'[call.credential] = id /\ credentials'[record.credential] = None
          /\ \A h \in Credentials \ {call.credential, record.credential} :
                credentials'[h] = credentials[h]
      BY <1>1, <1>2, <2>2 DEF IInv, TypeOK, NothingApart
    <2>4. \A h \in Credentials : credentials'[h] = id => h = call.credential
      BY <1>8, <2>3 DEF NothingApart
    <2>5. \A h \in Credentials :
             credentials'[h] # None /\ credentials'[h] # id => credentials'[h] = credentials[h]
      BY <2>3
    <2>6. BearersLead'
      BY <1>1, <1>6, <2>1, <2>4, <2>5
    <2>7. BearersFind'
      BY <1>1, <1>7, <2>1, <2>2, <2>3
    <2> QED BY <1>5, <2>6, <2>7 DEF IInv, BearersCoherent
  <1>10. CASE call.op \in {"logout", "revoke"}
    <2>1. updated.revoked
      BY <1>1, <1>10, EndedRecord DEF updated
    <2>2. credentials' = [credentials EXCEPT ![record.credential] = None]
      BY <1>10 DEF update, record
    <2>3. /\ credentials'[record.credential] = None
          /\ \A h \in Credentials \ {record.credential} : credentials'[h] = credentials[h]
      BY <1>1, <2>2 DEF IInv, TypeOK
    <2>4. \A h \in Credentials : credentials'[h] # id
      BY <1>8, <2>3 DEF NothingApart
    <2>5. \A h \in Credentials : credentials'[h] # None => credentials'[h] = credentials[h]
      BY <2>3
    <2>6. BearersLead'
      BY <1>6, <2>4, <2>5
    <2>7. BearersFind'
      BY <1>1, <1>7, <2>1, <2>3
    <2> QED BY <1>5, <2>6, <2>7 DEF IInv, BearersCoherent
  <1>11. CASE call.op \in {"renew", "save", "consume"}
    <2>1. updated.credential = record.credential /\ updated.revoked = record.revoked
      BY <1>1, <1>11, KeptRecord DEF updated
    <2>2. credentials' = credentials
      BY <1>11 DEF update
    <2>3. BearersLead'
      BY <1>1, <1>6, <1>8, <2>1, <2>2
    <2>4. BearersFind'
      BY <1>1, <1>7, <2>1, <2>2
    <2> QED BY <1>5, <2>3, <2>4 DEF IInv, BearersCoherent
  <1> QED BY <1>9, <1>10, <1>11 DEF Call

LEMMA StepPreserves == NothingApart /\ IInv /\ [Next]_vars => IInv'
  <1> SUFFICES ASSUME NothingApart, IInv, [Next]_vars PROVE IInv'
    OBVIOUS
  <1>1. ASSUME NEW id \in SessionIds, NEW record \in NewSession, create(id, record) PROVE IInv'
    BY <1>1, CreatePreserves
  <1>2. ASSUME NEW id \in SessionIds, NEW call \in Call, update(id, call) PROVE IInv'
    BY <1>2, UpdatePreserves
  <1>3. CASE UNCHANGED vars
    BY <1>3 DEF vars, IInv, TypeOK, BearersCoherent, BearersLead, BearersFind
  <1> QED BY <1>1, <1>2, <1>3 DEF Next

(* A bearer that resolves is the bearer of a session that was not revoked, *)
(* and such a session is found by its bearer, through every sequence of    *)
(* the operations of a session repository.                                 *)
THEOREM BearersAreCoherent == NothingApart => (Spec => []BearersCoherent)
  <1> SUFFICES ASSUME NothingApart PROVE Spec => []BearersCoherent
    OBVIOUS
  <1>1. IInv /\ [Next]_vars => IInv'
    BY StepPreserves
  <1>2. IInv => BearersCoherent
    BY DEF IInv
  <1> QED BY <1>1, <1>2, Initially, PTL DEF Spec

(* A revoked session stays as it was and versions only grow: a call that   *)
(* was refused as stale stays refused.                                     *)
THEOREM VersionsGrow == NothingApart => (Spec => VersionsOnlyGrow)
  <1> SUFFICES ASSUME NothingApart PROVE Spec => VersionsOnlyGrow
    OBVIOUS
  <1> DEFINE Grows ==
        \A id \in SessionIds : sessions[id] # None =>
            /\ sessions[id]' # None
            /\ sessions[id].revoked => sessions[id]' = sessions[id]
            /\ sessions[id]'.version >= sessions[id].version
  <1>1. IInv /\ [Next]_vars => IInv'
    BY StepPreserves
  <1>2. IInv /\ [Next]_vars => [Grows]_vars
    <2> SUFFICES ASSUME IInv, Next PROVE Grows
      BY DEF Grows
    <2> SUFFICES ASSUME NEW id \in SessionIds, sessions[id] # None
                 PROVE  /\ sessions'[id] # None
                        /\ sessions[id].revoked => sessions'[id] = sessions[id]
                        /\ sessions'[id].version >= sessions[id].version
      OBVIOUS
    <2>1. RecordOK(sessions[id]) /\ sessions[id].version \in Nat
      BY DEF IInv, TypeOK, RecordOK, SessionRecord
    <2>2. ASSUME NEW new \in SessionIds, NEW record \in NewSession, create(new, record)
          PROVE  sessions'[id] = sessions[id]
      BY <2>2 DEF create, IInv, TypeOK
    <2>3. ASSUME NEW target \in SessionIds, NEW call \in Call, update(target, call)
          PROVE  /\ sessions'[id] # None
                 /\ sessions[id].revoked => sessions'[id] = sessions[id]
                 /\ sessions'[id].version >= sessions[id].version
      <3>1. CASE target # id
        BY <2>1, <2>3, <3>1, UpdateFacts
      <3>2. CASE target = id
        <4>1. sessions'[id] = Updated(sessions[id], call) /\ ~sessions[id].revoked
          BY <2>3, <3>2, UpdateFacts
        <4>2. RecordOK(Updated(sessions[id], call))
          BY <2>1, UpgradedRecord, EndedRecord, KeptRecord DEF Call
        <4>3. Updated(sessions[id], call).version
                  \in {sessions[id].version, sessions[id].version + 1}
          BY <2>1, UpgradedRecord, EndedRecord, KeptRecord DEF Call
        <4> QED BY <2>1, <4>1, <4>2, <4>3 DEF NothingApart, RecordOK
      <3> QED BY <3>1, <3>2
    <2> QED BY <2>1, <2>2, <2>3 DEF Next
  <1> QED BY <1>1, <1>2, Initially, PTL DEF Spec, VersionsOnlyGrow
=============================================================================
