------------------------- MODULE StorageConnectionStore -------------------------
(***************************************************************************)
(* lib/external-storage/memory-connection-repository.ts: what a repository *)
(* of storage connections promises, for the one provider there is.  Each   *)
(* operation is one step.                                                  *)
(***************************************************************************)
EXTENDS Naturals

CONSTANTS None, ConnectionIds, Users, Subjects, Tokens

VARIABLES connections, \* connection -> its metadata, or None
          active,      \* user -> the active connection, or None
          credentials  \* connection -> the tokens kept for it, or None

StorageConnection ==
    [connection_id : ConnectionIds, user_id : Users, provider_subject : Subjects,
     status : {"active", "revoked"}, created_at : Nat, updated_at : Nat]

Init ==
    /\ connections = [id \in ConnectionIds |-> None]
    /\ active = [user \in Users |-> None]
    /\ credentials = [id \in ConnectionIds |-> None]

(* "new storage connections must be active"                                *)
create(connection) ==
    /\ connection.status = "active"
    /\ connections[connection.connection_id] = None
    /\ active[connection.user_id] = None
    /\ connections' = [connections EXCEPT ![connection.connection_id] = connection]
    /\ active' = [active EXCEPT ![connection.user_id] = connection.connection_id]
    /\ UNCHANGED credentials

reauthorize(id, subject, granted, updated_at) ==
    LET connection == connections[id] IN
    /\ connection # None
    /\ connection.provider_subject = subject
    /\ updated_at >= connection.updated_at
    /\ active[connection.user_id] \in {None, id}
    /\ connections' = [connections EXCEPT ![id].status = "active", ![id].updated_at = updated_at]
    /\ active' = [active EXCEPT ![connection.user_id] = id]
    /\ credentials' = [credentials EXCEPT ![id] = granted]

revoke(id, revoked_at) ==
    LET connection == connections[id] IN
    /\ connection # None /\ connection.status = "active"
    /\ revoked_at >= connection.updated_at
    /\ connections' = [connections EXCEPT ![id].status = "revoked", ![id].updated_at = revoked_at]
    /\ active' = [active EXCEPT ![connection.user_id] = None]
    /\ credentials' = [credentials EXCEPT ![id] = None]

put_credentials(id, granted) ==
    /\ connections[id] # None /\ connections[id].status = "active"
    /\ credentials' = [credentials EXCEPT ![id] = granted]
    /\ UNCHANGED <<connections, active>>

Next ==
    \/ \E connection \in StorageConnection : create(connection)
    \/ \E id \in ConnectionIds, granted \in Tokens :
          \/ \E subject \in Subjects, at \in Nat : reauthorize(id, subject, granted, at)
          \/ put_credentials(id, granted)
    \/ \E id \in ConnectionIds, at \in Nat : revoke(id, at)

vars == <<connections, active, credentials>>

Spec == Init /\ [][Next]_vars

-----------------------------------------------------------------------------
TypeOK ==
    /\ connections \in [ConnectionIds -> StorageConnection \cup {None}]
    /\ active \in [Users -> ConnectionIds \cup {None}]
    /\ credentials \in [ConnectionIds -> Tokens \cup {None}]

(* "destroys local token material": tokens are kept for active connections *)
(* only, whatever was disconnected, reauthorized or refreshed before.      *)
TokensOfActive ==
    \A id \in ConnectionIds : credentials[id] # None =>
        connections[id] # None /\ connections[id].status = "active"

(* A user has one active connection at most, and it is the one found.      *)
OneActivePerUser ==
    /\ \A id \in ConnectionIds : connections[id] # None =>
          connections[id].connection_id = id
          /\ (connections[id].status = "active" <=> active[connections[id].user_id] = id)
    /\ \A user \in Users : active[user] # None =>
          connections[active[user]] # None /\ connections[active[user]].user_id = user

CustodyCoherent == TokensOfActive /\ OneActivePerUser
=============================================================================
