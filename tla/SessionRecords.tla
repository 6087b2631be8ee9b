----------------------------- MODULE SessionRecords -----------------------------
(***************************************************************************)
(* lib/session: what a session record is and what each versioned operation *)
(* of a SessionRepository makes of it.  Times are natural numbers; a       *)
(* credential stands for its hash, an OAuth state for its hash.            *)
(***************************************************************************)
EXTENDS Naturals, Sequences, FiniteSets

CONSTANTS None,
          max_pending_attempts

(* An update belongs to the version of the session that its caller saw. *)
StaleVersion(record, call) == record.revoked \/ record.version # call.expected_version

(* The elements at some positions, in their order.  SelectSeq, which is     *)
(* recursive, computes the same from a test of the elements.               *)
Filtered(attempts, positions) ==
    LET count == Cardinality(positions)
        place == CHOOSE f \in [1 .. count -> positions] :
                    \A j, k \in 1 .. count : j < k => f[j] < f[k]
    IN [k \in 1 .. count |-> attempts[place[k]]]

(* The attempts that have not expired. *)
Active(attempts, at) == Filtered(attempts, {i \in DOMAIN attempts : attempts[i].expires > at})

HasState(attempts, state) == \E i \in DOMAIN attempts : attempts[i].state = state

(* The attempts without the first of a state, if there is one. *)
Consume(attempts, state) ==
    LET matched(i) ==
          attempts[i].state = state /\ \A j \in DOMAIN attempts : j < i => attempts[j].state # state
    IN Filtered(attempts, {i \in DOMAIN attempts : ~matched(i)})

(* The newest attempts, leaving room for one more. *)
Retained(attempts) ==
    SubSeq(attempts,
           IF Len(attempts) >= max_pending_attempts THEN Len(attempts) - max_pending_attempts + 2 ELSE 1,
           Len(attempts))

Pruned(record, call) == Len(Active(record.attempts, call.time)) < Len(record.attempts)

(* Why an operation leaves a current record alone, or None. *)
Refusal(record, call) ==
    CASE call.op \in {"save", "consume"} /\ record.kind # "guest" -> "not_guest"
      [] call.op = "save" /\ record.kind = "guest"
         /\ HasState(Active(record.attempts, call.time), call.state) -> "state_collision"
      [] call.op = "consume" /\ record.kind = "guest" /\ ~Pruned(record, call)
         /\ ~HasState(record.attempts, call.state) -> "not_found"
      [] call.op = "logout" /\ record.kind # "authenticated" -> "not_authenticated"
      [] call.op = "logout" /\ record.kind = "authenticated"
         /\ record.csrf_token # call.csrf_token -> "invalid_csrf"
      [] OTHER -> None

later(left, right) == IF left < right THEN right ELSE left

revoked_record(record) ==
    [record EXCEPT !.version = @ + 1, !.revoked = TRUE, !.attempts = <<>>]

(* Mutant: a replayed attempt is still there after it was consumed. *)
Updated_keeps_attempt(record, call) ==
    CASE call.op = "consume" -> [record EXCEPT !.attempts = Active(@, call.time)]
      [] call.op = "renew" -> [record EXCEPT !.last_seen = later(@, call.time)]
      [] call.op = "save" ->
            [record EXCEPT !.attempts = Append(Retained(Active(@, call.time)),
                                               [state |-> call.state, expires |-> call.expires])]
      [] call.op = "upgrade" ->
            [record EXCEPT !.kind = "authenticated", !.version = @ + 1, !.user_id = call.user_id,
                           !.csrf_token = call.credential, !.credential = call.credential,
                           !.last_seen = call.time, !.idle_expires = call.idle_expires,
                           !.absolute_expires = call.absolute_expires, !.attempts = <<>>]
      [] OTHER -> revoked_record(record)

(* The record an accepted operation stores. *)
Updated(record, call) ==
    CASE call.op = "renew" ->
            [record EXCEPT !.last_seen = later(@, call.time),
                           !.idle_expires = later(@, call.idle_expires)]
      [] call.op = "save" ->
            [record EXCEPT !.attempts = Append(Retained(Active(@, call.time)),
                                               [state |-> call.state, expires |-> call.expires])]
      [] call.op = "consume" ->
            [record EXCEPT !.attempts = Consume(Active(@, call.time), call.state)]
      [] call.op = "upgrade" ->
            [record EXCEPT !.kind = "authenticated", !.version = @ + 1, !.user_id = call.user_id,
                           !.csrf_token = call.credential, !.credential = call.credential,
                           !.last_seen = call.time, !.idle_expires = call.idle_expires,
                           !.absolute_expires = call.absolute_expires, !.attempts = <<>>]
      [] call.op \in {"logout", "revoke"} -> revoked_record(record)

(* A consumption that only pruned expired attempts has found none. *)
Missed(record, call) ==
    call.op = "consume" /\ ~HasState(Active(record.attempts, call.time), call.state)
=============================================================================
