------------------------------- MODULE DenoKv -------------------------------
(***************************************************************************)
(* What the repositories use of Deno KV (lib/storage/kv-gateway.ts): a     *)
(* linearizable read of one key, and an atomic operation that checks       *)
(* versionstamps and then sets and deletes keys, all with one new, larger  *)
(* versionstamp.  An absent key has the null versionstamp, here 0.         *)
(***************************************************************************)
EXTENDS Naturals

CONSTANT None

VARIABLES kv,    \* key -> [vs, val] of each entry
          clock  \* the last versionstamp given out

Absent == [vs |-> 0, val |-> None]

present(entry) == entry.vs # 0

get(key) == IF key \in DOMAIN kv THEN kv[key] ELSE Absent

NoEntries == <<>>

(* One value at one key; the values of a map over those of another.        *)
Single(key, value) == [k \in {key} |-> value]

Overlay(new, old) ==
    [k \in DOMAIN new \cup DOMAIN old |-> IF k \in DOMAIN new THEN new[k] ELSE old[k]]

(* The entries of a map from keys to values. *)
Stamped(map, vs) == [k \in DOMAIN map |-> [vs |-> vs, val |-> map[k]]]

(* The checks of entries read earlier: key, versionstamp. *)
Versions(entries) == {<<k, entries[k].vs>> : k \in DOMAIN entries}

AllCurrent(checks) == \A check \in checks : get(check[1]).vs = check[2]

(* A committed atomic operation. *)
Write(written, removed) ==
    /\ clock' = clock + 1
    /\ kv' = Overlay(Stamped(written, clock + 1), [k \in DOMAIN kv \ removed |-> kv[k]])
=============================================================================
