---------------------------- MODULE KvContentAssets ----------------------------
(***************************************************************************)
(* lib/storage/kv-content-asset-repository.ts over kv-toolbox-gateway.ts.  *)
(* The bytes of an inline asset are staged under a random payload id,      *)
(* batch by batch, read back twice, and become reachable when a manifest   *)
(* that names them is committed.  Any call of the store may throw, a       *)
(* commit that throws may have been applied, and a process may stop        *)
(* between any two awaits.                                                 *)
(*                                                                         *)
(* A content stands for the bytes, their length and their digest.  Finding *)
(* an asset only reads a manifest and then its payload and is left out.    *)
(***************************************************************************)
EXTENDS Naturals

CONSTANTS None, Clients, AssetIds, PayloadIds,
          InlineContents,   \* encoded data of inline assets
          ExternalContents, \* references to external objects
          MaxFaults         \* bound on exceptions and stops

Contents == InlineContents \cup ExternalContents

ASSUME ContentAssetsAssumption ==
    /\ None \notin AssetIds \cup PayloadIds \cup Contents
    /\ None \notin [content : Contents, payload : PayloadIds \cup {None}]
    /\ InlineContents \cap ExternalContents = {}
    /\ MaxFaults \in Nat

VARIABLES manifests,  \* asset id -> [content, payload], or None
          chunks,     \* payload id -> [content, whole], or None
          metadata,   \* payload id -> the content whose length it tells, or None
          faults,     \* number of exceptions and stops so far
          client      \* client -> the frame of its create_content_asset

stored == <<manifests, chunks, metadata>>
vars == <<stored, faults, client>>

(* payload: the id generated for inline data.  seen: the metadata read. *)
Idle == [at |-> "idle", id |-> None, content |-> None, payload |-> None, seen |-> None]

Init ==
    /\ manifests = [id \in AssetIds |-> None]
    /\ chunks = [p \in PayloadIds |-> None]
    /\ metadata = [p \in PayloadIds |-> None]
    /\ faults = 0
    /\ client = [c \in Clients |-> Idle]

Become(c, f) == client' = [client EXCEPT ![c] = f]
Goto(c, at) == Become(c, [client[c] EXCEPT !.at = at])
Return(c) == Become(c, Idle)

(* What an exception counts against the bound. *)
Fault == faults < MaxFaults /\ faults' = faults + 1
NoFault == UNCHANGED faults

create_content_asset(c, id, content) ==
    /\ client[c].at = "idle"
    /\ Become(c, [Idle EXCEPT !.at = "manifest", !.id = id, !.content = content])
    /\ NoFault
    /\ UNCHANGED stored

(* The id must be free.  An external asset is a manifest alone; for inline *)
(* data a payload id is generated, one that no other call is using.        *)
ReadManifest(c) ==
    LET f == client[c]
        generated == PayloadIds \ {client[d].payload : d \in Clients}
    IN
    /\ f.at = "manifest"
    /\ \/ NoFault /\ manifests[f.id] # None /\ Return(c)
       \/ NoFault /\ manifests[f.id] = None /\ f.content \in ExternalContents /\ Goto(c, "publish")
       \/ /\ NoFault /\ manifests[f.id] = None /\ f.content \in InlineContents
          /\ \E p \in generated : Become(c, [f EXCEPT !.at = "unused", !.payload = p])
       \/ Fault /\ Return(c)
    /\ UNCHANGED stored

-----------------------------------------------------------------------------
(* stage_binary_object, read_binary_object, remove_binary_object.          *)

(* "binary object staging key must be unused" *)
CheckUnused(c) ==
    LET f == client[c] IN
    /\ f.at = "unused"
    /\ \/ NoFault /\ metadata[f.payload] = None /\ Goto(c, "first batch")
       \/ NoFault /\ metadata[f.payload] # None /\ Return(c)
       \/ Fault /\ Return(c)
    /\ UNCHANGED stored

(* setBlob commits its chunks in batches, the metadata with the last one.  *)
(* A store that lost a chunk without saying so is noticed when the bytes   *)
(* are read back.                                                          *)
FirstBatch(c) ==
    LET f == client[c] IN
    /\ f.at = "first batch"
    /\ \/ /\ NoFault /\ Goto(c, "last batch")
          /\ chunks' = [chunks EXCEPT ![f.payload] = [content |-> f.content, whole |-> FALSE]]
       \/ Fault /\ Goto(c, "remove chunks") /\ UNCHANGED chunks
    /\ UNCHANGED <<manifests, metadata>>

LastBatch(c) ==
    LET f == client[c] IN
    /\ f.at = "last batch"
    /\ \/ /\ NoFault /\ Goto(c, "verify metadata")
          /\ chunks' = [chunks EXCEPT ![f.payload] = [content |-> f.content, whole |-> TRUE]]
          /\ metadata' = [metadata EXCEPT ![f.payload] = f.content]
       \/ /\ Fault /\ Goto(c, "verify metadata")
          /\ metadata' = [metadata EXCEPT ![f.payload] = f.content]
          /\ UNCHANGED chunks
       \/ Fault /\ Goto(c, "remove chunks") /\ UNCHANGED <<chunks, metadata>>
    /\ UNCHANGED manifests

(* Reading back is two reads: once to verify the staging, once to decode   *)
(* what the manifest will name.  Anything but the bytes is removed.        *)
ReadMetadata(c, at, then) ==
    LET f == client[c] IN
    /\ f.at = at
    /\ \/ NoFault /\ Become(c, [f EXCEPT !.at = then, !.seen = metadata[f.payload]])
       \/ Fault /\ Goto(c, "remove chunks")
    /\ UNCHANGED stored

ReadBlob(c, at, then) ==
    LET f == client[c]
        intact == f.seen = f.content /\ chunks[f.payload] = [content |-> f.content, whole |-> TRUE]
    IN
    /\ f.at = at
    /\ \/ NoFault /\ intact /\ Goto(c, then)
       \/ NoFault /\ ~intact /\ Goto(c, "remove chunks")
       \/ Fault /\ Goto(c, "remove chunks")
    /\ UNCHANGED stored

(* The chunks and, "finally", the metadata; a failure of either is left to *)
(* "bounded reconciliation".                                               *)
RemoveChunks(c) ==
    LET f == client[c] IN
    /\ f.at = "remove chunks"
    /\ \/ NoFault /\ chunks' = [chunks EXCEPT ![f.payload] = None]
       \/ Fault /\ UNCHANGED chunks
    /\ Goto(c, "remove metadata")
    /\ UNCHANGED <<manifests, metadata>>

RemoveMetadata(c) ==
    LET f == client[c] IN
    /\ f.at = "remove metadata"
    /\ \/ NoFault /\ metadata' = [metadata EXCEPT ![f.payload] = None]
       \/ Fault /\ UNCHANGED metadata
    /\ Return(c)
    /\ UNCHANGED <<manifests, chunks>>

-----------------------------------------------------------------------------
(* The commit that makes an asset.                                         *)

(* Mutant: a commit that throws is taken for one that was refused. *)
CleansUp_unless_ok(outcome) == outcome # "ok"

(* Mutant: retain_payload stays set. *)
CleansUp_never(outcome) == FALSE

(* "An exception from commit has an ambiguous outcome. Retain the staged   *)
(* payload because the manifest may already reference it."                 *)
CleansUp(outcome) == outcome = "refused"

Committed(c, outcome) ==
    \/ client[c].payload # None /\ CleansUp(outcome) /\ Goto(c, "remove chunks")
    \/ ~(client[c].payload # None /\ CleansUp(outcome)) /\ Return(c)

Publish(c) ==
    LET f == client[c]
        free == manifests[f.id] = None
        written == manifests' = [manifests EXCEPT ![f.id] =
                                    [content |-> f.content, payload |-> f.payload]]
    IN
    /\ f.at = "publish"
    /\ \/ NoFault /\ free /\ written /\ Committed(c, "ok")
       \/ NoFault /\ ~free /\ UNCHANGED manifests /\ Committed(c, "refused")
       \/ Fault /\ free /\ written /\ Committed(c, "threw")
       \/ Fault /\ UNCHANGED manifests /\ Committed(c, "threw")
    /\ UNCHANGED <<chunks, metadata>>

Crash(c) ==
    /\ client[c].at # "idle"
    /\ Fault /\ Return(c)
    /\ UNCHANGED stored

Step(c) ==
    \/ \E id \in AssetIds, content \in Contents : create_content_asset(c, id, content)
    \/ ReadManifest(c) \/ CheckUnused(c) \/ FirstBatch(c) \/ LastBatch(c)
    \/ ReadMetadata(c, "verify metadata", "verify blob")
    \/ ReadBlob(c, "verify blob", "metadata again")
    \/ ReadMetadata(c, "metadata again", "blob again")
    \/ ReadBlob(c, "blob again", "publish")
    \/ Publish(c) \/ RemoveChunks(c) \/ RemoveMetadata(c)
    \/ Crash(c)

Next == \E c \in Clients : Step(c)

Spec == Init /\ [][Next]_vars

-----------------------------------------------------------------------------
(* Properties. *)

Referenced(p) == \E id \in AssetIds : manifests[id] # None /\ manifests[id].payload = p

(* An asset is what its manifest and its payload say together; one whose   *)
(* payload is not all there has no content.                                *)
Intact(manifest) ==
    manifest.payload # None =>
        /\ chunks[manifest.payload] = [content |-> manifest.content, whole |-> TRUE]
        /\ metadata[manifest.payload] = manifest.content

Broken == [broken |-> TRUE]

Assets ==
    [id \in AssetIds |-> IF manifests[id] = None THEN None
                         ELSE IF Intact(manifests[id]) THEN manifests[id].content ELSE Broken]

Abstract == INSTANCE ContentAssetStore WITH assets <- Assets

(* Through staging, cleanup, ambiguous commits and crashes an asset comes  *)
(* into being whole, in one step, and is never changed or damaged.         *)
ImplementsContentAssetStore == Abstract!Spec

(* As long as nothing fails, payloads do not pile up: each is an asset's,  *)
(* or belongs to a call that is under way.                                 *)
NoStagingLeaks ==
    faults = 0 =>
        \A p \in PayloadIds :
            chunks[p] # None \/ metadata[p] # None =>
                Referenced(p) \/ \E c \in Clients : client[c].payload = p
=============================================================================
