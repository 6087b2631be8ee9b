------------------------- MODULE KvContentAssetsProofs -------------------------
(***************************************************************************)
(* KvContentAssets implements ContentAssetStore, for any number of         *)
(* clients, assets, payload ids and faults.  The argument is one of        *)
(* ownership: from the moment a call has seen its payload id unused until  *)
(* it ends, no manifest names that payload and no other call touches it,   *)
(* so that what a manifest names is never written or removed again.        *)
(***************************************************************************)
EXTENDS KvContentAssets, TLAPS

Reading == {"verify metadata", "verify blob", "metadata again", "blob again"}
Writing == {"first batch", "last batch", "remove chunks", "remove metadata"} \cup Reading
Places == {"idle", "manifest", "unused", "publish"} \cup Writing

Manifest == [content : Contents, payload : PayloadIds \cup {None}]
Chunks == [content : Contents, whole : BOOLEAN]
Frame == [at : Places, id : AssetIds \cup {None}, content : Contents \cup {None},
          payload : PayloadIds \cup {None}, seen : Contents \cup {None}]

TypeOK ==
    /\ manifests \in [AssetIds -> Manifest \cup {None}]
    /\ chunks \in [PayloadIds -> Chunks \cup {None}]
    /\ metadata \in [PayloadIds -> Contents \cup {None}]
    /\ client \in [Clients -> Frame]

WholePayload(p, content) ==
    chunks[p] = [content |-> content, whole |-> TRUE] /\ metadata[p] = content

(* What a call knows at each place. *)
FrameOK(f) ==
    /\ f.at # "idle" => f.id \in AssetIds /\ f.content \in Contents
    /\ f.at \in {"idle", "manifest"} => f.payload = None
    /\ f.at \in Writing \cup {"unused"} => f.payload \in PayloadIds
    /\ f.at \in Writing => ~Referenced(f.payload)
    /\ f.at \in {"verify blob", "blob again"} => f.seen = metadata[f.payload]
    /\ f.at = "publish" /\ f.payload # None =>
          ~Referenced(f.payload) /\ WholePayload(f.payload, f.content)

FramesOK == \A c \in Clients : FrameOK(client[c])

OwnPayloads ==
    \A c, d \in Clients :
        client[c].payload # None /\ client[c].payload = client[d].payload => c = d

PayloadsKept == \A id \in AssetIds : manifests[id] # None => Intact(manifests[id])

IInv == TypeOK /\ FramesOK /\ OwnPayloads /\ PayloadsKept

LEMMA Initially == Init => IInv
  <1> SUFFICES ASSUME Init PROVE IInv
    OBVIOUS
  <1>1. Idle \in Frame
    BY DEF Idle, Frame, Places
  <1>2. TypeOK
    BY <1>1 DEF Init, TypeOK
  <1>3. FramesOK
    BY DEF Init, FramesOK, FrameOK, Idle, Writing, Reading
  <1>4. OwnPayloads /\ PayloadsKept
    BY DEF Init, OwnPayloads, PayloadsKept, Idle
  <1> QED BY <1>2, <1>3, <1>4 DEF IInv

(* A call that moves on without touching the store, with the payload it    *)
(* has, with none or with one that nobody uses, disturbs no other call.    *)
LEMMA FrameStep ==
    ASSUME IInv, NEW c \in Clients,
           client'[c] \in Frame, client' = [client EXCEPT ![c] = client'[c]],
           UNCHANGED stored,
           \/ client'[c].payload \in {None, client[c].payload}
           \/ client'[c].payload \notin {client[d].payload : d \in Clients},
           FrameOK(client[c])'
    PROVE  IInv'
  <1>1. TypeOK'
    BY DEF IInv, TypeOK, stored
  <1>2. ASSUME NEW d \in Clients PROVE FrameOK(client[d])'
    <2>1. CASE d = c
      BY <2>1
    <2>2. CASE d # c
      <3>1. client'[d] = client[d] /\ FrameOK(client[d])
        BY <2>2 DEF IInv, TypeOK, FramesOK
      <3> QED BY <3>1 DEF FrameOK, WholePayload, Referenced, stored
    <2> QED BY <2>1, <2>2
  <1>3. OwnPayloads'
    BY DEF IInv, TypeOK, OwnPayloads
  <1>4. PayloadsKept'
    BY DEF IInv, PayloadsKept, Intact, stored
  <1> QED BY <1>1, <1>2, <1>3, <1>4 DEF IInv, FramesOK

(* A call in place to write may do what it likes to its own payload.       *)
LEMMA PayloadStep ==
    ASSUME IInv, NEW c \in Clients, client[c].at \in Writing,
           client'[c] \in Frame, client' = [client EXCEPT ![c] = client'[c]],
           UNCHANGED manifests,
           chunks' \in [PayloadIds -> Chunks \cup {None}],
           metadata' \in [PayloadIds -> Contents \cup {None}],
           \A p \in PayloadIds \ {client[c].payload} :
               chunks'[p] = chunks[p] /\ metadata'[p] = metadata[p],
           client'[c].payload \in {None, client[c].payload}, FrameOK(client[c])'
    PROVE  IInv'
  <1>1. TypeOK'
    BY DEF IInv, TypeOK
  <1>2. client[c].payload \in PayloadIds /\ ~Referenced(client[c].payload)
    BY DEF IInv, FramesOK, FrameOK
  <1>3. ASSUME NEW d \in Clients PROVE FrameOK(client[d])'
    <2>1. CASE d = c
      BY <2>1
    <2>2. CASE d # c
      <3>1. client'[d] = client[d] /\ FrameOK(client[d]) /\ client[d] \in Frame
        BY <2>2 DEF IInv, TypeOK, FramesOK
      <3>2. client[d].payload # client[c].payload
        BY <1>2, <2>2, ContentAssetsAssumption DEF IInv, OwnPayloads
      <3>3. client[d].payload # None => client[d].payload \in PayloadIds \ {client[c].payload}
        BY <3>1, <3>2 DEF Frame
      <3>4. client[d].at \in {"verify blob", "blob again"} => client[d].payload # None
        BY <3>1, ContentAssetsAssumption DEF FrameOK, Writing, Reading
      <3>5. Referenced(client[d].payload)' <=> Referenced(client[d].payload)
        BY <3>1 DEF Referenced
      <3> QED BY <3>1, <3>3, <3>4, <3>5 DEF FrameOK, WholePayload
    <2> QED BY <2>1, <2>2
  <1>4. OwnPayloads'
    BY DEF IInv, TypeOK, OwnPayloads
  <1>5. ASSUME NEW id \in AssetIds, manifests'[id] # None PROVE Intact(manifests[id])'
    <2>1. Intact(manifests[id]) /\ manifests[id] \in Manifest
      BY <1>5 DEF IInv, PayloadsKept, TypeOK
    <2>2. manifests[id].payload # client[c].payload
      BY <1>2, <1>5 DEF Referenced
    <2>3. manifests[id].payload # None =>
              manifests[id].payload \in PayloadIds \ {client[c].payload}
      BY <2>1, <2>2 DEF Manifest
    <2> QED BY <2>1, <2>3 DEF Intact
  <1> QED BY <1>1, <1>3, <1>4, <1>5 DEF IInv, FramesOK, PayloadsKept

(* The commit: the payload that the manifest names was the call's alone.   *)
LEMMA CommitStep ==
    ASSUME IInv, NEW c \in Clients, client[c].at = "publish", Return(c),
           manifests' = [manifests EXCEPT ![client[c].id] =
                            [content |-> client[c].content, payload |-> client[c].payload]],
           UNCHANGED <<chunks, metadata>>
    PROVE  IInv'
  <1> DEFINE f == client[c]
             manifest == [content |-> f.content, payload |-> f.payload]
  <1>1. /\ f \in Frame /\ f.id \in AssetIds /\ f.content \in Contents
        /\ f.payload # None => WholePayload(f.payload, f.content)
    BY DEF IInv, TypeOK, FramesOK, FrameOK
  <1>2. manifest \in Manifest
    BY <1>1 DEF Frame, Manifest
  <1>3. client' = [client EXCEPT ![c] = Idle] /\ Idle \in Frame
    BY DEF Return, Become, Idle, Frame, Places
  <1>4. TypeOK'
    BY <1>1, <1>2, <1>3 DEF IInv, TypeOK
  <1>5. ASSUME NEW d \in Clients PROVE FrameOK(client[d])'
    <2>1. CASE d = c
      <3>1. client'[d] = Idle
        BY <1>3, <2>1 DEF IInv, TypeOK
      <3> QED BY <3>1 DEF FrameOK, Idle, Writing, Reading
    <2>2. CASE d # c
      <3>1. client'[d] = client[d] /\ FrameOK(client[d]) /\ client[d] \in Frame
        BY <1>3, <2>2 DEF IInv, TypeOK, FramesOK
      <3>2. client[d].payload # None => client[d].payload # f.payload
        BY <2>2 DEF IInv, OwnPayloads
      <3>3. ASSUME client[d].payload # None, Referenced(client[d].payload)'
            PROVE  Referenced(client[d].payload)
        <4>1. PICK id \in AssetIds :
                  manifests'[id] # None /\ manifests'[id].payload = client[d].payload
          BY <3>1, <3>3 DEF Referenced
        <4>2. id # f.id
          BY <1>1, <3>2, <3>3, <4>1 DEF IInv, TypeOK
        <4> QED BY <1>1, <4>1, <4>2 DEF Referenced, IInv, TypeOK
      <3> QED BY <3>1, <3>3, ContentAssetsAssumption DEF FrameOK, WholePayload, Writing, Reading
    <2> QED BY <2>1, <2>2
  <1>6. OwnPayloads'
    BY <1>3 DEF IInv, TypeOK, OwnPayloads, Idle
  <1>7. PayloadsKept'
    BY <1>1 DEF IInv, TypeOK, PayloadsKept, Intact, WholePayload
  <1> QED BY <1>4, <1>5, <1>6, <1>7 DEF IInv, FramesOK

-----------------------------------------------------------------------------
(* One lemma for each way a step can end.                                  *)

LEMMA ReturnStep ==
    ASSUME IInv, NEW c \in Clients, Return(c), UNCHANGED stored
    PROVE  IInv'
  <1>1. client'[c] = Idle /\ client' = [client EXCEPT ![c] = client'[c]]
    BY DEF IInv, TypeOK, Return, Become
  <1>2. Idle \in Frame /\ FrameOK(client[c])'
    BY <1>1 DEF Idle, Frame, Places, FrameOK, Writing, Reading
  <1> QED BY <1>1, <1>2, FrameStep DEF Idle

LEMMA GotoStep ==
    ASSUME IInv, NEW c \in Clients, NEW at \in Places, Goto(c, at), UNCHANGED stored,
           FrameOK(client[c])'
    PROVE  IInv'
  <1>1. client'[c] = [client[c] EXCEPT !.at = at] /\ client[c] \in Frame
    BY DEF IInv, TypeOK, Goto, Become
  <1>2. client' = [client EXCEPT ![c] = client'[c]]
    BY <1>1 DEF IInv, TypeOK, Goto, Become
  <1>3. client'[c] \in Frame /\ client'[c].payload = client[c].payload
    BY <1>1 DEF Frame
  <1> QED BY <1>2, <1>3, FrameStep

(* Giving a staged payload up.                                             *)
LEMMA GiveUp ==
    ASSUME IInv, NEW c \in Clients, client[c].at \in Writing \cup {"publish"},
           client[c].payload # None, Goto(c, "remove chunks"), UNCHANGED stored
    PROVE  IInv'
  <1>1. client[c] \in Frame /\ FrameOK(client[c])
    BY DEF IInv, TypeOK, FramesOK
  <1>2. client'[c] = [client[c] EXCEPT !.at = "remove chunks"]
    BY DEF IInv, TypeOK, Goto, Become
  <1>3. FrameOK(client[c])'
    BY <1>1, <1>2 DEF FrameOK, Frame, Writing, Reading, Referenced, stored
  <1> QED BY <1>3, GotoStep DEF Places, Writing

(* A step of a call that owns its payload keeps it.                        *)
LEMMA OwnerFacts ==
    ASSUME IInv, NEW c \in Clients, client[c].at \in Writing
    PROVE  /\ client[c] \in Frame /\ FrameOK(client[c])
           /\ client[c].id \in AssetIds /\ client[c].content \in Contents
           /\ client[c].payload \in PayloadIds /\ client[c].payload # None
           /\ ~Referenced(client[c].payload)
  BY ContentAssetsAssumption DEF IInv, TypeOK, FramesOK, FrameOK, Writing, Reading

LEMMA ReadManifestKeeps ==
    ASSUME IInv, NEW c \in Clients, ReadManifest(c)
    PROVE  IInv'
  <1> DEFINE f == client[c]
  <1>1. f \in Frame /\ f.at = "manifest" /\ f.id \in AssetIds /\ f.content \in Contents
        /\ f.payload = None
    BY DEF IInv, TypeOK, FramesOK, FrameOK, ReadManifest
  <1>2. UNCHANGED stored
    BY DEF ReadManifest
  <1>3. CASE Return(c)
    BY <1>2, <1>3, ReturnStep
  <1>4. CASE Goto(c, "publish")
    <2>1. client'[c] = [f EXCEPT !.at = "publish"]
      BY <1>4 DEF IInv, TypeOK, Goto, Become
    <2>2. FrameOK(client[c])'
      BY <1>1, <1>4, <2>1 DEF FrameOK, Frame, Writing, Reading
    <2> QED BY <1>2, <1>4, <2>2, GotoStep DEF Places
  <1>5. ASSUME NEW p \in PayloadIds \ {client[d].payload : d \in Clients},
               Become(c, [f EXCEPT !.at = "unused", !.payload = p])
        PROVE  IInv'
    <2>1. client'[c] = [f EXCEPT !.at = "unused", !.payload = p]
          /\ client' = [client EXCEPT ![c] = client'[c]]
      BY <1>5 DEF IInv, TypeOK, Become
    <2>2. client'[c] \in Frame /\ client'[c].payload = p
      BY <1>1, <2>1 DEF Frame, Places
    <2>3. FrameOK(client[c])'
      BY <1>1, <2>1 DEF FrameOK, Frame, Writing, Reading
    <2> QED BY <1>2, <2>1, <2>2, <2>3, FrameStep
  <1> QED BY <1>3, <1>4, <1>5 DEF ReadManifest

LEMMA CheckUnusedKeeps ==
    ASSUME IInv, NEW c \in Clients, CheckUnused(c)
    PROVE  IInv'
  <1> DEFINE f == client[c]
  <1>1. f \in Frame /\ f.at = "unused" /\ f.id \in AssetIds /\ f.content \in Contents
        /\ f.payload \in PayloadIds /\ UNCHANGED stored
    BY DEF IInv, TypeOK, FramesOK, FrameOK, CheckUnused
  <1>2. CASE Return(c)
    BY <1>1, <1>2, ReturnStep
  <1>3. CASE metadata[f.payload] = None /\ Goto(c, "first batch")
    <2>1. ~Referenced(f.payload)
      <3>1. SUFFICES ASSUME NEW id \in AssetIds, manifests[id] # None,
                            manifests[id].payload = f.payload
                     PROVE  FALSE
        BY DEF Referenced
      <3>2. manifests[id].content \in Contents /\ Intact(manifests[id])
        BY <3>1 DEF IInv, TypeOK, PayloadsKept, Manifest
      <3> QED BY <1>1, <1>3, <3>1, <3>2, ContentAssetsAssumption DEF Intact
    <2>2. client'[c] = [f EXCEPT !.at = "first batch"]
      BY <1>3 DEF IInv, TypeOK, Goto, Become
    <2>3. FrameOK(client[c])'
      BY <1>1, <2>1, <2>2 DEF FrameOK, Frame, Writing, Reading, Referenced, stored
    <2> QED BY <1>1, <1>3, <2>3, GotoStep DEF Places, Writing
  <1> QED BY <1>2, <1>3 DEF CheckUnused

(* The four steps that write or remove the payload.                        *)
LEMMA PayloadWritten ==
    ASSUME IInv, NEW c \in Clients,
           FirstBatch(c) \/ LastBatch(c) \/ RemoveChunks(c) \/ RemoveMetadata(c)
    PROVE  IInv'
  <1> DEFINE f == client[c]
  <1>1. f.at \in Writing
    BY DEF FirstBatch, LastBatch, RemoveChunks, RemoveMetadata, Writing, Reading
  <1>2. /\ f \in Frame /\ FrameOK(f) /\ f.id \in AssetIds /\ f.content \in Contents
        /\ f.payload \in PayloadIds /\ ~Referenced(f.payload)
    BY <1>1, OwnerFacts
  <1>3. UNCHANGED manifests
    BY DEF FirstBatch, LastBatch, RemoveChunks, RemoveMetadata
  <1>4. /\ chunks' \in [PayloadIds -> Chunks \cup {None}]
        /\ metadata' \in [PayloadIds -> Contents \cup {None}]
        /\ \A p \in PayloadIds \ {f.payload} : chunks'[p] = chunks[p] /\ metadata'[p] = metadata[p]
    <2> DEFINE batch(whole) == [content |-> f.content, whole |-> whole]
    <2>1. \A whole \in BOOLEAN : batch(whole) \in Chunks
      BY <1>2 DEF Chunks
    <2>2. \/ UNCHANGED chunks
          \/ chunks' = [chunks EXCEPT ![f.payload] = None]
          \/ \E whole \in BOOLEAN : chunks' = [chunks EXCEPT ![f.payload] = batch(whole)]
      BY DEF FirstBatch, LastBatch, RemoveChunks, RemoveMetadata
    <2>3. \/ UNCHANGED metadata
          \/ metadata' = [metadata EXCEPT ![f.payload] = None]
          \/ metadata' = [metadata EXCEPT ![f.payload] = f.content]
      BY DEF FirstBatch, LastBatch, RemoveChunks, RemoveMetadata
    <2> HIDE DEF batch
    <2>4. /\ chunks' \in [PayloadIds -> Chunks \cup {None}]
          /\ \A p \in PayloadIds \ {f.payload} : chunks'[p] = chunks[p]
      BY <1>2, <2>1, <2>2 DEF IInv, TypeOK
    <2>5. /\ metadata' \in [PayloadIds -> Contents \cup {None}]
          /\ \A p \in PayloadIds \ {f.payload} : metadata'[p] = metadata[p]
      BY <1>2, <2>3 DEF IInv, TypeOK
    <2> QED BY <2>4, <2>5
  <1>5. ASSUME NEW at \in Writing \ {"verify blob", "blob again"}, Goto(c, at)
        PROVE  IInv'
    <2>1. client'[c] = [f EXCEPT !.at = at] /\ client' = [client EXCEPT ![c] = client'[c]]
      BY <1>5 DEF IInv, TypeOK, Goto, Become
    <2>2. client'[c] \in Frame /\ client'[c].payload = f.payload
      BY <1>2, <2>1 DEF Frame, Places
    <2>3. FrameOK(client[c])'
      BY <1>2, <1>3, <2>1 DEF FrameOK, Frame, Writing, Reading, Referenced
    <2> QED BY <1>1, <1>3, <1>4, <2>1, <2>2, <2>3, PayloadStep
  <1>6. CASE Return(c)
    <2>1. client'[c] = Idle /\ client' = [client EXCEPT ![c] = client'[c]]
      BY <1>6 DEF IInv, TypeOK, Return, Become
    <2>2. Idle \in Frame /\ FrameOK(client[c])'
      BY <2>1 DEF Idle, Frame, Places, FrameOK, Writing, Reading
    <2> QED BY <1>1, <1>3, <1>4, <2>1, <2>2, PayloadStep DEF Idle
  <1>7. Return(c) \/ \E at \in {"last batch", "verify metadata", "remove chunks", "remove metadata"} :
                        Goto(c, at)
    BY DEF FirstBatch, LastBatch, RemoveChunks, RemoveMetadata
  <1> QED BY <1>5, <1>6, <1>7 DEF Writing, Reading

(* Reading the staged bytes back: what was seen is what is there, and bytes *)
(* that were seen whole and right stay so.                                 *)
LEMMA ReadMetadataKeeps ==
    ASSUME IInv, NEW c \in Clients,
           NEW at \in {"verify metadata", "metadata again"},
           NEW then \in {"verify blob", "blob again"}, ReadMetadata(c, at, then)
    PROVE  IInv'
  <1> DEFINE f == client[c]
  <1>1. f.at \in Writing /\ UNCHANGED stored
    BY DEF ReadMetadata, Writing, Reading
  <1>2. /\ f \in Frame /\ FrameOK(f) /\ f.id \in AssetIds /\ f.content \in Contents
        /\ f.payload \in PayloadIds /\ f.payload # None /\ ~Referenced(f.payload)
    BY <1>1, OwnerFacts
  <1>3. CASE Goto(c, "remove chunks")
    BY <1>1, <1>2, <1>3, GiveUp
  <1>4. CASE Become(c, [f EXCEPT !.at = then, !.seen = metadata[f.payload]])
    <2>1. client'[c] = [f EXCEPT !.at = then, !.seen = metadata[f.payload]]
          /\ client' = [client EXCEPT ![c] = client'[c]]
      BY <1>4 DEF IInv, TypeOK, Become
    <2>2. client'[c] \in Frame /\ client'[c].payload = f.payload
      BY <1>2, <2>1 DEF Frame, Places, Writing, Reading, IInv, TypeOK
    <2>3. FrameOK(client[c])'
      BY <1>1, <1>2, <2>1 DEF FrameOK, Frame, Writing, Reading, Referenced, stored
    <2> QED BY <1>1, <2>1, <2>2, <2>3, FrameStep
  <1> QED BY <1>3, <1>4 DEF ReadMetadata

LEMMA ReadBlobKeeps ==
    ASSUME IInv, NEW c \in Clients,
           NEW at \in {"verify blob", "blob again"},
           NEW then \in {"metadata again", "publish"}, ReadBlob(c, at, then)
    PROVE  IInv'
  <1> DEFINE f == client[c]
  <1>1. f.at \in Writing /\ f.at = at /\ UNCHANGED stored
    BY DEF ReadBlob, Writing, Reading
  <1>2. /\ f \in Frame /\ FrameOK(f) /\ f.id \in AssetIds /\ f.content \in Contents
        /\ f.payload \in PayloadIds /\ f.payload # None /\ ~Referenced(f.payload)
    BY <1>1, OwnerFacts
  <1>3. CASE Goto(c, "remove chunks")
    BY <1>1, <1>2, <1>3, GiveUp
  <1>4. CASE /\ f.seen = f.content /\ chunks[f.payload] = [content |-> f.content, whole |-> TRUE]
             /\ Goto(c, then)
    <2>1. f.seen = metadata[f.payload]
      BY <1>1, <1>2 DEF FrameOK
    <2>2. client'[c] = [f EXCEPT !.at = then]
      BY <1>4 DEF IInv, TypeOK, Goto, Become
    <2>3. FrameOK(client[c])'
      BY <1>1, <1>2, <1>4, <2>1, <2>2
      DEF FrameOK, Frame, Writing, Reading, Referenced, stored, WholePayload
    <2> QED BY <1>1, <1>4, <2>3, GotoStep DEF Places, Writing, Reading
  <1> QED BY <1>3, <1>4 DEF ReadBlob

LEMMA PublishKeeps ==
    ASSUME IInv, NEW c \in Clients, Publish(c)
    PROVE  IInv'
  <1> DEFINE f == client[c]
  <1>1. f.at = "publish" /\ UNCHANGED <<chunks, metadata>>
    BY DEF Publish
  <1>2. CASE UNCHANGED manifests /\ Return(c)
    BY <1>1, <1>2, ReturnStep DEF stored
  <1>3. CASE UNCHANGED manifests /\ f.payload # None /\ Goto(c, "remove chunks")
    BY <1>1, <1>3, GiveUp DEF stored
  <1>4. CASE /\ manifests' = [manifests EXCEPT ![f.id] =
                                  [content |-> f.content, payload |-> f.payload]]
             /\ Return(c)
    BY <1>1, <1>4, CommitStep
  <1> QED BY <1>2, <1>3, <1>4 DEF Publish, Committed, CleansUp

LEMMA StepKeeps ==
    ASSUME IInv, NEW c \in Clients, Step(c)
    PROVE  IInv'
  <1>1. ASSUME NEW id \in AssetIds, NEW content \in Contents, create_content_asset(c, id, content)
        PROVE  IInv'
    <2> DEFINE f == [Idle EXCEPT !.at = "manifest", !.id = id, !.content = content]
    <2>1. client'[c] = f /\ client' = [client EXCEPT ![c] = client'[c]] /\ UNCHANGED stored
      BY <1>1 DEF create_content_asset, Become, IInv, TypeOK
    <2>2. f \in Frame /\ f.payload = None
      BY DEF Idle, Frame, Places
    <2>3. FrameOK(client[c])'
      BY <2>1 DEF FrameOK, Idle, Writing, Reading
    <2> QED BY <2>1, <2>2, <2>3, FrameStep
  <1>2. CASE Crash(c)
    BY <1>2, ReturnStep DEF Crash
  <1> QED BY <1>1, <1>2, ReadManifestKeeps, CheckUnusedKeeps, PayloadWritten,
             ReadMetadataKeeps, ReadBlobKeeps, PublishKeeps DEF Step

-----------------------------------------------------------------------------

(* The inductive invariant: a manifest's payload is whole, and belongs to  *)
(* no call that might still write or remove it.                            *)
THEOREM InvariantHolds == Spec => []IInv
  <1>1. IInv /\ [Next]_vars => IInv'
    <2> SUFFICES ASSUME IInv, [Next]_vars PROVE IInv'
      OBVIOUS
    <2>1. ASSUME NEW c \in Clients, Step(c) PROVE IInv'
      BY <2>1, StepKeeps
    <2>2. CASE UNCHANGED vars
      BY <2>2 DEF vars, stored, IInv, TypeOK, FramesOK, FrameOK, OwnPayloads, PayloadsKept,
                  Intact, WholePayload, Referenced
    <2> QED BY <2>1, <2>2 DEF Next
  <1> QED BY Initially, <1>1, PTL DEF Spec

LEMMA AssetsAreWhole ==
    ASSUME IInv
    PROVE  Assets = [id \in AssetIds |-> IF manifests[id] = None THEN None
                                         ELSE manifests[id].content]
  BY DEF IInv, PayloadsKept, Assets

LEMMA PublishImplements ==
    ASSUME IInv, IInv', NEW c \in Clients, Publish(c)
    PROVE  Abstract!Next \/ UNCHANGED Assets
  <1> DEFINE f == client[c]
  <1>1. f.id \in AssetIds /\ f.content \in Contents
    BY DEF IInv, FramesOK, FrameOK, Publish
  <1>2. Assets = [id \in AssetIds |-> IF manifests[id] = None THEN None
                                      ELSE manifests[id].content]
    BY AssetsAreWhole
  <1>3. Assets' = [id \in AssetIds |-> IF manifests'[id] = None THEN None
                                       ELSE manifests'[id].content]
    BY DEF IInv, PayloadsKept, Assets
  <1>4. CASE UNCHANGED manifests
    BY <1>2, <1>3, <1>4
  <1>5. CASE /\ manifests[f.id] = None
             /\ manifests' = [manifests EXCEPT ![f.id] =
                                  [content |-> f.content, payload |-> f.payload]]
    <2> DEFINE manifest == [content |-> f.content, payload |-> f.payload]
    <2>1. manifest # None /\ manifest.content = f.content
      BY <1>1, ContentAssetsAssumption DEF IInv, TypeOK, Frame
    <2>2. manifests' = [manifests EXCEPT ![f.id] = manifest]
      BY <1>5
    <2> HIDE DEF manifest
    <2>3. Assets' = [Assets EXCEPT ![f.id] = f.content]
      BY <1>1, <1>2, <1>3, <2>1, <2>2 DEF IInv, TypeOK
    <2>4. Assets[f.id] = None
      BY <1>1, <1>2, <1>5
    <2>5. Abstract!create_content_asset(f.id, f.content)
      BY <2>3, <2>4 DEF Abstract!create_content_asset
    <2> QED BY <1>1, <2>5 DEF Abstract!Next
  <1> QED BY <1>4, <1>5 DEF Publish

(* Only the commit of a manifest makes an asset; no other step of any call *)
(* changes one.                                                            *)
LEMMA StepImplements ==
    ASSUME IInv, IInv', NEW c \in Clients, Step(c)
    PROVE  Abstract!Next \/ UNCHANGED Assets
  <1>1. CASE UNCHANGED manifests
    <2>1. Assets' = [id \in AssetIds |-> IF manifests'[id] = None THEN None
                                         ELSE manifests'[id].content]
      BY DEF IInv, PayloadsKept, Assets
    <2> QED BY <1>1, <2>1, AssetsAreWhole
  <1>2. CASE Publish(c)
    BY <1>2, PublishImplements
  <1> QED BY <1>1, <1>2
          DEF Step, create_content_asset, ReadManifest, CheckUnused, FirstBatch, LastBatch,
              ReadMetadata, ReadBlob, RemoveChunks, RemoveMetadata, Crash, stored

(* Through staging, cleanup, ambiguous commits and crashes an asset comes  *)
(* into being whole and in one step, and is never changed or damaged.      *)
THEOREM AssetsAreCreatedWhole == Spec => ImplementsContentAssetStore
  <1>1. Init => Abstract!Init
    BY DEF Init, Abstract!Init, Assets
  <1>2. IInv /\ IInv' /\ [Next]_vars => [Abstract!Next]_Assets
    <2> SUFFICES ASSUME IInv, IInv', [Next]_vars PROVE [Abstract!Next]_Assets
      OBVIOUS
    <2>1. ASSUME NEW c \in Clients, Step(c) PROVE [Abstract!Next]_Assets
      BY <2>1, StepImplements
    <2>2. CASE UNCHANGED vars
      BY <2>2 DEF vars, stored, Assets, Intact
    <2> QED BY <2>1, <2>2 DEF Next
  <1> QED BY <1>1, <1>2, InvariantHolds, PTL DEF Spec, ImplementsContentAssetStore, Abstract!Spec

-----------------------------------------------------------------------------
(* Without faults nothing is left behind.                                  *)

StoredPayload(p) == chunks[p] # None \/ metadata[p] # None

(* A call that has found its payload id unused answers for what is there.  *)
Holds(c, p) == client[c].payload = p /\ client[c].at # "unused"

Accounted(p) == Referenced(p) \/ \E c \in Clients : Holds(c, p)

ChunksGone(f) == f.at = "remove metadata" => chunks[f.payload] = None

Leakless ==
    /\ \A p \in PayloadIds : StoredPayload(p) => Accounted(p)
    /\ \A c \in Clients : ChunksGone(client[c])

LInv == IInv /\ faults \in Nat /\ (faults = 0 => Leakless)

(* What is stored, named or held elsewhere is not a step's business.       *)
LEMMA OthersUntouched ==
    ASSUME IInv, IInv', NEW c \in Clients, Step(c), NEW p \in PayloadIds,
           p # client[c].payload, StoredPayload(p) => Accounted(p), StoredPayload(p)'
    PROVE  Accounted(p)'
  <1>1. \A d \in Clients \ {c} : client'[d] = client[d]
    BY DEF IInv, TypeOK, Step, create_content_asset, ReadManifest, CheckUnused, FirstBatch,
           LastBatch, ReadMetadata, ReadBlob, Publish, Committed, RemoveChunks, RemoveMetadata,
           Crash, Become, Goto, Return
  <1>2. StoredPayload(p)
    BY DEF IInv, TypeOK, Step, create_content_asset, ReadManifest, CheckUnused, FirstBatch,
           LastBatch, ReadMetadata, ReadBlob, Publish, RemoveChunks, RemoveMetadata, Crash,
           stored, StoredPayload
  <1>3. CASE Referenced(p)
    <2>1. PICK id \in AssetIds : manifests[id] # None /\ manifests[id].payload = p
      BY <1>3 DEF Referenced
    <2>2. manifests'[id] = manifests[id]
      BY <2>1 DEF IInv, TypeOK, Step, create_content_asset, ReadManifest, CheckUnused,
                  FirstBatch, LastBatch, ReadMetadata, ReadBlob, Publish, RemoveChunks,
                  RemoveMetadata, Crash, stored
    <2> QED BY <2>1, <2>2 DEF Accounted, Referenced
  <1>4. CASE \E d \in Clients : Holds(d, p)
    <2>1. PICK d \in Clients : Holds(d, p)
      BY <1>4
    <2>2. d # c
      BY <2>1 DEF Holds
    <2> QED BY <1>1, <2>1, <2>2 DEF Holds, Accounted
  <1> QED BY <1>2, <1>3, <1>4 DEF Accounted

LEMMA OwnPayloadAccounted ==
    ASSUME IInv, IInv', NEW c \in Clients, Step(c), NoFault, faults \in Nat, Leakless,
           NEW p \in PayloadIds, p = client[c].payload, StoredPayload(p)'
    PROVE  Accounted(p)'
  <1> DEFINE f == client[c]
  <1>1. /\ f.payload = p /\ p # None /\ f \in Frame /\ FrameOK(f)
        /\ f.at \notin {"idle", "manifest"} /\ ~Fault
    <2>1. p # None /\ f \in Frame /\ FrameOK(f)
      BY ContentAssetsAssumption DEF IInv, TypeOK, FramesOK
    <2>2. ~Fault
      BY DEF Fault, NoFault
    <2> QED BY <2>1, <2>2 DEF FrameOK
  <1>2. ASSUME NEW at \in Places \ {"unused"}, Goto(c, at) PROVE Accounted(p)'
    <2>1. client'[c] = [f EXCEPT !.at = at]
      BY <1>2 DEF IInv, TypeOK, Goto, Become
    <2> QED BY <1>1, <2>1 DEF Frame, Holds, Accounted
  <1>3. CASE CheckUnused(c)
    <2>1. CASE Goto(c, "first batch")
      BY <1>2, <2>1 DEF Places, Writing
    <2>2. CASE metadata[p] # None
      <3>1. \A d \in Clients : ~Holds(d, p)
        BY <1>1, <1>3 DEF CheckUnused, Holds, IInv, OwnPayloads
      <3>2. Referenced(p)
        BY <2>2, <3>1 DEF Leakless, StoredPayload, Accounted
      <3> QED BY <1>3, <3>2 DEF CheckUnused, stored, Referenced, Accounted
    <2> QED BY <1>1, <1>3, <2>1, <2>2 DEF CheckUnused
  <1>4. CASE FirstBatch(c) \/ LastBatch(c) \/ RemoveChunks(c)
    <2>1. \E at \in {"last batch", "verify metadata", "remove chunks", "remove metadata"} : Goto(c, at)
      BY <1>4 DEF FirstBatch, LastBatch, RemoveChunks
    <2> QED BY <1>2, <2>1 DEF Places, Writing, Reading
  <1>5. ASSUME NEW at \in {"verify metadata", "metadata again"},
               NEW then \in {"verify blob", "blob again"}, ReadMetadata(c, at, then)
        PROVE  Accounted(p)'
    <2>1. client'[c] = [f EXCEPT !.at = then, !.seen = metadata[f.payload]]
      BY <1>1, <1>5 DEF IInv, TypeOK, ReadMetadata, Become
    <2> QED BY <1>1, <2>1 DEF Frame, Holds, Accounted
  <1>6. ASSUME NEW at \in {"verify blob", "blob again"},
               NEW then \in {"metadata again", "publish"}, ReadBlob(c, at, then)
        PROVE  Accounted(p)'
    <2>1. Goto(c, then) \/ Goto(c, "remove chunks")
      BY <1>6 DEF ReadBlob
    <2> QED BY <1>2, <2>1 DEF Places, Writing, Reading
  <1>7. CASE Publish(c)
    <2>1. CASE Goto(c, "remove chunks")
      BY <1>2, <2>1 DEF Places, Writing
    <2>2. CASE manifests' = [manifests EXCEPT ![f.id] = [content |-> f.content, payload |-> f.payload]]
      <3>1. f.id \in AssetIds /\ f.content \in Contents
        BY <1>1, <1>7 DEF FrameOK, Publish
      <3>2. manifests'[f.id] = [content |-> f.content, payload |-> p]
        BY <1>1, <2>2, <3>1 DEF IInv, TypeOK
      <3>3. manifests'[f.id] # None
        BY <1>1, <3>1, <3>2, ContentAssetsAssumption
      <3> QED BY <3>1, <3>2, <3>3 DEF Referenced, Accounted
    <2> QED BY <1>1, <1>7, <2>1, <2>2 DEF Publish, Committed, CleansUp
  <1>8. CASE RemoveMetadata(c)
    <2>1. chunks'[p] = None /\ metadata'[p] = None
      BY <1>1, <1>8 DEF RemoveMetadata, Leakless, ChunksGone, IInv, TypeOK
    <2> QED BY <2>1 DEF StoredPayload
  <1>9. ~Crash(c) /\ ~ReadManifest(c)
        /\ \A id \in AssetIds, content \in Contents : ~create_content_asset(c, id, content)
    BY <1>1 DEF Crash, ReadManifest, create_content_asset
  <1> QED BY <1>3, <1>4, <1>5, <1>6, <1>7, <1>8, <1>9 DEF Step

LEMMA ChunksGoneKeeps ==
    ASSUME IInv, IInv', NEW c \in Clients, Step(c), NoFault, faults \in Nat, Leakless, NEW d \in Clients
    PROVE  ChunksGone(client[d])'
  <1>1. SUFFICES ASSUME client'[d].at = "remove metadata" PROVE chunks'[client'[d].payload] = None
    BY DEF ChunksGone
  <1>2. ~Fault
    BY ContentAssetsAssumption DEF Fault, NoFault
  <1>3. CASE RemoveChunks(c) /\ d = c
    <2>1. client'[c] = [client[c] EXCEPT !.at = "remove metadata"]
          /\ client[c] \in Frame /\ client[c].payload \in PayloadIds
      BY <1>3 DEF RemoveChunks, Goto, Become, IInv, TypeOK, FramesOK, FrameOK, Writing
    <2>2. client'[c].payload = client[c].payload
      BY <2>1 DEF Frame
    <2> QED BY <1>2, <1>3, <2>1, <2>2 DEF RemoveChunks, IInv, TypeOK
  <1>4. CASE d # c
    <2>1. client'[d] = client[d]
      BY <1>4 DEF IInv, TypeOK, Step, create_content_asset, ReadManifest, CheckUnused, FirstBatch,
             LastBatch, ReadMetadata, ReadBlob, Publish, Committed, RemoveChunks, RemoveMetadata,
             Crash, Become, Goto, Return
    <2>2. client[d].payload \in PayloadIds /\ chunks[client[d].payload] = None
      BY <1>1, <2>1 DEF Leakless, ChunksGone, IInv, FramesOK, FrameOK, Writing
    <2>3. client[d].payload # client[c].payload
      BY <1>4, <2>2, ContentAssetsAssumption DEF IInv, OwnPayloads
    <2>4. chunks'[client[d].payload] = chunks[client[d].payload]
      BY <2>2, <2>3 DEF IInv, TypeOK, Step, create_content_asset, ReadManifest, CheckUnused,
             FirstBatch, LastBatch, ReadMetadata, ReadBlob, Publish, RemoveChunks, RemoveMetadata,
             Crash, stored
    <2> QED BY <2>1, <2>2, <2>4
  <1>5. CASE d = c /\ ~RemoveChunks(c)
    <2> DEFINE elsewhere == Places \ {"remove metadata"}
    <2>1. \/ Return(c)
          \/ \E at \in elsewhere : Goto(c, at)
          \/ \E f \in Frame : f.at \in elsewhere /\ Become(c, f)
      <3>1. ASSUME NEW id \in AssetIds, NEW content \in Contents,
                   create_content_asset(c, id, content)
            PROVE  \E f \in Frame : f.at \in elsewhere /\ Become(c, f)
        <4> DEFINE f == [Idle EXCEPT !.at = "manifest", !.id = id, !.content = content]
        <4>1. f \in Frame /\ f.at \in elsewhere
          BY DEF Idle, Frame, Places
        <4> QED BY <3>1, <4>1 DEF create_content_asset
      <3>2. ASSUME NEW p \in PayloadIds
            PROVE  [client[c] EXCEPT !.at = "unused", !.payload = p] \in Frame
        BY DEF IInv, TypeOK, Frame, Places
      <3>3. ASSUME NEW then \in {"verify blob", "blob again"}, client[c].payload \in PayloadIds
            PROVE  [client[c] EXCEPT !.at = then, !.seen = metadata[client[c].payload]] \in Frame
        BY <3>3 DEF IInv, TypeOK, Frame, Places, Writing, Reading
      <3>4. CASE ReadManifest(c)
        BY <3>2, <3>4 DEF ReadManifest, Places, IInv, TypeOK, Frame
      <3>5. ASSUME NEW at \in {"verify metadata", "metadata again"},
                   NEW then \in {"verify blob", "blob again"}, ReadMetadata(c, at, then)
            PROVE  \/ \E to \in elsewhere : Goto(c, to)
                   \/ \E f \in Frame : f.at \in elsewhere /\ Become(c, f)
        <4>1. client[c].payload \in PayloadIds
          BY <3>5 DEF ReadMetadata, IInv, FramesOK, FrameOK, Writing, Reading
        <4> DEFINE f == [client[c] EXCEPT !.at = then, !.seen = metadata[client[c].payload]]
        <4>2. f \in Frame /\ f.at = then
          BY <3>3, <4>1 DEF IInv, TypeOK, Frame
        <4> QED BY <3>5, <4>2 DEF ReadMetadata, Places, Writing, Reading
      <3>6. ASSUME NEW at \in {"verify blob", "blob again"},
                   NEW then \in {"metadata again", "publish"}, ReadBlob(c, at, then)
            PROVE  \E to \in elsewhere : Goto(c, to)
        <4>1. Goto(c, then) \/ Goto(c, "remove chunks")
          BY <3>6 DEF ReadBlob
        <4> QED BY <4>1 DEF Places, Writing, Reading
      <3>7. CASE Publish(c)
        <4>1. Return(c) \/ Goto(c, "remove chunks")
          BY <3>7 DEF Publish, Committed
        <4> QED BY <4>1 DEF Places, Writing
      <3>8. CASE CheckUnused(c) \/ FirstBatch(c) \/ LastBatch(c)
        <4>1. \/ Return(c)
              \/ \E at \in {"first batch", "last batch", "verify metadata", "remove chunks"} :
                    Goto(c, at)
          BY <3>8 DEF CheckUnused, FirstBatch, LastBatch
        <4> QED BY <4>1 DEF Places, Writing, Reading
      <3>9. CASE RemoveMetadata(c) \/ Crash(c)
        BY <3>9 DEF RemoveMetadata, Crash
      <3>10. CASE \/ ReadMetadata(c, "verify metadata", "verify blob")
                  \/ ReadMetadata(c, "metadata again", "blob again")
        BY <3>5, <3>10
      <3>11. CASE \/ ReadBlob(c, "verify blob", "metadata again")
                  \/ ReadBlob(c, "blob again", "publish")
        BY <3>6, <3>11
      <3>12. CASE \E id \in AssetIds, content \in Contents : create_content_asset(c, id, content)
        BY <3>1, <3>12
      <3>13. CASE RemoveChunks(c)
        BY <1>5, <3>13
      <3> QED BY <3>4, <3>7, <3>8, <3>9, <3>10, <3>11, <3>12, <3>13 DEF Step
    <2>2. client'[c].at # "remove metadata"
      <3>1. CASE Return(c)
        BY <3>1 DEF IInv, TypeOK, Become, Return, Idle
      <3>2. ASSUME NEW at \in elsewhere, Goto(c, at) PROVE client'[c].at # "remove metadata"
        <4>1. client'[c] = [client[c] EXCEPT !.at = at] /\ client[c] \in Frame
          BY <3>2 DEF IInv, TypeOK, Goto, Become
        <4> QED BY <4>1 DEF Frame
      <3>3. ASSUME NEW f \in Frame, f.at \in elsewhere, Become(c, f)
            PROVE  client'[c].at # "remove metadata"
        <4>1. client'[c] = f
          BY <3>3 DEF IInv, TypeOK, Become
        <4> QED BY <3>3, <4>1
      <3> QED BY <2>1, <3>1, <3>2, <3>3
    <2> QED BY <1>1, <1>5, <2>2
  <1> QED BY <1>3, <1>4, <1>5

(* As long as no call throws and no process stops, every stored payload is *)
(* named by a manifest or belongs to a call under way.                     *)
THEOREM NothingIsLeftBehind == Spec => []NoStagingLeaks
  <1>1. Init => LInv
    <2> SUFFICES ASSUME Init PROVE LInv
      OBVIOUS
    <2>1. Leakless
      BY DEF Init, Leakless, StoredPayload, ChunksGone, Idle
    <2> QED BY <2>1, Initially DEF Init, LInv
  <1>2. LInv /\ [Next]_vars => LInv'
    <2> SUFFICES ASSUME LInv, [Next]_vars PROVE LInv'
      OBVIOUS
    <2>1. ASSUME NEW c \in Clients, Step(c) PROVE LInv'
      <3>1. IInv /\ IInv' /\ faults \in Nat
        BY <2>1, StepKeeps DEF LInv
      <3>2. NoFault \/ faults' = faults + 1
        BY <2>1 DEF Step, create_content_asset, ReadManifest, CheckUnused, FirstBatch,
           LastBatch, ReadMetadata, ReadBlob, Publish, RemoveChunks, RemoveMetadata, Crash, Fault
      <3>3. CASE NoFault /\ faults = 0
        <4>1. Leakless
          BY <3>3 DEF LInv
        <4>2. ASSUME NEW p \in PayloadIds, StoredPayload(p)' PROVE Accounted(p)'
          <5>1. StoredPayload(p) => Accounted(p)
            BY <4>1 DEF Leakless
          <5> QED BY <2>1, <3>1, <3>3, <4>1, <4>2, <5>1, OthersUntouched, OwnPayloadAccounted
        <4>3. \A d \in Clients : ChunksGone(client[d])'
          BY <2>1, <3>1, <3>3, <4>1, ChunksGoneKeeps
        <4>4. Leakless'
          BY <4>2, <4>3 DEF Leakless
        <4> QED BY <3>1, <3>3, <4>4 DEF LInv, NoFault
      <3>4. CASE faults' # 0
        BY <3>1, <3>2, <3>4 DEF LInv, NoFault
      <3> QED BY <3>1, <3>2, <3>3, <3>4 DEF NoFault
    <2>2. CASE UNCHANGED vars
      <3>1. IInv'
        BY <2>2 DEF LInv, vars, stored, IInv, TypeOK, FramesOK, FrameOK, OwnPayloads,
                    PayloadsKept, Intact, WholePayload, Referenced
      <3>2. Leakless => Leakless'
        BY <2>2 DEF vars, stored, Leakless, StoredPayload, Accounted, Holds, Referenced, ChunksGone
      <3> QED BY <2>2, <3>1, <3>2 DEF LInv, vars
    <2> QED BY <2>1, <2>2 DEF Next
  <1>3. LInv => NoStagingLeaks
    BY DEF LInv, Leakless, StoredPayload, Accounted, Holds, NoStagingLeaks
  <1> QED BY <1>1, <1>2, <1>3, PTL DEF Spec
=============================================================================
