------------------------------ MODULE ApiKeyPanel ------------------------------
(***************************************************************************)
(* islands/ApiKeyPanel.tsx, lib/api-key/http.ts and lib/api-key/service.ts *)
(* over the repository of ApiKeyStore: the creator's list of API keys in a *)
(* browser, while other tabs and the keys themselves change it.            *)
(*                                                                         *)
(* A handler runs without interruption between two awaits; a control is    *)
(* clicked in the state the last render shows.  A key is known by its      *)
(* bearer; its id is its number in the order of creation.  Half minutes    *)
(* are counted: the form's expiry is a whole minute, 0 for what is not a   *)
(* moment at all.  Notices, copying and showing a bearer are left out.     *)
(***************************************************************************)
EXTENDS Naturals, Sequences, FiniteSets, SequencesExt

CONSTANTS KeyIds, Nil, max_key_revision,
          Slots,        \* handlers under way at once
          KeyScenarios  \* stored keys, the clicks and foreign requests to come, ...

VARIABLES api_keys,  \* the repository: id -> record or Nil
          issued,    \* ids a key has had
          now,
          cookie,    \* the browser's session, Nil for a guest
          key_panel, \* the state hooks
          handler,   \* handlers under way
          key_clicks,\* the creator's clicks to come, in any order
          rivals,    \* requests of other tabs and of keys, and what else is to come
          outages,   \* network failures to come
          delayed    \* handlers whose request, given up by the browser, may still arrive

key_server == <<api_keys, issued, now, cookie>>
key_vars == <<key_server, key_panel, handler, key_clicks, rivals, outages, delayed>>

Owners == {"u1", "u2"}

Repository == INSTANCE ApiKeyStore
                WITH keys <- api_keys, None <- Nil, Hashes <- KeyIds,
                     MaxRevision <- max_key_revision,
                     Metadata <- [label : STRING, permissions : SUBSET {"read", "write", "delete"},
                                  expires_at : Nat \cup {Nil}]

-----------------------------------------------------------------------------
(* The service. *)

api_key_permissions == {"read", "write", "delete"}

is_valid_api_key_label(label) == label \notin {"", "a tab"}

Past(moment) == moment # Nil /\ moment <= now

api_key_status(metadata) == IF Past(metadata.expires_at) THEN "expired" ELSE "active"

api_key_metadata(id) ==
    [api_key_id |-> id, revision |-> api_keys[id].revision,
     status |-> api_key_status(api_keys[id].metadata)] @@ api_keys[id].metadata

Owned(user) == {id \in KeyIds : api_keys[id] # Nil /\ api_keys[id].owner_user_id = user}

list_owned(user) ==
    LET ids == SetToSortSeq(Owned(user), LAMBDA j, k : j < k)
    IN [k \in DOMAIN ids |-> api_key_metadata(ids[k])]

(* "all" stands alone, for every permission there is now.                  *)
normalizable(permissions) ==
    /\ permissions # {}
    /\ permissions = {"all"} \/ permissions \subseteq api_key_permissions

normalize_api_key_permissions(permissions) ==
    IF "all" \in permissions THEN api_key_permissions ELSE permissions

validation(body) ==
    CASE ~is_valid_api_key_label(body.label) -> "invalid_label"
      [] ~normalizable(body.permissions) -> "invalid_permissions"
      [] Past(body.expires_at) -> "invalid_expiry"
      [] OTHER -> "ok"

validated(body) ==
    [body EXCEPT !.permissions = normalize_api_key_permissions(@)]

(* resolve_bearer: a key that is stored and has not expired.               *)
Authenticates(id) == api_keys[id] # Nil /\ api_key_status(api_keys[id].metadata) = "active"

-----------------------------------------------------------------------------
(* The HTTP adapter. *)

Mutates(req) == req.op # "list keys"

(* A bearer never manages keys, and a cookie is no fallback for it.        *)
browser_gate(req) ==
    CASE req.bearer # Nil -> "invalid_bearer"
      [] req.bearer = Nil /\ cookie = Nil -> "not_authenticated"
      [] req.bearer = Nil /\ cookie # Nil /\ Mutates(req) /\ req.csrf_token # cookie.csrf_token ->
            "invalid_csrf"
      [] OTHER -> "ok"

revoke_all_gate(req) ==
    CASE req.bearer = Nil -> browser_gate(req)
      [] req.bearer # Nil /\ ~Authenticates(req.bearer) -> "invalid_bearer"
      [] req.bearer # Nil /\ Authenticates(req.bearer)
            /\ "delete" \notin api_keys[req.bearer].metadata.permissions ->
            "insufficient_permission"
      [] OTHER -> "ok"

Requester(req) == IF req.bearer = Nil THEN cookie.user ELSE api_keys[req.bearer].owner_user_id

Decode_precondition(req) ==
    CASE req.if_match = Nil -> "precondition_required"
      [] req.if_match # Nil /\ req.if_match.api_key_id # req.api_key_id -> "precondition_failed"
      [] OTHER -> "ok"

(* Mutant: the precondition is not carried to the command. *)
expected_revision_current(req) == api_keys[req.api_key_id].revision

expected_revision(req) == req.if_match.revision

(* What the repository makes of a command on one key.                      *)
item_outcome(req) ==
    IF req.api_key_id \notin Owned(Requester(req)) THEN "not_found"
    ELSE IF api_keys[req.api_key_id].revision # expected_revision(req) THEN "precondition_failed"
    ELSE "ok"

FirstOf(checks) ==
    IF \A k \in DOMAIN checks : checks[k] = "ok" THEN "ok"
    ELSE checks[CHOOSE k \in DOMAIN checks :
                    checks[k] # "ok" /\ \A j \in 1 .. k - 1 : checks[j] = "ok"]

(* In the order of the checks; the next is made only when one succeeds.    *)
outcome(req) ==
    IF req.op = "revoke_all" THEN revoke_all_gate(req)
    ELSE IF browser_gate(req) # "ok" \/ req.op = "list keys" THEN browser_gate(req)
    ELSE IF req.op = "create" THEN validation(req.body)
    ELSE IF Decode_precondition(req) # "ok" THEN Decode_precondition(req)
    ELSE IF req.op = "revoke" THEN item_outcome(req)
    ELSE FirstOf(<<validation(req.body), item_outcome(req)>>)

key_status(req, reason) ==
    CASE reason = "ok" /\ req.op = "create" -> 201
      [] reason = "ok" /\ req.op # "create" -> 200
      [] reason \in {"invalid_bearer", "not_authenticated"} -> 401
      [] reason \in {"invalid_csrf", "insufficient_permission"} -> 403
      [] reason = "not_found" -> 404
      [] reason = "precondition_failed" -> 412
      [] reason \in {"invalid_label", "invalid_permissions", "invalid_expiry"} -> 422
      [] reason = "precondition_required" -> 428

NextKey == CHOOSE id \in KeyIds \ issued : \A other \in KeyIds \ issued : id <= other

(* The command's one step in the repository. *)
Serve(req) ==
    \/ /\ outcome(req) # "ok" \/ req.op = "list keys"
       /\ UNCHANGED <<api_keys, issued>>
    \/ /\ outcome(req) = "ok"
       /\ \/ /\ req.op = "create" /\ KeyIds # issued
             /\ Repository!create(NextKey,
                   [owner_user_id |-> Requester(req), secret_hash |-> NextKey,
                    metadata |-> validated(req.body), revision |-> 1])
             /\ issued' = issued \cup {NextKey}
          \/ /\ req.op = "update"
             /\ Repository!update(req.api_key_id, Requester(req), expected_revision(req),
                                  validated(req.body))
             /\ UNCHANGED issued
          \/ /\ req.op = "revoke"
             /\ Repository!revoke(req.api_key_id, Requester(req), expected_revision(req))
             /\ UNCHANGED issued
          \/ /\ req.op = "revoke_all"
             /\ Repository!revoke_all_by_owner(Requester(req))
             /\ UNCHANGED issued
    /\ UNCHANGED <<now, cookie>>

-----------------------------------------------------------------------------
(* The forms. *)

empty_draft == [label |-> "", permissions |-> {}, all_access |-> FALSE, expiry |-> Nil,
                chosen |-> FALSE, opened_at |-> 0]

(* The date and time inputs show whole minutes. *)
expiry_fields_from_iso(moment) == IF moment = Nil THEN Nil ELSE moment - (moment % 2)

(* chosen: whether the creator has set the expiry; opened_at: the revision *)
(* of the row the form was opened on.  For a property; no step reads them. *)
draft_of(row) ==
    [label |-> row.label, permissions |-> row.permissions,
     all_access |-> row.permissions = api_key_permissions,
     expiry |-> expiry_fields_from_iso(row.expires_at), chosen |-> FALSE,
     opened_at |-> row.revision]

to_draft(state) ==
    [label |-> state.label, permissions |-> IF state.all_access THEN {"all"} ELSE state.permissions,
     expires_at |-> state.expiry]

Blank_label(label) == label \in {"", " "}

api_key_draft_violation(draft) ==
    Blank_label(draft.label) \/ draft.permissions = {} \/ Past(draft.expires_at)

(* An input of draft_form. *)
Typed(state, input) ==
    CASE input.field = "label" -> [state EXCEPT !.label = input.label]
      [] input.field = "all" ->
            [state EXCEPT !.all_access = ~@,
                          !.permissions = IF state.all_access THEN @ ELSE api_key_permissions]
      [] input.field = "permission" ->
            [state EXCEPT !.permissions = IF input.permission \in @ THEN @ \ {input.permission}
                                          ELSE @ \cup {input.permission}]
      [] input.field = "today" ->
            [state EXCEPT !.expiry = expiry_fields_from_iso(now), !.chosen = TRUE]
      [] input.field = "expiry" -> [state EXCEPT !.expiry = input.expiry, !.chosen = TRUE]

Typable(state, input) == input.field = "permission" => ~state.all_access

-----------------------------------------------------------------------------
(* Requests and the handlers that send them. *)

(* The token minted for the session that rendered the page.                *)
synchronizer == "t1"

KeyRequest(op, id, if_match, body) ==
    [op |-> op, bearer |-> Nil, csrf_token |-> synchronizer, api_key_id |-> id,
     if_match |-> if_match, body |-> body]

api_key_etag(row) == [api_key_id |-> row.api_key_id, revision |-> row.revision]

prepare_api_key_list_request == KeyRequest("list keys", Nil, Nil, Nil)

prepare_api_key_update_request(row, draft) ==
    KeyRequest("update", row.api_key_id, api_key_etag(row), draft)

prepare_api_key_revoke_request(row) ==
    KeyRequest("revoke", row.api_key_id, api_key_etag(row), Nil)

NoHandler == [at |-> "idle", kind |-> Nil, row |-> Nil, state |-> Nil, generated |-> Nil,
              request |-> Nil, reply |-> Nil, refreshing |-> FALSE]

FreeSlot ==
    CHOOSE i \in Slots : handler[i].at = "idle" /\ \A j \in 1 .. i - 1 : handler[j].at # "idle"

(* The handler's closure keeps the row, the form and the bearer shown at   *)
(* the click.                                                              *)
send(row, state, request) ==
    /\ \E i \in Slots : handler[i].at = "idle"
    /\ key_panel' = [key_panel EXCEPT !.busy = TRUE]
    /\ handler' = [handler EXCEPT ![FreeSlot] =
           [NoHandler EXCEPT !.at = "sent", !.kind = request.op, !.row = row,
                             !.state = state, !.generated = key_panel.generated,
                             !.request = request]]

ShowKeys(p) == key_panel' = p /\ UNCHANGED handler

generate ==
    LET candidate == to_draft(key_panel.draft) IN
    /\ ~api_key_draft_violation(candidate)
    /\ send(Nil, key_panel.draft, KeyRequest("create", Nil, Nil, candidate))

start_edit(row) ==
    ShowKeys([key_panel EXCEPT !.editing = row.api_key_id, !.confirm_revoke = Nil,
                               !.edit_draft = draft_of(row)])

save_key_edit(row) ==
    LET candidate == to_draft(key_panel.edit_draft) IN
    /\ ~api_key_draft_violation(candidate)
    /\ send(row, key_panel.edit_draft, prepare_api_key_update_request(row, candidate))

revoke_key(row) ==
    \/ /\ key_panel.confirm_revoke # row.api_key_id
       /\ ShowKeys([key_panel EXCEPT !.confirm_revoke = row.api_key_id])
    \/ /\ key_panel.confirm_revoke = row.api_key_id
       /\ send(row, Nil, prepare_api_key_revoke_request(row))

revoke_all_keys ==
    \/ /\ ~key_panel.confirm_revoke_all
       /\ ShowKeys([key_panel EXCEPT !.confirm_revoke_all = TRUE])
    \/ /\ key_panel.confirm_revoke_all
       /\ send(Nil, Nil, KeyRequest("revoke_all", Nil, Nil, Nil))

RowOf(id) == CHOOSE k \in DOMAIN key_panel.keys : key_panel.keys[k].api_key_id = id
HasRow(id) == \E k \in DOMAIN key_panel.keys : key_panel.keys[k].api_key_id = id

(* Buttons, disabled while the panel is busy but for those of FormInput.   *)
KeyButton(c) ==
    /\ ~key_panel.busy
    /\ \/ c.do = "generate" /\ generate
       \/ c.do = "revoke all" /\ key_panel.keys # <<>> /\ revoke_all_keys
       \/ /\ c.do \in {"edit key", "save key", "revoke key"} /\ HasRow(c.id)
          /\ LET row == key_panel.keys[RowOf(c.id)] IN
             \/ c.do = "edit key" /\ key_panel.editing # c.id /\ start_edit(row)
             \/ c.do = "save key" /\ key_panel.editing = c.id /\ save_key_edit(row)
             \/ c.do = "revoke key" /\ key_panel.editing # c.id /\ revoke_key(row)

FormInput(c) ==
    \/ /\ c.do = "new key" /\ Typable(key_panel.draft, c)
       /\ ShowKeys([key_panel EXCEPT !.draft = Typed(@, c)])
    \/ /\ c.do = "key" /\ key_panel.editing # Nil /\ HasRow(key_panel.editing)
       /\ Typable(key_panel.edit_draft, c)
       /\ ShowKeys([key_panel EXCEPT !.edit_draft = Typed(@, c)])
    \/ /\ c.do = "cancel key" /\ key_panel.editing # Nil /\ HasRow(key_panel.editing)
       /\ ShowKeys([key_panel EXCEPT !.editing = Nil])
    \/ /\ c.do = "keep keys" /\ key_panel.keys # <<>> /\ key_panel.confirm_revoke_all
       /\ ShowKeys([key_panel EXCEPT !.confirm_revoke_all = FALSE])

ClickKeys(c) ==
    /\ KeyButton(c) \/ FormInput(c)
    /\ key_clicks' = key_clicks \ {c}
    /\ UNCHANGED <<key_server, rivals, outages, delayed>>

-----------------------------------------------------------------------------
(* The server and the network. *)

ReplyKeys(i, reply) == handler' = [handler EXCEPT ![i].at = "answered", ![i].reply = reply]

NoKeyReply == [status |-> 0, api_key |-> Nil, api_keys |-> <<>>]

(* The key a command replies with, as the service presents it.             *)
Presented(req) ==
    LET id == IF req.op = "create" THEN NextKey ELSE req.api_key_id
    IN [api_key_id |-> id, revision |-> api_keys'[id].revision,
        status |-> api_key_status(api_keys'[id].metadata)] @@ api_keys'[id].metadata

AnswerKeys(i) ==
    LET req == handler[i].request
        served == outcome(req) = "ok"
    IN
    /\ handler[i].at = "sent"
    /\ Serve(req)
    /\ ReplyKeys(i, [status |-> key_status(req, outcome(req)),
                     api_key |-> IF served /\ req.op \in {"create", "update"}
                                 THEN Presented(req) ELSE Nil,
                     api_keys |-> IF served /\ req.op = "list keys"
                                  THEN list_owned(Requester(req)) ELSE <<>>])
    /\ UNCHANGED <<key_panel, key_clicks, rivals, outages, delayed>>

(* fetch throws: the request is lost, or given up and still on its way, or *)
(* its reply is lost.  A reply that is not JSON ends like it.              *)
LoseKeys(i) ==
    /\ outages > 0 /\ outages' = outages - 1
    /\ handler[i].at # "idle"
    /\ ReplyKeys(i, NoKeyReply)
    /\ \/ UNCHANGED delayed
       \/ /\ handler[i].at = "sent" /\ Mutates(handler[i].request)
          /\ delayed' = delayed \cup {handler[i]}
    /\ UNCHANGED <<key_server, key_panel, key_clicks, rivals>>

ArriveDelayed(h) ==
    /\ Serve(h.request)
    /\ delayed' = delayed \ {h}
    /\ UNCHANGED <<key_panel, handler, key_clicks, rivals, outages>>

(* Time passes, the browser's session ends or another one starts, another  *)
(* tab or a key sends a request of its own.                                *)
Rival(r) ==
    /\ rivals' = rivals \ {r}
    /\ \/ r.op = "tick" /\ now' = now + 1 /\ UNCHANGED <<api_keys, issued, cookie>>
       \/ r.op = "session" /\ cookie' = r.session /\ UNCHANGED <<api_keys, issued, now>>
       \/ r.op \notin {"tick", "session"} /\ Serve(r)
    /\ UNCHANGED <<key_panel, handler, key_clicks, outages, delayed>>

-----------------------------------------------------------------------------
(* A handler goes on with its reply. *)

EndKeys(i, p) == key_panel' = p /\ handler' = [handler EXCEPT ![i] = NoHandler]

(* What every handler does first. *)
Settled(p, kind) ==
    [p EXCEPT !.busy = FALSE,
              !.confirm_revoke = IF kind = "revoke" THEN Nil ELSE @,
              !.confirm_revoke_all = @ /\ kind # "revoke_all"]

Done(p, h) ==
    CASE h.kind = "create" ->
            [p EXCEPT !.keys = Append(@, h.reply.api_key), !.draft = empty_draft,
                      !.generated = h.reply.api_key.api_key_id]
      [] h.kind = "update" ->
            [p EXCEPT !.keys = [k \in DOMAIN @ |->
                                   IF @[k].api_key_id = h.reply.api_key.api_key_id
                                   THEN h.reply.api_key ELSE @[k]],
                      !.editing = Nil]
      [] h.kind = "revoke" ->
            [p EXCEPT !.keys = SelectSeq(@, LAMBDA row : row.api_key_id # h.row.api_key_id),
                      !.generated = IF h.generated = h.row.api_key_id THEN Nil ELSE @]
      [] h.kind = "revoke_all" -> [p EXCEPT !.keys = <<>>, !.generated = Nil]

(* handle_failure: what is stale is read again, with the panel free.       *)
refresh_keys(i, p) ==
    /\ key_panel' = p
    /\ handler' = [handler EXCEPT ![i].at = "sent", ![i].reply = Nil, ![i].refreshing = TRUE,
                                  ![i].request = prepare_api_key_list_request]

ContinueKeys(i) ==
    LET h == handler[i]
        p == Settled(key_panel, h.kind)
    IN
    \/ h.reply.status \in {200, 201} /\ EndKeys(i, Done(p, h))
    \/ h.reply.status \in {412, 428} /\ refresh_keys(i, p)
    \/ h.reply.status \notin {200, 201, 412, 428} /\ EndKeys(i, p)

ResumeKeys(i) ==
    /\ handler[i].at = "answered"
    /\ \/ ~handler[i].refreshing /\ ContinueKeys(i)
       \/ /\ handler[i].refreshing
          /\ EndKeys(i, IF handler[i].reply.status = 200
                        THEN [key_panel EXCEPT !.keys = handler[i].reply.api_keys] ELSE key_panel)
    /\ UNCHANGED <<key_server, key_clicks, rivals, outages, delayed>>

KeyPanelInit ==
    \E s \in KeyScenarios :
        /\ api_keys = s.api_keys /\ issued = {id \in KeyIds : api_keys[id] # Nil}
        /\ now = 1 /\ cookie = [user |-> "u1", csrf_token |-> synchronizer]
        /\ key_panel = [keys |-> list_owned("u1"), draft |-> empty_draft, busy |-> FALSE,
                        generated |-> Nil, editing |-> Nil, edit_draft |-> empty_draft,
                        confirm_revoke |-> Nil, confirm_revoke_all |-> FALSE]
        /\ handler = [i \in Slots |-> NoHandler]
        /\ key_clicks = s.clicks /\ rivals = s.rivals /\ outages = s.outages
        /\ delayed = {}

KeyPanelNext ==
    \/ \E c \in key_clicks : ClickKeys(c)
    \/ \E i \in Slots : AnswerKeys(i) \/ LoseKeys(i) \/ ResumeKeys(i)
    \/ \E h \in delayed : ArriveDelayed(h)
    \/ \E r \in rivals : Rival(r)

KeyPanelSpec == KeyPanelInit /\ [][KeyPanelNext]_key_vars

-----------------------------------------------------------------------------
(* Properties. *)

(* A stored key is the one its row showed when it was clicked. *)
RowStands(row, id) ==
    /\ row.api_key_id = id
    /\ row = [api_key_metadata(id) EXCEPT !.status = row.status]

(* The form shows the key as it is, and its expiry was left alone. *)
Untouched(h) == ~h.state.chosen /\ h.state.opened_at = h.row.revision

ExpiryKept(h, id) ==
    Untouched(h) =>
        LET before == api_keys[id].metadata.expires_at
            after == api_keys'[id].metadata.expires_at
        IN IF before = Nil THEN after = Nil ELSE now < after /\ after <= before

AskedOf(h, id) ==
    \/ h.kind = "revoke_all"
    \/ h.kind = "revoke" /\ RowStands(h.row, id)
    \/ h.kind = "update" /\ RowStands(h.row, id) /\ ExpiryKept(h, id)

(* The panel changes or revokes one key only while the key is what its row *)
(* showed at the click, however the list was refreshed and whatever other  *)
(* tabs, keys and late requests did; and saving a form whose expiry nobody *)
(* touched never makes a key live longer nor brings an expired one back.   *)
KeysChangeAsAsked ==
    [][\A id \in KeyIds :
          api_keys[id] # Nil /\ api_keys'[id] # api_keys[id] =>
             /\ \A i \in Slots : handler'[i] # handler[i] => AskedOf(handler[i], id)
             /\ \A h \in delayed \ delayed' : AskedOf(h, id)]_key_vars
=============================================================================
