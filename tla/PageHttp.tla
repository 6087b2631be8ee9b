------------------------------- MODULE PageHttp -------------------------------
(***************************************************************************)
(* lib/page/http.ts, lib/api-auth and lib/page/cursor.ts: how a request of *)
(* the management API is authenticated, authorized and bound to a          *)
(* revision, what it makes of the managed pages of one owner and namespace *)
(* at the moment its command commits, and the status its outcome gets.     *)
(*                                                                         *)
(* A command is one step here: PageService has its awaits.  Page names are *)
(* numbers in the order of their sort keys, 0 the namespace's default      *)
(* page; what cannot be decoded, tags, content and the locators of         *)
(* alternate endpoints are left out.                                       *)
(***************************************************************************)
EXTENDS Integers, Sequences, FiniteSets, SequencesExt

CONSTANTS PageIds, None, max_page_name, max_page_revision,
          page_limit,        \* rows per list reply
          AgentPermissions   \* what the owner's API key was granted

ASSUME PageHttpAssumption ==
    /\ None \notin PageIds
    /\ max_page_name \in Nat /\ max_page_revision \in Nat \ {0} /\ page_limit \in Nat \ {0}
    /\ AgentPermissions \subseteq {"read", "write", "delete"}

VARIABLES stored,   \* page id -> what PageSummary shows of it, None without a page
          drawn,    \* ids a page has had
          session,  \* CSRF token of the browser's session, "guest" when signed out
          key       \* the API key: "live" or "revoked"

server == <<stored, drawn, session, key>>

Names == 0 .. max_page_name

(* source: whether the content is kept here, outside or was found missing. *)
Summary == [name : Names, alternates : BOOLEAN, access : {"public", "private"},
            content_type : {"md-page", "pdf", "other"}, block_api_write : BOOLEAN,
            source : {"inline", "external", "missing"}, revision : 1 .. max_page_revision]

present_summary(id) == [page_id |-> id] @@ stored[id]

-----------------------------------------------------------------------------
(* Who asks, and for what. *)

(* An Authorization header decides alone: the session is no fallback.      *)
principal(req) ==
    IF req.bearer THEN IF key = "live" THEN "api_key" ELSE "invalid_bearer"
    ELSE IF session = "guest" THEN "guest" ELSE "browser_user"

permission(op) ==
    IF op \in {"list", "inspect"} THEN "read"
    ELSE IF op \in {"delete", "bulk_delete"} THEN "delete" ELSE "write"

invalid_csrf(req) == permission(req.op) # "read" /\ req.csrf_token # session

authorize(req) ==
    LET who == principal(req) IN
    CASE who = "invalid_bearer" -> "invalid_bearer"
      [] who = "guest" -> "not_authenticated"
      [] who = "browser_user" /\ invalid_csrf(req) -> "invalid_csrf"
      [] who = "api_key" /\ permission(req.op) \notin AgentPermissions ->
            "insufficient_permission"
      [] OTHER -> "ok"

IsBulk(req) == req.op \in {"bulk_access", "bulk_delete"}
IsItem(req) == ~IsBulk(req) /\ req.op # "list"

decode_precondition(req) ==
    CASE ~IsItem(req) \/ req.op = "inspect" -> "ok"
      [] req.if_match = None -> "precondition_required"
      [] req.if_match # None /\ req.if_match.page_id # req.page_id -> "precondition_failed"
      [] OTHER -> "ok"

status(reason) ==
    CASE reason = "ok" -> 200
      [] reason = "created" -> 201
      [] reason = "deleted" -> 204
      [] reason = "invalid_cursor" -> 400
      [] reason \in {"invalid_bearer", "not_authenticated"} -> 401
      [] reason \in {"invalid_csrf", "insufficient_permission", "api_write_blocked",
                     "protection_requires_session"} -> 403
      [] reason = "not_found" -> 404
      [] reason \in {"page_exists", "revision_exhausted", "content_not_external",
                     "connection_revoked"} -> 409
      [] reason \in {"precondition_failed", "revision_conflict"} -> 412
      [] reason \in {"endpoint_set_required", "external_content_mismatch"} -> 422
      [] reason = "precondition_required" -> 428
      [] reason \in {"page_name_generation_exhausted", "external_source_unreachable"} -> 503

-----------------------------------------------------------------------------
(* Commands on one page. *)

Live == {id \in PageIds : stored[id] # None}
Taken(id) == {stored[other].name : other \in Live \ {id}}
FreeNames == Names \ ({stored[id].name : id \in Live} \cup {0})
FreshIds == PageIds \ drawn

(* Mutant: the precondition is not carried to the command. *)
revision_conflict_never(req, id, expected) == FALSE

revision_conflict(req, id, expected) == stored[id].revision # expected

api_write_blocked(req, id) == req.bearer /\ stored[id].block_api_write

(* A page that has the name or the references asked for is left alone. *)
unchanged(req, page) ==
    \/ req.op = "rename" /\ page.name = req.page_name
    \/ req.op = "endpoints" /\ page.name = req.page_name /\ page.alternates

(* What can be copied without new endpoints: a PDF can also be attached.   *)
OneInlineEndpoint(page) == ~page.alternates /\ page.content_type # "pdf"

(* What the page service answers to a command on page id at a revision, in *)
(* the order of its checks.                                                *)
verdict(req, id, expected) ==
    IF req.op = "block" /\ req.bearer THEN "protection_requires_session"
    ELSE IF stored[id] = None THEN "not_found"
    ELSE IF api_write_blocked(req, id) THEN "api_write_blocked"
    ELSE IF revision_conflict(req, id, expected) THEN "revision_conflict"
    ELSE IF req.op \in {"delete", "bulk_delete"} THEN "deleted"
    ELSE IF req.op = "rename" /\ unchanged(req, stored[id]) THEN "ok"
    ELSE IF req.op # "duplicate" /\ stored[id].revision = max_page_revision
         THEN "revision_exhausted"
    ELSE IF req.op = "relink" /\ stored[id].source = "inline" THEN "content_not_external"
    ELSE IF req.op \in {"rename", "endpoints"} /\ req.page_name \in Taken(id) THEN "page_exists"
    ELSE IF req.op = "duplicate" /\ ~OneInlineEndpoint(stored[id]) THEN "endpoint_set_required"
    ELSE IF req.op = "duplicate" /\ (FreeNames = {} \/ FreshIds = {})
         THEN "page_name_generation_exhausted"
    ELSE IF req.op = "duplicate" THEN "created" ELSE "ok"

(* The storage provider may refuse the copy that a page is to be linked to *)
(* (one reason stands for those with the same status).                     *)
verdicts(req, id, expected) ==
    LET asked == verdict(req, id, expected) IN
    {asked} \cup IF req.op = "relink" /\ asked = "ok"
                 THEN {"connection_revoked", "external_content_mismatch",
                       "external_source_unreachable"} ELSE {}

succeeded(reason) == reason \in {"ok", "created", "deleted"}

patched(req, page) ==
    CASE req.op \in {"access", "bulk_access"} -> [page EXCEPT !.access = req.access]
      [] req.op = "block" -> [page EXCEPT !.block_api_write = req.block_api_write]
      [] req.op = "content" -> [page EXCEPT !.source = "inline"]
      [] req.op = "endpoints" -> [page EXCEPT !.name = req.page_name, !.alternates = TRUE]
      [] req.op = "rename" -> [page EXCEPT !.name = req.page_name]
      [] req.op = "relink" -> [page EXCEPT !.source = "external"]

(* The lock goes with the copy; that content was found missing does not.   *)
copy(page, name) ==
    [page EXCEPT !.name = name, !.revision = 1,
                 !.source = IF @ = "missing" THEN "external" ELSE @]

Mutate(req, id) ==
    \/ /\ req.op \in {"delete", "bulk_delete"}
       /\ stored' = [stored EXCEPT ![id] = None]
       /\ UNCHANGED drawn
    \/ /\ req.op = "duplicate"
       /\ \E fresh \in FreshIds, name \in FreeNames :
             /\ stored' = [stored EXCEPT ![fresh] = copy(stored[id], name)]
             /\ drawn' = drawn \cup {fresh}
    \/ /\ req.op \notin {"delete", "bulk_delete", "duplicate"}
       /\ stored' = [stored EXCEPT ![id] =
                        IF unchanged(req, @) THEN @
                        ELSE [patched(req, @) EXCEPT !.revision = @ + 1]]
       /\ UNCHANGED drawn

Apply(req, id, reason) ==
    \/ succeeded(reason) /\ Mutate(req, id)
    \/ ~succeeded(reason) /\ UNCHANGED <<stored, drawn>>

-----------------------------------------------------------------------------
(* Lists. *)

(* filters: the names the query matches, all without one; the access asked *)
(* for, if any; whether only pages with missing content are.               *)
Filters == [names : SUBSET Names, access : {"any", "public", "private"}, broken : BOOLEAN]

no_filters == [names |-> Names, access |-> "any", broken |-> FALSE]

matches_managed_list(page, filters) ==
    /\ page.name \in filters.names
    /\ filters.access \in {"any", page.access}
    /\ filters.broken => page.source = "missing"

encode_managed_page_list_cursor(last, scope) == [last |-> stored[last].name, scope |-> scope]

(* The sort key to resume after, None for a cursor of another scope.       *)
decode_managed_page_list_cursor(cursor, scope) ==
    IF cursor = None THEN -1 ELSE IF cursor.scope = scope THEN cursor.last ELSE None

compare_page_sort_keys(a, b) == stored[a].name < stored[b].name

(* The reply to a list request: its rows and the cursor to go on from. *)
list_managed(filters, cursor) ==
    LET after == decode_managed_page_list_cursor(cursor, filters)
        found == IF after = None THEN <<>>
                 ELSE SetToSortSeq({id \in Live : /\ matches_managed_list(stored[id], filters)
                                                  /\ stored[id].name > after},
                                   compare_page_sort_keys)
        shown == SubSeq(found, 1, IF Len(found) < page_limit THEN Len(found) ELSE page_limit)
    IN [reason |-> IF after = None THEN "invalid_cursor" ELSE "ok",
        pages |-> [k \in 1 .. Len(shown) |-> present_summary(shown[k])],
        next_cursor |-> IF Len(found) > page_limit
                        THEN encode_managed_page_list_cursor(shown[page_limit], filters)
                        ELSE None]
=============================================================================
