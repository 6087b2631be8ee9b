------------------------------- MODULE PagePanel -------------------------------
(***************************************************************************)
(* islands/PageManagementPanel.tsx over lib/ui/page-management.ts: the     *)
(* creator's page list in a browser, whose handlers call the API of        *)
(* PageHttp while API keys and other tabs change the same pages.           *)
(*                                                                         *)
(* A handler runs without interruption between two awaits; its closure     *)
(* keeps the row, the filters and the selection it was started with.  A    *)
(* control is clicked in the state the last render shows.  Notices, bulk   *)
(* result lines, drafts and what is typed into them are left out.          *)
(***************************************************************************)
EXTENDS PageHttp, FiniteSetsExt, TLC

CONSTANTS Tasks,             \* 1 .. the handlers under way at once
          max_ui_selection,
          Scenarios          \* stored pages, the clicks and foreign requests to come, ...

ASSUME PagePanelAssumption == Tasks = 1 .. Cardinality(Tasks) /\ max_ui_selection \in Nat \ {0}

VARIABLES panel,     \* the state hooks
          csrf_token,\* minted for the session that rendered the page
          task,      \* handlers under way
          clicks,    \* the creator's clicks to come, in any order
          foreign,   \* requests of API keys and other tabs to come
          faults,    \* network failures to come
          late       \* handlers' requests, given up by the browser, that may still arrive

vars == <<server, panel, csrf_token, task, clicks, foreign, faults, late>>

Idle == [at |-> "idle", kind |-> None, row |-> None, filters |-> None, request |-> None,
         reply |-> None, refreshing |-> FALSE, left |-> <<>>]

Init ==
    \E s \in Scenarios :
        /\ stored = s.stored /\ drawn = {id \in PageIds : stored[id] # None}
        /\ session = "t1" /\ key = "live" /\ csrf_token = "t1"
        /\ panel = [pages |-> list_managed(no_filters, None).pages,
                    next_cursor |-> list_managed(no_filters, None).next_cursor,
                    applied_filters |-> no_filters, filtering |-> FALSE, loading_more |-> FALSE,
                    busy_page |-> None, bulk_busy |-> FALSE, selected |-> {},
                    confirming_bulk_delete |-> FALSE, confirming_delete |-> None,
                    rename |-> None, relink |-> None, reference_editor |-> None,
                    editor |-> None]
        /\ task = [i \in Tasks |-> Idle]
        /\ clicks = s.clicks /\ foreign = s.foreign /\ faults = s.faults
        /\ late = {}

-----------------------------------------------------------------------------
(* The rows. *)

ShownIds(p) == {p.pages[k].page_id : k \in DOMAIN p.pages}
Row(p, id) == p.pages[CHOOSE k \in DOMAIN p.pages : p.pages[k].page_id = id]

controls_busy(p) == p.filtering \/ p.bulk_busy \/ p.busy_page # None

management_summary_matches_filters(row, filters) == matches_managed_list(row, filters)

replace_row(p, row) ==
    [p EXCEPT !.pages = [k \in DOMAIN @ |-> IF @[k].page_id = row.page_id THEN row ELSE @[k]]]

unless(open, id) == IF open # None /\ open.page_id = id THEN None ELSE open

(* Mutant: a dropped row stays selected. *)
drop_row_selected(p, id) ==
    [p EXCEPT !.pages = SelectSeq(@, LAMBDA row : row.page_id # id)]

drop_row(p, id) ==
    [p EXCEPT !.pages = SelectSeq(@, LAMBDA row : row.page_id # id),
              !.selected = @ \ {id},
              !.editor = unless(@, id), !.reference_editor = unless(@, id),
              !.rename = unless(@, id), !.relink = unless(@, id),
              !.confirming_delete = IF @ = id THEN None ELSE @]

update_filtered_row(p, filters, row) ==
    IF management_summary_matches_filters(row, filters) THEN replace_row(p, row)
    ELSE drop_row(p, row.page_id)

insert_after(p, filters, id, row) ==
    IF ~management_summary_matches_filters(row, filters) \/ row.page_id \in ShownIds(p) THEN p
    ELSE IF id \notin ShownIds(p) THEN [p EXCEPT !.pages = Append(@, row)]
    ELSE [p EXCEPT !.pages =
             InsertAt(@, 1 + CHOOSE k \in DOMAIN @ : @[k].page_id = id, row)]

-----------------------------------------------------------------------------
(* Clicks that start a handler. *)

FreeTask == CHOOSE i \in Tasks : task[i].at = "idle" /\ \A j \in 1 .. i - 1 : task[j].at # "idle"

(* The body of a request holds only what it asks for. *)
NoBody == [access |-> None, block_api_write |-> None, page_name |-> None]

item_request(op, row, body) ==
    body @@ [op |-> op, page_id |-> row.page_id, bearer |-> FALSE, csrf_token |-> csrf_token,
             if_match |-> [page_id |-> row.page_id, revision |-> row.revision]]

prepare_managed_inspect_request(id) ==
    [op |-> "inspect", page_id |-> id, bearer |-> FALSE, csrf_token |-> None]

prepare_managed_list_request(filters, cursor) ==
    [op |-> "list", filters |-> filters, cursor |-> cursor, bearer |-> FALSE,
     csrf_token |-> None]

(* The handler runs up to its first await. *)
Start(p, kind, row, filters, request) ==
    /\ \E i \in Tasks : task[i].at = "idle"
    /\ panel' = p
    /\ task' = [task EXCEPT ![FreeTask] =
           [Idle EXCEPT !.at = "sent", !.kind = kind, !.row = row, !.filters = filters,
                        !.request = request]]

StartOnRow(p, kind, row, request) == Start(p, kind, row, panel.applied_filters, request)

(* Buttons of a row that are disabled while the controls are busy, and     *)
(* whose handlers hold busy_page until they end.                           *)
Busy(row) == [panel EXCEPT !.busy_page = row.page_id]

toggle_access(row) ==
    StartOnRow(Busy(row), "access", row,
        item_request("access", row, [NoBody EXCEPT !.access =
            IF row.access = "public" THEN "private" ELSE "public"]))

toggle_api_write_block(row) ==
    StartOnRow(Busy(row), "block", row,
        item_request("block", row, [NoBody EXCEPT !.block_api_write = ~row.block_api_write]))

open_editor(row) ==
    StartOnRow(Busy(row), "open", row, prepare_managed_inspect_request(row.page_id))

rename_page(row, name) ==
    /\ panel.rename # None /\ panel.rename.page_id = row.page_id
    /\ StartOnRow(Busy(row), "rename", row,
                  item_request("rename", row, [NoBody EXCEPT !.page_name = name]))

duplicate_page(row) ==
    /\ row.content_type = "md-page" /\ ~row.alternates
    /\ StartOnRow(Busy(row), "duplicate", row, item_request("duplicate", row, NoBody))

(* The first click only asks for the second. *)
remove(row) ==
    \/ /\ panel.confirming_delete # row.page_id
       /\ panel' = [panel EXCEPT !.confirming_delete = row.page_id]
       /\ UNCHANGED task
    \/ /\ panel.confirming_delete = row.page_id
       /\ StartOnRow(Busy(row), "delete", row, item_request("delete", row, NoBody))

(* Forms, which only wait for a save of their own to end.                  *)
Saving(form) == [form EXCEPT !.saving = TRUE]
OpenOn(form, row) == form # None /\ form.page_id = row.page_id /\ ~form.saving

save_editor(row) ==
    /\ OpenOn(panel.editor, row)
    /\ StartOnRow([panel EXCEPT !.editor = Saving(@)], panel.editor.kind, row,
                  item_request("content", row, NoBody))

repair_external_reference(row) ==
    /\ row.source = "missing"
    /\ OpenOn(panel.relink, row)
    /\ StartOnRow([panel EXCEPT !.relink = Saving(@)], "relink", row,
                  item_request("relink", row, NoBody))

save_reference_editor(row, name) ==
    /\ OpenOn(panel.reference_editor, row)
    /\ StartOnRow([panel EXCEPT !.reference_editor = Saving(@)], "endpoints", row,
                  item_request("endpoints", row, [NoBody EXCEPT !.page_name = name]))

(* The list. *)
apply_filters(filters) ==
    Start([panel EXCEPT !.filtering = TRUE], "filter", None, filters,
          prepare_managed_list_request(filters, None))

load_more ==
    /\ panel.next_cursor # None /\ ~panel.loading_more
    /\ Start([panel EXCEPT !.loading_more = TRUE], "more", None, panel.applied_filters,
             prepare_managed_list_request(panel.applied_filters, panel.next_cursor))

(* The selection, at the revisions shown. *)
managed_revision_selection(p) ==
    LET rows == SelectSeq(p.pages, LAMBDA row : row.page_id \in p.selected)
    IN [k \in DOMAIN rows |-> <<rows[k].page_id, rows[k].revision>>]

StartBulk(op, body) ==
    /\ managed_revision_selection(panel) # <<>>
    /\ Start([panel EXCEPT !.bulk_busy = TRUE], op, None, panel.applied_filters,
             body @@ [op |-> op, bearer |-> FALSE, csrf_token |-> csrf_token,
                      selection |-> managed_revision_selection(panel)])

change_selected_access(access) ==
    panel.selected # {} /\ StartBulk("bulk_access", [NoBody EXCEPT !.access = access])

delete_selected ==
    \/ /\ ~panel.confirming_bulk_delete /\ panel.selected # {}
       /\ panel' = [panel EXCEPT !.confirming_bulk_delete = TRUE]
       /\ UNCHANGED task
    \/ panel.confirming_bulk_delete /\ StartBulk("bulk_delete", NoBody)

-----------------------------------------------------------------------------
(* Clicks that only change what is shown. *)

Show(p) == panel' = p /\ UNCHANGED task

toggle_selection(id) ==
    Show([panel EXCEPT !.confirming_bulk_delete = FALSE,
                       !.selected = IF id \in @ THEN @ \ {id}
                                    ELSE IF Cardinality(@) >= max_ui_selection THEN @
                                    ELSE @ \cup {id}])

toggle_visible_selection(p) ==
    IF p.pages # <<>> /\ ShownIds(p) \subseteq p.selected THEN p.selected \ ShownIds(p)
    ELSE IF Cardinality(p.selected \cup ShownIds(p)) > max_ui_selection THEN p.selected
    ELSE p.selected \cup ShownIds(p)

OpenedOn(open, row) == open # None /\ open.page_id = row.page_id

toggle_rename(row) ==
    Show([panel EXCEPT !.editor = None, !.reference_editor = None, !.confirming_delete = None,
                       !.rename = IF OpenedOn(@, row) THEN None
                                  ELSE [page_id |-> row.page_id]])

open_reference_editor(row) ==
    Show([panel EXCEPT !.editor = None, !.rename = None, !.relink = None,
                       !.reference_editor = [page_id |-> row.page_id, saving |-> FALSE]])

toggle_references(row) ==
    \/ OpenedOn(panel.reference_editor, row) /\ Show([panel EXCEPT !.reference_editor = None])
    \/ ~OpenedOn(panel.reference_editor, row) /\ open_reference_editor(row)

toggle_relink(row) ==
    /\ row.source = "missing"
    /\ Show([panel EXCEPT !.editor = None,
                          !.relink = IF OpenedOn(@, row) THEN None
                                     ELSE [page_id |-> row.page_id, saving |-> FALSE]])

toggle_editor(row) ==
    \/ OpenedOn(panel.editor, row) /\ Show([panel EXCEPT !.editor = None])
    \/ ~OpenedOn(panel.editor, row) /\ open_editor(row)

(* The buttons of a row and of the list. *)
RowButton(c, row) ==
    /\ ~controls_busy(panel)
    /\ \/ c.do = "access" /\ toggle_access(row)
       \/ c.do = "block" /\ toggle_api_write_block(row)
       \/ c.do = "edit" /\ toggle_editor(row)
       \/ c.do = "rename" /\ toggle_rename(row)
       \/ c.do = "rename to" /\ rename_page(row, c.name)
       \/ c.do = "duplicate" /\ duplicate_page(row)
       \/ c.do = "delete" /\ remove(row)
       \/ c.do = "keep" /\ Show([panel EXCEPT !.confirming_delete = None])
       \/ c.do = "references" /\ toggle_references(row)
       \/ c.do = "relink" /\ toggle_relink(row)
       \/ c.do = "select" /\ toggle_selection(row.page_id)

FormButton(c, row) ==
    \/ c.do = "save" /\ save_editor(row)
    \/ c.do = "cancel" /\ OpenOn(panel.editor, row) /\ Show([panel EXCEPT !.editor = None])
    \/ c.do = "save relink" /\ repair_external_reference(row)
    \/ c.do = "save references" /\ save_reference_editor(row, c.name)

ListButton(c) ==
    /\ ~controls_busy(panel)
    /\ \/ c.do = "filter" /\ apply_filters(c.filters)
       \/ c.do = "more" /\ load_more
       \/ c.do = "select shown" /\ Show([panel EXCEPT !.confirming_bulk_delete = FALSE,
                                                 !.selected = toggle_visible_selection(panel)])
       \/ c.do = "set access" /\ change_selected_access(c.access)
       \/ c.do = "delete selected" /\ delete_selected
       \/ c.do = "keep selected" /\ Show([panel EXCEPT !.confirming_bulk_delete = FALSE])

Click(c) ==
    /\ \/ ListButton(c)
       \/ c.id \in ShownIds(panel) /\ RowButton(c, Row(panel, c.id))
       \/ c.id \in ShownIds(panel) /\ FormButton(c, Row(panel, c.id))
    /\ clicks' = clicks \ {c}
    /\ UNCHANGED <<server, csrf_token, foreign, faults, late>>

-----------------------------------------------------------------------------
(* The server and the network. *)

NoReply == [status |-> 0, page |-> None, pages |-> <<>>, next_cursor |-> None, results |-> <<>>]

Refusal(req) == IF authorize(req) # "ok" THEN authorize(req) ELSE decode_precondition(req)

Reply(i, reply) == task' = [task EXCEPT ![i].at = "answered", ![i].reply = reply]

Refuse(i, reason) ==
    Reply(i, [NoReply EXCEPT !.status = status(reason)]) /\ UNCHANGED <<stored, drawn>>

AnswerRead(i, req) ==
    /\ \/ /\ req.op = "inspect" /\ stored[req.page_id] = None
          /\ Refuse(i, "not_found")
       \/ /\ req.op = "inspect" /\ stored[req.page_id] # None
          /\ Reply(i, [NoReply EXCEPT !.status = 200, !.page = present_summary(req.page_id)])
       \/ /\ req.op = "list"
          /\ LET listed == list_managed(req.filters, req.cursor) IN
             Reply(i, [NoReply EXCEPT !.status = status(listed.reason), !.pages = listed.pages,
                                      !.next_cursor = listed.next_cursor])
    /\ UNCHANGED <<stored, drawn>>

(* The page a command replies with: the new one of a duplicate. *)
RepliedPage(req, id) ==
    LET shown == IF req.op = "duplicate" THEN CHOOSE new \in drawn' : new \notin drawn ELSE id
    IN IF req.op \in {"delete", "bulk_delete"} THEN None
       ELSE [page_id |-> shown] @@ stored'[shown]

AnswerCommand(i, req) ==
    LET id == req.page_id IN
    \E reason \in verdicts(req, id, req.if_match.revision) :
    /\ Apply(req, id, reason)
    /\ Reply(i, [NoReply EXCEPT !.status = status(reason),
                                !.page = IF succeeded(reason) THEN RepliedPage(req, id)
                                         ELSE None])

(* A bulk command is a sequence of commands with a result each. *)
AnswerBulk(i, req) ==
    LET t == task[i] IN
    \/ /\ t.reply = None
       /\ task' = [task EXCEPT ![i].reply = [NoReply EXCEPT !.status = 200],
                               ![i].left = req.selection]
       /\ UNCHANGED <<stored, drawn>>
    \/ /\ t.reply # None /\ t.left # <<>>
       /\ LET id == Head(t.left)[1]
              reason == verdict(req, id, Head(t.left)[2])
          IN
          /\ Apply(req, id, reason)
          /\ task' = [task EXCEPT ![i].left = Tail(@),
                        ![i].reply.results = Append(@,
                            [page_id |-> id, reason |-> reason,
                             page |-> IF succeeded(reason) THEN RepliedPage(req, id)
                                      ELSE None])]
    \/ /\ t.reply # None /\ t.left = <<>>
       /\ Reply(i, t.reply) /\ UNCHANGED <<stored, drawn>>

Answer(i) ==
    LET req == task[i].request IN
    /\ task[i].at = "sent"
    /\ \/ Refusal(req) # "ok" /\ task[i].reply = None /\ Refuse(i, Refusal(req))
       \/ /\ Refusal(req) = "ok" \/ task[i].reply # None
          /\ \/ req.op \in {"inspect", "list"} /\ AnswerRead(i, req)
             \/ IsItem(req) /\ req.op # "inspect" /\ AnswerCommand(i, req)
             \/ IsBulk(req) /\ AnswerBulk(i, req)
    /\ UNCHANGED <<session, key, panel, csrf_token, clicks, foreign, faults, late>>

(* fetch throws: the request is lost, or given up and still on its way, or *)
(* its reply is lost.                                                      *)
NetworkFails(i) ==
    LET t == task[i]
        undone == IF IsBulk(t.request) /\ t.reply # None
                  THEN [t EXCEPT !.request.selection = t.left] ELSE t
    IN
    /\ faults > 0 /\ faults' = faults - 1
    /\ t.at # "idle"
    /\ Reply(i, NoReply)
    /\ \/ UNCHANGED late
       \/ /\ t.at = "sent" /\ t.request.op \notin {"inspect", "list"}
          /\ IsBulk(t.request) => undone.request.selection # <<>>
          /\ late' = late \cup {[undone EXCEPT !.reply = None, !.left = <<>>]}
    /\ UNCHANGED <<server, panel, csrf_token, clicks, foreign>>

ArriveLate(t) ==
    LET req == t.request
        rest == IF IsBulk(req) THEN Tail(req.selection) ELSE <<>>
        id == IF IsBulk(req) THEN Head(req.selection)[1] ELSE req.page_id
        revision == IF IsBulk(req) THEN Head(req.selection)[2] ELSE req.if_match.revision
    IN
    /\ \/ Refusal(req) # "ok" /\ UNCHANGED <<stored, drawn>> /\ late' = late \ {t}
       \/ /\ Refusal(req) = "ok"
          /\ \E reason \in verdicts(req, id, revision) : Apply(req, id, reason)
          /\ late' = (late \ {t}) \cup
                     IF rest = <<>> THEN {} ELSE {[t EXCEPT !.request.selection = rest]}
    /\ UNCHANGED <<session, key, panel, csrf_token, task, clicks, foreign, faults>>

(* Another tab signs out, or in again; a key is revoked; an object outside *)
(* is found missing; an agent or another tab sends a command of its own.   *)
Foreign(f) ==
    /\ foreign' = foreign \ {f}
    /\ \/ /\ f.op = "session"
          /\ session' = f.session /\ UNCHANGED <<stored, drawn, key>>
       \/ /\ f.op = "revoke"
          /\ key' = "revoked" /\ UNCHANGED <<stored, drawn, session>>
       \/ /\ f.op = "missing"
          /\ stored[f.page_id] # None /\ stored[f.page_id].source = "external"
          /\ stored' = [stored EXCEPT ![f.page_id].source = "missing"]
          /\ UNCHANGED <<drawn, session, key>>
       \/ /\ "bearer" \in DOMAIN f
          /\ \/ Refusal(f) # "ok" /\ UNCHANGED <<stored, drawn>>
             \/ /\ Refusal(f) = "ok"
                /\ \E reason \in verdicts(f, f.page_id, f.if_match.revision) :
                      Apply(f, f.page_id, reason)
          /\ UNCHANGED <<session, key>>
    /\ UNCHANGED <<panel, csrf_token, task, clicks, faults, late>>

-----------------------------------------------------------------------------
(* A handler goes on with its reply. *)

RowKinds == {"access", "block", "open", "rename", "duplicate", "delete"}
BulkKinds == {"bulk_access", "bulk_delete"}

saved(form) == IF form = None THEN None ELSE [form EXCEPT !.saving = FALSE]

(* catch, the early returns after a failure, and finally. *)
Failed(p, kind) ==
    CASE kind \in RowKinds -> [p EXCEPT !.busy_page = None]
      [] kind = "md-page" -> [p EXCEPT !.editor = saved(@)]
      [] kind = "pdf" -> [p EXCEPT !.editor = IF @ # None /\ @.kind = "pdf" THEN saved(@) ELSE @]
      [] kind = "relink" -> [p EXCEPT !.relink = saved(@)]
      [] kind = "endpoints" -> [p EXCEPT !.reference_editor = saved(@)]
      [] kind = "filter" -> [p EXCEPT !.filtering = FALSE]
      [] kind = "more" -> [p EXCEPT !.loading_more = FALSE]
      [] kind \in BulkKinds -> [p EXCEPT !.bulk_busy = FALSE]

(* Mutant: the form that met a conflict stays as it was. *)
Conflicted_forms_kept(p, kind) == IF kind \in RowKinds THEN Failed(p, kind) ELSE p

(* After a conflict and the refresh of its row. *)
Conflicted(p, kind) ==
    CASE kind = "relink" -> [p EXCEPT !.relink = None]
      [] kind = "endpoints" -> [p EXCEPT !.reference_editor = None]
      [] OTHER -> Failed(p, kind)

(* The editor is opened on the page inspected. *)
Opened(p, t, row) ==
    IF row.content_type = "other" THEN p
    ELSE [update_filtered_row(p, t.filters, row) EXCEPT
             !.confirming_delete = None, !.rename = None, !.relink = None,
             !.reference_editor = None,
             !.editor = [page_id |-> row.page_id, kind |-> row.content_type, saving |-> FALSE]]

Appended(rows, more) ==
    rows \o SelectSeq(more, LAMBDA row : \A k \in DOMAIN rows : rows[k].page_id # row.page_id)

Succeeded(p, t, reply) ==
    LET updated == update_filtered_row(p, t.filters, reply.page) IN
    CASE t.kind \in {"access", "block"} -> updated
      [] t.kind = "open" -> Opened(p, t, reply.page)
      [] t.kind = "rename" -> [updated EXCEPT !.rename = None]
      [] t.kind = "duplicate" -> insert_after(p, t.filters, t.row.page_id, reply.page)
      [] t.kind = "delete" -> drop_row(p, t.row.page_id)
      [] t.kind \in {"md-page", "pdf"} -> [updated EXCEPT !.editor = None]
      [] t.kind = "relink" -> [updated EXCEPT !.relink = None]
      [] t.kind = "endpoints" -> [updated EXCEPT !.reference_editor = None]
      [] t.kind = "filter" ->
            [p EXCEPT !.pages = reply.pages, !.next_cursor = reply.next_cursor,
                      !.applied_filters = t.filters, !.selected = {},
                      !.confirming_bulk_delete = FALSE, !.confirming_delete = None,
                      !.rename = None, !.relink = None, !.editor = None]
      [] t.kind = "more" ->
            [p EXCEPT !.pages = Appended(@, reply.pages), !.next_cursor = reply.next_cursor]

End(i, p) == panel' = p /\ task' = [task EXCEPT ![i] = Idle]

(* refresh_row: the row is read again; left are the bulk results to go.    *)
Refresh(i, p, id, left) ==
    /\ panel' = p
    /\ task' = [task EXCEPT ![i].at = "sent", ![i].reply = None, ![i].refreshing = TRUE,
                            ![i].left = left,
                            ![i].request = prepare_managed_inspect_request(id)]

needs_refresh(kind, result) ==
    IF kind = "bulk_access" THEN result.reason = "revision_conflict"
    ELSE result.reason \notin {"deleted", "not_found"}

Reflected(p, t, result) ==
    CASE result.reason = "ok" -> update_filtered_row(p, t.filters, result.page)
      [] result.reason \in {"deleted", "not_found"} -> drop_row(p, result.page_id)
      [] OTHER -> p

(* The results up to the next one that has its row read again. *)
BulkGoesOn(i, p, results) ==
    LET t == task[i]
        stops == {k \in DOMAIN results : needs_refresh(t.kind, results[k])}
        done == IF stops = {} THEN Len(results) ELSE Min(stops) - 1
        shown == FoldLeft(LAMBDA q, result : Reflected(q, t, result), p,
                          SubSeq(results, 1, done))
    IN
    \/ /\ stops # {}
       /\ Refresh(i, shown, results[done + 1].page_id,
                  SubSeq(results, done + 2, Len(results)))
    \/ /\ stops = {}
       /\ End(i, [shown EXCEPT !.selected = {}, !.bulk_busy = FALSE,
                      !.confirming_bulk_delete = @ /\ t.kind = "bulk_access"])

is_ok(reply) == reply.status \in 200 .. 299

Continue(i) ==
    LET t == task[i]
        r == t.reply
        conflict == r.status = 412
        gone == r.status = 404 /\ t.kind \in {"open", "delete"}
    IN
    \/ /\ conflict
       /\ Refresh(i, IF t.kind = "delete" THEN [panel EXCEPT !.confirming_delete = None]
                     ELSE panel, t.row.page_id, <<>>)
    \/ gone /\ End(i, Failed(drop_row(panel, t.row.page_id), t.kind))
    \/ ~is_ok(r) /\ ~conflict /\ ~gone /\ End(i, Failed(panel, t.kind))
    \/ is_ok(r) /\ t.kind \notin BulkKinds
       /\ End(i, IF t.kind \in RowKinds \cup {"filter", "more"}
                 THEN Failed(Succeeded(panel, t, r), t.kind)
                 ELSE Succeeded(panel, t, r))
    \/ is_ok(r) /\ t.kind \in BulkKinds /\ BulkGoesOn(i, panel, r.results)

refreshed_row(p, t) ==
    IF t.reply.status = 404 THEN drop_row(p, t.request.page_id)
    ELSE IF is_ok(t.reply) THEN update_filtered_row(p, t.filters, t.reply.page) ELSE p

ContinueRefreshed(i) ==
    LET t == task[i] IN
    \/ t.reply.status = 0 /\ End(i, Failed(panel, t.kind))
    \/ t.reply.status # 0 /\ t.kind \notin BulkKinds
       /\ End(i, Conflicted(refreshed_row(panel, t), t.kind))
    \/ t.reply.status # 0 /\ t.kind \in BulkKinds
       /\ BulkGoesOn(i, refreshed_row(panel, t), t.left)

Resume(i) ==
    /\ task[i].at = "answered"
    /\ \/ ~task[i].refreshing /\ Continue(i)
       \/ task[i].refreshing /\ ContinueRefreshed(i)
    /\ UNCHANGED <<server, csrf_token, clicks, foreign, faults, late>>

Next ==
    \/ \E c \in clicks : Click(c)
    \/ \E i \in Tasks : Answer(i) \/ Resume(i) \/ NetworkFails(i)
    \/ \E t \in late : ArriveLate(t)
    \/ \E f \in foreign : Foreign(f)

(* Requests are answered and handlers go on; nobody has to click.          *)
Spec == Init /\ [][Next]_vars /\ \A i \in Tasks : WF_vars(Answer(i)) /\ WF_vars(Resume(i))

-----------------------------------------------------------------------------
(* Properties. *)

Form == [page_id : PageIds, saving : BOOLEAN]

(* The hooks keep their types and every page has at most one row: a reply  *)
(* to "load more" may name rows that are shown already, and a duplicate    *)
(* may have arrived with it.                                               *)
TypeOK ==
    /\ stored \in [PageIds -> Summary \cup {None}]
    /\ panel.pages \in Seq([page_id : PageIds, name : Names, alternates : BOOLEAN,
                            access : {"public", "private"}, block_api_write : BOOLEAN,
                            content_type : {"md-page", "pdf", "other"},
                            source : {"inline", "external", "missing"},
                            revision : 1 .. max_page_revision])
    /\ \A j, k \in DOMAIN panel.pages :
          panel.pages[j].page_id = panel.pages[k].page_id => j = k
    /\ panel.applied_filters \in Filters
    /\ panel.busy_page \in PageIds \cup {None}
    /\ panel.confirming_delete \in PageIds \cup {None}
    /\ panel.relink \in Form \cup {None} /\ panel.reference_editor \in Form \cup {None}

(* What is selected is shown, and no more than a bulk command takes: bulk  *)
(* access and bulk deletion never act on a row the creator does not see,   *)
(* whatever rows conflicts, filters and deletions have taken away; and no  *)
(* page has two rows, however pages and refreshes are added together.      *)
SelectionIsShown ==
    /\ TypeOK
    /\ panel.selected \subseteq ShownIds(panel)
    /\ Cardinality(panel.selected) <= max_ui_selection

(* A click changes a stored page only while the page is still what the row *)
(* showed when it was clicked (only the health of its content may have     *)
(* been found out since): stale clicks, conflicts answered by a refresh,   *)
(* bulk items and requests that arrive late overwrite nobody's change, and *)
(* none is sent a second time.                                             *)
Seen(t, id) ==
    IF t.kind \in BulkKinds
    THEN \E k \in DOMAIN t.request.selection :
            t.request.selection[k] = <<id, stored[id].revision>>
    ELSE /\ t.row.page_id = id
         /\ [t.row EXCEPT !.source = stored[id].source] = present_summary(id)

StaleClicksChangeNothing ==
    [][\A id \in PageIds :
          stored[id] # None /\ stored'[id] # stored[id] =>
             /\ \A i \in Tasks : task'[i] # task[i] => Seen(task[i], id)
             /\ \A t \in late \ late' : Seen(t, id)]_vars

(* The controls a handler has disabled come back however its requests end: *)
(* no button, form or list stays busy for ever.                            *)
Unfinished(form) == form # None /\ form.saving

ControlsComeBack ==
    /\ []<>(~controls_busy(panel) /\ ~panel.loading_more)
    /\ []<>~Unfinished(panel.editor) /\ []<>~Unfinished(panel.relink)
    /\ []<>~Unfinished(panel.reference_editor)
=============================================================================
