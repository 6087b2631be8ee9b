------------------------------ MODULE MCCreatorPage ------------------------------
(* TLC values for a creator's browser: a page list (PagePanel), a Markdown   *)
(* editor (MarkdownEditor) or a list of API keys (ApiKeyPanel), which share  *)
(* nothing but documents and sessions, and are explored one at a time.       *)
EXTENDS PagePanel, MarkdownEditor, ApiKeyPanel

Page(name) ==
    [name |-> name, alternates |-> FALSE, access |-> "public", content_type |-> "md-page",
     block_api_write |-> FALSE, source |-> "inline", revision |-> 1]

on(action, id) == [do |-> action, id |-> id]
named_on(action, id, name) == [do |-> action, id |-> id, name |-> name]
list(action) == [do |-> action, id |-> None]
set_access(access) == [do |-> "set access", id |-> None, access |-> access]
filter(filters) == [do |-> "filter", id |-> None, filters |-> filters]
again(click) == [do |-> click.do, id |-> click.id, n |-> 2]

(* Another tab, or an agent with the API key, that has read the page. *)
command(op, id, body, revision) ==
    body @@ [op |-> op, page_id |-> id, bearer |-> FALSE, csrf_token |-> "t1",
             if_match |-> [page_id |-> id, revision |-> revision]]
agent(op, id, body, revision) == [command(op, id, body, revision) EXCEPT !.bearer = TRUE]
unconditional(op, id, body) == [agent(op, id, body, 1) EXCEPT !.if_match = None]
Private == [NoBody EXCEPT !.access = "private"]
Name(name) == [NoBody EXCEPT !.page_name = name]
Block == [NoBody EXCEPT !.block_api_write = TRUE]
becomes(token) == [op |-> "session", session |-> token]
revoke == [op |-> "revoke"]
missing(id) == [op |-> "missing", page_id |-> id]

private == [no_filters EXCEPT !.access = "private"]
broken == [no_filters EXCEPT !.broken = TRUE]
named(names) == [no_filters EXCEPT !.names = names]

Two == [id \in PageIds |-> IF id = 1 THEN Page(1)
                           ELSE IF id = 2 THEN [Page(2) EXCEPT !.content_type = "pdf"] ELSE None]

(* An editor's save, and other buttons of its row meanwhile. *)
Editing ==
    [stored |-> Two, faults |-> 0,
     clicks |-> {on("edit", 1), on("save", 1), on("access", 1), on("block", 1),
                 again(on("edit", 1))},
     foreign |-> {agent("content", 1, NoBody, 1)}]

(* Editors of two pages, one a PDF, and a network that fails.              *)
TwoEditors ==
    [stored |-> Two, faults |-> 1,
     clicks |-> {on("edit", 1), on("save", 1), on("edit", 2), on("save", 2), on("cancel", 2)},
     foreign |-> {command("access", 2, Private, 1), becomes("guest")}]

(* The page is deleted meanwhile. *)
Deleting ==
    [stored |-> Two, faults |-> 1,
     clicks |-> {on("delete", 1), again(on("delete", 1)), on("keep", 1), on("edit", 1),
                 on("save", 1)},
     foreign |-> {command("delete", 1, NoBody, 1)}]

(* Names are taken, given and copied meanwhile. *)
Renaming ==
    [stored |-> [Two EXCEPT ![2] = Page(3)], faults |-> 0,
     clicks |-> {on("rename", 1), named_on("rename to", 1, 2), on("duplicate", 1),
                 on("references", 2), named_on("save references", 2, 0),
                 again(on("references", 2))},
     foreign |-> {command("rename", 2, Name(0), 1), unconditional("access", 1, Private)}]

(* Content outside is lost, found again, copied, and replaced meanwhile.    *)
Relinking ==
    [stored |-> [Two EXCEPT ![1] = [Page(1) EXCEPT !.source = "external"],
                            ![2] = [Page(2) EXCEPT !.source = "missing"]],
     faults |-> 1,
     clicks |-> {on("relink", 2), on("save relink", 2), on("edit", 2), filter(broken)},
     foreign |-> {missing(1), agent("block", 2, Block, 1), agent("relink", 2, NoBody, 1),
                  command("duplicate", 1, NoBody, 1), command("duplicate", 2, NoBody, 1)}]

Three == [Two EXCEPT ![3] = [Page(3) EXCEPT !.access = "private"]]

(* More pages than a reply carries, filtered, renamed and, the locked one,  *)
(* copied meanwhile.                                                        *)
Paging ==
    [stored |-> [Three EXCEPT ![1].block_api_write = TRUE], faults |-> 0,
     clicks |-> {list("more"), again(list("more")), filter(private), on("access", 1),
                 on("duplicate", 1)},
     foreign |-> {command("rename", 1, Name(4), 1)}]

(* Three handlers at once. *)
Everything ==
    [stored |-> Three, faults |-> 0,
     clicks |-> {on("edit", 1), on("save", 1), list("more"), on("access", 1),
                 filter(private)},
     foreign |-> {command("access", 1, Private, 1)}]

(* Bulk commands over rows that change and go. *)
Selecting ==
    [stored |-> Two, faults |-> 1,
     clicks |-> {list("select shown"), on("select", 2), set_access("private"),
                 on("edit", 1), on("save", 1)},
     foreign |-> {command("access", 2, Private, 1), command("delete", 1, NoBody, 1)}]

BulkDeleting ==
    [Selecting EXCEPT !.clicks = {list("select shown"), list("delete selected"),
                                  again(list("delete selected")), list("keep selected"),
                                  filter(named({2}))}]

(* The session ends in another tab and a new one starts. *)
SignedOut ==
    [stored |-> Two, faults |-> 0,
     clicks |-> {on("block", 1), on("edit", 1), on("save", 1), list("select shown"),
                 set_access("private")},
     foreign |-> {becomes("guest"), becomes("t2"), revoke, agent("delete", 2, NoBody, 1)}]

AllScenarios ==
    {Editing, TwoEditors, Deleting, Renaming, Relinking, Paging, Everything, Selecting, BulkDeleting,
     SignedOut}

-----------------------------------------------------------------------------
(* Documents and gestures. *)

MCFences == <<"F3", "F4", "F5", "F6">>
Text(word) == Plain(<<word>>)
Listed(marker, word) == Plain(<<marker, word>>)
Linked(words, url) == [words |-> words, url |-> url]
Fenced(fence) == Plain(<<fence>>)

At(place) == build_place_url(Place(place))
Route(places) ==
    build_route_url([k \in DOMAIN places |->
                        IF places[k] = "here" THEN Here ELSE Place(places[k])], "")

MCExpansion == [a \in Aliases |-> IF a = "s1" THEN Route(<<"here", "B">>) ELSE At("1,1")]

do(name) == [do |-> name]
edit(index) == [do |-> "edit", index |-> index]
words(w) == [do |-> "words", words |-> w]
url(u) == [do |-> "url", url |-> u]
code(c) == [do |-> "code", code |-> c]
type(t) == [do |-> "type", type |-> t]
into(m) == [do |-> "mode", mode |-> m]
drop(from, to) == [do |-> "drop", from |-> from, to |-> to]
shift(from, to) == [do |-> "move", from |-> from, to |-> to]

Steps(lines, gs) == [markdown |-> lines, mode |-> "steps", gestures |-> gs]

(* A section is edited while others are moved and dropped. *)
Arranging ==
    Steps(<<Text("a"), Listed("- ", "b"), Plain(<<"#", "c">>)>>,
          {edit(1), edit(2), words(<<"d">>), shift(1, 3), shift(3, 2), drop(3, 1), drop(1, 2),
           do("save"), do("delete"), [do |-> "list", list_type |-> "numbered"]})

(* Code, its fences and changes of type. *)
Coding ==
    Steps(<<Fenced("F3"), Text("a"), Fenced("F3"), Text("b"), Plain(<<"- ", "F3">>)>>,
          {edit(1), code(<<Text("c"), Fenced("F3")>>), code(<<Fenced("F4")>>), type("text"),
           drop(3, 1), drop(2, 1), do("save"), do("cancel"), edit(2), type("code-block")})

(* Sections that are added. *)
Inserting ==
    [Steps(<<Blank>>,
        {into("steps"), into("raw"), do("insert"), type("link"), type("code-block"), url(At("A")),
         words(<<"w">>), do("save"), do("cancel"),
         [do |-> "raw", lines |-> <<Fenced("F3"), Text("a"), Text("b"), Blank>>]})
     EXCEPT !.mode = "raw"]

(* Two map links and a short one are framed. *)
Framing ==
    Steps(<<Linked(<<"- ", "w">>, At("1,1")), Linked(<<"B">>, At("B")),
            Linked(<<"v">>, short_link("s1"))>>,
          {drop(1, 2), drop(3, 1), drop(2, 1), edit(2), [do |-> "travel", travel_mode |-> "walking"],
           words(<<"x">>), do("save"), do("variant")})

(* The stops of a frame. *)
Stopping ==
    Steps(<<Linked(<<"- ", "r">>, Route(<<"A", "B", "C">>)), Text("t")>>,
          {edit(1), do("here"), [do |-> "move stop", from |-> 1, to |-> 3],
           [do |-> "remove stop", k |-> 1], [do |-> "split", k |-> 2],
           [do |-> "add stop", url |-> At("A")], do("map mode"), words(<<>>), do("save")})

(* A short link is typed and the draft goes on. *)
Expanding ==
    Steps(<<Text("a"), Linked(<<"v">>, short_link("s2"))>>,
          {edit(1), type("link"), url(short_link("s1")), url(short_link("s2")), words(<<"w">>),
           do("cancel"), edit(2), do("save"), do("here")})

InsertingAlias ==
    Steps(<<Text("a")>>,
          {do("insert"), type("link"), url(short_link("s1")), words(<<"w">>), edit(1),
           url(At("A")), url(Url("other")), [do |-> "add stop", url |-> short_link("s2")],
           do("save"), do("cancel")})

(* A short link is added to a frame. *)
AddingAlias ==
    Steps(<<Linked(<<"A">>, At("A")), Text("t")>>,
          {edit(1), [do |-> "add stop", url |-> short_link("s1")],
           [do |-> "add stop", url |-> short_link("s1"), n |-> 2],
           [do |-> "add stop", url |-> short_link("s2")], do("cancel"), edit(2), shift(1, 2),
           words(<<"w">>)})

(* The clipboard is read while its form changes. *)
pasted(w) == [do |-> "paste", words |-> w]
Pasting ==
    Steps(<<Text("a"), Text("b")>>,
          {edit(1), edit(2), pasted(<<"p">>), words(<<"w">>), do("save"), shift(1, 2), do("insert"),
           type("text")})

AllDrafts == {Arranging, Coding, Inserting, Framing, Stopping, Expanding, InsertingAlias,
              AddingAlias, Pasting}

-----------------------------------------------------------------------------
(* API keys, of u1 but for the last. *)

Key(id, permissions, expires_at) ==
    [owner_user_id |-> "u1", secret_hash |-> id, revision |-> 1,
     metadata |-> [label |-> "a", permissions |-> permissions, expires_at |-> expires_at]]

Keys(first, second) ==
    [id \in KeyIds |-> IF id = 1 THEN first ELSE IF id = 2 THEN second
                       ELSE IF id = 3 THEN [Key(3, {"read"}, Nil) EXCEPT !.owner_user_id = "u2"]
                       ELSE Nil]
TwoKeys == Keys(Key(1, {"read"}, Nil), Key(2, api_key_permissions, Nil))

on_key(action, id) == [do |-> action, id |-> id]
all_keys(action) == [do |-> action]
twice(c) == {c, c @@ [n |-> 2]}
new_key(field) == [do |-> "new key", field |-> field]
old_key(field) == [do |-> "key", field |-> field]
labelled(c, l) == c @@ [label |-> l]
permitted(c, p) == c @@ [permission |-> p]
tick(n) == [op |-> "tick", n |-> n]
signs_in(s) == [op |-> "session", session |-> s]

Content(l, permissions, expires_at) ==
    [label |-> l, permissions |-> permissions, expires_at |-> expires_at]
tab(op, id, body) == KeyRequest(op, id, [api_key_id |-> id, revision |-> 1], body)
by_key(op, bearer, id, body) == [tab(op, id, body) EXCEPT !.bearer = bearer, !.csrf_token = "none"]

(* A key is edited while other tabs and keys change it and its neighbour.  *)
EditingKeys ==
    [api_keys |-> TwoKeys, outages |-> 0,
     clicks |-> {on_key("edit key", 1), labelled(old_key("label"), "b"), old_key("all")}
                \cup twice(on_key("save key", 1)) \cup twice(on_key("revoke key", 2)),
     rivals |-> {tab("update", 1, Content("c", {"write"}, Nil)), tab("revoke", 2, Nil)}]

(* Keys expire under the form. *)
ExpiringKeys ==
    [api_keys |-> Keys(Key(1, {"read"}, 3), Key(2, {"write"}, 5)), outages |-> 0,
     clicks |-> {on_key("edit key", 1), on_key("edit key", 2), old_key("today"),
                 old_key("expiry") @@ [expiry |-> 6], on_key("save key", 1), on_key("save key", 2),
                 all_keys("cancel key")},
     rivals |-> {tick(1), tick(2), tick(3), tab("update", 2, Content("a", {"all"}, 4))}]

(* Keys are generated while the others are revoked, over a bad network.    *)
GeneratingKeys ==
    [api_keys |-> TwoKeys, outages |-> 1,
     clicks |-> {labelled(new_key("label"), "d"), new_key("all"),
                 permitted(new_key("permission"), "write"), all_keys("keep keys")}
                \cup twice(all_keys("generate")) \cup twice(all_keys("revoke all")),
     rivals |-> {by_key("revoke_all", 2, Nil, Nil)}]

(* Key 2 is generated, and its row goes or comes back. *)
RevokingKeys ==
    [api_keys |-> Keys(Key(1, {"delete"}, Nil), Nil), outages |-> 1,
     clicks |-> {labelled(new_key("label"), "d"), new_key("all"), all_keys("generate")}
                \cup twice(on_key("revoke key", 2)) \cup twice(on_key("revoke key", 1)),
     rivals |-> {tab("update", 1, Content("c", {"write"}, Nil))}]

(* The session ends, another creator's starts, and keys try to manage keys. *)
ChangingSessions ==
    [api_keys |-> TwoKeys, outages |-> 0,
     clicks |-> {on_key("edit key", 1), labelled(old_key("label"), "a tab"), on_key("save key", 1)}
                \cup twice(on_key("revoke key", 2)),
     rivals |-> {signs_in(Nil), signs_in([user |-> "u2", csrf_token |-> "t2"]),
                 tab("update", 2, Content("c", {"all", "read"}, Nil)),
                 [tab("update", 3, Content("c", {"all"}, Nil)) EXCEPT !.csrf_token = "t2"],
                 [tab("revoke", 3, Nil) EXCEPT !.if_match = Nil],
                 by_key("revoke_all", 1, Nil, Nil), by_key("revoke", 2, 1, Nil)}]

AllKeys == {EditingKeys, ExpiringKeys, GeneratingKeys, RevokingKeys, ChangingSessions}

-----------------------------------------------------------------------------

Unused == [stored |-> Two, faults |-> 0, clicks |-> {}, foreign |-> {}]
PageScenarios == AllScenarios \cup {Unused}
Closed == Steps(<<Blank>>, {})
Documents == AllDrafts \cup {Closed}
NoKeys == [api_keys |-> [id \in KeyIds |-> Nil], outages |-> 0, clicks |-> {}, rivals |-> {}]
KeyDocuments == AllKeys \cup {NoKeys}

(* At most one of the three has something to do. *)
BrowserInit ==
    /\ Init /\ EditorInit /\ KeyPanelInit
    /\ clicks = {} \/ (gestures = {} /\ key_clicks = {})
    /\ gestures = {} \/ key_clicks = {}

BrowserNext ==
    \/ Next /\ UNCHANGED <<editor_vars, key_vars>>
    \/ EditorNext /\ UNCHANGED <<vars, key_vars>>
    \/ KeyPanelNext /\ UNCHANGED <<vars, editor_vars>>

(* PagePanel!Spec, with the editor and the keys beside it.                   *)
BrowserSpec ==
    /\ BrowserInit /\ [][BrowserNext]_<<vars, editor_vars, key_vars>>
    /\ \A i \in Tasks : WF_vars(Answer(i)) /\ WF_vars(Resume(i))
=============================================================================
