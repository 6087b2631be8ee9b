----------------------------- MODULE MarkdownEditor -----------------------------
(***************************************************************************)
(* components/MarkdownContentEditor.tsx and MapRouteFields.tsx: raw and    *)
(* section-wise editing of one draft, gestures on a list of sections that  *)
(* is parsed anew after each of them, and the expansion of short links     *)
(* that is answered while editing goes on.                                 *)
(*                                                                         *)
(* A drag is one gesture: what it hovers over changes nothing.  Asking     *)
(* before an unsaved draft is discarded is a gesture that is made or not.  *)
(* Messages, densities, previews and the switches of other inputs are left *)
(* out.                                                                    *)
(***************************************************************************)
EXTENDS MarkdownSections

CONSTANTS Aliases,       \* short links
          Expansion,     \* alias -> what the site finds behind it
          line_limit,    \* physical lines of the Steps mode
          Drafts         \* documents with the gestures to come

VARIABLES markdown,            \* the draft, owned by the surrounding form
          mode,                \* "raw" or "steps"
          map_route_enabled,   \* the link input's variant
          editing, insertion, delete_armed_index,
          links,               \* alias -> what the link resolver knows
          adopting,            \* aliases whose expansion an open draft waits for
          awaiting,            \* what waits for an added short link or the clipboard
          frame,               \* the stop frames shown, numbered as they are mounted
          gestures             \* to come, in any order

draft_state == <<editing, insertion, delete_armed_index>>
link_state == <<links, adopting, awaiting>>
editor_vars == <<markdown, mode, map_route_enabled, draft_state, link_state, frame, gestures>>

sections == parse(markdown)
section_limit_exceeded == Len(markdown) > line_limit

-----------------------------------------------------------------------------
(* Short links. *)

state(url) ==
    IF is_short_map_link(url) THEN links[url.id]
    ELSE IF parse_google_maps_url(url) # unknown THEN "canonical" ELSE "foreign"

canonical_in(url, s) ==
    CASE s = "canonical" -> url
      [] s = "resolved" -> Expansion[url.id]
      [] OTHER -> Null

canonical(url) == canonical_in(url, state(url))

IsUnasked(url) == is_short_map_link(url) /\ links[url.id] = "unresolved"
IsUnanswered(url) == is_short_map_link(url) /\ links[url.id] \in {"unresolved", "pending"}

(* One request per alias, whoever asks. *)
resolved(aliases) == [a \in Aliases |-> IF a \in aliases THEN "pending" ELSE links[a]]
Unasked(urls) == {urls[k].id : k \in {j \in DOMAIN urls : IsUnasked(urls[j])}}

is_expanding(url) == map_route_enabled /\ IsUnanswered(url)

AliasesOf(secs) == {secs[k].url.id : k \in {j \in DOMAIN secs :
                        secs[j].type = "link" /\ is_short_map_link(secs[j].url)}}

(* After every render of Steps stored aliases are asked for in the         *)
(* background.                                                             *)
Asked(known, secs, steps, enabled) ==
    [a \in Aliases |->
        IF steps /\ enabled /\ known[a] = "unresolved" /\ a \in AliasesOf(secs) THEN "pending"
        ELSE known[a]]

(* Only who asks first is told: an alias asked for already is not adopted. *)
request_expansions(urls) ==
    LET asked == IF map_route_enabled THEN Unasked(urls) ELSE {} IN
    links' = resolved(asked) /\ adopting' = adopting \cup asked

request_expansion(d) == request_expansions(IF d.type = "link" THEN <<d.url>> ELSE <<>>)

-----------------------------------------------------------------------------
(* Drafts and their frames. *)

Framed(words, step) == IF step # Null /\ words = <<>> THEN [step EXCEPT !.label = <<>>] ELSE step

map_step_of(d) ==
    IF d.type # "link" \/ ~map_route_enabled THEN Null
    ELSE Framed(d.words, read_link(d.words, canonical(d.url)))

section_step(section) ==
    IF section.type # "link" \/ ~map_route_enabled THEN Null
    ELSE read_link(section.words, canonical(section.url))

(* The frame is read again only from another URL. *)
synced_step(previous_draft, previous_step, d) ==
    IF /\ previous_step # Null /\ previous_draft # Null /\ d.type = "link" /\ map_route_enabled
       /\ previous_draft.type = "link" /\ previous_draft.url = d.url
    THEN set_label(previous_step, d.words) ELSE map_step_of(d)

framed_draft(d, step) ==
    IF d.type # "link" THEN d
    ELSE [d EXCEPT !.words = label(step), !.url = IF can_generate(step) THEN step_url(step) ELSE @]

listed_map_draft(d, became_map) ==
    IF became_map /\ d.type = "link" /\ d.list_type = "" THEN change_list_type(d, "bulleted") ELSE d

can_save(d) == d.type = "link" => d.url # EmptyUrl

new_draft(type) ==
    [type |-> type, list_type |-> "", words |-> <<>>, language |-> <<>>, code |-> <<>>,
     url |-> IF type = "link" THEN EmptyUrl ELSE NoLink]

-----------------------------------------------------------------------------
(* Editing a section. *)

change_markdown(lines) ==
    /\ markdown' = lines
    /\ links' = Asked(links, parse(lines), TRUE, map_route_enabled)
    /\ UNCHANGED <<adopting, awaiting>>

emit(next_sections) == change_markdown(serialize(next_sections))

Close == editing' = Null /\ delete_armed_index' = 0 /\ UNCHANGED insertion

EditingSection(index) == editing # Null /\ editing.index = index

begin_edit(index, d, step) ==
    /\ insertion' = Null /\ delete_armed_index' = 0
    /\ editing' = [index |-> index, draft |-> d, dirty |-> FALSE, map_mode |-> step # Null,
                   map_step |-> step]
    /\ request_expansion(d)
    /\ UNCHANGED <<markdown, awaiting>>

toggle_edit(index) ==
    LET d == draft(sections[index]) IN
    \/ EditingSection(index) /\ Close /\ UNCHANGED <<markdown, link_state>>
    \/ ~EditingSection(index) /\ begin_edit(index, d, map_step_of(d))

(* step: the frame synced with the draft d. *)
Edited(open, d, step) ==
    LET became_map == step # Null /\ open.map_step = Null
    IN [open EXCEPT !.draft = listed_map_draft(d, became_map), !.dirty = TRUE,
                    !.map_mode = (@ \/ became_map) /\ d.type = "link" /\ step # Null,
                    !.map_step = step]

Inserted(open, d, step) ==
    [draft |-> listed_map_draft(d, step # Null /\ open.map_step = Null), dirty |-> TRUE,
     map_step |-> step]

(* Refused, with a message, while the URL cannot be read as a frame.       *)
toggle_map_mode(next) ==
    LET step == IF editing.map_step # Null THEN editing.map_step ELSE map_step_of(editing.draft) IN
    /\ next => step # Null
    /\ editing' = IF next THEN [editing EXCEPT !.map_mode = TRUE, !.map_step = step]
                  ELSE [editing EXCEPT !.map_mode = FALSE]
    /\ UNCHANGED <<markdown, insertion, delete_armed_index, link_state>>

WithStep(open, step) ==
    [open EXCEPT !.draft = framed_draft(@, step), !.dirty = TRUE, !.map_step = step]

change_map_step(step) ==
    /\ editing' = WithStep(editing, step)
    /\ UNCHANGED <<markdown, insertion, delete_armed_index, link_state>>

change_insertion_map_step(step) ==
    /\ insertion' = WithStep(insertion, step)
    /\ UNCHANGED <<markdown, editing, delete_armed_index, link_state>>

(* The draft of a link in place of a section. *)
link_draft(section, step, url) ==
    [type |-> "link", list_type |-> list_type_of(section.marker), words |-> label(step),
     url |-> url, language |-> <<>>, code |-> <<>>]

split_map_stop(k) ==
    LET split == extract_stop(editing.map_step, k)
        at == editing.index
        section == sections[at]
        updated == update(section, [editing.draft EXCEPT !.words = label(split.remaining),
                                                         !.url = step_url(split.remaining)])
        created == update(section, link_draft(section, split.extracted, step_url(split.extracted)))
    IN
    /\ Len(editing.map_step.stops) > 1 /\ editing.map_step.stops[k].at # "here"
    /\ can_generate(split.remaining)
    /\ emit(InsertAt(ReplaceAt(sections, at, updated), at + 1, created))
    /\ editing' = Null /\ UNCHANGED <<insertion, delete_armed_index>>

save_edit ==
    /\ can_save(editing.draft)
    /\ emit(ReplaceAt(sections, editing.index, update(sections[editing.index], editing.draft)))
    /\ Close

delete_section ==
    LET index == editing.index IN
    \/ /\ delete_armed_index # index /\ delete_armed_index' = index
       /\ UNCHANGED <<markdown, editing, insertion, link_state>>
    \/ /\ delete_armed_index = index
       /\ emit(RemoveAt(sections, index)) /\ Close

-----------------------------------------------------------------------------
(* Inserting a section. *)

begin_insert ==
    /\ insertion = Null
    /\ editing' = Null /\ delete_armed_index' = 0
    /\ insertion' = [draft |-> Null, dirty |-> FALSE, map_step |-> Null]
    /\ UNCHANGED <<markdown, link_state>>

choose_insertion_type(type) ==
    LET d == IF insertion.draft = Null THEN new_draft(type) ELSE change_type(insertion.draft, type)
    IN
    /\ insertion.draft # Null => can_change_type(insertion.draft, type)
    /\ insertion' = [draft |-> d, dirty |-> insertion.draft # Null \/ insertion.dirty,
                     map_step |-> synced_step(insertion.draft, insertion.map_step, d)]
    /\ UNCHANGED <<markdown, editing, delete_armed_index, link_state>>

save_insertion ==
    /\ insertion.draft # Null /\ can_save(insertion.draft)
    /\ emit(Append(sections, create(insertion.draft)))
    /\ insertion' = Null /\ UNCHANGED <<editing, delete_armed_index>>

-----------------------------------------------------------------------------
(* Moving and merging sections. *)

(* Mutant: the sections a moved one passes keep their index. *)
remap_index_after_move_own(index, from, to) == IF index = from THEN to ELSE index

remap_index_after_move(index, from, to) ==
    IF index = from THEN to
    ELSE IF from < index /\ index <= to THEN index - 1
    ELSE IF to <= index /\ index < from THEN index + 1
    ELSE index

commit_move(from, to) ==
    /\ emit(move(sections, from, to))
    /\ editing' = IF editing = Null THEN Null
                  ELSE [editing EXCEPT !.index = remap_index_after_move(@, from, to)]
    /\ delete_armed_index' = remap_index_after_move(delete_armed_index, from, to)
    /\ UNCHANGED insertion

Unsaved(from, into) == editing # Null /\ editing.dirty /\ editing.index \in {from, into}

merged_route(section, route) ==
    update(section, link_draft(section, route,
                               IF can_generate(route) THEN step_url(route) ELSE EmptyUrl))

(* Two map links become one route; anything else is appended.              *)
merge_sections(secs, from, into, source, target) ==
    IF source # Null /\ target # Null
    THEN RemoveAt(ReplaceAt(secs, into, merged_route(secs[into], merge_steps(target, source))),
                  from)
    ELSE merge(secs, from, into)

merge_drop(secs, from, into) ==
    merge_sections(secs, from, into, section_step(secs[from]), section_step(secs[into]))

(* A short link says nothing before it is expanded. *)
commit_merge(from, into) ==
    /\ ~Unsaved(from, into)
    /\ \A k \in {from, into} : ~is_expanding(sections[k].url)
    /\ emit(merge_drop(sections, from, into))
    /\ editing' = IF editing = Null \/ (editing # Null /\ editing.index \in {from, into}) THEN Null
                  ELSE [editing EXCEPT !.index = IF @ > from THEN @ - 1 ELSE @]
    /\ delete_armed_index' = 0 /\ UNCHANGED insertion

(* A merge that meets aliases only asks for them. *)
AliasMet(from, into) ==
    LET urls == <<sections[from].url, sections[into].url>> IN
    /\ ~Unsaved(from, into) /\ \E k \in DOMAIN urls : is_expanding(urls[k])
    /\ request_expansions(urls)
    /\ UNCHANGED <<markdown, draft_state, awaiting>>

-----------------------------------------------------------------------------
(* The form of the section edited, if there still is one, and of the       *)
(* insertion.                                                              *)

DraftOpen(on) ==
    IF on = "editing" THEN editing # Null /\ editing.index \in DOMAIN sections
    ELSE insertion # Null /\ insertion.draft # Null

OpenDraft(on) == IF on = "editing" THEN editing.draft ELSE insertion.draft

FillDraft(on, d, step) ==
    /\ editing' = IF on = "editing" THEN Edited(editing, d, step) ELSE editing
    /\ insertion' = IF on = "insertion" THEN Inserted(insertion, d, step) ELSE insertion
    /\ request_expansion(d)
    /\ UNCHANGED <<markdown, delete_armed_index, awaiting>>

OpenStep(on) == IF on = "editing" THEN editing.map_step ELSE insertion.map_step

(* change_editing_draft and change_insertion_draft. *)
change_draft(on, d) == FillDraft(on, d, synced_step(OpenDraft(on), OpenStep(on), d))

(* An insertion chooses its type elsewhere. *)
Fillable(on, d, g) ==
    \/ g.do = "type" /\ on = "editing" /\ d.type # g.type /\ can_change_type(d, g.type)
    \/ g.do \in {"list", "words"} /\ d.type # "code-block"
    \/ g.do = "url" /\ d.type = "link"
    \/ g.do = "code" /\ d.type = "code-block"

Filled(d, g) ==
    CASE g.do = "type" -> change_type(d, g.type)
      [] g.do = "list" -> change_list_type(d, g.list_type)
      [] g.do = "words" -> [d EXCEPT !.words = g.words]
      [] g.do = "url" -> [d EXCEPT !.url = g.url]
      [] g.do = "code" -> [d EXCEPT !.code = g.code]

(* The clipboard is read first; the field is changed in the form as it was.*)
paste(on, d) ==
    /\ awaiting' = awaiting \cup {[what |-> "clipboard", on |-> on, draft |-> d,
                                   step |-> Null, editing |-> editing, frame |-> 0]}
    /\ UNCHANGED <<markdown, draft_state, links, adopting>>

MarkdownDraftFields(on, d, g) ==
    \/ Fillable(on, d, g) /\ change_draft(on, Filled(d, g))
    \/ g.do = "paste" /\ d.type # "code-block" /\ paste(on, [d EXCEPT !.words = g.words])

-----------------------------------------------------------------------------
(* The frame's controls. *)

(* The stop frame of the section or of the insertion. *)
FrameOpen(on) ==
    /\ map_route_enabled /\ DraftOpen(on)
    /\ IF on = "editing" THEN editing.map_mode /\ editing.map_step # Null
       ELSE insertion.map_step # Null

Frame(on) == OpenStep(on)
change_step(on, step) ==
    IF on = "editing" THEN change_map_step(step) ELSE change_insertion_map_step(step)

finish_stop_drag(on, from, to) ==
    /\ {from, to} \subseteq DOMAIN Frame(on).stops /\ from # to
    /\ change_step(on, move_stop(Frame(on), from, to))

remove_stop_at(on, k) ==
    LET next == remove_stop(Frame(on), k) IN
    can_generate(next) /\ change_step(on, next)

(* A frame adds one short link at a time. *)
pending(on) == \E w \in awaiting : w.what # "clipboard" /\ w.on = on /\ w.frame = frame[on]

(* A short link is added when it has been expanded, to the frame as it was *)
(* when it was added.                                                      *)
add_stop(on, url) ==
    /\ ~pending(on)
    /\ \/ /\ canonical(url) # Null
          /\ change_step(on, add_stops(Frame(on), stops_from_value(canonical(url))))
       \/ /\ IsUnanswered(url)
          /\ awaiting' = awaiting \cup {[what |-> url.id, on |-> on, draft |-> Null,
                                         step |-> Frame(on), editing |-> editing,
                                         frame |-> frame[on]]}
          /\ links' = resolved(Unasked(<<url>>))
          /\ UNCHANGED <<markdown, draft_state, adopting>>

(* Mutant: whichever draft is open is replaced. *)
adopted_any(d, alias, typed) ==
    LET step == Framed(d.words, read_link(d.words, Expansion[alias])) IN
    IF d.type # "link" THEN Null
    ELSE [draft |-> listed_map_draft(framed_draft(d, step), typed), step |-> step]

(* What an open alias draft becomes when its alias is expanded. *)
adopted(d, alias, typed) ==
    LET step == Framed(d.words, read_link(d.words, Expansion[alias])) IN
    IF d.type # "link" \/ d.url # short_link(alias) THEN Null
    ELSE [draft |-> listed_map_draft(framed_draft(d, step), typed), step |-> step]

AdoptedEditing(alias) ==
    LET next == adopted(editing.draft, alias, editing.dirty) IN
    IF editing = Null THEN Null
    ELSE IF next = Null THEN editing
    ELSE [editing EXCEPT !.draft = next.draft, !.dirty = TRUE, !.map_mode = TRUE,
                         !.map_step = next.step]

AdoptedInsertion(alias) ==
    LET next == adopted(insertion.draft, alias, TRUE) IN
    IF insertion = Null \/ (insertion # Null /\ insertion.draft = Null) THEN insertion
    ELSE IF next = Null THEN insertion
    ELSE [draft |-> next.draft, dirty |-> TRUE, map_step |-> next.step]

(* The frame an answer was awaited in, as it was then, with the stops of   *)
(* the alias; the last one asked is filled last.                           *)
Awaited(on, alias) == {w \in awaiting : w.what = alias /\ w.on = on}
Latest(waiting) == CHOOSE w \in waiting : \A other \in waiting : other.frame <= w.frame
WithStops(open, w, alias) ==
    WithStep(open, add_stops(w.step, stops_from_value(Expansion[alias])))

(* The answer for an alias, whatever has become of the drafts.             *)
Expanded(alias) ==
    LET open == IF alias \in adopting THEN AdoptedInsertion(alias) ELSE insertion
        LinkInserted == open # Null /\ open.draft # Null /\ open.draft.type = "link"
    IN
    /\ links[alias] = "pending"
    /\ links' = [links EXCEPT ![alias] = "resolved"]
    /\ adopting' = adopting \ {alias}
    /\ awaiting' = {w \in awaiting : w.what # alias}
    /\ editing' = IF Awaited("editing", alias) # {}
                  THEN LET w == Latest(Awaited("editing", alias)) IN WithStops(w.editing, w, alias)
                  ELSE IF alias \in adopting THEN AdoptedEditing(alias) ELSE editing
    /\ insertion' = IF Awaited("insertion", alias) # {} /\ LinkInserted
                    THEN WithStops(open, Latest(Awaited("insertion", alias)), alias) ELSE open
    /\ UNCHANGED <<markdown, mode, map_route_enabled, delete_armed_index, gestures>>

ExpansionFails(alias) ==
    /\ links[alias] = "pending"
    /\ links' = [links EXCEPT ![alias] = "failed"]
    /\ adopting' = adopting \ {alias} /\ awaiting' = {w \in awaiting : w.what # alias}
    /\ UNCHANGED <<markdown, mode, map_route_enabled, draft_state, gestures>>

-----------------------------------------------------------------------------
(* The modes and the gestures. *)

(* What the variables are when a document is opened.                       *)
EditorInit ==
    \E d \in Drafts :
        /\ markdown = d.markdown /\ mode = d.mode /\ gestures = d.gestures
        /\ map_route_enabled = TRUE
        /\ editing = Null /\ insertion = Null /\ delete_armed_index = 0
        /\ links = Asked([a \in Aliases |-> "unresolved"], parse(d.markdown),
                         d.mode = "steps", TRUE)
        /\ adopting = {} /\ awaiting = {} /\ frame = [on \in {"editing", "insertion"} |-> 0]

change_mode(next) ==
    /\ next # mode /\ mode' = next
    /\ editing' = Null /\ insertion' = Null /\ delete_armed_index' = 0
    /\ links' = Asked(links, sections, next = "steps", map_route_enabled)
    /\ UNCHANGED <<markdown, map_route_enabled, adopting, awaiting>>

RawInput(lines) ==
    /\ mode = "raw" /\ markdown' = lines
    /\ UNCHANGED <<mode, map_route_enabled, draft_state, link_state>>

(* The link input as a simple link or as a map link.                       *)
change_config(enabled) ==
    /\ map_route_enabled' = enabled
    /\ links' = Asked(links, sections, TRUE, enabled)
    /\ UNCHANGED <<markdown, mode, draft_state, adopting, awaiting>>

MapRouteFields(on, g) ==
    LET step == Frame(on) IN
    \/ g.do = "here" /\ change_step(on, toggle_current_location(step))
    \/ g.do = "travel" /\ change_step(on, [step EXCEPT !.travel_mode = g.travel_mode])
    \/ g.do = "move stop" /\ finish_stop_drag(on, g.from, g.to)
    \/ g.do = "remove stop" /\ g.k \in DOMAIN step.stops /\ remove_stop_at(on, g.k)
    \/ g.do = "add stop" /\ add_stop(on, g.url)
    \/ /\ g.do = "split" /\ on = "editing" /\ g.k \in DOMAIN step.stops
       /\ split_map_stop(g.k)

(* Buttons of the section edited and of the insertion.                     *)
EditForm(g) ==
    \/ g.do = "map mode" /\ editing.draft.type = "link" /\ map_route_enabled
       /\ toggle_map_mode(~editing.map_mode)
    \/ g.do = "save" /\ save_edit
    \/ g.do = "delete" /\ delete_section
    \/ /\ g.do = "cancel" /\ editing' = Null
       /\ UNCHANGED <<markdown, insertion, delete_armed_index, link_state>>

MarkdownInsertion(g) ==
    \/ g.do = "type" /\ choose_insertion_type(g.type)
    \/ g.do = "save" /\ save_insertion
    \/ /\ g.do = "cancel" /\ insertion' = Null
       /\ UNCHANGED <<markdown, editing, delete_armed_index, link_state>>

finish_drag(g) ==
    /\ g.do \in {"move", "drop"} /\ {g.from, g.to} \subseteq DOMAIN sections /\ g.from # g.to
    /\ \/ g.do = "move" /\ commit_move(g.from, g.to)
       \/ g.do = "drop" /\ (commit_merge(g.from, g.to) \/ AliasMet(g.from, g.to))

StepsGesture(g) ==
    \/ g.do = "edit" /\ g.index \in DOMAIN sections /\ toggle_edit(g.index)
    \/ g.do = "insert" /\ begin_insert
    \/ \E on \in {"editing", "insertion"} :
          \/ DraftOpen(on) /\ MarkdownDraftFields(on, OpenDraft(on), g)
          \/ FrameOpen(on) /\ MapRouteFields(on, g)
    \/ DraftOpen("editing") /\ EditForm(g)
    \/ insertion # Null /\ MarkdownInsertion(g)
    \/ finish_drag(g)

Gesture(g) ==
    /\ gestures' = gestures \ {g}
    /\ \/ g.do = "mode" /\ change_mode(g.mode)
       \/ g.do = "raw" /\ RawInput(g.lines)
       \/ /\ mode = "steps" /\ ~section_limit_exceeded
          /\ \/ g.do = "variant" /\ change_config(~map_route_enabled)
             \/ StepsGesture(g) /\ UNCHANGED <<mode, map_route_enabled>>

(* The clipboard's text is there, whatever has become of the form.         *)
Pasted(w) ==
    /\ w.what = "clipboard"
    /\ LET open == IF w.on = "editing" THEN w.editing ELSE insertion
           Step == synced_step(open.draft, open.map_step, w.draft)
       IN /\ editing' = IF w.on = "editing" THEN Edited(w.editing, w.draft, Step) ELSE editing
          /\ insertion' = IF w.on = "insertion" /\ insertion # Null
                          THEN Inserted(insertion, w.draft, Step) ELSE insertion
    /\ request_expansion(w.draft)
    /\ awaiting' = awaiting \ {w}
    /\ UNCHANGED <<markdown, mode, map_route_enabled, delete_armed_index, gestures>>

(* The frame still shown after a step is the one shown before it, unless   *)
(* its section has moved or changed.                                       *)
FrameShown(on) == mode = "steps" /\ ~section_limit_exceeded /\ FrameOpen(on)
FrameStays(on) ==
    /\ FrameShown(on) /\ FrameShown(on)'
    /\ on = "editing" => /\ editing'.index = editing.index
                         /\ sections'[editing'.index] = sections[editing.index]

(* A frame that is mounted anew awaits nothing. *)
Mounted == frame' = [on \in DOMAIN frame |-> IF pending(on) /\ ~FrameStays(on)
                                           THEN frame[on] + 1 ELSE frame[on]]

EditorNext ==
    /\ \/ \E g \in gestures : Gesture(g)
       \/ \E alias \in Aliases : Expanded(alias) \/ ExpansionFails(alias)
       \/ \E w \in awaiting : Pasted(w)
    /\ Mounted

-----------------------------------------------------------------------------
(* Properties. *)

(* A draft renders as one section however often its type, its code and its *)
(* list marker have changed (create and update throw otherwise), and code  *)
(* is read back as it was written.                                         *)
DraftsStayOneSection ==
    \A on \in {"editing", "insertion"} :
        DraftOpen(on) /\ can_save(OpenDraft(on)) =>
            LET d == OpenDraft(on)
                rendered == parse(render_draft(d, default_list_prefix(d.list_type)))
            IN Len(rendered) = 1 /\ (d.type = "code-block" => draft(rendered[1]) = d)

(* While a section is edited, whatever changes the document in Steps mode  *)
(* leaves the draft, if it stays open, on the section it is open on, and   *)
(* moving or dropping closes no unsaved draft.  (An open-ended block, or a *)
(* new one that a drop makes, swallows what follows it.)  This says nothing*)
(* of the answers the form of a section awaits, the clipboard's and that   *)
(* for an added short link: they bring back the draft as it was when they  *)
(* were asked for, at the index of then (MarkdownContentEditor.tsx:292,    *)
(* MapRouteFields.tsx:182), and a save after one may overwrite a section   *)
(* that has come there since.                                              *)
Arranged(g) == g.do \in {"move", "drop"} /\ markdown' # markdown
Unswallowed(before, after) ==
    (\A k \in DOMAIN before : before[k].closed) /\ Len(after) >= Len(before) - 1

DraftsFollowTheirSections ==
    [][mode = "steps" /\ markdown' # markdown /\ DraftOpen("editing")
       /\ Unswallowed(sections, sections') =>
          /\ editing.dirty /\ (\E g \in gestures \ gestures' : Arranged(g)) => editing' # Null
          /\ editing' # Null => /\ editing'.draft = editing.draft
                                /\ sections'[editing'.index] = sections[editing.index]
       ]_editor_vars

(* Arranging keeps the words of every section: those of both sections of a *)
(* drop, or, if both are map links, every place of both that a link can    *)
(* carry.  (The URL of a link and the language of a block that are dropped *)
(* on something else are not kept.)                                        *)
Said(secs) == UNION {ToSet(secs[k].words \o CodeWords(secs[k].code)) : k \in DOMAIN secs}
PlacesOf(step) == IF step = Null THEN {} ELSE {stop.at : stop \in ToSet(step.stops)} \ {"here"}
Addresses(step) == [k \in DOMAIN step.stops |-> step.stops[k].at]
FramedDrop(g) ==
    g.do = "drop" /\ section_step(sections[g.from]) # Null /\ section_step(sections[g.to]) # Null

ArrangingKeepsWhatIsSaid ==
    [][\A g \in gestures \ gestures' :
          Arranged(g) /\ Unswallowed(sections, sections') =>
             IF FramedDrop(g)
             THEN LET from == section_step(sections[g.from])
                      into == section_step(sections[g.to])
                      framed == PlacesOf(from) \cup PlacesOf(into)
                  IN warned(merge_steps(into, from))
                     \/ \E section \in ToSet(sections') :
                           PlacesOf(read_link(section.words, section.url)) = framed
             ELSE Said(sections) \subseteq Said(sections')]_editor_vars

(* The answer for a short link changes no document, and a draft only if it *)
(* is open on this link, keeping the words the creator has typed meanwhile,*)
(* or if its form awaits the answer because the link was added to its      *)
(* frame.  Then the frame has all the stops it had when the link was added,*)
(* followed by those of the link; words typed, and another section opened, *)
(* since then are lost: MapRouteFields.tsx:182-192 goes on with the frame, *)
(* and for a section with the whole draft, of that time.                   *)
Kept(open, next, a) ==
    next # open => /\ open # Null /\ open.draft # Null /\ open.draft.url = short_link(a)
                   /\ open.draft.words # <<>> => next.draft.words = open.draft.words

Completed(on, next, a) ==
    \E w \in Awaited(on, a) :
        /\ Addresses(w.step) = SubSeq(Addresses(next.map_step), 1, Len(w.step.stops))
        /\ PlacesOf(read_link(<<>>, Expansion[a])) \subseteq PlacesOf(next.map_step)
        /\ on = "editing" => next.index = w.editing.index

ExpansionsKeepToTheirLink ==
    [][\A a \in Aliases : links[a] = "pending" /\ links'[a] # "pending" =>
          /\ markdown' = markdown
          /\ Kept(editing, editing', a) \/ Completed("editing", editing', a)
          /\ Kept(insertion, insertion', a) \/ Completed("insertion", insertion', a)
       ]_editor_vars

(* A frame and the link of its draft never drift apart, through label and  *)
(* URL edits, expansions, moved and added stops: saved and opened again,   *)
(* the link has the stops the frame shows.  (Not when the frame warns, nor *)
(* for one place with a travel mode, nor for equal neighbours: a URL       *)
(* carries less.)                                                          *)
Expressible(step) ==
    /\ ~warned(step) /\ dedupe(step.stops) = step.stops
    /\ Len(step.stops) = 1 => step.travel_mode = ""

FramesMatchTheirLinks ==
    \A on \in {"editing", "insertion"} :
        FrameOpen(on) /\ Expressible(Frame(on)) =>
            LET d == OpenDraft(on)
                reopened == read_link(d.words, canonical(d.url))
            IN /\ canonical(d.url) # Null
               /\ Addresses(reopened) = Addresses(Frame(on))
               /\ reopened.travel_mode = Frame(on).travel_mode
=============================================================================
