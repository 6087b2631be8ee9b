------------------------------- MODULE MapRoutes -------------------------------
(***************************************************************************)
(* lib/maps and lib/ui/map-route-steps.ts: a Google Maps link read as an   *)
(* ordered list of stops, the operations of the stop frame, and the link   *)
(* a frame is written as.                                                  *)
(*                                                                         *)
(* A URL is a record of the parameters its text has: the places of a       *)
(* directions link or the one of a place link.  A place is an address,     *)
(* coordinates or a readable query; the device's position is not one, a    *)
(* URL says it by leaving the origin out.  The name Maps showed for a      *)
(* place is not part of any URL that is written here.                      *)
(***************************************************************************)
EXTENDS Naturals, Sequences, SequencesExt

CONSTANTS Coordinates,     \* addresses that are bare numbers
          MAX_WAYPOINTS,
          Null

ASSUME MapRoutesAssumption == MAX_WAYPOINTS \in Nat

Here == [at |-> "here", name |-> <<>>]
Place(at) == [at |-> at, name |-> <<>>]

(* "place", "dir", "short link", "empty" or "other".                       *)
Url(kind) ==
    [kind |-> kind, id |-> "", origin |-> <<>>, waypoints |-> <<>>, destination |-> <<>>,
     travel_mode |-> ""]
EmptyUrl == Url("empty")
short_link(id) == [Url("short link") EXCEPT !.id = id]

-----------------------------------------------------------------------------
(* Reading a URL: a link is its points, the implicit origin made explicit. *)

Link(kind, points, mode) == [kind |-> kind, points |-> points, travel_mode |-> mode]
unknown == Link("unknown", <<>>, "")

WithoutHere(points) == SelectSeq(points, LAMBDA point : point.at # "here")

(* The device's position only in the lead.                                 *)
LedByHere(points) ==
    (IF points # <<>> /\ points[1].at = "here" THEN <<Here>> ELSE <<>>) \o WithoutHere(points)

route_of(led, mode) == IF Len(led) < 2 THEN unknown ELSE Link("route", led, mode)

point_of(points) == IF points = <<>> THEN unknown ELSE Link("point", <<points[1]>>, "")

route_or_point(stops, route) == IF route # unknown THEN route ELSE point_of(WithoutHere(stops))

(* Without an origin a directions link starts wherever the user is.        *)
dir_stops(origin, given) ==
    (IF given # <<>> /\ origin = <<>> THEN <<Here>> ELSE <<>>)
    \o [k \in DOMAIN given |-> Place(given[k])]

dir_link(stops, mode) == route_or_point(stops, route_of(LedByHere(stops), mode))

parse_dir(url) ==
    dir_link(dir_stops(url.origin, url.origin \o url.waypoints \o url.destination),
             url.travel_mode)

parse_google(url) ==
    IF url.kind = "dir" THEN parse_dir(url)
    ELSE point_of([k \in DOMAIN url.destination |-> Place(url.destination[k])])

parse_google_maps_url(url) ==
    CASE url.kind \in {"dir", "place"} -> parse_google(url)
      [] url.kind = "short link" -> Link("short_link", <<>>, "")
      [] OTHER -> unknown

is_short_map_link(url) == url.kind = "short link"

-----------------------------------------------------------------------------
(* Frames: a label (none when it is derived from the stops), stops, mode.  *)

stop_label(point) ==
    IF point.at = "here" THEN <<"Your location">>
    ELSE IF point.name # <<>> THEN point.name ELSE <<point.at>>

is_coordinate_text(words) == Len(words) = 1 /\ words[1] \in Coordinates

(* The only stop of a link is named by the link text.                      *)
named_stop(point, words) ==
    IF point.at \in Coordinates /\ point.name = <<>> /\ words # <<>> /\ ~is_coordinate_text(words)
    THEN [point EXCEPT !.name = words] ELSE point

label(step) ==
    IF step.label # <<>> THEN step.label[1]
    ELSE FlattenSeq([k \in DOMAIN step.stops |->
             (IF k = 1 THEN <<>> ELSE <<"->">>) \o stop_label(step.stops[k])])

Labelled(step, words) == IF words = label(step) THEN step ELSE [step EXCEPT !.label = <<words>>]

(* A link of points, under the words of its text. *)
read_points(words, link) ==
    Labelled([label |-> <<>>,
              stops |-> IF link.kind = "point" THEN <<named_stop(link.points[1], words)>>
                        ELSE link.points,
              travel_mode |-> link.travel_mode], words)

read_parsed(words, link) ==
    IF link.kind \in {"point", "route"} THEN read_points(words, link) ELSE Null

read_link(words, url) == IF url = Null THEN Null ELSE read_parsed(words, parse_google_maps_url(url))

(* Collapses stops that address the same place twice in a row.             *)
dedupe(stops) ==
    FoldLeft(LAMBDA kept, stop : IF kept # <<>> /\ Last(kept).at = stop.at THEN kept
                                 ELSE Append(kept, stop),
             <<>>, stops)

has_current_location(step) == WithoutHere(step.stops) # step.stops
can_generate(step) == WithoutHere(step.stops) # <<>>

toggle_current_location(step) ==
    [step EXCEPT !.stops = IF has_current_location(step) THEN WithoutHere(@)
                           ELSE dedupe(<<Here>> \o @)]

merge_steps(target, source) ==
    [label |-> IF target.label # <<>> THEN target.label ELSE source.label,
     stops |-> dedupe(target.stops \o source.stops),
     travel_mode |-> IF target.travel_mode # "" THEN target.travel_mode ELSE source.travel_mode]

stops_from_value(url) == parse_google_maps_url(url).points
add_stops(step, stops) == [step EXCEPT !.stops = dedupe(@ \o stops)]
move_stop(step, from, to) ==
    [step EXCEPT !.stops = dedupe(InsertAt(RemoveAt(@, from), to, @[from]))]
remove_stop(step, k) == [step EXCEPT !.stops = RemoveAt(@, k)]
extract_stop(step, k) ==
    [remaining |-> remove_stop(step, k),
     extracted |-> [label |-> <<>>, stops |-> <<step.stops[k]>>,
                    travel_mode |-> step.travel_mode]]

set_label(step, words) ==
    [step EXCEPT !.label = IF words \in {<<>>, label([step EXCEPT !.label = <<>>])} THEN <<>>
                           ELSE <<words>>]

-----------------------------------------------------------------------------
(* The link a frame is written as. *)

(* Neighbours only once. *)
route_points(stops) == dedupe(LedByHere(stops))

(* A lone place is a destination, never an origin.                         *)
build_route_url(points, mode) ==
    LET rest == Tail(points)
        lead == IF points[1].at = "here" \/ rest = <<>> THEN <<>> ELSE <<points[1].at>>
        through == IF rest = <<>> THEN <<>> ELSE Front(rest)
    IN [Url("dir") EXCEPT
           !.origin = lead,
           !.waypoints = [k \in 1 .. (IF Len(through) < MAX_WAYPOINTS THEN Len(through)
                                      ELSE MAX_WAYPOINTS) |-> through[k].at],
           !.destination = <<Last(points).at>>, !.travel_mode = mode]

build_place_url(point) == [Url("place") EXCEPT !.destination = <<point.at>>]

(* Mutant: a place is written as a trip. *)
step_url_always_route(step) == build_route_url(route_points(step.stops), step.travel_mode)

step_url(step) ==
    IF Len(step.stops) = 1 /\ step.stops[1].at # "here" /\ step.travel_mode = ""
    THEN build_place_url(step.stops[1])
    ELSE build_route_url(route_points(step.stops), step.travel_mode)

(* What the frame warns about.                                             *)
warned(step) ==
    \/ \E k \in 2 .. Len(step.stops) : step.stops[k].at = "here"
    \/ ~can_generate(step)
    \/ Len(step.stops) > MAX_WAYPOINTS + 2
=============================================================================
