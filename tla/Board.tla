------------------------------- MODULE Board -------------------------------
(***************************************************************************)
(* The board of an itinerary: days side by side over one axis of time, the *)
(* Collection of cards without a time beside it, and the ways a card gets  *)
(* its time: dragged, picked up and placed, authored at a slot.  Times are *)
(* on the quarter-hour grid the layout snaps to, and a card takes a whole  *)
(* number of quarters.  A click is answered before the next one; what      *)
(* happens when answers overlap is GraphStore's.                           *)
(***************************************************************************)
EXTENDS Integers, Sequences, FiniteSets, FiniteSetsExt

CONSTANTS
  Quarters,     \* the cards, 1 to a number, and how many quarters each takes
  Heights,      \* the pixels each one's glance card and compact card were measured at, 0 when not yet
  Facts,        \* and each one's type, cost (NoCost for none) and half-degree cell of the map (0 for none)
  Starts,       \* the slots the first card may have at first
  Others,       \* and the others
  Windows,      \* the exact dates a trip may have, as sets of days; {} for none
  Zooms,        \* pixels of a quarter on the zoom slider
  Pointers,     \* the heights on the canvas where the pointer is held
  MaxGestures,  \* bound: drags, placements, edits and changes of the dates
  MaxMoves      \* bound: the moves of the pointer in one drag

\* A card takes time: the adapter gives a card whose duration is missing, or none, the usual one of its type.
ASSUME CardsAssumption == Quarters \in Seq(Nat \ {0})
ASSUME HeightsAssumption == Heights \in [DOMAIN Quarters -> [glance : Nat, compact : Nat]]
\* A start is a day and a quarter of it.
ASSUME StartsAssumption == Starts \cup Others \subseteq Int \X Int
ASSUME PixelsAssumption == Zooms \cup Pointers \subseteq Int
ASSUME WindowsAssumption == \A w \in Windows : IsFiniteSet(w) /\ w \subseteq Int

VARIABLES
  node,      \* the service: is the card there, its metadata's start, whether that is marked synthesized, its column
  window,    \* the trip's exact dates
  page,      \* the cards as the page has them
  days,      \* the columns the page draws
  zoom,
  drag,      \* the card being dragged and where the pointer has it
  held,      \* the card picked up to be placed, 0 for none
  last,      \* the card the undo toast is about, 0 for none
  slot,      \* where the composer would author a card
  mayWrite,  \* whether the viewer's changes are kept
  gestures,
  mishaps    \* history: a call "failed" or was "lost", a change kept "apart", the "dates" changed under the composer

vars == <<node, window, page, days, zoom, drag, held, last, slot, mayWrite, gestures, mishaps>>
service == <<node, window>>
pointer == <<drag, held, last, slot>>

Cards == DOMAIN Quarters
Ghost == Cardinality(Cards) + 1
Nowhere == <<0, 0>>
NoDrag == [card |-> 0, day |-> 0, quarter |-> 97, was |-> 97, y |-> 0, moves |-> 0]
NoCost == -1
Absent == [there |-> FALSE, start |-> Nowhere, synth |-> FALSE, column |-> Nowhere]

-----------------------------------------------------------------------------
(* From the service's graph to the page's: every card gets a start.        *)

There == {c \in Cards : node[c].there}
explicitStart(c) == IF node[c].start # Nowhere THEN node[c].start ELSE node[c].column
Undated == {c \in There : explicitStart(c) = Nowhere}

\* Undated cards are laid out an hour apart from nine, on the first day that is known.
synthAnchor ==
  IF There # Undated THEN Min({explicitStart(c)[1] : c \in There \ Undated})
  ELSE IF window # {} THEN Min(window) ELSE 1

resolvedStart(c) ==
  IF c \in Undated THEN <<synthAnchor, 36 + 4 * Cardinality({o \in Undated : o < c})>> ELSE explicitStart(c)

\* A mark that was saved with a card stays.
resolvedNodes ==
  [c \in Cards |-> IF c \in There THEN [start |-> resolvedStart(c), synth |-> c \in Undated \/ node[c].synth]
                   ELSE [start |-> Nowhere, synth |-> FALSE]]

\* Slip: only the trip's dates are drawn where it has any.
SpanOfDates ==
  LET on == IF window # {} THEN window ELSE {resolvedStart(c)[1] : c \in There}
  IN Min(on)..Max(on)

\* From the earliest to the latest day of a card, widened by the trip's dates.
daySpan ==
  LET on == {resolvedStart(c)[1] : c \in There} \cup window
  IN Min(on)..Max(on)

-----------------------------------------------------------------------------
(* The layout.                                                             *)

isNodeScheduled(c) == page[c].start # Nowhere /\ ~page[c].synth
scheduledCount == Cardinality({c \in There : isNodeScheduled(c)})
collectionDominant == scheduledCount = 0

ghostNode ==
  LET source == page[drag.card].start
      at == <<drag.day, IF drag.quarter = 97 THEN source[2] ELSE drag.quarter>>
  IN IF drag.card = 0 \/ drag.day = 0 THEN {}
     ELSE IF ~isNodeScheduled(drag.card) \/ at = source THEN {}   \* a synthesized ghost is not laid out
     ELSE {[id |-> Ghost, day |-> at[1], q |-> at[2], len |-> Quarters[drag.card]]}

\* What is laid out: the scheduled cards whose day is drawn, and the ghost of the one being dragged.
items ==
  {[id |-> c, day |-> page[c].start[1], q |-> page[c].start[2], len |-> Quarters[c]] :
     c \in {o \in There : isNodeScheduled(o) /\ page[o].start[1] \in days}} \cup ghostNode

\* Slip: the zoom is taken as it is.
RawHeight == zoom

\* A quarter of an hour is never lower than a compact card.
quarterHeight == IF zoom > 44 THEN zoom ELSE 44

\* The runs of more than ninety minutes between lo and hi with no card, nor the quarter before and after one.
deadRuns(lo, hi) ==
  {run \in ({lo} \cup {i.q + i.len + 1 : i \in items}) \X ({hi} \cup {i.q - 1 : i \in items}) :
     /\ lo <= run[1] /\ run[1] + 6 < run[2] /\ run[2] <= hi
     /\ \A i \in items : run[2] <= i.q - 1 \/ i.q + i.len + 1 <= run[1]}

\* Slip: the empty daytime collapses too.
ElidedAnytime == deadRuns(0, 96)

\* Seven in the morning to nine in the evening stays live; before and after, the dead runs collapse to a band.
elided == deadRuns(0, 28) \cup deadRuns(84, 96)

collapsed(bands) == MapThenSumSet(LAMBDA run : run[2] - run[1], bands)

mapQuarterToY(q) ==
  LET above == {run \in elided : run[2] <= q}
  IN (q - collapsed(above)) * quarterHeight + 56 * Cardinality(above)

\* Where the pointer is: the nearest quarter, or the end of a collapsed band.
mapYToQuarter(y) ==
  LET above == {run \in elided : mapQuarterToY(run[2]) <= y}
      under == {run \in elided \ above : mapQuarterToY(run[1]) <= y}
      quarter == collapsed(above) + (2 * (y - 56 * Cardinality(above)) + quarterHeight) \div (2 * quarterHeight)
  IN IF under # {} THEN (CHOOSE run \in under : TRUE)[2] ELSE Min({96, quarter})

\* By their start, and at one start as the graph lists them.
before(a, b) == a.q < b.q \/ (a.q = b.q /\ a.id < b.id)

\* In that order a day's cards take the first lane that is free by their start; the one being dragged waits in
\* lane 0.
lanes(day) ==
  LET its == {i \in items : i.day = day /\ i.id # drag.card}
      lane[i \in its] ==
        Min({l \in 0..Cardinality(its) : \A o \in its : before(o, i) /\ lane[o] = l => o.q + o.len <= i.q})
  IN [i \in {o \in items : o.day = day} |-> IF i.id = drag.card THEN 0 ELSE lane[i]]

\* The heights the layout counts on: of a compact card, and of a glance card but the tallest.
compactFallbackH == 44
GLANCE_MIN_HEIGHT_PX == 180

\* A card with less room to the next one in its lane than a glance card needs is drawn compact; bands are not
\* taken into account.
isCompact(i, inLane) ==
  LET after == {o \in inLane : before(i, o)}
      room == (Min({o.q : o \in after}) - i.q) * quarterHeight
  IN after # {} /\ room < GLANCE_MIN_HEIGHT_PX

\* As high as it was measured once it has been drawn; the ghost is as high as its card.
cardHeight(i, inLane) ==
  LET heights == Heights[IF i.id = Ghost THEN drag.card ELSE i.id]
      compact == isCompact(i, inLane)
      measured == IF compact THEN heights.compact ELSE heights.glance
  IN IF measured > 0 THEN measured ELSE IF compact THEN compactFallbackH ELSE 132

\* What the layout counts on for the form it gives the card.
countsOn(i, inLane) == IF isCompact(i, inLane) THEN compactFallbackH ELSE GLANCE_MIN_HEIGHT_PX

\* Where a card is drawn: from its top down to its foot.
top(i) == mapQuarterToY(i.q)
laneMates(i, lane) == {p \in DOMAIN lane : lane[p] = lane[i]}
foot(i, lane) == top(i) + cardHeight(i, laneMates(i, lane))

\* The wide screen: the columns, unless the board is all Collection, and the cards on them.
DayColumns == IF collectionDominant THEN {} ELSE days
HorizontalCanvas == LET columns == DayColumns IN {i.id : i \in {o \in items : o.day \in columns}}

\* The Collection: by what the cards are, what they cost or where they are they fall into lanes, in the
\* lanes' order; cards of which it is not known come last.
collectionItemsOf == There

TYPE_LANE ==
  <<{"experience", "free_time", "waiting"}, {"meal"}, {"hotel"},
    {"flight", "transit", "subway", "train", "drive", "walk", "boat"}, {"destination"}, {"note"}>>
typeLane(c) == Min({l \in DOMAIN TYPE_LANE : Facts[c].type \in TYPE_LANE[l]} \cup {7})

costTierFor(c) == 1 + Cardinality({max \in {1000, 5000, 20000} : Facts[c].cost >= max})
costLane(c) == IF Facts[c].cost = NoCost THEN 5 ELSE costTierFor(c)

\* Cards of one cell share the lane of the first.
proximityLane(c) ==
  IF Facts[c].cell = 0 THEN Ghost ELSE Min({o \in collectionItemsOf : Facts[o].cell = Facts[c].cell})

laneOf(c, axis) ==
  CASE axis = "type" -> typeLane(c) [] axis = "cost" -> costLane(c) [] axis = "proximity" -> proximityLane(c)

groupCollection(cards, axis) ==
  [l \in {laneOf(c, axis) : c \in cards} |-> {c \in cards : laneOf(c, axis) = l}]

\* What has its time is left out.
wishList(axis) == groupCollection({c \in collectionItemsOf : ~isNodeScheduled(c)}, axis)

\* The phone: a page a day.
groupNodesByDay == [d \in days |-> {c \in There : page[c].start[1] = d}]
MobileItineraryLayout == LET groups == groupNodesByDay IN UNION {groups[d] : d \in DayColumns}

-----------------------------------------------------------------------------
(* Writing a card's time.                                                  *)

\* Bound.
Gesture == gestures < MaxGestures /\ gestures' = gestures + 1
Smooth == mishaps \cap {"failed", "lost"} = {}

\* The start of the metadata is the column; a card without one has none.
update_node(c, start, synth) ==
  node' = [node EXCEPT ![c] = [there |-> TRUE, start |-> start, synth |-> synth, column |-> start]]

\* The page shows the change at once and takes it back when the call does not come through; without the
\* right to write nothing is sent.
persist(c, start, synth) ==
  /\ UNCHANGED <<window, days, zoom, mayWrite>>
  /\ \/ /\ mayWrite
        /\ page' = [page EXCEPT ![c] = [start |-> start, synth |-> synth]]
        /\ update_node(c, start, synth) /\ UNCHANGED mishaps
     \/ /\ mayWrite /\ Smooth
        /\ mishaps' = mishaps \cup {"failed"} /\ UNCHANGED <<node, page>>
     \/ /\ mayWrite /\ Smooth
        /\ update_node(c, start, synth)
        /\ mishaps' = mishaps \cup {"lost"} /\ UNCHANGED page
     \/ /\ ~mayWrite
        /\ page' = [page EXCEPT ![c] = [start |-> start, synth |-> synth]]
        /\ mishaps' = mishaps \cup {"apart"} /\ UNCHANGED node

\* The slot of a drop: without a measured pointer the time of day stays, and a card without one stays put.
rebasedMetadata(c, day, quarter) ==
  IF quarter # 97 THEN <<day, quarter>>
  ELSE IF page[c].start # Nowhere THEN <<day, page[c].start[2]>> ELSE Nowhere

moveNode(c, day, quarter) ==
  LET to == rebasedMetadata(c, day, quarter)
  IN persist(c, to, IF to = Nowhere THEN page[c].synth ELSE FALSE)

unscheduleNode(c) == persist(c, Nowhere, FALSE)

-----------------------------------------------------------------------------
(* Dragging.                                                               *)

Still == UNCHANGED <<service, page, days, zoom, mayWrite, mishaps>>
Idle == drag.card = 0 /\ slot = Nowhere    \* the composer lies over the page

\* A card of the timeline, for who may write; any card of the Collection.
CardWrap(c) == mayWrite /\ isNodeScheduled(c) /\ c \in HorizontalCanvas
CollectionCard(c) == c \in There

\* Beside the timeline the Collection takes drops.
CollectionRail == ~collectionDominant

handleDragStart(c) ==
  /\ Idle /\ (CardWrap(c) \/ CollectionCard(c)) /\ Gesture
  /\ drag' = [NoDrag EXCEPT !.card = c]
  /\ Still /\ UNCHANGED <<held, last, slot>>

\* The column the pointer is over; a board that is all Collection has none.
handleDragOver(d) ==
  /\ drag.card # 0 /\ d \in DayColumns \cup {0} /\ d # drag.day /\ drag.moves < MaxMoves
  /\ drag' = [drag EXCEPT !.day = d, !.moves = @ + 1]
  /\ Still /\ UNCHANGED <<held, last, slot, gestures>>

\* The pointer is read against the layout that already makes room for the ghost.
onMove(y) ==
  /\ drag.card # 0 /\ DayColumns # {} /\ drag.moves < MaxMoves
  /\ drag' = [drag EXCEPT !.quarter = mapYToQuarter(y), !.was = drag.quarter, !.y = y, !.moves = @ + 1]
  /\ Still /\ UNCHANGED <<held, last, slot, gestures>>

\* A drop on a column or on the Collection beside the timeline; anywhere else nothing happens.
handleDragEnd(target) ==
  /\ drag.card # 0 /\ drag' = NoDrag
  /\ \/ target = "day" /\ drag.day # 0 /\ moveNode(drag.card, drag.day, drag.quarter)
     \/ target = "collection" /\ CollectionRail /\ drag.day = 0 /\ unscheduleNode(drag.card)
     \/ target = "none" /\ drag.day = 0 /\ Still
  /\ UNCHANGED <<held, last, slot, gestures>>

-----------------------------------------------------------------------------
(* Picking up and placing, authoring at a slot.                            *)

holdItem(c) ==
  /\ Idle /\ mayWrite /\ CollectionCard(c) /\ Gesture
  /\ held' = c /\ last' = 0
  /\ Still /\ UNCHANGED <<drag, slot>>

\* While a card is held, a chip to let go of it, and the columns to tap.
PlaceModeLayer == Idle /\ held # 0
PlaceTargets == IF PlaceModeLayer THEN DayColumns ELSE {}

clearHeldItem ==
  /\ PlaceModeLayer /\ held' = 0
  /\ Still /\ UNCHANGED <<drag, last, slot, gestures>>

placeHeldItem(d, quarter) ==
  /\ moveNode(held, d, quarter)
  /\ held' = 0 /\ last' = held

handlePlaceTap(d, y) ==
  /\ d \in PlaceTargets
  /\ placeHeldItem(d, mapYToQuarter(y))
  /\ UNCHANGED <<drag, slot, gestures>>

\* Undo returns the card to the Collection.
undoPlacement ==
  /\ Idle /\ last # 0 /\ unscheduleNode(last)
  /\ last' = 0 /\ UNCHANGED <<drag, held, slot, gestures>>

clearLastPlacement ==
  /\ Idle /\ last # 0 /\ last' = 0
  /\ Still /\ UNCHANGED <<drag, held, slot, gestures>>

\* A click on an empty part of a column opens the composer there.
CreateSlots == IF Idle /\ held = 0 /\ mayWrite THEN DayColumns ELSE {}

handleCreateTap(d, y) ==
  /\ d \in CreateSlots
  /\ Gesture /\ slot' = <<d, mapYToQuarter(y)>>
  /\ Still /\ UNCHANGED <<drag, held, last>>

\* The card is saved with its time, or taken off the page again.
authorNode(c) ==
  /\ slot # Nowhere /\ c \notin There
  /\ slot' = Nowhere
  /\ \/ /\ update_node(c, slot, FALSE)
        /\ page' = [page EXCEPT ![c] = [start |-> slot, synth |-> FALSE]]
        /\ UNCHANGED mishaps
     \/ /\ Smooth /\ mishaps' = mishaps \cup {"failed"}
        /\ UNCHANGED <<node, page>>
  /\ UNCHANGED <<window, days, zoom, mayWrite, drag, held, last, gestures>>

-----------------------------------------------------------------------------
(* Everything else that reaches a card's time or the columns.              *)

\* The card's text: the whole metadata goes back, the start it was drawn with included, and the page takes
\* the card as the service answers it.
updateCardDetails(c) ==
  /\ Idle /\ mayWrite /\ c \in There /\ Gesture
  /\ \/ update_node(c, page[c].start, page[c].synth) /\ UNCHANGED <<page, mishaps>>
     \/ Smooth /\ mishaps' = mishaps \cup {"failed"} /\ UNCHANGED <<node, page>>
     \/ /\ Smooth /\ update_node(c, page[c].start, page[c].synth)
        /\ mishaps' = mishaps \cup {"lost"} /\ UNCHANGED page
  /\ UNCHANGED <<window, days, zoom, mayWrite, pointer>>

\* The price: only the cost goes, and the page takes the card as it is in the service.
updateCardCost(c) ==
  /\ Idle /\ mayWrite /\ c \in There /\ Gesture
  /\ page' = [page EXCEPT ![c] = [start |-> node[c].start, synth |-> node[c].synth]]
  /\ UNCHANGED <<service, days, zoom, mayWrite, mishaps, pointer>>

\* The concierge changes the trip's dates: the columns are drawn anew, the cards stay as the page has them.
onItineraryUpdated(dates) ==
  /\ drag.card = 0 /\ dates # window /\ Gesture
  /\ UNCHANGED <<node, page, zoom, mayWrite, pointer>>
  /\ window' = dates
  /\ days' = daySpan'
  /\ mishaps' = mishaps \cup (IF slot = Nowhere THEN {} ELSE {"dates"})

\* The page is opened again.
toItineraryTimeline ==
  /\ Gesture
  /\ page' = resolvedNodes /\ days' = daySpan
  /\ drag' = NoDrag /\ held' = 0 /\ last' = 0 /\ slot' = Nowhere
  /\ mishaps' = mishaps \ {"apart", "lost", "dates"}
  /\ UNCHANGED <<service, zoom, mayWrite>>

ZoomControls(z) == Idle /\ z # zoom

setPxPerMinute(z) ==
  /\ ZoomControls(z) /\ zoom' = z /\ Gesture
  /\ UNCHANGED <<service, page, days, mayWrite, mishaps, pointer>>

-----------------------------------------------------------------------------

Node(start) == [there |-> TRUE, start |-> start, synth |-> FALSE, column |-> start]

Init ==
  /\ \E first \in Starts, other \in Others :
       node = [c \in Cards |-> IF c = 1 THEN Node(first) ELSE IF c = Ghost - 1 THEN Absent ELSE Node(other)]
  /\ window \in Windows
  /\ page = resolvedNodes /\ days = daySpan
  /\ zoom \in Zooms
  /\ drag = NoDrag /\ held = 0 /\ last = 0 /\ slot = Nowhere
  /\ mayWrite \in BOOLEAN
  /\ gestures = 0 /\ mishaps = {}

Next ==
  \/ \E c \in Cards : \/ handleDragStart(c) \/ holdItem(c) \/ authorNode(c)
                      \/ updateCardDetails(c) \/ updateCardCost(c)
  \/ \E d \in days \cup {0} : handleDragOver(d)
  \/ \E y \in Pointers : onMove(y)
  \/ \E target \in {"day", "collection", "none"} : handleDragEnd(target)
  \/ \E d \in days, y \in Pointers : handlePlaceTap(d, y) \/ handleCreateTap(d, y)
  \/ clearHeldItem \/ undoPlacement \/ clearLastPlacement
  \/ \E dates \in Windows : onItineraryUpdated(dates)
  \/ toItineraryTimeline
  \/ \E z \in Zooms : setPxPerMinute(z)

Spec == Init /\ [][Next]_vars

-----------------------------------------------------------------------------
(* Properties.                                                             *)

\* At any zoom, across any band and in the middle of any drag a card ends, as high as it is drawn, before
\* the next one of its lane starts: but for the dragged card itself, and for a card that is drawn higher than
\* the layout counts on for its form, a compact one of more than 44 pixels or a glance card of more than 180.
NeverCovered ==
  \A d \in days : LET lane == lanes(d) IN
    \A i, o \in DOMAIN lane :
      drag.card \notin {i.id, o.id} /\ lane[i] = lane[o] /\ before(i, o) =>
        \/ foot(i, lane) <= top(o)
        \/ cardHeight(i, laneMates(i, lane)) > countsOn(i, laneMates(i, lane))

\* The ghost keeps still under a pointer that does: once it has been in the daytime, making room for it
\* does not move the time the pointer is over.  Until a change is lost or kept apart, or the dates change under
\* the composer, every card's day is drawn.
Daytime(q) == q \in 29..83 \cup {97}
GhostSteady ==
  [][mishaps \subseteq {"failed"} /\ drag.card # 0 /\ drag'.card = drag.card /\ drag'.y = drag.y /\ drag.quarter # 97
       /\ Daytime(drag.was) /\ Daytime(drag.quarter) => drag'.quarter = drag.quarter]_vars

\* No card is lost: one that has a time is drawn, on the timeline and on the phone, whatever the trip's
\* dates become, and one that has none is in one lane of the Collection, however that is sorted: until an answer is lost, a change is kept from
\* the service or the dates change under the composer.  The page is the only one to write to the trip.
NoCardLost ==
  mishaps \subseteq {"failed"} =>
    /\ {c \in There : isNodeScheduled(c)} \subseteq HorizontalCanvas \cap MobileItineraryLayout
    /\ \A c \in There \ HorizontalCanvas, axis \in {"type", "cost", "proximity"} :
         LET sorted == wishList(axis) IN Cardinality({l \in DOMAIN sorted : c \in sorted[l]}) = 1

=============================================================================
