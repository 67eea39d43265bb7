----------------------------- MODULE GraphStore -----------------------------
(***************************************************************************)
(* The optimistic itinerary store of the web client (itineraryGraphStore)  *)
(* and the rows it edits: every edit changes the screen at once, sends a   *)
(* request, and is undone when the answer is not ok.  Most edits are       *)
(* undone by putting back the nodes as they were before the edit.          *)
(* Requests reach the service in any order, their answers come in any      *)
(* order, and either may be lost.                                          *)
(***************************************************************************)
EXTENDS Naturals, Integers, Sequences, FiniteSets, SequencesExt

CONSTANTS
  Seeds,      \* the cards the page was opened with
  MaxCalls,   \* bound: requests the page sends
  None        \* no node, no lock holder

ASSUME CallsAssumption == MaxCalls \in Nat

VARIABLES
  role,        \* who looks at the page: "advisor" on a draft, "traveler" on an own fork
  screen,      \* the store's nodes, by id; Gone where there is none
  lockStatus,  \* what the store thinks of the editor lock
  lockPending, releasePending, savingLink,  \* the store's in-flight flags
  dragging,    \* the card picked up, or None
  rows,        \* the service's nodes
  lockedBy,    \* the itinerary's lock: "me", "other" or None
  calls,       \* the requests sent so far, in order
  mishaps      \* history: "overlap" (two requests at once), "refused", "lost" (answers),
               \* "crossed" (two lock requests), "apart" (served out of order, an older row
               \* adopted, or a change that was not sent)

view == <<role, screen, lockStatus, lockPending, releasePending, savingLink, dragging>>
vars == <<view, rows, lockedBy, calls, mishaps>>

-----------------------------------------------------------------------------
(* Ids and cards.  An edit writes the number of its call as the new value, *)
(* so a value tells whose it is.                                           *)

CallIds == 1..MaxCalls
Tmp(c) == <<"tmp", c>>
Made(c) == <<"made", c>>
Ids == Seeds \cup {Tmp(c) : c \in CallIds} \cup {Made(c) : c \in CallIds}

\* A made-up id and the id of a new row are nobody else's.
ASSUME SeedsAssumption ==
  /\ None \notin Ids
  /\ \A c \in CallIds : Tmp(c) \notin Seeds /\ Made(c) \notin Seeds

Unset == MaxCalls + 1
Value == 0..Unset
Card == [title : Value, slot : Value, detail : Value, price : Value, host : Ids \cup {None}]
Seed == [title |-> 0, slot |-> 0, detail |-> 0, price |-> 0, host |-> None]
Gone == [Seed EXCEPT !.title = -1]

NewCard(c) == [Seed EXCEPT !.title = c, !.slot = Unset]
NewCardAt(c) == [NewCard(c) EXCEPT !.slot = c]
NoteOn(c, h) == [NewCard(c) EXCEPT !.host = h]

On(nodes, n) == nodes[n] # Gone

\* A note attached to a card is drawn on that card only.
Drawn(nodes, n) == On(nodes, n) /\ (nodes[n].host # None => On(nodes, nodes[n].host))

-----------------------------------------------------------------------------
(* Who may do what (selectors of the store).                               *)

EditorLockHeld == lockStatus = "locked-by-me"

selectEditable == role = "advisor" /\ EditorLockHeld
selectTravelerEditable == role = "traveler"

selectCanSchedule == selectEditable \/ selectTravelerEditable

-----------------------------------------------------------------------------
(* What the page offers: the panels of the timeline and of a card's page.  *)

\* The Edit button; while another advisor is known to hold the lock it is disabled.
LockToggle == role = "advisor" /\ ~lockPending /\ lockStatus = "unlocked"

NodeEditPanel(n) == selectEditable /\ On(screen, n)
ScheduleFacet(n) == selectCanSchedule /\ On(screen, n)
EditFacet(n) == ScheduleFacet(n) /\ screen[n].host = None
NotesPanel(n) == On(screen, n) /\ screen[n].host = None
RemoveFacet(n) == On(screen, n)
CardComposer == selectEditable /\ ~savingLink

-----------------------------------------------------------------------------
(* Sending.                                                                *)

InFlight == {c \in DOMAIN calls : calls[c].stage # "done"}
NextCall == Len(calls) + 1

\* What the closure of a request remembers; only edits undone by snapshot keep the nodes.
Empty == [n \in Ids |-> Gone]
BySnapshot == {"title", "move", "remove", "detail", "price"}

Call(kind, n, card) ==
  [kind |-> kind, node |-> n, card |-> card, stage |-> "sent", answer |-> Gone,
   snap |-> IF kind \in BySnapshot THEN screen ELSE Empty,
   was |-> IF kind = "acquire" THEN lockStatus ELSE "unlocked"]

Forgotten(call) ==
  [call EXCEPT !.stage = "done", !.card = Gone, !.answer = Gone, !.snap = Empty, !.was = "unlocked"]

\* A request joins those in flight; two at once is a mishap the history keeps.  Bound: no call follows a
\* drop that came first and was not sent.
Send(call, also) ==
  /\ NextCall <= MaxCalls
  /\ calls = <<>> => "apart" \notin mishaps
  /\ calls' = Append(calls, call)
  /\ mishaps' = mishaps \cup also \cup (IF InFlight = {} THEN {} ELSE {"overlap"})
  /\ UNCHANGED <<rows, lockedBy>>

Optimistic(kind, n, card) ==
  /\ screen' = [screen EXCEPT ![n] = card]
  /\ Send(Call(kind, n, card), {})

\* The title field stands in both panels; the store takes it from a lock holder only.
editNodeField(n) ==
  /\ NodeEditPanel(n) \/ ScheduleFacet(n)
  /\ selectEditable
  /\ Optimistic("title", n, [screen[n] EXCEPT !.title = NextCall])
  /\ UNCHANGED <<role, lockStatus, lockPending, releasePending, savingLink, dragging>>

\* The details form: the description (part of the metadata) or the price.
updateCardDetails(n, field) ==
  /\ EditFacet(n)
  /\ selectEditable
  /\ Optimistic(field, n, [screen[n] EXCEPT ![field] = NextCall])
  /\ UNCHANGED <<role, lockStatus, lockPending, releasePending, savingLink, dragging>>

\* moveNode and unscheduleNode change the screen in any case, and write when
\* the viewer may edit.
Place(kind, n, slot) ==
  /\ On(screen, n)
  /\ IF selectCanSchedule
     THEN Optimistic(kind, n, [screen[n] EXCEPT !.slot = slot])
     ELSE /\ screen' = [screen EXCEPT ![n].slot = slot]
          /\ mishaps' = mishaps \cup {"apart"}
          /\ UNCHANGED <<rows, lockedBy, calls>>

moveNode(n) == Place("move", n, NextCall)
unscheduleNode(n) == Place("move", n, Unset)

Schedule(n) ==
  /\ ScheduleFacet(n)
  /\ moveNode(n) \/ unscheduleNode(n)
  /\ UNCHANGED <<role, lockStatus, lockPending, releasePending, savingLink, dragging>>

\* A card held in the hand is placed by a tap, and the placement can be taken back; only the
\* first looks whether the viewer may still edit.
placeHeldItem(n) == selectCanSchedule /\ moveNode(n)

undoPlacement(n) ==
  /\ screen[n].slot \in CallIds
  /\ unscheduleNode(n)

Hold(n) ==
  /\ placeHeldItem(n) \/ undoPlacement(n)
  /\ UNCHANGED <<role, lockStatus, lockPending, releasePending, savingLink, dragging>>

\* A card of the Collection can be picked up by anyone.  Bound: by who may not write it, before any call.
DragStart(n) ==
  /\ dragging = None
  /\ selectCanSchedule \/ calls = <<>>
  /\ On(screen, n)
  /\ dragging' = n
  /\ UNCHANGED <<role, screen, lockStatus, lockPending, releasePending, savingLink,
                 rows, lockedBy, calls, mishaps>>

\* The drop does not look again whether the card may be moved.
DragEnd ==
  /\ dragging # None
  /\ dragging' = None
  /\ \/ moveNode(dragging)
     \/ unscheduleNode(dragging)
     \/ UNCHANGED <<screen, rows, lockedBy, calls, mishaps>>
  /\ UNCHANGED <<role, lockStatus, lockPending, releasePending, savingLink>>

\* A new card stands on the screen under a made-up id until it is answered.
Add(card) ==
  /\ NextCall <= MaxCalls
  /\ Optimistic("add", Tmp(NextCall), card)
  /\ UNCHANGED <<role, lockStatus, lockPending, releasePending, savingLink, dragging>>

addNode == selectEditable /\ Add(NewCardAt(NextCall))
authorNode == CardComposer /\ (Add(NewCard(NextCall)) \/ Add(NewCardAt(NextCall)))
addFreeStandingNote == Add(NewCardAt(NextCall))
addCollectionNote == Add(NewCard(NextCall))
addAttachedNote(h) == NotesPanel(h) /\ Add(NoteOn(NextCall, h))

\* A pasted link: nothing on the screen until the service has made the card.
saveLinkToCollection ==
  /\ ~savingLink
  /\ savingLink' = TRUE
  /\ Send(Call("link", None, NewCard(NextCall)), {})
  /\ UNCHANGED <<role, screen, lockStatus, lockPending, releasePending, dragging>>

\* A search result is added likewise, without a flag that would stop a second one.
addNodeFromInventory ==
  /\ selectEditable
  /\ Send(Call("found", None, NewCard(NextCall)), {})
  /\ UNCHANGED view

removeNode(n) ==
  /\ RemoveFacet(n)
  /\ Optimistic("remove", n, Gone)
  /\ UNCHANGED <<role, lockStatus, lockPending, releasePending, savingLink, dragging>>

acquireLock ==
  /\ LockToggle
  /\ lockPending' = TRUE
  /\ lockStatus' = "locked-by-me"
  /\ Send(Call("acquire", None, Gone), IF releasePending THEN {"crossed"} ELSE {})
  /\ UNCHANGED <<role, screen, releasePending, savingLink, dragging>>

releaseLock ==
  /\ ~releasePending
  /\ EditorLockHeld
  /\ releasePending' = TRUE
  /\ lockStatus' = "unlocked"
  /\ Send(Call("release", None, Gone), IF lockPending THEN {"crossed"} ELSE {})
  /\ UNCHANGED <<role, screen, lockPending, savingLink, dragging>>

-----------------------------------------------------------------------------
(* The service.  The viewer is an advisor, whom the lock does not stop, or *)
(* the owner of the fork, which nobody locks.                              *)

\* Rows are looked up by id: those removed softly are still found.
Known(n) == n \in Seeds \cup {Made(c) : c \in CallIds}

Sent(c) == c \in DOMAIN calls /\ calls[c].stage = "sent"

Reply(c, stage, answer) ==
  /\ calls' = [calls EXCEPT ![c].stage = stage, ![c].answer = answer]
  /\ mishaps' = mishaps \cup (IF \E d \in 1..c - 1 : Sent(d) THEN {"apart"} ELSE {})
  /\ UNCHANGED view

\* update_node: a title, a price or the whole metadata replaces the row's.
Patched(call) ==
  LET row == rows[call.node] IN
  IF row = Gone THEN call.card
  ELSE CASE call.kind = "title" -> [row EXCEPT !.title = call.card.title]
         [] call.kind = "price" -> [row EXCEPT !.price = call.card.price]
         [] OTHER -> [row EXCEPT !.slot = call.card.slot, !.detail = call.card.detail]

\* A removed row takes the change and stays removed.
ServeUpdate(c) ==
  /\ Sent(c) /\ calls[c].kind \in {"title", "price", "detail", "move"}
  /\ LET n == calls[c].node IN
       /\ Known(n)
       /\ rows' = IF On(rows, n) THEN [rows EXCEPT ![n] = Patched(calls[c])] ELSE rows
  /\ Reply(c, "ok", Patched(calls[c]))
  /\ UNCHANGED lockedBy

\* A note needs a host that the service knows.
ServeCreate(c) ==
  /\ Sent(c) /\ calls[c].kind \in {"add", "link", "found"}
  /\ calls[c].card.host # None => Known(calls[c].card.host)
  /\ rows' = [rows EXCEPT ![Made(c)] = calls[c].card]
  /\ Reply(c, "ok", calls[c].card)
  /\ UNCHANGED lockedBy

\* The soft delete takes the notes attached to the card along.
ServeRemove(c) ==
  /\ Sent(c) /\ calls[c].kind = "remove"
  /\ LET n == calls[c].node IN
       /\ Known(n)
       /\ rows' = [m \in Ids |-> IF m = n \/ rows[m].host = n THEN Gone ELSE rows[m]]
  /\ Reply(c, "ok", Gone)
  /\ UNCHANGED lockedBy

ServeAcquire(c) ==
  /\ Sent(c) /\ calls[c].kind = "acquire"
  /\ lockedBy \in {"me", None}
  /\ lockedBy' = "me"
  /\ Reply(c, "ok", Gone)
  /\ UNCHANGED rows

ServeRelease(c) ==
  /\ Sent(c) /\ calls[c].kind = "release"
  /\ lockedBy' = IF lockedBy = "me" THEN None ELSE lockedBy
  /\ Reply(c, "ok", Gone)
  /\ UNCHANGED rows

AlreadyLocked(c) ==
  /\ Sent(c) /\ calls[c].kind = "acquire"
  /\ lockedBy = "other"
  /\ Reply(c, "already_locked", Gone)
  /\ UNCHANGED <<rows, lockedBy>>

\* Refused because the card has been firmed since (approved, booked), because the viewer may not
\* write, or by an error before anything was written.
Refuse(c) ==
  /\ Sent(c)
  /\ Reply(c, "refused", Gone)
  /\ UNCHANGED <<rows, lockedBy>>

\* The answer does not arrive: the client library reports a network error.
Lose(c) ==
  /\ c \in DOMAIN calls /\ calls[c].stage = "ok"
  /\ calls' = [calls EXCEPT ![c].stage = "refused", ![c].answer = Gone]
  /\ mishaps' = mishaps \cup {"lost"}
  /\ UNCHANGED <<view, rows, lockedBy>>

\* Only before the service looks at the lock: at other times it makes no difference to this page.
OtherAdvisor ==
  /\ role = "advisor"
  /\ \E c \in DOMAIN calls : Sent(c) /\ calls[c].kind = "acquire"
  /\ \/ lockedBy = None /\ lockedBy' = "other"
     \/ lockedBy = "other" /\ lockedBy' = None
  /\ UNCHANGED <<view, rows, calls, mishaps>>

-----------------------------------------------------------------------------
(* Answers.                                                                *)

IsOk(c) == calls[c].stage = "ok"

\* The client library turns every response, and its absence, into a result.
Result(c, kinds) ==
  c \in DOMAIN calls /\ calls[c].kind \in kinds /\ calls[c].stage \in {"ok", "refused", "already_locked"}

updateNode(c, kinds) == Result(c, kinds)
deleteNode(c) == Result(c, {"remove"})
createNode(c) == Result(c, {"add"})
createNodeFromLink(c) == Result(c, {"link"})
createNodeFromInventory(c) == Result(c, {"found"})
acquireItineraryLock(c) == Result(c, {"acquire"})
releaseItineraryLock(c) == Result(c, {"release"})

Done(c, also) ==
  /\ calls' = [calls EXCEPT ![c] = Forgotten(@)]
  /\ mishaps' = mishaps \cup also \cup (IF IsOk(c) THEN {} ELSE {"refused"})
  /\ UNCHANGED <<role, rows, lockedBy, dragging>>

\* Slip: a refused edit stays on the screen.
AnswerSnapshotKept(c) ==
  /\ updateNode(c, {"title", "move"}) \/ deleteNode(c)
  /\ Done(c, {})
  /\ UNCHANGED <<screen, lockStatus, lockPending, releasePending, savingLink>>

\* Edits that are undone with the snapshot taken when they were made.
AnswerSnapshot(c) ==
  /\ updateNode(c, {"title", "move"}) \/ deleteNode(c)
  /\ screen' = IF IsOk(c) THEN screen ELSE calls[c].snap
  /\ Done(c, {})
  /\ UNCHANGED <<lockStatus, lockPending, releasePending, savingLink>>

\* Slip: the row is put on the screen whether or not the card is still there.
AdoptedAnyway(c) == [screen EXCEPT ![calls[c].node] = calls[c].answer]

\* The details form adopts the row the service answers with.
Adopted(c) ==
  LET n == calls[c].node IN
  IF On(screen, n) THEN [screen EXCEPT ![n] = calls[c].answer] ELSE screen

Outdated(c) == \E d \in DOMAIN calls : d > c /\ calls[d].node = calls[c].node

AnswerDetails(c) ==
  /\ updateNode(c, {"detail", "price"})
  /\ screen' = IF IsOk(c) THEN Adopted(c) ELSE calls[c].snap
  /\ Done(c, IF IsOk(c) /\ Outdated(c) THEN {"apart"} ELSE {})
  /\ UNCHANGED <<lockStatus, lockPending, releasePending, savingLink>>

\* The made-up id gives way to the row, if it is still there, or goes.
Settled(c) ==
  IF IsOk(c) /\ On(screen, Tmp(c))
  THEN [screen EXCEPT ![Tmp(c)] = Gone, ![Made(c)] = calls[c].answer]
  ELSE [screen EXCEPT ![Tmp(c)] = Gone]

AnswerAdd(c) ==
  /\ createNode(c)
  /\ screen' = Settled(c)
  /\ Done(c, {})
  /\ UNCHANGED <<lockStatus, lockPending, releasePending, savingLink>>

AnswerLink(c) ==
  /\ createNodeFromLink(c) \/ createNodeFromInventory(c)
  /\ screen' = IF IsOk(c) THEN [screen EXCEPT ![Made(c)] = calls[c].answer] ELSE screen
  /\ savingLink' = (savingLink /\ calls[c].kind # "link")
  /\ Done(c, {})
  /\ UNCHANGED <<lockStatus, lockPending, releasePending>>

AnswerAcquire(c) ==
  /\ acquireItineraryLock(c)
  /\ lockStatus' = CASE IsOk(c) -> lockStatus
                     [] calls[c].stage = "already_locked" -> "locked-by-other"
                     [] OTHER -> calls[c].was
  /\ lockPending' = FALSE
  /\ Done(c, {})
  /\ UNCHANGED <<screen, releasePending, savingLink>>

AnswerRelease(c) ==
  /\ releaseItineraryLock(c)
  /\ lockStatus' = IF IsOk(c) THEN lockStatus ELSE "locked-by-me"
  /\ releasePending' = FALSE
  /\ Done(c, {})
  /\ UNCHANGED <<screen, lockPending, savingLink>>

-----------------------------------------------------------------------------

Init ==
  /\ role \in {"advisor", "traveler"}
  /\ screen = [n \in Ids |-> IF n \in Seeds THEN Seed ELSE Gone]
  /\ rows = screen
  /\ lockStatus = "unlocked"
  /\ lockPending = FALSE /\ releasePending = FALSE /\ savingLink = FALSE
  /\ dragging = None
  /\ lockedBy \in IF role = "advisor" THEN {"me", "other", None} ELSE {None}
  /\ calls = <<>>
  /\ mishaps = {}

\* The pointer that drags a card presses nothing else.
Edit ==
  \/ /\ dragging = None
     /\ \/ \E n \in Ids :
             \/ editNodeField(n) \/ updateCardDetails(n, "detail") \/ updateCardDetails(n, "price")
             \/ Schedule(n) \/ Hold(n) \/ DragStart(n) \/ removeNode(n) \/ addAttachedNote(n)
        \/ addNode \/ authorNode \/ addFreeStandingNote \/ addCollectionNote
        \/ saveLinkToCollection \/ addNodeFromInventory
        \/ acquireLock \/ releaseLock
  \/ DragEnd

Serve ==
  \E c \in CallIds :
    \/ ServeUpdate(c) \/ ServeCreate(c) \/ ServeRemove(c)
    \/ ServeAcquire(c) \/ ServeRelease(c) \/ AlreadyLocked(c) \/ Refuse(c) \/ Lose(c)

Answer ==
  \E c \in CallIds :
    \/ AnswerSnapshot(c) \/ AnswerDetails(c) \/ AnswerAdd(c) \/ AnswerLink(c)
    \/ AnswerAcquire(c) \/ AnswerRelease(c)

Next == Edit \/ Serve \/ Answer \/ OtherAdvisor

Spec == Init /\ [][Next]_vars

-----------------------------------------------------------------------------
(* Properties.                                                             *)

CallOK(call) ==
  /\ call.kind \in {"title", "move", "detail", "price", "add", "link", "found", "remove", "acquire", "release"}
  /\ call.node \in Ids \cup {None}
  /\ call.card \in Card \cup {Gone} /\ call.answer \in Card \cup {Gone}
  /\ call.stage \in {"sent", "ok", "refused", "already_locked", "done"}
  /\ call.was \in {"unlocked", "locked-by-me", "locked-by-other"}

\* Every variable has its type: in particular the store's idea of the lock is one of the three
\* the toggle can draw, whatever the service answered.
TypeOK ==
  /\ role \in {"advisor", "traveler"}
  /\ screen \in [Ids -> Card \cup {Gone}] /\ rows \in [Ids -> Card \cup {Gone}]
  /\ lockStatus \in {"unlocked", "locked-by-me", "locked-by-other"}
  /\ {lockPending, releasePending, savingLink} \subseteq BOOLEAN
  /\ dragging \in Ids \cup {None}
  /\ lockedBy \in {"me", "other", None}
  /\ \A c \in DOMAIN calls : CallOK(calls[c])
  /\ mishaps \subseteq {"overlap", "refused", "lost", "apart", "crossed"}

SameCard(a, b) ==
  a.title = b.title /\ a.slot = b.slot /\ a.detail = b.detail /\ a.price = b.price /\ a.host = b.host

ScreenShowsRows ==
  \A n \in Ids :
    /\ Drawn(screen, n) <=> Drawn(rows, n)
    /\ Drawn(screen, n) => SameCard(screen[n], rows[n])

\* With nothing in flight the page shows what the service has, if the edits were made one at a
\* time, refused ones included (a snapshot undoes exactly the refused edit), or if they
\* overlapped in any way but were all accepted in the order they were sent.
QuietPageAgrees ==
  InFlight = {} /\ (mishaps \subseteq {"refused"} \/ mishaps \subseteq {"overlap"}) => ScreenShowsRows

\* A card that was removed on the page is not put on the screen again, while no request was refused or
\* its answer lost: the answers of other requests, however late, do not bring back what is gone.
NoResurrection ==
  [][\A n \in Ids : On(screen, n)' /\ ~On(screen, n) /\ "refused" \notin mishaps' =>
       ~\E c \in DOMAIN calls : calls[c].kind = "remove" /\ calls[c].node = n]_vars

=============================================================================
