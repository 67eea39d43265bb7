-------------------------- MODULE GraphStoreProofs --------------------------
(***************************************************************************)
(* The itinerary store, for any number of cards and requests: what was     *)
(* removed stays removed, and a page at rest shows what the service has.   *)
(***************************************************************************)
EXTENDS GraphStore, TLAPS

Updates == {"title", "move", "detail", "price"}
Creates == {"add", "link", "found"}
Locks == {"acquire", "release"}
Kinds == Updates \cup Creates \cup Locks \cup {"remove"}
Stages == {"sent", "ok", "refused", "already_locked", "done"}

\* A card that is there, and what stands at an id.
Live == [title : Nat, slot : Nat, detail : Nat, price : Nat, host : Ids \cup {None}]
Nodes == [Ids -> Live \cup {Gone}]

\* A request names a card where its kind does, and carries one until it is forgotten.
Requests ==
    {x \in [kind : Kinds, node : Ids \cup {None}, card : Live \cup {Gone}, stage : Stages,
            answer : Live \cup {Gone}, snap : Nodes,
            was : {"unlocked", "locked-by-me", "locked-by-other"}] :
        /\ x.kind \in Updates \cup {"remove"} => x.node \in Ids
        /\ x.kind \in Updates \cup Creates /\ x.stage # "done" => x.card \in Live
        /\ x.kind \in Updates \cup Creates /\ x.stage = "ok" => x.answer \in Live
        /\ x.kind \in Creates /\ x.stage = "ok" => x.answer = x.card
        /\ x.kind \in {"link", "found"} /\ x.stage # "done" => x.card.host = None}

StoreType ==
    /\ screen \in Nodes /\ rows \in Nodes
    /\ calls \in Seq(Requests) /\ DOMAIN calls \subseteq CallIds
    /\ lockStatus \in {"unlocked", "locked-by-me", "locked-by-other"}
    /\ dragging \in Ids \cup {None}

-----------------------------------------------------------------------------
(* Cards and requests.                                                     *)

LEMMA GoneApart == Gone \notin Live /\ Gone.host = None
BY DEF Gone, Seed, Live

LEMMA NewIds ==
    ASSUME NEW c \in CallIds
    PROVE  /\ c \in Nat /\ Tmp(c) \in Ids /\ Made(c) \in Ids /\ Tmp(c) \notin Seeds /\ Made(c) \notin Seeds
           /\ \A d \in CallIds : Tmp(c) # Made(d) /\ (Tmp(c) = Tmp(d) => c = d) /\ (Made(c) = Made(d) => c = d)
BY SeedsAssumption, CallsAssumption DEF CallIds, Ids, Tmp, Made

LEMMA SeedLive == Seed \in Live
BY DEF Seed, Live

LEMMA OnLive ==
    ASSUME NEW nodes \in Nodes, NEW n \in Ids
    PROVE  On(nodes, n) <=> nodes[n] \in Live
BY GoneApart DEF Nodes, On

\* An edit of a card that is there leaves a card there, on the same host.
LEMMA EditedLive ==
    ASSUME NEW card \in Live, NEW v \in Nat
    PROVE  /\ [card EXCEPT !.title = v] \in Live /\ [card EXCEPT !.slot = v] \in Live
           /\ [card EXCEPT !.detail = v] \in Live /\ [card EXCEPT !.price = v] \in Live
           /\ [card EXCEPT !.title = v].host = card.host /\ [card EXCEPT !.slot = v].host = card.host
           /\ [card EXCEPT !.detail = v].host = card.host /\ [card EXCEPT !.price = v].host = card.host
BY DEF Live

LEMMA NewCardsLive ==
    ASSUME NEW c \in CallIds
    PROVE  /\ NewCard(c) \in Live /\ NewCardAt(c) \in Live
           /\ NewCard(c).host = None /\ NewCardAt(c).host = None
           /\ \A h \in Ids : NoteOn(c, h) \in Live /\ NoteOn(c, h).host = h
<1>1. Unset \in Nat /\ c \in Nat
    BY CallsAssumption DEF CallIds, Unset
<1>2. PICK x \in Live : x = [Seed EXCEPT !.title = c] /\ x.host = None
    BY <1>1, SeedLive, EditedLive DEF Seed
<1>3. NewCard(c) = [x EXCEPT !.slot = Unset]
    BY <1>2, Zenon DEF NewCard
<1>4. NewCard(c) \in Live /\ NewCard(c).host = None
    <2>1. [x EXCEPT !.slot = Unset] \in Live /\ [x EXCEPT !.slot = Unset].host = x.host
        BY <1>1, EditedLive
    <2>2. QED
        BY <1>2, <1>3, <2>1, Zenon
<1>5. NewCardAt(c) \in Live /\ NewCardAt(c).host = None
    BY <1>1, <1>4, EditedLive DEF NewCardAt
<1>6. ASSUME NEW h \in Ids PROVE NoteOn(c, h) \in Live /\ NoteOn(c, h).host = h
    BY <1>4 DEF NoteOn, Live
<1>7. QED
    BY <1>4, <1>5, <1>6

LEMMA EmptyNodes == Empty \in Nodes
BY DEF Empty, Nodes

LEMMA CallTyped ==
    ASSUME StoreType, NEW kind \in Kinds, NEW n \in Ids \cup {None}, NEW card \in Live \cup {Gone},
           kind \in Updates \cup {"remove"} => n \in Ids,
           kind \in Updates \cup Creates => card \in Live, kind \in {"link", "found"} => card.host = None
    PROVE  /\ Call(kind, n, card) \in Requests
           /\ Call(kind, n, card).kind = kind /\ Call(kind, n, card).node = n
           /\ Call(kind, n, card).card = card /\ Call(kind, n, card).stage = "sent"
           /\ Call(kind, n, card).answer = Gone
           /\ Call(kind, n, card).snap = IF kind \in BySnapshot THEN screen ELSE Empty
BY EmptyNodes DEF Call, Requests, StoreType, Stages

\* A request with an answer.
Replied(x, stage, answer) == [x EXCEPT !.stage = stage, !.answer = answer]

LEMMA RepliedTyped ==
    ASSUME NEW x \in Requests, NEW stage \in Stages \ {"done"}, NEW answer \in Live \cup {Gone},
           x.stage # "done", x.kind \in Updates \cup Creates /\ stage = "ok" => answer \in Live,
           x.kind \in Creates /\ stage = "ok" => answer = x.card
    PROVE  /\ Replied(x, stage, answer) \in Requests
           /\ Replied(x, stage, answer).stage = stage /\ Replied(x, stage, answer).answer = answer
           /\ Replied(x, stage, answer).kind = x.kind /\ Replied(x, stage, answer).node = x.node
           /\ Replied(x, stage, answer).card = x.card /\ Replied(x, stage, answer).snap = x.snap
BY DEF Requests, Replied

LEMMA ForgottenTyped ==
    ASSUME NEW x \in Requests
    PROVE  /\ Forgotten(x) \in Requests /\ Forgotten(x).stage = "done"
           /\ Forgotten(x).kind = x.kind /\ Forgotten(x).node = x.node
           /\ Forgotten(x).snap = Empty /\ Forgotten(x).card = Gone /\ Forgotten(x).answer = Gone
BY EmptyNodes DEF Forgotten, Requests, Stages

-----------------------------------------------------------------------------
(* What a step does to the screen, the rows and the requests.              *)

\* A field of a card that is there gets a new value, or its place does.
EditOf(kind, n, v) ==
    CASE kind = "title" -> [screen[n] EXCEPT !.title = v]
      [] kind = "move" -> [screen[n] EXCEPT !.slot = v]
      [] kind = "detail" -> [screen[n] EXCEPT !.detail = v]
      [] OTHER -> [screen[n] EXCEPT !.price = v]

EditsCard(kind, n, v) ==
    /\ kind \in Updates /\ n \in Ids /\ v \in Nat
    /\ On(screen, n)
    /\ Optimistic(kind, n, EditOf(kind, n, v))

RemovesCard(n) ==
    /\ n \in Ids /\ On(screen, n)
    /\ Optimistic("remove", n, Gone)

\* A card's host, if it has one, is there and has none.
HostReady(card) == card.host # None => On(screen, card.host) /\ screen[card.host].host = None

AddsCard(card) ==
    /\ card \in Live /\ HostReady(card)
    /\ NextCall \in CallIds
    /\ Optimistic("add", Tmp(NextCall), card)

\* Nothing is on the screen yet.
Asks(kind, card, also) ==
    /\ \/ kind \in Locks /\ card = Gone
       \/ kind \in {"link", "found"} /\ card \in Live /\ card.host = None
    /\ also \subseteq {"crossed"}
    /\ screen' = screen
    /\ Send(Call(kind, None, card), also)

DropsUnsent(n, v) ==
    /\ n \in Ids /\ v \in Nat /\ On(screen, n)
    /\ screen' = [screen EXCEPT ![n] = [screen[n] EXCEPT !.slot = v]]
    /\ mishaps' = mishaps \cup {"apart"}
    /\ UNCHANGED <<rows, calls>>

\* An answer that leaves the rows alone: to a lock request, or a refusal.
Replies(c, stage) ==
    /\ Sent(c)
    /\ stage \in {"ok", "already_locked", "refused"}
    /\ stage # "refused" => calls[c].kind \in Locks
    /\ Reply(c, stage, Gone)
    /\ rows' = rows

\* What the screen is after an answer that is ok, and after any other.
IfOk(c) ==
    CASE calls[c].kind \in {"detail", "price"} -> Adopted(c)
      [] calls[c].kind = "add" /\ On(screen, Tmp(c)) ->
           [screen EXCEPT ![Tmp(c)] = Gone, ![Made(c)] = calls[c].answer]
      [] calls[c].kind = "add" /\ ~On(screen, Tmp(c)) -> [screen EXCEPT ![Tmp(c)] = Gone]
      [] calls[c].kind \in {"link", "found"} -> [screen EXCEPT ![Made(c)] = calls[c].answer]
      [] OTHER -> screen

IfRefused(c) ==
    CASE calls[c].kind \in BySnapshot -> calls[c].snap
      [] calls[c].kind = "add" -> [screen EXCEPT ![Tmp(c)] = Gone]
      [] OTHER -> screen

Answers(c) ==
    /\ c \in DOMAIN calls /\ calls[c].stage \in {"ok", "refused", "already_locked"}
    /\ screen' = IF IsOk(c) THEN IfOk(c) ELSE IfRefused(c)
    /\ calls' = [calls EXCEPT ![c] = Forgotten(@)]
    /\ mishaps \subseteq mishaps'
    /\ IsOk(c) /\ calls[c].kind \in {"detail", "price"} /\ Outdated(c) => "apart" \in mishaps'
    /\ ~IsOk(c) => "refused" \in mishaps'
    /\ mishaps' \subseteq mishaps \cup {"refused", "apart"}
    /\ rows' = rows

Steps ==
    \/ UNCHANGED <<screen, rows, calls, mishaps>>
    \/ \E kind \in Updates, n \in Ids, v \in Nat : EditsCard(kind, n, v)
    \/ \E n \in Ids : RemovesCard(n)
    \/ \E card \in Live : AddsCard(card)
    \/ \E kind \in Kinds, card \in Live \cup {Gone}, also \in SUBSET {"crossed"} : Asks(kind, card, also)
    \/ \E n \in Ids, v \in Nat : DropsUnsent(n, v)
    \/ \E c \in CallIds : ServeUpdate(c) \/ ServeCreate(c) \/ ServeRemove(c) \/ Lose(c) \/ Answers(c)
    \/ \E c \in CallIds, stage \in Stages : Replies(c, stage)

LEMMA NextId == ASSUME StoreType, NextCall <= MaxCalls PROVE NextCall \in CallIds /\ NextCall \in Nat
BY CallsAssumption DEF StoreType, NextCall, CallIds

LEMMA PlaceSteps ==
    ASSUME StoreType, NEW n \in Ids, NEW v \in Nat, Place("move", n, v)
    PROVE  Steps
<1>1. CASE selectCanSchedule
    <2>1. EditOf("move", n, v) = [screen[n] EXCEPT !.slot = v]
        BY DEF EditOf
    <2>2. EditsCard("move", n, v)
        BY <1>1, <2>1 DEF Place, EditsCard, Updates
    <2>3. QED
        BY <2>2 DEF Steps, Updates
<1>2. CASE ~selectCanSchedule
    <2>1. DropsUnsent(n, v)
        BY <1>2 DEF Place, DropsUnsent
    <2>2. QED
        BY <2>1 DEF Steps
<1>3. QED
    BY <1>1, <1>2

LEMMA MoveSteps == ASSUME StoreType, NEW n \in Ids, moveNode(n) \/ unscheduleNode(n) PROVE Steps
<1>1. NextCall \in Nat /\ Unset \in Nat
    BY CallsAssumption DEF StoreType, NextCall, Unset
<1>2. QED
    BY <1>1, PlaceSteps DEF moveNode, unscheduleNode

\* A new card, whose host is ready for it.
LEMMA AddSteps ==
    ASSUME StoreType, NEW card, NextCall \in CallIds => card \in Live /\ HostReady(card), Add(card)
    PROVE  Steps
<1>1. NextCall \in CallIds
    BY NextId DEF Add
<1>2. AddsCard(card)
    BY <1>1 DEF Add, AddsCard
<1>3. QED
    BY <1>1, <1>2 DEF Steps

LEMMA EditSteps == ASSUME StoreType, Edit PROVE Steps
<1>1. ASSUME NEW n \in Ids, editNodeField(n) PROVE Steps
    <2>1. NextCall \in Nat /\ On(screen, n)
        BY <1>1 DEF editNodeField, NodeEditPanel, ScheduleFacet, StoreType, NextCall
    <2>2. EditOf("title", n, NextCall) = [screen[n] EXCEPT !.title = NextCall]
        BY DEF EditOf
    <2>3. EditsCard("title", n, NextCall)
        BY <1>1, <2>1, <2>2 DEF EditsCard, editNodeField, Updates
    <2>4. QED
        BY <2>1, <2>3 DEF Steps, Updates
<1>2. ASSUME NEW n \in Ids, updateCardDetails(n, "detail") PROVE Steps
    <2>1. NextCall \in Nat /\ On(screen, n)
        BY <1>2 DEF updateCardDetails, EditFacet, ScheduleFacet, StoreType, NextCall
    <2>2. EditOf("detail", n, NextCall) = [screen[n] EXCEPT !["detail"] = NextCall]
        BY DEF EditOf
    <2>3. EditsCard("detail", n, NextCall)
        BY <1>2, <2>1, <2>2 DEF EditsCard, updateCardDetails, Updates
    <2>4. QED
        BY <2>1, <2>3 DEF Steps, Updates
<1>3. ASSUME NEW n \in Ids, updateCardDetails(n, "price") PROVE Steps
    <2>1. NextCall \in Nat /\ On(screen, n)
        BY <1>3 DEF updateCardDetails, EditFacet, ScheduleFacet, StoreType, NextCall
    <2>2. EditOf("price", n, NextCall) = [screen[n] EXCEPT !["price"] = NextCall]
        BY DEF EditOf
    <2>3. EditsCard("price", n, NextCall)
        BY <1>3, <2>1, <2>2 DEF EditsCard, updateCardDetails, Updates
    <2>4. QED
        BY <2>1, <2>3 DEF Steps, Updates
<1>4. ASSUME NEW n \in Ids, Schedule(n) \/ Hold(n) PROVE Steps
    BY <1>4, MoveSteps DEF Schedule, Hold, placeHeldItem, undoPlacement
<1>5. ASSUME NEW n \in Ids, DragStart(n) PROVE Steps
    BY <1>5 DEF DragStart, Steps
<1>6. ASSUME NEW n \in Ids, removeNode(n) PROVE Steps
    BY <1>6 DEF removeNode, RemoveFacet, RemovesCard, Steps
<1>7. ASSUME NEW n \in Ids, addAttachedNote(n) PROVE Steps
    BY <1>7, AddSteps, NewCardsLive DEF addAttachedNote, NotesPanel, HostReady
<1>8. ASSUME addNode \/ authorNode \/ addFreeStandingNote \/ addCollectionNote PROVE Steps
    BY <1>8, AddSteps, NewCardsLive
       DEF addNode, authorNode, addFreeStandingNote, addCollectionNote, HostReady
<1>9. ASSUME saveLinkToCollection \/ addNodeFromInventory PROVE Steps
    <2>1. NextCall \in CallIds
        BY <1>9, NextId DEF saveLinkToCollection, addNodeFromInventory, Send
    <2>2. Asks("link", NewCard(NextCall), {}) \/ Asks("found", NewCard(NextCall), {})
        BY <1>9, <2>1, NewCardsLive DEF saveLinkToCollection, addNodeFromInventory, Asks, view
    <2>3. QED
        BY <2>1, <2>2, NewCardsLive DEF Steps, Kinds, Creates
<1>10. ASSUME acquireLock \/ releaseLock PROVE Steps
    <2>1. \E kind \in Locks, also \in SUBSET {"crossed"} : Asks(kind, Gone, also)
        BY <1>10 DEF acquireLock, releaseLock, Asks, Locks
    <2>2. QED
        BY <2>1 DEF Steps, Kinds
<1>11. ASSUME DragEnd PROVE Steps
    <2>1. dragging \in Ids
        BY <1>11 DEF DragEnd, StoreType
    <2>2. CASE UNCHANGED <<screen, rows, lockedBy, calls, mishaps>>
        BY <2>2 DEF Steps
    <2>3. QED
        BY <1>11, <2>1, <2>2, MoveSteps DEF DragEnd
<1>12. QED
    BY <1>1, <1>2, <1>3, <1>4, <1>5, <1>6, <1>7, <1>8, <1>9, <1>10, <1>11 DEF Edit

LEMMA ServeSteps == ASSUME StoreType, Serve PROVE Steps
<1>1. PICK c \in CallIds :
        \/ ServeUpdate(c) \/ ServeCreate(c) \/ ServeRemove(c)
        \/ ServeAcquire(c) \/ ServeRelease(c) \/ AlreadyLocked(c) \/ Refuse(c) \/ Lose(c)
    BY DEF Serve
<1>2. CASE ServeAcquire(c) \/ ServeRelease(c)
    <2>1. Replies(c, "ok")
        BY <1>2 DEF ServeAcquire, ServeRelease, Replies, Locks
    <2>2. QED
        BY <2>1 DEF Steps, Stages
<1>3. CASE AlreadyLocked(c)
    <2>1. Replies(c, "already_locked")
        BY <1>3 DEF AlreadyLocked, Replies, Locks
    <2>2. QED
        BY <2>1 DEF Steps, Stages
<1>4. CASE Refuse(c)
    <2>1. Replies(c, "refused")
        BY <1>4 DEF Refuse, Replies
    <2>2. QED
        BY <2>1 DEF Steps, Stages
<1>5. QED
    BY <1>1, <1>2, <1>3, <1>4 DEF Steps

LEMMA AnswerSteps == ASSUME StoreType, Answer PROVE Steps
<1>1. PICK c \in CallIds :
        \/ AnswerSnapshot(c) \/ AnswerDetails(c) \/ AnswerAdd(c) \/ AnswerLink(c)
        \/ AnswerAcquire(c) \/ AnswerRelease(c)
    BY DEF Answer
<1>2. SUFFICES Answers(c)
    BY DEF Steps
<1>3. CASE AnswerSnapshot(c)
    <2>1. c \in DOMAIN calls /\ calls[c].kind \in {"title", "move", "remove"}
        BY <1>3 DEF AnswerSnapshot, updateNode, deleteNode, Result
    <2>2. IfOk(c) = screen /\ IfRefused(c) = calls[c].snap
        BY <2>1 DEF IfOk, IfRefused, BySnapshot
    <2>3. QED
        BY <1>3, <2>1, <2>2 DEF AnswerSnapshot, updateNode, deleteNode, Result, Answers, Done
<1>4. CASE AnswerDetails(c)
    <2>1. c \in DOMAIN calls /\ calls[c].kind \in {"detail", "price"}
        BY <1>4 DEF AnswerDetails, updateNode, Result
    <2>2. IfOk(c) = Adopted(c) /\ IfRefused(c) = calls[c].snap
        BY <2>1 DEF IfOk, IfRefused, BySnapshot
    <2>3. QED
        BY <1>4, <2>1, <2>2 DEF AnswerDetails, updateNode, Result, Answers, Done
<1>5. CASE AnswerAdd(c)
    <2>1. c \in DOMAIN calls /\ calls[c].kind = "add"
        BY <1>5 DEF AnswerAdd, createNode, Result
    <2>2. IsOk(c) => IfOk(c) = Settled(c)
        BY <2>1 DEF IfOk, Settled
    <2>3. ~IsOk(c) => IfRefused(c) = Settled(c)
        BY <2>1 DEF IfRefused, BySnapshot, Settled
    <2>4. QED
        BY <1>5, <2>1, <2>2, <2>3 DEF AnswerAdd, createNode, Result, Answers, Done
<1>6. CASE AnswerLink(c)
    <2>1. c \in DOMAIN calls /\ calls[c].kind \in {"link", "found"}
        BY <1>6 DEF AnswerLink, createNodeFromLink, createNodeFromInventory, Result
    <2>2. IfOk(c) = [screen EXCEPT ![Made(c)] = calls[c].answer] /\ IfRefused(c) = screen
        BY <2>1 DEF IfOk, IfRefused, BySnapshot
    <2>3. QED
        BY <1>6, <2>1, <2>2 DEF AnswerLink, createNodeFromLink, createNodeFromInventory, Result, Answers, Done
<1>7. CASE AnswerAcquire(c) \/ AnswerRelease(c)
    <2>1. c \in DOMAIN calls /\ calls[c].kind \in Locks
        BY <1>7 DEF AnswerAcquire, AnswerRelease, acquireItineraryLock, releaseItineraryLock, Result, Locks
    <2>2. IfOk(c) = screen /\ IfRefused(c) = screen
        BY <2>1 DEF IfOk, IfRefused, BySnapshot, Locks
    <2>3. QED
        BY <1>7, <2>1, <2>2
           DEF AnswerAcquire, AnswerRelease, acquireItineraryLock, releaseItineraryLock, Result, Answers, Done, Locks
<1>8. QED
    BY <1>1, <1>3, <1>4, <1>5, <1>6, <1>7

\* Every step of the store is one of these.
LEMMA NextSteps == ASSUME StoreType, [Next]_vars PROVE Steps
<1>1. CASE UNCHANGED vars
    BY <1>1 DEF vars, view, Steps
<1>2. CASE OtherAdvisor
    BY <1>2 DEF OtherAdvisor, view, Steps
<1>3. QED
    BY <1>1, <1>2, EditSteps, ServeSteps, AnswerSteps DEF Next

-----------------------------------------------------------------------------
(* Types.                                                                  *)

LEMMA AnswerTyped ==
    ASSUME StoreType, NEW c \in DOMAIN calls, calls[c].stage \in {"ok", "refused", "already_locked"}
    PROVE  /\ IsOk(c) => IfOk(c) \in Nodes
           /\ ~IsOk(c) => IfRefused(c) \in Nodes
<1> DEFINE x == calls[c]
<1>1. x \in Requests /\ c \in CallIds \cup {c}
    BY DEF StoreType
<1>2. x.snap \in Nodes /\ x.answer \in Live \cup {Gone} /\ screen \in Nodes
    BY <1>1 DEF Requests, StoreType
<1>3. ASSUME NEW s \in Nodes, NEW n, NEW y \in Live \cup {Gone} PROVE [s EXCEPT ![n] = y] \in Nodes
    BY DEF Nodes
<1>4. Gone \in Live \cup {Gone}
    OBVIOUS
<1>5. Adopted(c) \in Nodes
    BY <1>2, <1>3 DEF Adopted
<1>6. IfOk(c) \in Nodes
    <2>1. [screen EXCEPT ![Tmp(c)] = Gone, ![Made(c)] = x.answer] \in Nodes
        BY <1>2 DEF Nodes
    <2>2. QED
        BY <1>2, <1>3, <1>4, <1>5, <2>1 DEF IfOk
<1>7. IfRefused(c) \in Nodes
    BY <1>2, <1>3, <1>4 DEF IfRefused
<1>8. QED
    BY <1>6, <1>7

\* What a request that is sent adds.
LEMMA SendTyped ==
    ASSUME StoreType, NEW kind \in Kinds, NEW n \in Ids \cup {None}, NEW card \in Live \cup {Gone}, NEW also,
           kind \in Updates \cup {"remove"} => n \in Ids,
           kind \in Updates \cup Creates => card \in Live, kind \in {"link", "found"} => card.host = None,
           Send(Call(kind, n, card), also)
    PROVE  /\ calls' \in Seq(Requests) /\ calls' = Append(calls, Call(kind, n, card))
           /\ DOMAIN calls' = DOMAIN calls \cup {NextCall} /\ NextCall \notin DOMAIN calls
           /\ \A d \in DOMAIN calls : calls'[d] = calls[d] /\ d < NextCall /\ d \in Nat
           /\ calls'[NextCall] = Call(kind, n, card) /\ NextCall \in CallIds
           /\ rows' = rows /\ mishaps \subseteq mishaps'
<1>1. Call(kind, n, card) \in Requests
    BY CallTyped
<1>2. calls' = Append(calls, Call(kind, n, card)) /\ calls \in Seq(Requests)
    BY DEF Send, StoreType
<1>3. NextCall \in CallIds
    BY NextId DEF Send
<1>4. QED
    BY <1>1, <1>2, <1>3 DEF Send, NextCall

\* A card that is edited stays there, on its host; the edit's own fields change.
LEMMA EditOfLive ==
    ASSUME StoreType, NEW kind \in Updates, NEW n \in Ids, NEW v \in Nat, On(screen, n)
    PROVE  LET old == screen[n]  new == EditOf(kind, n, v) IN
           /\ new \in Live /\ new.host = old.host
           /\ kind # "title" => new.title = old.title
           /\ kind # "price" => new.price = old.price
           /\ kind \notin {"move", "detail"} => new.slot = old.slot /\ new.detail = old.detail
<1>1. screen[n] \in Live
    BY OnLive DEF StoreType
<1>2. PICK x \in Live : x = screen[n]
    BY <1>1
<1>3. PICK t, p, s, m :
        /\ t = [x EXCEPT !.title = v] /\ p = [x EXCEPT !.price = v]
        /\ s = [x EXCEPT !.slot = v] /\ m = [x EXCEPT !.detail = v]
    OBVIOUS
<1>4. /\ t \in Live /\ p \in Live /\ s \in Live /\ m \in Live
      /\ t.host = x.host /\ t.price = x.price /\ t.slot = x.slot /\ t.detail = x.detail
      /\ p.host = x.host /\ p.title = x.title /\ p.slot = x.slot /\ p.detail = x.detail
      /\ s.host = x.host /\ s.title = x.title /\ s.price = x.price
      /\ m.host = x.host /\ m.title = x.title /\ m.price = x.price
    BY <1>3 DEF Live
<1>5. EditOf(kind, n, v) = CASE kind = "title" -> t [] kind = "move" -> s [] kind = "detail" -> m [] OTHER -> p
    BY <1>2, <1>3, Zenon DEF EditOf
<1>6. PICK q : q = EditOf(kind, n, v)
    OBVIOUS
<1>7. QED
    BY <1>2, <1>4, <1>5, <1>6 DEF Updates

\* What a served edit makes of the row: its own fields change.
LEMMA PatchedLive ==
    ASSUME StoreType, NEW c \in DOMAIN calls, calls[c].stage = "sent", calls[c].kind \in Updates
    PROVE  LET row == rows[calls[c].node]  card == calls[c].card  new == Patched(calls[c]) IN
           /\ new \in Live
           /\ ~On(rows, calls[c].node) => new = card
           /\ On(rows, calls[c].node) =>
                /\ new.host = row.host
                /\ new.title = IF calls[c].kind = "title" THEN card.title ELSE row.title
                /\ new.price = IF calls[c].kind = "price" THEN card.price ELSE row.price
                /\ new.slot = IF calls[c].kind \in {"move", "detail"} THEN card.slot ELSE row.slot
                /\ new.detail = IF calls[c].kind \in {"move", "detail"} THEN card.detail ELSE row.detail
<1>1. PICK x \in Requests : x = calls[c]
    BY DEF StoreType
<1>2. x.card \in Live /\ x.node \in Ids
    BY <1>1 DEF Requests
<1>3. PICK y \in Live : y = x.card
    BY <1>2
<1>4. PICK r \in Live \cup {Gone} : r = rows[x.node]
    BY <1>2 DEF StoreType, Nodes
<1>5. PICK t, p, m :
        /\ t = [r EXCEPT !.title = y.title] /\ p = [r EXCEPT !.price = y.price]
        /\ m = [r EXCEPT !.slot = y.slot, !.detail = y.detail]
    OBVIOUS
<1>6. Patched(calls[c]) =
        IF r = Gone THEN y ELSE CASE x.kind = "title" -> t [] x.kind = "price" -> p [] OTHER -> m
    BY <1>1, <1>3, <1>4, <1>5, Zenon DEF Patched
<1>7. ASSUME r # Gone
      PROVE  /\ t \in Live /\ p \in Live /\ m \in Live
             /\ t.host = r.host /\ t.title = y.title /\ t.price = r.price /\ t.slot = r.slot /\ t.detail = r.detail
             /\ p.host = r.host /\ p.title = r.title /\ p.price = y.price /\ p.slot = r.slot /\ p.detail = r.detail
             /\ m.host = r.host /\ m.title = r.title /\ m.price = r.price /\ m.slot = y.slot /\ m.detail = y.detail
    BY <1>3, <1>4, <1>5, <1>7 DEF Live
<1>8. On(rows, calls[c].node) <=> r # Gone
    BY <1>1, <1>4 DEF On
<1>9. x.kind \in Updates /\ y = calls[c].card /\ r = rows[calls[c].node] /\ x.kind = calls[c].kind
    BY <1>1, <1>3, <1>4
<1>10. PICK q : q = Patched(calls[c])
    OBVIOUS
<1>11. CASE r = Gone
    BY <1>6, <1>8, <1>9, <1>11
<1>12. CASE r # Gone
    <2>1. /\ q \in Live /\ q.host = r.host
          /\ q.title = IF x.kind = "title" THEN y.title ELSE r.title
          /\ q.price = IF x.kind = "price" THEN y.price ELSE r.price
          /\ q.slot = IF x.kind \in {"move", "detail"} THEN y.slot ELSE r.slot
          /\ q.detail = IF x.kind \in {"move", "detail"} THEN y.detail ELSE r.detail
        BY <1>6, <1>7, <1>9, <1>10, <1>12 DEF Updates
    <2>2. QED
        BY <1>8, <1>9, <1>10, <1>12, <2>1
<1>13. QED
    BY <1>11, <1>12

\* What an answer of the service does to the requests.
LEMMA ReplyTyped ==
    ASSUME StoreType, NEW c \in DOMAIN calls, calls[c].stage # "done",
           NEW stage \in Stages \ {"done"}, NEW answer \in Live \cup {Gone},
           calls[c].kind \in Updates \cup Creates /\ stage = "ok" => answer \in Live,
           calls[c].kind \in Creates /\ stage = "ok" => answer = calls[c].card,
           calls' = [calls EXCEPT ![c] = Replied(calls[c], stage, answer)]
    PROVE  /\ calls' \in Seq(Requests) /\ DOMAIN calls' = DOMAIN calls
           /\ \A d \in DOMAIN calls : d # c => calls'[d] = calls[d]
           /\ calls'[c].stage = stage /\ calls'[c].answer = answer
           /\ calls'[c].kind = calls[c].kind /\ calls'[c].node = calls[c].node
           /\ calls'[c].card = calls[c].card /\ calls'[c].snap = calls[c].snap
<1>1. PICK x \in Requests : x = calls[c]
    BY DEF StoreType
<1>2. PICK y : y = Replied(x, stage, answer)
    OBVIOUS
<1>3. /\ y \in Requests /\ y.stage = stage /\ y.answer = answer
      /\ y.kind = x.kind /\ y.node = x.node /\ y.card = x.card /\ y.snap = x.snap
    BY <1>1, <1>2, RepliedTyped
<1>4. calls' = [calls EXCEPT ![c] = y]
    BY <1>1, <1>2
<1>5. calls \in Seq(Requests)
    BY DEF StoreType
<1>6. /\ calls' \in Seq(Requests) /\ DOMAIN calls' = DOMAIN calls
      /\ \A d \in DOMAIN calls : d # c => calls'[d] = calls[d]
      /\ calls'[c] = y
    BY <1>3, <1>4, <1>5
<1>7. QED
    BY <1>1, <1>3, <1>6

\* What an answer that is taken in leaves of its request.
LEMMA AnswersTyped ==
    ASSUME StoreType, NEW c, Answers(c)
    PROVE  /\ c \in DOMAIN calls /\ calls' \in Seq(Requests) /\ DOMAIN calls' = DOMAIN calls
           /\ \A d \in DOMAIN calls : d # c => calls'[d] = calls[d]
           /\ calls'[c].stage = "done" /\ calls'[c].snap = Empty
           /\ calls'[c].card = Gone /\ calls'[c].answer = Gone
           /\ calls'[c].kind = calls[c].kind /\ calls'[c].node = calls[c].node
           /\ screen' \in Nodes /\ screen' = IF IsOk(c) THEN IfOk(c) ELSE IfRefused(c)
<1>1. c \in DOMAIN calls
    BY DEF Answers
<1>2. PICK x \in Requests : x = calls[c]
    BY <1>1 DEF StoreType
<1>3. PICK y : y = Forgotten(x)
    OBVIOUS
<1>4. /\ y \in Requests /\ y.stage = "done" /\ y.kind = x.kind /\ y.node = x.node /\ y.snap = Empty
      /\ y.card = Gone /\ y.answer = Gone
    BY <1>3, ForgottenTyped
<1>5. calls' = [calls EXCEPT ![c] = y] /\ calls \in Seq(Requests)
    BY <1>2, <1>3 DEF Answers, StoreType
<1>6. /\ calls' \in Seq(Requests) /\ DOMAIN calls' = DOMAIN calls
      /\ \A d \in DOMAIN calls : d # c => calls'[d] = calls[d]
      /\ calls'[c] = y
    BY <1>1, <1>4, <1>5
<1>7. screen' \in Nodes
    BY <1>1, AnswerTyped DEF Answers
<1>8. QED
    BY <1>1, <1>2, <1>4, <1>6, <1>7 DEF Answers

LEMMA KnownInIds == ASSUME NEW n, Known(n) PROVE n \in Ids
BY DEF Known, Ids

\* What the service answers with.
ServedAnswer(c) ==
    IF calls[c].kind \in Updates THEN Patched(calls[c])
    ELSE IF calls[c].kind \in Creates THEN calls[c].card ELSE Gone

\* What a served request leaves.
LEMMA ServeTyped ==
    ASSUME StoreType, NEW c \in CallIds, ServeUpdate(c) \/ ServeCreate(c) \/ ServeRemove(c)
    PROVE  /\ c \in DOMAIN calls /\ calls[c].stage = "sent"
           /\ rows' \in Nodes /\ screen' = screen /\ mishaps \subseteq mishaps'
           /\ calls' \in Seq(Requests) /\ DOMAIN calls' = DOMAIN calls
           /\ \A d \in DOMAIN calls : d # c => calls'[d] = calls[d]
           /\ calls'[c].stage = "ok" /\ calls'[c].answer = ServedAnswer(c)
           /\ calls'[c].kind = calls[c].kind /\ calls'[c].node = calls[c].node
           /\ calls'[c].card = calls[c].card /\ calls'[c].snap = calls[c].snap
           /\ "apart" \notin mishaps' => \A d \in 1..c - 1 : ~Sent(d)
<1>1. c \in DOMAIN calls /\ calls[c].stage = "sent"
    BY DEF ServeUpdate, ServeCreate, ServeRemove, Sent
<1>2. PICK x \in Requests : x = calls[c]
    BY <1>1 DEF StoreType
<1>3. CASE ServeUpdate(c)
    <2>1. calls[c].kind \in Updates
        BY <1>3 DEF ServeUpdate, Updates
    <2>2. Patched(calls[c]) \in Live
        BY <1>1, <2>1, PatchedLive
    <2>3. rows' \in Nodes
        BY <1>3, <2>2 DEF ServeUpdate, StoreType, Nodes
    <2>4. calls' = [calls EXCEPT ![c] = Replied(calls[c], "ok", Patched(calls[c]))]
        BY <1>3 DEF ServeUpdate, Reply, Replied
    <2>5. /\ calls' \in Seq(Requests) /\ DOMAIN calls' = DOMAIN calls
          /\ \A d \in DOMAIN calls : d # c => calls'[d] = calls[d]
          /\ calls'[c].stage = "ok" /\ calls'[c].answer = ServedAnswer(c)
          /\ calls'[c].kind = calls[c].kind /\ calls'[c].node = calls[c].node
          /\ calls'[c].card = calls[c].card /\ calls'[c].snap = calls[c].snap
        <3>1. ServedAnswer(c) = Patched(calls[c]) /\ calls[c].kind \notin Creates
            BY <2>1 DEF ServedAnswer, Updates, Creates
        <3>2. QED
            BY <1>1, <2>2, <2>4, <3>1, ReplyTyped DEF Stages
    <2>6. screen' = screen /\ mishaps \subseteq mishaps' /\ ("apart" \notin mishaps' => \A d \in 1..c - 1 : ~Sent(d))
        BY <1>3 DEF ServeUpdate, Reply, view
    <2>7. QED
        BY <1>1, <2>5, <2>6, <2>3
<1>4. CASE ServeCreate(c)
    <2>1. calls[c].kind \in Creates
        BY <1>4 DEF ServeCreate, Creates
    <2>2. calls[c].card \in Live
        BY <1>1, <1>2, <2>1 DEF Requests
    <2>3. rows' \in Nodes
        BY <1>4, <2>2 DEF ServeCreate, StoreType, Nodes
    <2>4. calls' = [calls EXCEPT ![c] = Replied(calls[c], "ok", calls[c].card)]
        BY <1>4 DEF ServeCreate, Reply, Replied
    <2>5. /\ calls' \in Seq(Requests) /\ DOMAIN calls' = DOMAIN calls
          /\ \A d \in DOMAIN calls : d # c => calls'[d] = calls[d]
          /\ calls'[c].stage = "ok" /\ calls'[c].answer = ServedAnswer(c)
          /\ calls'[c].kind = calls[c].kind /\ calls'[c].node = calls[c].node
          /\ calls'[c].card = calls[c].card /\ calls'[c].snap = calls[c].snap
        <3>1. ServedAnswer(c) = calls[c].card
            BY <2>1 DEF ServedAnswer, Updates, Creates
        <3>2. PICK y \in Live : y = calls[c].card
            BY <2>2
        <3>3. calls' = [calls EXCEPT ![c] = Replied(calls[c], "ok", y)]
            BY <2>4, <3>2
        <3>4. /\ calls[c].stage # "done" /\ "ok" \in Stages \ {"done"} /\ y \in Live \cup {Gone}
              /\ calls[c].kind \in Updates \cup Creates /\ "ok" = "ok" => y \in Live
              /\ calls[c].kind \in Creates /\ "ok" = "ok" => y = calls[c].card
            BY <1>1, <3>2 DEF Stages
        <3>5. /\ calls' \in Seq(Requests) /\ DOMAIN calls' = DOMAIN calls
              /\ \A d \in DOMAIN calls : d # c => calls'[d] = calls[d]
              /\ calls'[c].stage = "ok" /\ calls'[c].answer = y
              /\ calls'[c].kind = calls[c].kind /\ calls'[c].node = calls[c].node
              /\ calls'[c].card = calls[c].card /\ calls'[c].snap = calls[c].snap
            BY <1>1, <3>3, <3>4, ReplyTyped, Zenon
        <3>6. QED
            BY <3>1, <3>2, <3>5
    <2>6. screen' = screen /\ mishaps \subseteq mishaps' /\ ("apart" \notin mishaps' => \A d \in 1..c - 1 : ~Sent(d))
        BY <1>4 DEF ServeCreate, Reply, view
    <2>7. QED
        BY <1>1, <2>5, <2>6, <2>3
<1>5. CASE ServeRemove(c)
    <2>1. calls[c].kind = "remove"
        BY <1>5 DEF ServeRemove
    <2>2. rows' \in Nodes
        BY <1>5 DEF ServeRemove, StoreType, Nodes
    <2>3. calls' = [calls EXCEPT ![c] = Replied(calls[c], "ok", Gone)]
        BY <1>5 DEF ServeRemove, Reply, Replied
    <2>4. /\ calls' \in Seq(Requests) /\ DOMAIN calls' = DOMAIN calls
          /\ \A d \in DOMAIN calls : d # c => calls'[d] = calls[d]
          /\ calls'[c].stage = "ok" /\ calls'[c].answer = ServedAnswer(c)
          /\ calls'[c].kind = calls[c].kind /\ calls'[c].node = calls[c].node
          /\ calls'[c].card = calls[c].card /\ calls'[c].snap = calls[c].snap
        <3>1. ServedAnswer(c) = Gone /\ calls[c].kind \notin Updates \cup Creates
            BY <2>1 DEF ServedAnswer, Updates, Creates
        <3>2. QED
            BY <1>1, <2>3, <3>1, ReplyTyped DEF Stages
    <2>5. screen' = screen /\ mishaps \subseteq mishaps' /\ ("apart" \notin mishaps' => \A d \in 1..c - 1 : ~Sent(d))
        BY <1>5 DEF ServeRemove, Reply, view
    <2>6. QED
        BY <1>1, <2>4, <2>5, <2>2
<1>6. QED
    BY <1>3, <1>4, <1>5

\* What a request that is refused, lost or concerns the lock leaves.
LEMMA RepliesTyped ==
    ASSUME StoreType, NEW c, Lose(c) \/ \E stage \in Stages : Replies(c, stage)
    PROVE  /\ c \in DOMAIN calls /\ calls[c].stage \in {"sent", "ok"}
           /\ rows' = rows /\ screen' = screen /\ mishaps \subseteq mishaps'
           /\ calls' \in Seq(Requests) /\ DOMAIN calls' = DOMAIN calls
           /\ \A d \in DOMAIN calls : d # c => calls'[d] = calls[d]
           /\ calls'[c].stage \in {"ok", "refused", "already_locked"} /\ calls'[c].answer = Gone
           /\ calls'[c].stage # "refused" => calls[c].kind \in Locks
           /\ calls'[c].kind = calls[c].kind /\ calls'[c].node = calls[c].node
           /\ calls'[c].card = calls[c].card /\ calls'[c].snap = calls[c].snap
<1>1. CASE Lose(c)
    <2>1. calls' = [calls EXCEPT ![c] = Replied(calls[c], "refused", Gone)]
        BY <1>1 DEF Lose, Replied
    <2>2. c \in DOMAIN calls /\ calls[c].stage = "ok"
        BY <1>1 DEF Lose
    <2>3. /\ calls' \in Seq(Requests) /\ DOMAIN calls' = DOMAIN calls
          /\ \A d \in DOMAIN calls : d # c => calls'[d] = calls[d]
          /\ calls'[c].stage = "refused" /\ calls'[c].answer = Gone
          /\ calls'[c].kind = calls[c].kind /\ calls'[c].node = calls[c].node
          /\ calls'[c].card = calls[c].card /\ calls'[c].snap = calls[c].snap
        BY <2>1, <2>2, ReplyTyped DEF Stages
    <2>4. screen' = screen /\ mishaps \subseteq mishaps' /\ rows' = rows
        BY <1>1 DEF Lose, view
    <2>5. QED
        BY <2>2, <2>3, <2>4
<1>2. ASSUME NEW stage \in Stages, Replies(c, stage)
      PROVE  /\ c \in DOMAIN calls /\ calls[c].stage \in {"sent", "ok"}
             /\ rows' = rows /\ screen' = screen /\ mishaps \subseteq mishaps'
             /\ calls' \in Seq(Requests) /\ DOMAIN calls' = DOMAIN calls
             /\ \A d \in DOMAIN calls : d # c => calls'[d] = calls[d]
             /\ calls'[c].stage \in {"ok", "refused", "already_locked"} /\ calls'[c].answer = Gone
             /\ calls'[c].stage # "refused" => calls[c].kind \in Locks
             /\ calls'[c].kind = calls[c].kind /\ calls'[c].node = calls[c].node
             /\ calls'[c].card = calls[c].card /\ calls'[c].snap = calls[c].snap
    <2>1. calls' = [calls EXCEPT ![c] = Replied(calls[c], stage, Gone)]
        BY <1>2 DEF Replies, Reply, Replied
    <2>2. /\ c \in DOMAIN calls /\ calls[c].stage = "sent" /\ rows' = rows
          /\ stage \in {"ok", "already_locked", "refused"} /\ (stage # "refused" => calls[c].kind \in Locks)
        BY <1>2 DEF Replies, Sent
    <2>3. /\ calls' \in Seq(Requests) /\ DOMAIN calls' = DOMAIN calls
          /\ \A d \in DOMAIN calls : d # c => calls'[d] = calls[d]
          /\ calls'[c].stage = stage /\ calls'[c].answer = Gone
          /\ calls'[c].kind = calls[c].kind /\ calls'[c].node = calls[c].node
          /\ calls'[c].card = calls[c].card /\ calls'[c].snap = calls[c].snap
        BY <2>1, <2>2, ReplyTyped DEF Stages, Locks, Updates, Creates
    <2>4. screen' = screen /\ mishaps \subseteq mishaps'
        BY <1>2 DEF Replies, Reply, view
    <2>5. QED
        BY <2>2, <2>3, <2>4
<1>3. QED
    BY <1>1, <1>2

\* What an edit that is sent does.
LEMMA EditsTyped ==
    ASSUME StoreType, NEW kind \in Updates, NEW n \in Ids, NEW v \in Nat, EditsCard(kind, n, v)
    PROVE  /\ On(screen, n) /\ EditOf(kind, n, v) \in Live /\ screen' \in Nodes
           /\ screen' = [screen EXCEPT ![n] = EditOf(kind, n, v)]
           /\ Send(Call(kind, n, EditOf(kind, n, v)), {}) /\ kind \in Kinds
<1>1. EditOf(kind, n, v) \in Live
    BY EditOfLive DEF EditsCard
<1>2. QED
    BY <1>1 DEF EditsCard, Optimistic, StoreType, Nodes, Kinds

LEMMA StepTyped ==
    ASSUME StoreType, [Next]_vars
    PROVE  screen' \in Nodes /\ rows' \in Nodes /\ calls' \in Seq(Requests) /\ DOMAIN calls' \subseteq CallIds
<1>0. DOMAIN calls \subseteq CallIds
    BY DEF StoreType
<1> USE DEF Kinds
<1>1. CASE UNCHANGED <<screen, rows, calls, mishaps>>
    BY <1>1 DEF StoreType
<1>2. ASSUME NEW kind \in Updates, NEW n \in Ids, NEW v \in Nat, EditsCard(kind, n, v)
      PROVE  screen' \in Nodes /\ rows' \in Nodes /\ calls' \in Seq(Requests) /\ DOMAIN calls' \subseteq CallIds
    <2>1. /\ screen' \in Nodes /\ EditOf(kind, n, v) \in Live
          /\ Send(Call(kind, n, EditOf(kind, n, v)), {})
        BY <1>2, EditsTyped
    <2>2. calls' \in Seq(Requests) /\ rows' = rows /\ DOMAIN calls' \subseteq CallIds
        BY <1>0, <2>1, SendTyped DEF Updates
    <2>3. QED
        BY <2>1, <2>2 DEF StoreType
<1>3. ASSUME NEW n \in Ids, RemovesCard(n)
      PROVE  screen' \in Nodes /\ rows' \in Nodes /\ calls' \in Seq(Requests) /\ DOMAIN calls' \subseteq CallIds
    <2>1. screen' \in Nodes /\ Send(Call("remove", n, Gone), {})
        BY <1>3 DEF RemovesCard, Optimistic, StoreType, Nodes
    <2>2. calls' \in Seq(Requests) /\ rows' = rows /\ DOMAIN calls' \subseteq CallIds
        BY <1>0, <2>1, SendTyped DEF Updates, Creates
    <2>3. QED
        BY <2>1, <2>2 DEF StoreType
<1>4. ASSUME NEW card \in Live, AddsCard(card)
      PROVE  screen' \in Nodes /\ rows' \in Nodes /\ calls' \in Seq(Requests) /\ DOMAIN calls' \subseteq CallIds
    <2>1. screen' \in Nodes /\ Send(Call("add", Tmp(NextCall), card), {})
        BY <1>4 DEF AddsCard, Optimistic, StoreType, Nodes
    <2>2. Tmp(NextCall) \in Ids
        BY <1>4, NewIds DEF AddsCard
    <2>3. calls' \in Seq(Requests) /\ rows' = rows /\ DOMAIN calls' \subseteq CallIds
        BY <1>0, <2>1, <2>2, SendTyped DEF Updates, Creates
    <2>4. QED
        BY <2>1, <2>3 DEF StoreType
<1>5. ASSUME NEW kind \in Kinds, NEW card \in Live \cup {Gone}, NEW also, Asks(kind, card, also)
      PROVE  screen' \in Nodes /\ rows' \in Nodes /\ calls' \in Seq(Requests) /\ DOMAIN calls' \subseteq CallIds
    <2>1. screen' = screen /\ Send(Call(kind, None, card), also)
        BY <1>5 DEF Asks
    <2>2. calls' \in Seq(Requests) /\ rows' = rows /\ DOMAIN calls' \subseteq CallIds
        BY <1>0, <1>5, <2>1, SendTyped DEF Asks, Updates, Creates, Locks
    <2>3. QED
        BY <2>1, <2>2 DEF StoreType
<1>6. ASSUME NEW n \in Ids, NEW v \in Nat, DropsUnsent(n, v)
      PROVE  screen' \in Nodes /\ rows' \in Nodes /\ calls' \in Seq(Requests) /\ DOMAIN calls' \subseteq CallIds
    <2>1. PICK x \in Live : x = screen[n]
        BY <1>6, OnLive DEF DropsUnsent, StoreType
    <2>2. [x EXCEPT !.slot = v] \in Live
        BY EditedLive
    <2>3. QED
        BY <1>6, <2>1, <2>2 DEF DropsUnsent, StoreType, Nodes
<1>7. ASSUME NEW c \in CallIds, ServeUpdate(c) \/ ServeCreate(c) \/ ServeRemove(c)
      PROVE  screen' \in Nodes /\ rows' \in Nodes /\ calls' \in Seq(Requests) /\ DOMAIN calls' \subseteq CallIds
    BY <1>7, ServeTyped DEF StoreType
<1>8. ASSUME NEW c, Lose(c) \/ \E stage \in Stages : Replies(c, stage)
      PROVE  screen' \in Nodes /\ rows' \in Nodes /\ calls' \in Seq(Requests) /\ DOMAIN calls' \subseteq CallIds
    BY <1>8, RepliesTyped DEF StoreType
<1>9. ASSUME NEW c, Answers(c)
      PROVE  screen' \in Nodes /\ rows' \in Nodes /\ calls' \in Seq(Requests) /\ DOMAIN calls' \subseteq CallIds
    BY <1>9, AnswersTyped DEF StoreType, Answers
<1>10. QED
    BY NextSteps, <1>1, <1>2, <1>3, <1>4, <1>5, <1>6, <1>7, <1>8, <1>9 DEF Steps

LEMMA InitTyped == Init => StoreType
<1> SUFFICES ASSUME Init PROVE StoreType
    OBVIOUS
<1>1. screen \in Nodes /\ rows = screen
    BY SeedLive DEF Init, Nodes
<1>2. QED
    BY <1>1 DEF Init, StoreType

LEMMA FlagsTyped ==
    ASSUME StoreType, [Next]_vars
    PROVE  /\ lockStatus' \in {"unlocked", "locked-by-me", "locked-by-other"}
           /\ dragging' \in Ids \cup {None}
<1> USE DEF StoreType, view, Done, Reply
<1>1. CASE UNCHANGED vars
    BY <1>1 DEF vars
<1>2. CASE Edit
    BY <1>2
       DEF Edit, editNodeField, updateCardDetails, Schedule, Hold, DragStart, removeNode, addAttachedNote,
           addNode, authorNode, addFreeStandingNote, addCollectionNote, Add, saveLinkToCollection,
           addNodeFromInventory, acquireLock, releaseLock, DragEnd
<1>3. CASE Serve
    BY <1>3 DEF Serve, ServeUpdate, ServeCreate, ServeRemove, ServeAcquire, ServeRelease, AlreadyLocked, Refuse, Lose
<1>4. CASE Answer
    <2>1. PICK c \in CallIds :
            \/ AnswerSnapshot(c) \/ AnswerDetails(c) \/ AnswerAdd(c) \/ AnswerLink(c)
            \/ AnswerAcquire(c) \/ AnswerRelease(c)
        BY <1>4 DEF Answer
    <2>2. ASSUME c \in DOMAIN calls PROVE calls[c].was \in {"unlocked", "locked-by-me", "locked-by-other"}
        BY <2>2 DEF Requests
    <2>3. QED
        BY <2>1, <2>2
           DEF AnswerSnapshot, AnswerDetails, AnswerAdd, AnswerLink, AnswerAcquire, AnswerRelease,
               acquireItineraryLock, Result
<1>5. CASE OtherAdvisor
    BY <1>5 DEF OtherAdvisor
<1>6. QED
    BY <1>1, <1>2, <1>3, <1>4, <1>5 DEF Next

LEMMA StoreTyped == Spec => []StoreType
<1>1. StoreType /\ [Next]_vars => StoreType'
    BY StepTyped, FlagsTyped DEF StoreType
<1>2. QED
    BY <1>1, InitTyped, PTL DEF Spec

-----------------------------------------------------------------------------
(* What was removed stays removed.                                         *)

\* An id with a card, or with a note on it.
Names(nodes, n) == On(nodes, n) \/ \E m \in Ids : On(nodes, m) /\ nodes[m].host = n

\* An id the page has used: it is on the screen, on a screen that may be put back, in a request or a row.
Used(n) ==
    \/ Names(screen, n)
    \/ \E m \in Ids : On(rows, m) /\ rows[m].host = n
    \/ \E c \in DOMAIN calls :
          \/ Names(calls[c].snap, n)
          \/ calls[c].kind \in Updates \cup {"remove"} /\ calls[c].node = n
          \/ calls[c].card \in Live /\ calls[c].card.host = n
          \/ calls[c].answer \in Live /\ calls[c].answer.host = n

\* A made-up id is used by its request and after it; the id of a new row only after its answer.
IdsInv ==
    \A c \in CallIds :
        /\ Used(Tmp(c)) => c \in DOMAIN calls
        /\ Used(Made(c)) => c \in DOMAIN calls /\ calls[c].stage = "done"

\* A row is one the page was opened with, or was made for a request that was served.
RowsInv ==
    \A n \in Ids : On(rows, n) =>
        n \in Seeds \/ \E c \in DOMAIN calls : n = Made(c) /\ calls[c].stage # "sent"

\* What a step puts on the screen was not removed before, or a request was refused.
Fresh ==
    \A n \in Ids : On(screen', n) /\ ~On(screen, n) /\ "refused" \notin mishaps' =>
        ~\E c \in DOMAIN calls : calls[c].kind = "remove" /\ calls[c].node = n

StoreInv == StoreType /\ IdsInv /\ RowsInv

LEMMA NothingEmpty == ASSUME NEW n \in Ids PROVE ~On(Empty, n) /\ ~Names(Empty, n)
BY DEF On, Empty, Names

LEMMA InitIds == ASSUME Init PROVE IdsInv /\ RowsInv
<1>1. calls = <<>> /\ rows = screen
    BY DEF Init
<1>2. \A n \in Ids : On(screen, n) => n \in Seeds /\ screen[n].host = None
    BY DEF Init, On, Seed
<1>3. ASSUME NEW m \in Ids, Used(m) PROVE m \in Seeds
    BY <1>1, <1>2, <1>3, SeedsAssumption DEF Used, Names
<1>4. QED
    BY <1>1, <1>2, <1>3, NewIds DEF IdsInv, RowsInv

\* The cards of a screen that changes at one id.
LEMMA NamesChanged ==
    ASSUME NEW old \in Nodes, NEW n, NEW card, NEW m \in Ids, Names([old EXCEPT ![n] = card], m)
    PROVE  Names(old, m) \/ (card # Gone /\ (m = n \/ card.host = m))
BY DEF Names, On, Nodes

\* A request that is sent from a screen whose new card, if any, has the request's made-up id.
LEMMA SendKeepsIds ==
    ASSUME StoreInv, NEW kind \in Kinds, NEW n \in Ids \cup {None}, NEW card \in Live \cup {Gone}, NEW also,
           kind \in Updates \cup {"remove"} => n \in Ids /\ On(screen, n),
           kind \in Updates \cup Creates => card \in Live, kind \in {"link", "found"} => card.host = None,
           card.host # None => Used(card.host),
           Send(Call(kind, n, card), also),
           \A m \in Ids : On(screen', m) => On(screen, m) \/ (kind = "add" /\ m = Tmp(NextCall)),
           \A m \in Ids : Names(screen', m) => Used(m) \/ (kind = "add" /\ m = Tmp(NextCall))
    PROVE  IdsInv' /\ RowsInv' /\ Fresh
<1>1. /\ DOMAIN calls' = DOMAIN calls \cup {NextCall} /\ NextCall \notin DOMAIN calls
      /\ \A d \in DOMAIN calls : calls'[d] = calls[d]
      /\ calls'[NextCall] = Call(kind, n, card) /\ NextCall \in CallIds /\ rows' = rows
    BY SendTyped DEF StoreInv
<1>2. /\ calls'[NextCall].kind = kind /\ calls'[NextCall].node = n /\ calls'[NextCall].stage = "sent"
      /\ calls'[NextCall].card = card /\ calls'[NextCall].answer = Gone
      /\ calls'[NextCall].snap = IF kind \in BySnapshot THEN screen ELSE Empty
    BY <1>1, CallTyped DEF StoreInv
<1>3. ASSUME NEW m \in Ids, Used(m)'
      PROVE  Used(m) \/ (kind = "add" /\ m = Tmp(NextCall))
    <2>1. CASE Names(screen', m)
        BY <2>1
    <2>2. CASE \E k \in Ids : On(rows', k) /\ rows'[k].host = m
        BY <1>1, <2>2 DEF Used
    <2>3. ASSUME NEW c \in DOMAIN calls',
                 \/ Names(calls'[c].snap, m)
                 \/ calls'[c].kind \in Updates \cup {"remove"} /\ calls'[c].node = m
                 \/ calls'[c].card \in Live /\ calls'[c].card.host = m
                 \/ calls'[c].answer \in Live /\ calls'[c].answer.host = m
          PROVE  Used(m)
        <3>1. CASE c \in DOMAIN calls
            BY <1>1, <2>3, <3>1 DEF Used
        <3>2. CASE c = NextCall
            <4>1. CASE Names(calls'[c].snap, m)
                BY <1>2, <3>2, <4>1, NothingEmpty DEF Used
            <4>2. CASE calls'[c].kind \in Updates \cup {"remove"} /\ calls'[c].node = m
                BY <1>2, <3>2, <4>2 DEF Used, Names
            <4>3. CASE calls'[c].card \in Live /\ calls'[c].card.host = m
                BY <1>2, <3>2, <4>3, SeedsAssumption
            <4>4. QED
                BY <1>2, <2>3, <3>2, <4>1, <4>2, <4>3, GoneApart
        <3>3. QED
            BY <1>1, <3>1, <3>2
    <2>4. QED
        BY <1>3, <2>1, <2>2, <2>3 DEF Used, Names, On
<1>4. IdsInv'
    <2>1. ASSUME NEW c \in CallIds, Used(Tmp(c))' PROVE c \in DOMAIN calls'
        BY <1>1, <1>3, <2>1, NewIds DEF StoreInv, IdsInv
    <2>2. ASSUME NEW c \in CallIds, Used(Made(c))' PROVE c \in DOMAIN calls' /\ calls'[c].stage = "done"
        BY <1>1, <1>3, <2>2, NewIds DEF StoreInv, IdsInv
    <2>3. QED
        BY <2>1, <2>2 DEF IdsInv
<1>5. Fresh
    <2>1. ASSUME NEW m \in Ids, On(screen', m), ~On(screen, m),
                 NEW c \in DOMAIN calls, calls[c].kind = "remove", calls[c].node = m
          PROVE  FALSE
        <3>1. m = Tmp(NextCall)
            BY <2>1
        <3>2. Used(m)
            BY <2>1 DEF Used
        <3>3. QED
            BY <1>1, <3>1, <3>2 DEF StoreInv, IdsInv
    <2>2. QED
        BY <2>1 DEF Fresh
<1>6. RowsInv'
    BY <1>1 DEF StoreInv, RowsInv, On
<1>7. QED
    BY <1>4, <1>5, <1>6

\* A step of the service, or one that sends nothing.
LEMMA ServiceKeepsIds ==
    ASSUME StoreInv, DOMAIN calls' = DOMAIN calls,
           \A m \in Ids : On(screen', m) => On(screen, m),
           \A m \in Ids : Names(screen', m) => Used(m),
           \A m \in Ids : On(rows', m) /\ rows'[m].host # None => Used(rows'[m].host),
           \A c \in DOMAIN calls :
              /\ calls'[c].kind = calls[c].kind /\ calls'[c].node = calls[c].node /\ calls'[c].snap = calls[c].snap
              /\ calls'[c].card = calls[c].card
              /\ calls'[c].answer \in Live /\ calls'[c].answer.host # None => Used(calls'[c].answer.host)
              /\ calls[c].stage = "done" => calls'[c].stage = "done"
    PROVE  IdsInv' /\ Fresh
<1>1. ASSUME NEW m \in Ids, Used(m)' PROVE Used(m)
    <2>1. CASE Names(screen', m)
        BY <2>1
    <2>2. CASE \E k \in Ids : On(rows', k) /\ rows'[k].host = m
        BY <2>2, SeedsAssumption
    <2>3. ASSUME NEW c \in DOMAIN calls',
                 \/ Names(calls'[c].snap, m)
                 \/ calls'[c].kind \in Updates \cup {"remove"} /\ calls'[c].node = m
                 \/ calls'[c].card \in Live /\ calls'[c].card.host = m
                 \/ calls'[c].answer \in Live /\ calls'[c].answer.host = m
          PROVE  Used(m)
        BY <2>3, SeedsAssumption DEF Used
    <2>4. QED
        BY <1>1, <2>1, <2>2, <2>3 DEF Used, Names, On
<1>2. QED
    BY <1>1, NewIds DEF StoreInv, IdsInv, Fresh

\* What the answer to c may put on the screen: a new row, or what a refusal puts back.
LEMMA AnswerShows ==
    ASSUME StoreInv, NEW c \in CallIds, Answers(c), NEW m \in Ids
    PROVE  /\ On(screen', m) /\ ~On(screen, m) =>
                (IsOk(c) /\ m = Made(c)) \/ (~IsOk(c) /\ On(calls[c].snap, m))
           /\ Names(screen', m) => Used(m) \/ m = Made(c)
<1>1. c \in DOMAIN calls /\ screen' = (IF IsOk(c) THEN IfOk(c) ELSE IfRefused(c))
    BY DEF Answers
<1>2. screen \in Nodes /\ Tmp(c) \in Ids /\ Made(c) \in Ids
    BY NewIds DEF StoreInv, StoreType
<1>3. CASE IsOk(c)
    <2>1. On(screen', m) /\ ~On(screen, m) => m = Made(c)
        BY <1>1, <1>2, <1>3 DEF IfOk, On, Nodes, Adopted
    <2>2. PICK x : x = calls[c].answer
        OBVIOUS
    <2>3. calls[c].kind \in {"detail", "price"} \cup Creates => x \in Live
        BY <1>1, <1>3, <2>2 DEF IsOk, StoreInv, StoreType, Requests, Updates
    <2>4. ASSUME Names(screen', m), calls[c].kind \in {"detail", "price"}, On(screen, calls[c].node)
          PROVE  Used(m)
        <3>0. PICK n : n = calls[c].node
            OBVIOUS
        <3>1. screen' = [screen EXCEPT ![n] = x]
            BY <1>1, <1>3, <2>2, <2>4, <3>0 DEF IfOk, Adopted
        <3>2. Names(screen, m) \/ m = n \/ x.host = m
            BY <1>2, <2>4, <3>1, NamesChanged
        <3>3. QED
            BY <1>1, <2>2, <2>3, <2>4, <3>0, <3>2 DEF Used, Updates
    <2>5. ASSUME Names(screen', m), calls[c].kind \in {"link", "found"} PROVE Used(m) \/ m = Made(c)
        <3>1. screen' = [screen EXCEPT ![Made(c)] = x]
            BY <1>1, <1>3, <2>2, <2>5 DEF IfOk
        <3>2. Names(screen, m) \/ m = Made(c) \/ x.host = m
            BY <1>2, <2>5, <3>1, NamesChanged
        <3>3. QED
            BY <1>1, <2>2, <2>3, <2>5, <3>2 DEF Used, Creates
    <2>6. ASSUME Names(screen', m), calls[c].kind = "add", On(screen, Tmp(c)) PROVE Used(m) \/ m = Made(c)
        <3>1. PICK s : s = [screen EXCEPT ![Tmp(c)] = Gone]
            OBVIOUS
        <3>2. s \in Nodes /\ screen' = [s EXCEPT ![Made(c)] = x]
            BY <1>1, <1>2, <1>3, <2>2, <2>6, <3>1 DEF IfOk, Nodes
        <3>3. Names(s, m) \/ m = Made(c) \/ x.host = m
            BY <2>6, <3>2, NamesChanged
        <3>4. Names(s, m) => Names(screen, m)
            BY <1>2, <3>1, NamesChanged
        <3>5. QED
            BY <1>1, <2>2, <2>3, <2>6, <3>3, <3>4 DEF Used, Creates
    <2>7. ASSUME Names(screen', m), calls[c].kind = "add", ~On(screen, Tmp(c)) PROVE Used(m)
        <3>1. screen' = [screen EXCEPT ![Tmp(c)] = Gone]
            BY <1>1, <1>3, <2>7 DEF IfOk
        <3>2. QED
            BY <1>2, <2>7, <3>1, NamesChanged DEF Used
    <2>8. ASSUME Names(screen', m), screen' = screen PROVE Used(m)
        BY <2>8 DEF Used
    <2>9. QED
        BY <1>1, <1>3, <2>1, <2>4, <2>5, <2>6, <2>7, <2>8 DEF IfOk, Adopted
<1>4. CASE ~IsOk(c)
    <2>1. On(screen', m) /\ ~On(screen, m) => On(calls[c].snap, m)
        BY <1>1, <1>2, <1>4 DEF IfRefused, On, Nodes
    <2>2. ASSUME Names(screen', m), calls[c].kind = "add" PROVE Used(m)
        <3>1. screen' = [screen EXCEPT ![Tmp(c)] = Gone]
            BY <1>1, <1>4, <2>2 DEF IfRefused, BySnapshot
        <3>2. QED
            BY <1>2, <2>2, <3>1, NamesChanged DEF Used
    <2>3. QED
        BY <1>1, <1>4, <2>1, <2>2 DEF IfRefused, Used
<1>5. QED
    BY <1>3, <1>4

LEMMA AnswersKeepIds ==
    ASSUME StoreInv, NEW c \in CallIds, Answers(c)
    PROVE  IdsInv' /\ RowsInv' /\ Fresh
<1>1. /\ c \in DOMAIN calls /\ DOMAIN calls' = DOMAIN calls
      /\ \A d \in DOMAIN calls : d # c => calls'[d] = calls[d]
      /\ calls'[c].stage = "done" /\ calls'[c].snap = Empty
      /\ calls'[c].card = Gone /\ calls'[c].answer = Gone
      /\ calls'[c].kind = calls[c].kind /\ calls'[c].node = calls[c].node
    BY AnswersTyped DEF StoreInv
<1>2. ~IsOk(c) => "refused" \in mishaps'
    BY DEF Answers
<1>3. rows' = rows
    BY DEF Answers
<1>4. ASSUME NEW m \in Ids, Used(m)' PROVE Used(m) \/ m = Made(c)
    <2>1. CASE Names(screen', m)
        BY <2>1, AnswerShows
    <2>2. CASE \E k \in Ids : On(rows', k) /\ rows'[k].host = m
        BY <1>3, <2>2 DEF Used
    <2>3. ASSUME NEW d \in DOMAIN calls',
                 \/ Names(calls'[d].snap, m)
                 \/ calls'[d].kind \in Updates \cup {"remove"} /\ calls'[d].node = m
                 \/ calls'[d].card \in Live /\ calls'[d].card.host = m
                 \/ calls'[d].answer \in Live /\ calls'[d].answer.host = m
          PROVE  Used(m)
        BY <1>1, <2>3, NothingEmpty, GoneApart DEF Used
    <2>4. QED
        BY <1>4, <2>1, <2>2, <2>3 DEF Used, Names, On
<1>5. IdsInv'
    <2>1. ASSUME NEW d \in CallIds, Used(Tmp(d))' PROVE d \in DOMAIN calls'
        BY <1>1, <1>4, <2>1, NewIds DEF StoreInv, IdsInv
    <2>2. ASSUME NEW d \in CallIds, Used(Made(d))' PROVE d \in DOMAIN calls' /\ calls'[d].stage = "done"
        BY <1>1, <1>4, <2>2, NewIds DEF StoreInv, IdsInv
    <2>3. QED
        BY <2>1, <2>2 DEF IdsInv
<1>6. calls[c].stage # "done"
    BY DEF Answers
<1>7. ASSUME NEW m \in Ids, On(screen', m), ~On(screen, m), "refused" \notin mishaps',
             NEW d \in DOMAIN calls, calls[d].kind = "remove", calls[d].node = m
      PROVE  FALSE
    <2>1. m = Made(c)
        BY <1>2, <1>7, AnswerShows
    <2>2. Used(m)
        BY <1>7 DEF Used
    <2>3. QED
        BY <1>6, <2>1, <2>2 DEF StoreInv, IdsInv
<1>8. RowsInv'
    BY <1>1, <1>3 DEF StoreInv, RowsInv, On
<1>9. QED
    BY <1>5, <1>7, <1>8 DEF Fresh

LEMMA StepKeepsIds == ASSUME StoreInv, [Next]_vars PROVE IdsInv' /\ RowsInv' /\ Fresh
<1> USE DEF StoreInv
<1>0. /\ screen \in Nodes /\ rows \in Nodes
      /\ \A m \in Ids : On(screen, m) /\ screen[m].host # None => Used(screen[m].host)
      /\ \A m \in Ids : On(rows, m) /\ rows[m].host # None => Used(rows[m].host)
      /\ \A m \in Ids : Names(screen, m) => Used(m)
    BY DEF StoreType, Nodes, Used, Names
<1>1. CASE UNCHANGED <<screen, rows, calls, mishaps>>
    BY <1>1 DEF IdsInv, RowsInv, Used, Names, On, Fresh
<1>2. ASSUME NEW kind \in Updates, NEW n \in Ids, NEW v \in Nat, EditsCard(kind, n, v)
      PROVE  IdsInv' /\ RowsInv' /\ Fresh
    <2>1. PICK card : card = EditOf(kind, n, v)
        OBVIOUS
    <2>2. /\ On(screen, n) /\ card \in Live /\ screen' = [screen EXCEPT ![n] = card]
          /\ Send(Call(kind, n, card), {}) /\ kind \in Kinds /\ kind \notin Creates \cup {"remove"}
        BY <1>2, <2>1, EditsTyped DEF Updates, Creates
    <2>3. card.host = screen[n].host
        BY <2>1, <2>2, EditOfLive
    <2>4. \A m \in Ids : On(screen', m) => On(screen, m)
        BY <1>0, <2>2 DEF On, Nodes
    <2>5. \A m \in Ids : Names(screen', m) => Used(m)
        <3>1. TAKE m \in Ids
        <3>2. HAVE Names(screen', m)
        <3>3. Names(screen, m) \/ m = n \/ card.host = m
            BY <1>0, <2>2, <3>2, NamesChanged
        <3>4. QED
            BY <1>0, <2>2, <2>3, <3>3, SeedsAssumption DEF Names
    <2>6. card.host # None => Used(card.host)
        BY <1>0, <2>2, <2>3
    <2>7. QED
        BY <2>2, <2>4, <2>5, <2>6, SendKeepsIds DEF Creates
<1>3. ASSUME NEW n \in Ids, RemovesCard(n) PROVE IdsInv' /\ RowsInv' /\ Fresh
    <2>1. On(screen, n) /\ screen' = [screen EXCEPT ![n] = Gone] /\ Send(Call("remove", n, Gone), {})
        BY <1>3 DEF RemovesCard, Optimistic
    <2>2. \A m \in Ids : On(screen', m) => On(screen, m)
        BY <1>0, <2>1 DEF On, Nodes
    <2>3. \A m \in Ids : Names(screen', m) => Used(m)
        BY <1>0, <2>1, NamesChanged
    <2>4. QED
        BY <2>1, <2>2, <2>3, GoneApart, SendKeepsIds DEF Kinds, Updates, Creates
<1>4. ASSUME NEW card \in Live, AddsCard(card) PROVE IdsInv' /\ RowsInv' /\ Fresh
    <2>1. /\ screen' = [screen EXCEPT ![Tmp(NextCall)] = card] /\ Send(Call("add", Tmp(NextCall), card), {})
          /\ Tmp(NextCall) \in Ids
        BY <1>4, NewIds DEF AddsCard, Optimistic
    <2>2. \A m \in Ids : On(screen', m) => On(screen, m) \/ m = Tmp(NextCall)
        BY <1>0, <2>1 DEF On, Nodes
    <2>3. card.host # None => On(screen, card.host) /\ card.host \in Ids
        BY <1>4 DEF AddsCard, HostReady, Live
    <2>4. card.host # None => Used(card.host)
        BY <1>0, <2>3 DEF Names
    <2>5. \A m \in Ids : Names(screen', m) => Used(m) \/ m = Tmp(NextCall)
        <3>1. TAKE m \in Ids
        <3>2. HAVE Names(screen', m)
        <3>3. Names(screen, m) \/ m = Tmp(NextCall) \/ card.host = m
            BY <1>0, <2>1, <3>2, NamesChanged
        <3>4. QED
            BY <1>0, <2>4, <3>3, SeedsAssumption
    <2>6. QED
        BY <2>1, <2>2, <2>4, <2>5, SendKeepsIds DEF Kinds, Updates, Creates
<1>5. ASSUME NEW kind \in Kinds, NEW card \in Live \cup {Gone}, NEW also, Asks(kind, card, also)
      PROVE  IdsInv' /\ RowsInv' /\ Fresh
    <2>1. /\ screen' = screen /\ Send(Call(kind, None, card), also) /\ card.host = None
          /\ kind \notin Updates \cup {"remove"} /\ (kind \in Creates => card \in Live)
        BY <1>5, GoneApart DEF Asks, Updates, Creates, Locks
    <2>2. QED
        BY <1>0, <2>1, SendKeepsIds
<1>6. ASSUME NEW n \in Ids, NEW v \in Nat, DropsUnsent(n, v) PROVE IdsInv' /\ RowsInv' /\ Fresh
    <2>1. PICK card : card = [screen[n] EXCEPT !.slot = v]
        OBVIOUS
    <2>2. /\ On(screen, n) /\ screen' = [screen EXCEPT ![n] = card] /\ calls' = calls /\ rows' = rows
        BY <1>6, <2>1 DEF DropsUnsent
    <2>3. screen[n] \in Live
        BY <1>0, <2>2, OnLive
    <2>4. card.host = screen[n].host
        BY <2>1, <2>3, EditedLive
    <2>5. \A m \in Ids : On(screen', m) => On(screen, m)
        BY <1>0, <2>2 DEF On, Nodes
    <2>6. \A m \in Ids : Names(screen', m) => Used(m)
        <3>1. TAKE m \in Ids
        <3>2. HAVE Names(screen', m)
        <3>3. Names(screen, m) \/ m = n \/ card.host = m
            BY <1>0, <2>2, <3>2, NamesChanged
        <3>4. QED
            BY <1>0, <2>2, <2>4, <3>3, SeedsAssumption DEF Names
    <2>7. IdsInv' /\ Fresh
        <3>1. \A c \in DOMAIN calls : calls'[c].answer \in Live /\ calls'[c].answer.host # None => Used(calls'[c].answer.host)
            BY <2>2 DEF Used
        <3>2. QED
            BY <1>0, <2>2, <2>5, <2>6, <3>1, ServiceKeepsIds
    <2>8. RowsInv'
        BY <2>2 DEF RowsInv, On
    <2>9. QED
        BY <2>7, <2>8
<1>7. ASSUME NEW c \in CallIds, ServeUpdate(c) \/ ServeCreate(c) \/ ServeRemove(c)
      PROVE  IdsInv' /\ RowsInv' /\ Fresh
    <2>1. /\ c \in DOMAIN calls /\ calls[c].stage = "sent"
          /\ screen' = screen /\ DOMAIN calls' = DOMAIN calls
          /\ \A d \in DOMAIN calls : d # c => calls'[d] = calls[d]
          /\ calls'[c].stage = "ok" /\ calls'[c].answer = ServedAnswer(c)
          /\ calls'[c].kind = calls[c].kind /\ calls'[c].node = calls[c].node
          /\ calls'[c].card = calls[c].card /\ calls'[c].snap = calls[c].snap
        BY <1>7, ServeTyped
    <2>2. PICK x \in Requests : x = calls[c]
        BY <2>1 DEF StoreType
    <2>3. PICK y : y = ServedAnswer(c)
        OBVIOUS
    <2>4. x.kind \in Updates \cup Creates => x.card \in Live /\ (x.card.host # None => Used(x.card.host))
        BY <2>1, <2>2 DEF Requests, Used
    <2>5. x.kind \in Updates => /\ x.node \in Ids
                                /\ y.host = IF On(rows, x.node) THEN rows[x.node].host ELSE x.card.host
        <3>1. HAVE x.kind \in Updates
        <3>2. x.node \in Ids
            BY <2>2, <3>1 DEF Requests
        <3>3. y = Patched(calls[c])
            BY <2>2, <2>3, <3>1 DEF ServedAnswer
        <3>4. QED
            BY <2>1, <2>2, <3>1, <3>2, <3>3, PatchedLive
    <2>6. y \in Live /\ y.host # None => Used(y.host)
        <3>1. CASE x.kind \in Updates
            BY <1>0, <2>4, <2>5, <3>1
        <3>2. CASE x.kind \notin Updates
            BY <2>2, <2>3, <2>4, <3>2, GoneApart DEF ServedAnswer
        <3>3. QED
            BY <3>1, <3>2
    <2>7. ASSUME NEW m \in Ids, On(rows', m)
          PROVE  /\ rows'[m].host # None => Used(rows'[m].host)
                 /\ On(rows, m) \/ m = Made(c)
        <3>1. CASE ServeUpdate(c)
            <4>1. calls[c].kind \in Updates
                BY <3>1 DEF ServeUpdate, Updates
            <4>2. rows' = IF On(rows, x.node) THEN [rows EXCEPT ![x.node] = y] ELSE rows
                BY <2>2, <2>3, <3>1, <4>1 DEF ServeUpdate, ServedAnswer
            <4>3. QED
                BY <1>0, <2>2, <2>5, <2>7, <4>1, <4>2 DEF On, Nodes
        <3>2. CASE ServeCreate(c)
            <4>1. rows' = [rows EXCEPT ![Made(c)] = x.card] /\ x.kind \in Creates
                BY <2>2, <3>2 DEF ServeCreate, Creates
            <4>2. QED
                BY <1>0, <2>4, <2>7, <4>1 DEF On, Nodes
        <3>3. CASE ServeRemove(c)
            <4>1. rows' = [k \in Ids |-> IF k = calls[c].node \/ rows[k].host = calls[c].node THEN Gone ELSE rows[k]]
                BY <3>3 DEF ServeRemove
            <4>2. rows'[m] = rows[m] /\ On(rows, m)
                BY <2>7, <4>1 DEF On
            <4>3. QED
                BY <1>0, <4>2
        <3>4. QED
            BY <1>7, <3>1, <3>2, <3>3
    <2>8. IdsInv' /\ Fresh
        <3>1. \A d \in DOMAIN calls :
                /\ calls'[d].kind = calls[d].kind /\ calls'[d].node = calls[d].node /\ calls'[d].snap = calls[d].snap
                /\ calls'[d].card = calls[d].card
                /\ calls'[d].answer \in Live /\ calls'[d].answer.host # None => Used(calls'[d].answer.host)
                /\ calls[d].stage = "done" => calls'[d].stage = "done"
            <4>1. TAKE d \in DOMAIN calls
            <4>2. CASE d = c
                BY <2>1, <2>3, <2>6, <4>2
            <4>3. CASE d # c
                BY <2>1, <4>3 DEF Used
            <4>4. QED
                BY <4>2, <4>3
        <3>2. QED
            BY <1>0, <2>1, <2>7, <3>1, ServiceKeepsIds
    <2>9. RowsInv'
        <3>1. \A m \in Ids : On(rows, m)' => On(rows, m) \/ m = Made(c)
            BY <2>7 DEF On
        <3>2. \A d \in DOMAIN calls : calls[d].stage # "sent" => calls'[d].stage # "sent"
            BY <2>1
        <3>3. QED
            BY <2>1, <3>1, <3>2 DEF RowsInv
    <2>10. QED
        BY <2>8, <2>9
<1>8. ASSUME NEW c, Lose(c) \/ \E stage \in Stages : Replies(c, stage) PROVE IdsInv' /\ RowsInv' /\ Fresh
    <2>1. /\ c \in DOMAIN calls /\ calls[c].stage \in {"sent", "ok"} /\ rows' = rows /\ screen' = screen
          /\ DOMAIN calls' = DOMAIN calls
          /\ \A d \in DOMAIN calls : d # c => calls'[d] = calls[d]
          /\ calls'[c].stage \in {"ok", "refused", "already_locked"} /\ calls'[c].answer = Gone
          /\ calls'[c].kind = calls[c].kind /\ calls'[c].node = calls[c].node
          /\ calls'[c].card = calls[c].card /\ calls'[c].snap = calls[c].snap
        BY <1>8, RepliesTyped
    <2>2. \A d \in DOMAIN calls :
            /\ calls'[d].kind = calls[d].kind /\ calls'[d].node = calls[d].node /\ calls'[d].snap = calls[d].snap
            /\ calls'[d].card = calls[d].card
            /\ calls'[d].answer \in Live /\ calls'[d].answer.host # None => Used(calls'[d].answer.host)
            /\ calls[d].stage = "done" => calls'[d].stage = "done"
        <3>1. TAKE d \in DOMAIN calls
        <3>2. CASE d = c
            BY <2>1, <3>2, GoneApart
        <3>3. CASE d # c
            BY <2>1, <3>3 DEF Used
        <3>4. QED
            BY <3>2, <3>3
    <2>3. IdsInv' /\ Fresh
        BY <1>0, <2>1, <2>2, ServiceKeepsIds
    <2>4. RowsInv'
        BY <2>1 DEF RowsInv, On
    <2>5. QED
        BY <2>3, <2>4
<1>9. QED
    BY NextSteps, <1>1, <1>2, <1>3, <1>4, <1>5, <1>6, <1>7, <1>8, AnswersKeepIds DEF Steps

LEMMA StoreInvariant == Spec => []StoreInv
<1>1. Init => StoreInv
    BY InitTyped, InitIds DEF StoreInv
<1>2. StoreInv /\ [Next]_vars => StoreInv'
    BY StepTyped, FlagsTyped, StepKeepsIds DEF StoreInv, StoreType
<1>3. QED
    BY <1>1, <1>2, PTL DEF Spec

\* NoResurrection for any number of cards and requests, while none was refused or its answer lost: an id
\* is never given out twice, so a late answer of another request does not put back what was removed.
THEOREM StoreNoResurrection == Spec => NoResurrection
<1> DEFINE Act == \A n \in Ids : On(screen, n)' /\ ~On(screen, n) /\ "refused" \notin mishaps' =>
                      ~\E c \in DOMAIN calls : calls[c].kind = "remove" /\ calls[c].node = n
<1>1. StoreInv /\ [Next]_vars => [Act]_vars
    BY StepKeepsIds DEF Fresh, On
<1>2. QED
    BY <1>1, StoreInvariant, PTL DEF Spec, NoResurrection

-----------------------------------------------------------------------------
(* A page whose edits overlap, while nothing is refused or lost.           *)

IsSent(c) == calls[c].stage = "sent"

\* A request that was refused, or can only be: it names a card the service does not know.
Doomed(c) ==
    \/ calls[c].stage \in {"refused", "already_locked"}
    \/ /\ IsSent(c)
       /\ \/ calls[c].kind \in Updates \cup {"remove"} /\ ~Known(calls[c].node)
          \/ calls[c].kind \in Creates /\ calls[c].card.host # None /\ ~Known(calls[c].card.host)

Smooth == mishaps \subseteq {"overlap"} /\ \A c \in DOMAIN calls : ~Doomed(c)

\* Requests are served in the order they were sent.
InOrder == \A c, d \in DOMAIN calls : c < d /\ IsSent(c) => IsSent(d)

\* A card under its made-up id is the one its request adds.
AddedShown ==
    \A c \in CallIds :
        /\ c \in DOMAIN calls /\ calls[c].kind = "add" /\ calls[c].stage # "done" =>
             On(screen, Tmp(c)) /\ screen[Tmp(c)] = calls[c].card
        /\ On(screen, Tmp(c)) => c \in DOMAIN calls /\ calls[c].kind = "add" /\ calls[c].stage # "done"

\* A note on the screen is on a card, which is not a note.
HostIsCard(nodes, n) == nodes[n].host # None /\ On(nodes, nodes[n].host) => nodes[nodes[n].host].host = None

ScreenHosts == \A n \in Ids : On(screen, n) => HostIsCard(screen, n)

\* The page asks only for what the service knows, and its notes are on such cards.
HostsKnown == \A n \in Ids : On(screen, n) /\ screen[n].host # None => Known(screen[n].host)
AskedKnown == \A d \in DOMAIN calls : calls[d].kind \in Updates \cup {"remove"} => Known(calls[d].node)

\* The service has every note's card.
RowHosts ==
    \A n \in Ids : On(rows, n) /\ rows[n].host # None =>
        On(rows, rows[n].host) /\ rows[rows[n].host].host = None

\* A note without its card, which no page draws.
Orphan(nodes, n) == nodes[n].host # None /\ ~On(nodes, nodes[n].host)

\* What was removed is off the screen.
RemovedOff == \A d \in DOMAIN calls : calls[d].kind = "remove" => ~On(screen, calls[d].node)

\* A card on the screen alone is a note without its card; one the service alone has is being removed, or new.
ScreenOnly == \A n \in Ids : On(screen, n) /\ Known(n) /\ ~On(rows, n) => Orphan(screen, n)

RowsOnly ==
    \A n \in Ids : On(rows, n) /\ ~On(screen, n) =>
        \/ \E d \in DOMAIN calls : IsSent(d) /\ calls[d].kind = "remove" /\ calls[d].node = n
        \/ \E c \in DOMAIN calls : calls[c].kind \in Creates /\ calls[c].stage = "ok" /\ n = Made(c)

SameHost == \A n \in Ids : On(screen, n) /\ On(rows, n) => rows[n].host = screen[n].host

\* A note that was sent finds its card, and the card's removal comes later.
NotesFindHosts ==
    \A c \in DOMAIN calls : IsSent(c) /\ calls[c].kind \in Creates /\ calls[c].card.host # None =>
        /\ On(rows, calls[c].card.host) /\ rows[calls[c].card.host].host = None
        /\ \A d \in DOMAIN calls : IsSent(d) /\ calls[d].kind = "remove" /\ calls[d].node = calls[c].card.host => d > c

\* A new row is the card its request carries, or was removed with its host.
NewRows ==
    \A c \in DOMAIN calls : calls[c].kind \in Creates /\ calls[c].stage = "ok" =>
        /\ On(rows, Made(c)) => rows[Made(c)] = calls[c].card
        /\ ~On(rows, Made(c)) => calls[c].card.host # None /\ ~On(screen, calls[c].card.host)

\* The fields of a card that one request writes.
TitleOf == {"title"}
PriceOf == {"price"}
MetaOf == {"move", "detail"}
SameIn(kinds, a, b) ==
    CASE kinds = TitleOf -> a.title = b.title
      [] kinds = PriceOf -> a.price = b.price
      [] OTHER -> a.slot = b.slot /\ a.detail = b.detail

Writing(d, kinds, n) == d \in DOMAIN calls /\ IsSent(d) /\ calls[d].kind \in kinds /\ calls[d].node = n

\* The last request on its way to a card carries what the screen shows; with none on its way the
\* service has what the screen shows.
LastCarries(kinds) ==
    \A n \in Ids, d \in DOMAIN calls : On(screen, n) /\ Writing(d, kinds, n) =>
        SameIn(kinds, calls[d].card, screen[n]) \/ \E e \in DOMAIN calls : e > d /\ Writing(e, kinds, n)

ServedShown(kinds) ==
    \A n \in Ids : On(screen, n) /\ On(rows, n) /\ (\A d \in DOMAIN calls : ~Writing(d, kinds, n)) =>
        SameIn(kinds, rows[n], screen[n])

SentHost ==
    \A d \in DOMAIN calls : calls[d].kind \in Updates /\ IsSent(d) /\ On(screen, calls[d].node) =>
        calls[d].card.host = screen[calls[d].node].host

\* The row the details form will adopt, unless the card was edited since.
AnswersMatch ==
    \A c \in DOMAIN calls :
        calls[c].kind \in {"detail", "price"} /\ calls[c].stage = "ok" /\ On(screen, calls[c].node) =>
            /\ calls[c].answer.host = screen[calls[c].node].host
            /\ ~Outdated(c) /\ On(rows, calls[c].node) => calls[c].answer = rows[calls[c].node]

Fields == {TitleOf, PriceOf, MetaOf}

SmoothInv ==
    /\ InOrder /\ AddedShown /\ HostsKnown /\ AskedKnown /\ ScreenHosts /\ RowHosts /\ RemovedOff /\ ScreenOnly /\ RowsOnly
    /\ SameHost /\ NotesFindHosts /\ NewRows /\ SentHost /\ AnswersMatch
    /\ \A kinds \in Fields : LastCarries(kinds) /\ ServedShown(kinds)

SmoothPage == Smooth => SmoothInv

-----------------------------------------------------------------------------
(* Facts about cards, ids and fields.                                      *)

LEMMA Typings ==
    ASSUME StoreInv
    PROVE  /\ screen \in Nodes /\ rows \in Nodes
           /\ \A n \in Ids : /\ screen[n] \in Live \cup {Gone} /\ screen[n].host \in Ids \cup {None}
                             /\ rows[n] \in Live \cup {Gone} /\ rows[n].host \in Ids \cup {None}
           /\ \A d \in DOMAIN calls :
                /\ d \in CallIds /\ d \in Nat /\ Tmp(d) \in Ids /\ Made(d) \in Ids /\ Known(Made(d)) /\ ~Known(Tmp(d))
                /\ calls[d].node \in Ids \cup {None}
                /\ calls[d].kind \in Updates \cup {"remove"} => calls[d].node \in Ids
                /\ calls[d].card \in Live \cup {Gone} /\ calls[d].card.host \in Ids \cup {None}
                /\ calls[d].kind \in Updates \cup Creates /\ calls[d].stage # "done" => calls[d].card \in Live
                /\ calls[d].kind \in Creates /\ calls[d].stage = "ok" => calls[d].answer = calls[d].card
                /\ calls[d].kind \in {"link", "found"} /\ calls[d].stage # "done" => calls[d].card.host = None
<1>1. screen \in Nodes /\ rows \in Nodes
    BY DEF StoreInv, StoreType
<1>2. \A x \in Live \cup {Gone} : x.host \in Ids \cup {None}
    BY GoneApart DEF Live
<1>3. ASSUME NEW n \in Ids PROVE screen[n] \in Live \cup {Gone} /\ rows[n] \in Live \cup {Gone}
    BY <1>1 DEF Nodes
<1>4. ASSUME NEW d \in DOMAIN calls
      PROVE  d \in CallIds /\ d \in Nat /\ Tmp(d) \in Ids /\ Made(d) \in Ids /\ Known(Made(d)) /\ ~Known(Tmp(d))
    <2>1. d \in CallIds
        BY DEF StoreInv, StoreType
    <2>2. QED
        BY <2>1, NewIds DEF Known
<1>5. ASSUME NEW d \in DOMAIN calls
      PROVE  /\ calls[d].node \in Ids \cup {None}
             /\ calls[d].kind \in Updates \cup {"remove"} => calls[d].node \in Ids
             /\ calls[d].card \in Live \cup {Gone}
             /\ calls[d].kind \in Updates \cup Creates /\ calls[d].stage # "done" => calls[d].card \in Live
             /\ calls[d].kind \in Creates /\ calls[d].stage = "ok" => calls[d].answer = calls[d].card
             /\ calls[d].kind \in {"link", "found"} /\ calls[d].stage # "done" => calls[d].card.host = None
    <2>1. PICK x \in Requests : x = calls[d]
        BY DEF StoreInv, StoreType
    <2>2. QED
        BY <2>1 DEF Requests
<1>6. QED
    BY <1>1, <1>2, <1>3, <1>4, <1>5

LEMMA RowsKnown == ASSUME StoreInv, NEW n \in Ids, On(rows, n) PROVE Known(n)
BY Typings DEF StoreInv, RowsInv, Known

LEMMA KindsApart ==
    /\ Updates \cap Creates = {} /\ "remove" \notin Updates \cup Creates
    /\ \A k \in Locks : k \notin Updates \cup Creates \cup {"remove"}
BY DEF Updates, Creates, Locks

LEMMA FieldsOfUpdates == \A kinds \in Fields : kinds \subseteq Updates
BY DEF Fields, TitleOf, PriceOf, MetaOf, Updates

LEMMA SameRefl == ASSUME NEW kinds, NEW a PROVE SameIn(kinds, a, a)
BY DEF SameIn

LEMMA SameTrans ==
    ASSUME NEW kinds, NEW a, NEW b, NEW x, SameIn(kinds, a, b), SameIn(kinds, b, x)
    PROVE  SameIn(kinds, a, x)
BY DEF SameIn

LEMMA SameSym == ASSUME NEW kinds, NEW a, NEW b, SameIn(kinds, a, b) PROVE SameIn(kinds, b, a)
BY DEF SameIn

LEMMA FieldNames == TitleOf # PriceOf /\ TitleOf # MetaOf /\ PriceOf # MetaOf
<1>1. "title" \in TitleOf /\ "title" \notin PriceOf /\ "title" \notin MetaOf /\ "price" \in PriceOf /\ "price" \notin MetaOf
    BY DEF TitleOf, PriceOf, MetaOf
<1>2. QED
    BY <1>1

LEMMA AllSame ==
    ASSUME NEW a \in Live, NEW b \in Live, a.host = b.host, \A kinds \in Fields : SameIn(kinds, a, b)
    PROVE  a = b
<1>1. SameIn(TitleOf, a, b) /\ SameIn(PriceOf, a, b) /\ SameIn(MetaOf, a, b)
    BY DEF Fields
<1>2. a.title = b.title /\ a.price = b.price /\ a.slot = b.slot /\ a.detail = b.detail
    BY <1>1, FieldNames DEF SameIn
<1>3. QED
    BY <1>2 DEF Live

\* An edit leaves the fields of the other kinds.
LEMMA EditKeepsFields ==
    ASSUME StoreType, NEW kind \in Updates, NEW n \in Ids, NEW v \in Nat, On(screen, n),
           NEW kinds \in Fields, kind \notin kinds
    PROVE  SameIn(kinds, EditOf(kind, n, v), screen[n])
<1>1. PICK x, y : x = EditOf(kind, n, v) /\ y = screen[n]
    OBVIOUS
<1>2. /\ kind # "title" => x.title = y.title
      /\ kind # "price" => x.price = y.price
      /\ kind \notin {"move", "detail"} => x.slot = y.slot /\ x.detail = y.detail
    BY <1>1, EditOfLive
<1>3. CASE kinds = TitleOf
    BY <1>1, <1>2, <1>3, FieldNames DEF SameIn, TitleOf
<1>4. CASE kinds = PriceOf
    BY <1>1, <1>2, <1>4, FieldNames DEF SameIn, PriceOf
<1>5. CASE kinds = MetaOf
    BY <1>1, <1>2, <1>5, FieldNames DEF SameIn, MetaOf
<1>6. QED
    BY <1>3, <1>4, <1>5 DEF Fields

\* A served edit gives the row the fields it carries and leaves the others.
LEMMA PatchedFields ==
    ASSUME StoreType, NEW c \in DOMAIN calls, calls[c].stage = "sent", calls[c].kind \in Updates,
           On(rows, calls[c].node), NEW kinds \in Fields
    PROVE  /\ calls[c].kind \in kinds => SameIn(kinds, Patched(calls[c]), calls[c].card)
           /\ calls[c].kind \notin kinds => SameIn(kinds, Patched(calls[c]), rows[calls[c].node])
<1>1. PICK x, y, r, k : x = Patched(calls[c]) /\ y = calls[c].card /\ r = rows[calls[c].node] /\ k = calls[c].kind
    OBVIOUS
<1>2. /\ x.title = IF k = "title" THEN y.title ELSE r.title
      /\ x.price = IF k = "price" THEN y.price ELSE r.price
      /\ x.slot = IF k \in {"move", "detail"} THEN y.slot ELSE r.slot
      /\ x.detail = IF k \in {"move", "detail"} THEN y.detail ELSE r.detail
    BY <1>1, PatchedLive
<1>3. (k \in kinds => SameIn(kinds, x, y)) /\ (k \notin kinds => SameIn(kinds, x, r))
    <2>1. CASE kinds = TitleOf
        BY <1>2, <2>1, FieldNames DEF SameIn, TitleOf
    <2>2. CASE kinds = PriceOf
        BY <1>2, <2>2, FieldNames DEF SameIn, PriceOf
    <2>3. CASE kinds = MetaOf
        BY <1>2, <2>3, FieldNames DEF SameIn, MetaOf
    <2>4. QED
        BY <2>1, <2>2, <2>3 DEF Fields
<1>4. QED
    BY <1>1, <1>3

-----------------------------------------------------------------------------
(* A request that is sent while the page is smooth.                        *)

Joins(kind, n, card) ==
    /\ DOMAIN calls' = DOMAIN calls \cup {NextCall} /\ NextCall \notin DOMAIN calls
    /\ NextCall \in CallIds /\ NextCall \in Nat
    /\ \A d \in DOMAIN calls : calls'[d] = calls[d] /\ d < NextCall
    /\ calls'[NextCall].kind = kind /\ calls'[NextCall].node = n /\ calls'[NextCall].card = card
    /\ calls'[NextCall].stage = "sent"
    /\ rows' = rows

LEMMA SendJoins ==
    ASSUME StoreInv, NEW kind \in Kinds, NEW n \in Ids \cup {None}, NEW card \in Live \cup {Gone}, NEW also,
           kind \in Updates \cup {"remove"} => n \in Ids,
           kind \in Updates \cup Creates => card \in Live, kind \in {"link", "found"} => card.host = None,
           Send(Call(kind, n, card), also)
    PROVE  Joins(kind, n, card)
<1>1. /\ DOMAIN calls' = DOMAIN calls \cup {NextCall} /\ NextCall \notin DOMAIN calls
      /\ \A d \in DOMAIN calls : calls'[d] = calls[d] /\ d < NextCall
      /\ calls'[NextCall] = Call(kind, n, card) /\ NextCall \in CallIds
      /\ rows' = rows
    BY SendTyped DEF StoreInv
<1>2. NextCall \in Nat
    BY <1>1, NewIds
<1>3. QED
    BY <1>1, <1>2, CallTyped DEF Joins, StoreInv

\* The new request is the last one.
LEMMA JoinsKeeps ==
    ASSUME StoreInv, SmoothInv, NEW kind, NEW n, NEW card, Joins(kind, n, card),
           kind \in Updates \cup {"remove"} => Known(n)
    PROVE  InOrder' /\ RowHosts' /\ AskedKnown'
<1>1. InOrder'
    BY Typings DEF SmoothInv, InOrder, Joins, IsSent
<1>2. RowHosts'
    BY DEF SmoothInv, RowHosts, Joins, On
<1>3. AskedKnown'
    BY DEF SmoothInv, AskedKnown, Joins
<1>4. QED
    BY <1>1, <1>2, <1>3

\* What is smooth after a step was smooth before it, and names only what the service knows.
LEMMA JoinsKnown ==
    ASSUME NEW kind, NEW n, NEW card, Joins(kind, n, card), Smooth'
    PROVE  /\ kind \in Updates \cup {"remove"} => Known(n)
           /\ kind \in Creates /\ card.host # None => Known(card.host)
BY DEF Joins, Smooth, Doomed, IsSent

LEMMA SmoothEdit ==
    ASSUME StoreInv, SmoothInv, Smooth', NEW kind \in Updates, NEW n \in Ids, NEW v \in Nat, EditsCard(kind, n, v)
    PROVE  SmoothInv'
<1>1. PICK card : card = EditOf(kind, n, v)
    OBVIOUS
<1>2. /\ On(screen, n) /\ card \in Live /\ screen' = [screen EXCEPT ![n] = card]
      /\ Send(Call(kind, n, card), {}) /\ kind \in Kinds
    BY <1>1, EditsTyped DEF StoreInv
<1>3. card.host = screen[n].host /\ \A kinds \in Fields : kind \notin kinds => SameIn(kinds, card, screen[n])
    BY <1>1, <1>2, EditOfLive, EditKeepsFields DEF StoreInv
<1>4. Joins(kind, n, card)
    BY <1>2, KindsApart, SendJoins DEF Updates
<1>5. Known(n)
    BY <1>4, JoinsKnown
<1>6. \A m \in Ids : screen'[m] = IF m = n THEN card ELSE screen[m]
    BY <1>2, Typings DEF Nodes
<1>7. \A m \in Ids : (On(screen', m) <=> On(screen, m)) /\ screen'[m].host = screen[m].host
    BY <1>2, <1>3, <1>6, GoneApart DEF On
<1>8. kind \notin Creates \cup {"remove"} /\ kind # "add"
    BY KindsApart DEF Creates
<1>9. InOrder' /\ RowHosts' /\ AskedKnown'
    BY <1>4, <1>5, JoinsKeeps
<1>10. AddedShown'
    <2>1. \A c \in CallIds : Tmp(c) \in Ids /\ Tmp(c) # n
        BY <1>5, NewIds DEF Known
    <2>2. \A c \in CallIds : screen'[Tmp(c)] = screen[Tmp(c)]
        BY <1>6, <2>1
    <2>3. QED
        BY <1>4, <1>8, <2>2 DEF SmoothInv, AddedShown, Joins, On
<1>11. HostsKnown' /\ ScreenHosts'
    BY <1>7, Typings DEF SmoothInv, HostsKnown, ScreenHosts, HostIsCard, On
<1>12. RemovedOff'
    BY <1>4, <1>7, <1>8, Typings DEF SmoothInv, RemovedOff, Joins, On
<1>13. ScreenOnly'
    BY <1>4, <1>7, Typings DEF SmoothInv, ScreenOnly, Orphan, Joins, On
<1>14. RowsOnly'
    BY <1>4, <1>7, <1>8 DEF SmoothInv, RowsOnly, Joins, On, IsSent
<1>15. SameHost'
    BY <1>4, <1>7 DEF SmoothInv, SameHost, Joins, On
<1>16. NotesFindHosts'
    BY <1>4, <1>8 DEF SmoothInv, NotesFindHosts, Joins, On, IsSent
<1>17. NewRows'
    BY <1>4, <1>7, <1>8, Typings DEF SmoothInv, NewRows, Joins, On
<1>18. SentHost'
    BY <1>3, <1>4, <1>7, Typings DEF SmoothInv, SentHost, Joins, On, IsSent
<1>19. AnswersMatch'
    <2>1. ASSUME NEW c \in DOMAIN calls, ~Outdated(c)' PROVE ~Outdated(c)
        BY <1>4, <2>1 DEF Outdated, Joins
    <2>2. QED
        BY <1>4, <1>7, <2>1, Typings DEF SmoothInv, AnswersMatch, Joins, On, Updates
<1>20. ASSUME NEW kinds \in Fields PROVE LastCarries(kinds)' /\ ServedShown(kinds)'
    <2>1. \A m \in Ids, d \in Nat : Writing(d, kinds, m)' <=> Writing(d, kinds, m) \/ (d = NextCall /\ m = n /\ kind \in kinds)
        BY <1>4 DEF Writing, Joins, IsSent
    <2>2. LastCarries(kinds) /\ ServedShown(kinds)
        BY DEF SmoothInv
    <2>3. ASSUME NEW m \in Ids, NEW x, m # n \/ kind \notin kinds, SameIn(kinds, x, screen[m])
          PROVE  SameIn(kinds, x, screen'[m])
        BY <1>3, <1>6, <2>3, SameTrans, SameSym
    <2>4. LastCarries(kinds)'
        <3>1. SUFFICES ASSUME NEW m \in Ids, NEW d \in DOMAIN calls', On(screen, m)', Writing(d, kinds, m)'
                       PROVE  SameIn(kinds, calls'[d].card, screen'[m])
                                \/ \E e \in DOMAIN calls' : e > d /\ Writing(e, kinds, m)'
            BY DEF LastCarries, SameIn
        <3>2. CASE d = NextCall /\ m = n
            BY <1>4, <1>6, <3>2, SameRefl DEF Joins
        <3>3. CASE Writing(d, kinds, m) /\ m = n /\ kind \in kinds
            <4>1. PICK q \in Nat : q = NextCall
                BY <1>4 DEF Joins
            <4>2. q \in DOMAIN calls' /\ q > d /\ Writing(q, kinds, m)'
                BY <1>4, <2>1, <3>3, <4>1, Typings DEF Joins, Writing
            <4>3. QED
                BY <4>2
        <3>4. CASE Writing(d, kinds, m) /\ (m # n \/ kind \notin kinds)
            <4>1. d \in DOMAIN calls /\ calls'[d] = calls[d] /\ On(screen, m)
                BY <1>4, <1>7, <3>1, <3>4 DEF Writing, Joins, On
            <4>2. SameIn(kinds, calls[d].card, screen[m]) \/ \E e \in DOMAIN calls : e > d /\ Writing(e, kinds, m)
                BY <2>2, <3>4, <4>1 DEF LastCarries
            <4>3. QED
                BY <1>4, <2>1, <2>3, <3>4, <4>1, <4>2, Typings DEF Joins
        <3>5. d \in Nat
            BY <1>4, <3>1, Typings DEF Joins
        <3>6. QED
            BY <2>1, <3>1, <3>2, <3>3, <3>4, <3>5
    <2>5. ServedShown(kinds)'
        <3>1. SUFFICES ASSUME NEW m \in Ids, On(screen, m)', On(rows, m)',
                              \A d \in DOMAIN calls' : ~Writing(d, kinds, m)'
                       PROVE  SameIn(kinds, rows'[m], screen'[m])
            BY DEF ServedShown, SameIn
        <3>2. m # n \/ kind \notin kinds
            <4>1. CASE m = n /\ kind \in kinds
                <5>1. PICK q \in Nat : q = NextCall
                    BY <1>4 DEF Joins
                <5>2. q \in DOMAIN calls' /\ Writing(q, kinds, m)'
                    BY <1>4, <2>1, <4>1, <5>1 DEF Joins
                <5>3. QED
                    BY <3>1, <5>2
            <4>2. QED
                BY <4>1
        <3>3. On(screen, m) /\ On(rows, m) /\ rows' = rows /\ \A d \in DOMAIN calls : ~Writing(d, kinds, m)
            BY <1>4, <1>7, <2>1, <3>1, Typings DEF Joins, On
        <3>4. SameIn(kinds, rows[m], screen[m])
            BY <2>2, <3>3 DEF ServedShown
        <3>5. QED
            BY <2>3, <3>2, <3>3, <3>4
    <2>6. QED
        BY <2>4, <2>5
<1>21. QED
    BY <1>9, <1>10, <1>11, <1>12, <1>13, <1>14, <1>15, <1>16, <1>17, <1>18, <1>19, <1>20 DEF SmoothInv

\* A request that changes no card's fields, on a screen that keeps the cards it shows.
LEMMA JoinsKeepFields ==
    ASSUME StoreInv, SmoothInv, NEW kind, NEW n, NEW card, Joins(kind, n, card), kind \notin Updates,
           \A m \in Ids : On(screen', m) /\ Known(m) => On(screen, m) /\ screen'[m] = screen[m]
    PROVE  /\ \A kinds \in Fields : LastCarries(kinds)' /\ ServedShown(kinds)'
           /\ SentHost' /\ AnswersMatch'
<1>1. ASSUME NEW kinds \in Fields PROVE LastCarries(kinds)' /\ ServedShown(kinds)'
    <2>1. LastCarries(kinds) /\ ServedShown(kinds) /\ kind \notin kinds
        BY FieldsOfUpdates DEF SmoothInv
    <2>2. \A m \in Ids, d \in Nat : Writing(d, kinds, m)' <=> Writing(d, kinds, m)
        BY <2>1 DEF Writing, Joins, IsSent
    <2>3. \A m \in Ids, d \in Nat : Writing(d, kinds, m) => d \in DOMAIN calls /\ Known(m)
        BY FieldsOfUpdates DEF Writing, SmoothInv, AskedKnown
    <2>4. \A d \in DOMAIN calls' : d \in Nat
        BY Typings DEF Joins
    <2>5. LastCarries(kinds)'
        <3>1. SUFFICES ASSUME NEW m \in Ids, NEW d \in DOMAIN calls', On(screen, m)', Writing(d, kinds, m)'
                       PROVE  SameIn(kinds, calls'[d].card, screen'[m])
                                \/ \E e \in DOMAIN calls' : e > d /\ Writing(e, kinds, m)'
            BY DEF LastCarries, SameIn
        <3>2. Writing(d, kinds, m) /\ d \in DOMAIN calls /\ Known(m)
            BY <2>2, <2>3, <2>4, <3>1
        <3>3. On(screen, m) /\ screen'[m] = screen[m] /\ calls'[d] = calls[d]
            BY <3>1, <3>2 DEF On, Joins
        <3>4. SameIn(kinds, calls[d].card, screen[m]) \/ \E e \in DOMAIN calls : e > d /\ Writing(e, kinds, m)
            BY <2>1, <3>2, <3>3 DEF LastCarries
        <3>5. QED
            BY <2>2, <3>3, <3>4, Typings DEF Joins
    <2>6. ServedShown(kinds)'
        <3>1. SUFFICES ASSUME NEW m \in Ids, On(screen, m)', On(rows, m)',
                              \A d \in DOMAIN calls' : ~Writing(d, kinds, m)'
                       PROVE  SameIn(kinds, rows'[m], screen'[m])
            BY DEF ServedShown, SameIn
        <3>2. On(rows, m) /\ rows' = rows /\ Known(m)
            BY <3>1, RowsKnown DEF Joins, On
        <3>3. On(screen, m) /\ screen'[m] = screen[m]
            BY <3>1, <3>2 DEF On
        <3>4. \A d \in DOMAIN calls : ~Writing(d, kinds, m)
            BY <2>2, <3>1, Typings DEF Joins
        <3>5. QED
            BY <2>1, <3>2, <3>3, <3>4 DEF ServedShown
    <2>7. QED
        BY <2>5, <2>6
<1>2. \A d \in DOMAIN calls : calls[d].kind \in Updates => Known(calls[d].node) /\ calls[d].node \in Ids
    BY Typings DEF SmoothInv, AskedKnown
<1>3. SentHost'
    BY <1>2 DEF SmoothInv, SentHost, Joins, On, IsSent
<1>4. AnswersMatch'
    <2>1. ASSUME NEW c \in DOMAIN calls, ~Outdated(c)' PROVE ~Outdated(c)
        BY <2>1 DEF Outdated, Joins
    <2>2. QED
        BY <1>2, <2>1 DEF SmoothInv, AnswersMatch, Joins, On, Updates
<1>5. QED
    BY <1>1, <1>3, <1>4

LEMMA SmoothRemove ==
    ASSUME StoreInv, SmoothInv, Smooth', NEW n \in Ids, RemovesCard(n)
    PROVE  SmoothInv'
<1>1. On(screen, n) /\ screen' = [screen EXCEPT ![n] = Gone] /\ Send(Call("remove", n, Gone), {})
    BY DEF RemovesCard, Optimistic
<1>2. Joins("remove", n, Gone)
    BY <1>1, KindsApart, SendJoins DEF Kinds, Creates
<1>3. Known(n)
    BY <1>2, JoinsKnown
<1>4. \A m \in Ids : screen'[m] = IF m = n THEN Gone ELSE screen[m]
    BY <1>1, Typings DEF Nodes
<1>5. \A m \in Ids : On(screen', m) <=> On(screen, m) /\ m # n
    BY <1>1, <1>4 DEF On
<1>6. InOrder' /\ RowHosts' /\ AskedKnown'
    BY <1>2, <1>3, JoinsKeeps
<1>7. AddedShown'
    <2>1. \A c \in CallIds : Tmp(c) \in Ids /\ Tmp(c) # n
        BY <1>3, NewIds DEF Known
    <2>2. \A c \in CallIds : screen'[Tmp(c)] = screen[Tmp(c)]
        BY <1>4, <2>1
    <2>3. QED
        BY <1>2, <2>2 DEF SmoothInv, AddedShown, Joins, On
<1>8. HostsKnown'
    BY <1>4, <1>5 DEF SmoothInv, HostsKnown, On
<1>9. ScreenHosts'
    BY <1>4, <1>5, Typings DEF SmoothInv, ScreenHosts, HostIsCard, On
<1>10. RemovedOff'
    BY <1>2, <1>5, Typings DEF SmoothInv, RemovedOff, Joins, On
<1>11. ScreenOnly'
    BY <1>2, <1>4, <1>5, Typings DEF SmoothInv, ScreenOnly, Orphan, Joins, On
<1>12. RowsOnly'
    <2>1. SUFFICES ASSUME NEW m \in Ids, On(rows, m)', ~On(screen, m)'
                   PROVE  \/ \E d \in DOMAIN calls' : IsSent(d)' /\ calls'[d].kind = "remove" /\ calls'[d].node = m
                          \/ \E c \in DOMAIN calls' : calls'[c].kind \in Creates /\ calls'[c].stage = "ok" /\ m = Made(c)
        BY DEF RowsOnly
    <2>2. CASE m = n
        <3>1. PICK q : q = NextCall
            OBVIOUS
        <3>2. q \in DOMAIN calls' /\ IsSent(q)' /\ calls'[q].kind = "remove" /\ calls'[q].node = m
            BY <1>2, <2>2, <3>1 DEF Joins, IsSent
        <3>3. QED
            BY <3>2
    <2>3. CASE m # n
        <3>1. On(rows, m) /\ ~On(screen, m)
            BY <1>2, <1>4, <2>1, <2>3 DEF Joins, On
        <3>2. QED
            BY <1>2, <3>1 DEF SmoothInv, RowsOnly, Joins, IsSent
    <2>4. QED
        BY <2>2, <2>3
<1>13. SameHost'
    BY <1>2, <1>4, <1>5 DEF SmoothInv, SameHost, Joins, On
<1>14. NotesFindHosts'
    BY <1>2, KindsApart, Typings DEF SmoothInv, NotesFindHosts, Joins, On, IsSent
<1>15. NewRows'
    BY <1>2, <1>5, KindsApart, Typings DEF SmoothInv, NewRows, Joins, On
<1>16. (\A kinds \in Fields : LastCarries(kinds)' /\ ServedShown(kinds)') /\ SentHost' /\ AnswersMatch'
    BY <1>2, <1>4, <1>5, KindsApart, JoinsKeepFields
<1>17. QED
    BY <1>6, <1>7, <1>8, <1>9, <1>10, <1>11, <1>12, <1>13, <1>14, <1>15, <1>16 DEF SmoothInv

LEMMA SmoothAdd ==
    ASSUME StoreInv, SmoothInv, Smooth', NEW card \in Live, AddsCard(card)
    PROVE  SmoothInv'
<1>1. PICK q \in CallIds : q = NextCall
    BY DEF AddsCard
<1>2. PICK t \in Ids : t = Tmp(q)
    BY NewIds
<1>3. screen' = [screen EXCEPT ![t] = card] /\ Send(Call("add", t, card), {})
    BY <1>1, <1>2 DEF AddsCard, Optimistic
<1>4. Joins("add", t, card)
    BY <1>3, KindsApart, SendJoins DEF Kinds, Creates
<1>5. /\ DOMAIN calls' = DOMAIN calls \cup {q} /\ q \notin DOMAIN calls /\ q \in Nat
      /\ \A d \in DOMAIN calls : calls'[d] = calls[d] /\ d < q
      /\ calls'[q].kind = "add" /\ calls'[q].card = card /\ calls'[q].stage = "sent" /\ rows' = rows
    BY <1>1, <1>4 DEF Joins
<1>6. ~Used(t) /\ ~Known(t)
    BY <1>1, <1>2, <1>5, NewIds DEF StoreInv, IdsInv, Known
<1>7. /\ ~On(screen, t) /\ \A m \in Ids : On(screen, m) => screen[m].host # t
      /\ \A d \in DOMAIN calls : calls[d].card \in Live => calls[d].card.host # t
      /\ \A d \in DOMAIN calls : calls[d].kind \in Updates \cup {"remove"} => calls[d].node # t
    BY <1>6 DEF Used, Names
<1>8. \A m \in Ids : screen'[m] = IF m = t THEN card ELSE screen[m]
    BY <1>3, Typings DEF Nodes
<1>9. \A m \in Ids : On(screen', m) <=> On(screen, m) \/ m = t
    BY <1>8, GoneApart DEF On
<1>10. card.host # None => /\ card.host \in Ids /\ Known(card.host) /\ card.host # t
                           /\ On(screen, card.host) /\ screen[card.host].host = None
    <2>1. card.host # None => Known(card.host)
        BY <1>4, JoinsKnown DEF Creates
    <2>2. QED
        BY <1>7, <2>1 DEF AddsCard, HostReady, Live
<1>11. InOrder' /\ RowHosts' /\ AskedKnown'
    BY <1>4, KindsApart, JoinsKeeps DEF Creates
<1>12. AddedShown'
    <2>1. \A c \in CallIds : Tmp(c) \in Ids /\ (Tmp(c) = t <=> c = q)
        BY <1>2, NewIds
    <2>2. \A c \in CallIds : c # q => screen'[Tmp(c)] = screen[Tmp(c)]
        BY <1>8, <2>1
    <2>3. screen'[t] = card /\ card # Gone
        BY <1>8, GoneApart
    <2>4. ASSUME NEW c \in CallIds
          PROVE  /\ c \in DOMAIN calls' /\ calls'[c].kind = "add" /\ calls'[c].stage # "done" =>
                      screen'[Tmp(c)] # Gone /\ screen'[Tmp(c)] = calls'[c].card
                 /\ screen'[Tmp(c)] # Gone => c \in DOMAIN calls' /\ calls'[c].kind = "add" /\ calls'[c].stage # "done"
        <3>1. CASE c = q
            BY <1>2, <1>5, <2>3, <3>1
        <3>2. CASE c # q
            BY <1>5, <2>2, <3>2 DEF SmoothInv, AddedShown, On
        <3>3. QED
            BY <3>1, <3>2
    <2>5. QED
        BY <2>4 DEF AddedShown, On
<1>13. HostsKnown'
    BY <1>8, <1>9, <1>10 DEF SmoothInv, HostsKnown, On
<1>14. ScreenHosts'
    <2>1. ASSUME NEW m \in Ids, On(screen', m), screen'[m].host # None, On(screen', screen'[m].host)
          PROVE  screen'[screen'[m].host].host = None
        <3>1. CASE m = t
            BY <1>8, <1>10, <2>1, <3>1
        <3>2. CASE m # t
            BY <1>7, <1>8, <1>9, <2>1, <3>2, Typings DEF SmoothInv, ScreenHosts, HostIsCard
        <3>3. QED
            BY <3>1, <3>2
    <2>2. QED
        BY <2>1 DEF ScreenHosts, HostIsCard, On
<1>15. RemovedOff'
    BY <1>5, <1>7, <1>9, Typings DEF SmoothInv, RemovedOff, On
<1>16. ScreenOnly'
    BY <1>5, <1>6, <1>7, <1>8, <1>9, Typings DEF SmoothInv, ScreenOnly, Orphan, On
<1>17. RowsOnly'
    BY <1>5, <1>9 DEF SmoothInv, RowsOnly, On, IsSent
<1>18. SameHost'
    <2>1. ~On(rows, t)
        BY <1>6, RowsKnown
    <2>2. QED
        BY <1>5, <1>8, <1>9, <2>1 DEF SmoothInv, SameHost, On
<1>19. NotesFindHosts'
    <2>1. ASSUME card.host # None
          PROVE  /\ On(rows, card.host) /\ rows[card.host].host = None
                 /\ \A d \in DOMAIN calls : ~(calls[d].kind = "remove" /\ calls[d].node = card.host)
        BY <1>10, <2>1 DEF SmoothInv, ScreenOnly, SameHost, Orphan, RemovedOff
    <2>2. QED
        BY <1>5, <2>1, Typings DEF SmoothInv, NotesFindHosts, On, IsSent
<1>20. NewRows'
    <2>1. \A d \in DOMAIN calls : calls[d].kind \in Creates /\ calls[d].stage = "ok" => calls[d].card.host # t
        BY <1>7, Typings
    <2>2. QED
        BY <1>5, <1>9, <2>1, Typings DEF SmoothInv, NewRows, On
<1>21. (\A kinds \in Fields : LastCarries(kinds)' /\ ServedShown(kinds)') /\ SentHost' /\ AnswersMatch'
    <2>1. \A m \in Ids : On(screen', m) /\ Known(m) => On(screen, m) /\ screen'[m] = screen[m]
        BY <1>6, <1>8, <1>9
    <2>2. QED
        BY <1>4, <2>1, KindsApart, JoinsKeepFields DEF Creates
<1>22. QED
    BY <1>11, <1>12, <1>13, <1>14, <1>15, <1>16, <1>17, <1>18, <1>19, <1>20, <1>21 DEF SmoothInv

LEMMA SmoothAsk ==
    ASSUME StoreInv, SmoothInv, Smooth', NEW kind \in Kinds, NEW card \in Live \cup {Gone}, NEW also,
           Asks(kind, card, also)
    PROVE  SmoothInv'
<1>1. /\ screen' = screen /\ Send(Call(kind, None, card), also) /\ card.host = None
      /\ kind \notin Updates \cup {"remove"} /\ kind # "add" /\ (kind \in Creates => card \in Live)
    BY GoneApart DEF Asks, Updates, Creates, Locks
<1>2. Joins(kind, None, card)
    BY <1>1, SendJoins
<1>3. InOrder' /\ RowHosts' /\ AskedKnown'
    BY <1>1, <1>2, JoinsKeeps
<1>4. AddedShown'
    BY <1>1, <1>2 DEF SmoothInv, AddedShown, Joins, On
<1>5. HostsKnown' /\ ScreenHosts'
    BY <1>1 DEF SmoothInv, HostsKnown, ScreenHosts, HostIsCard, On
<1>6. RemovedOff'
    BY <1>1, <1>2 DEF SmoothInv, RemovedOff, Joins, On
<1>7. ScreenOnly'
    BY <1>1, <1>2 DEF SmoothInv, ScreenOnly, Orphan, Joins, On
<1>8. RowsOnly'
    BY <1>1, <1>2 DEF SmoothInv, RowsOnly, Joins, On, IsSent
<1>9. SameHost'
    BY <1>1, <1>2 DEF SmoothInv, SameHost, Joins, On
<1>10. NotesFindHosts'
    BY <1>1, <1>2 DEF SmoothInv, NotesFindHosts, Joins, On, IsSent
<1>11. NewRows'
    BY <1>1, <1>2 DEF SmoothInv, NewRows, Joins, On
<1>12. (\A kinds \in Fields : LastCarries(kinds)' /\ ServedShown(kinds)') /\ SentHost' /\ AnswersMatch'
    BY <1>1, <1>2, JoinsKeepFields DEF On
<1>13. QED
    BY <1>3, <1>4, <1>5, <1>6, <1>7, <1>8, <1>9, <1>10, <1>11, <1>12 DEF SmoothInv

-----------------------------------------------------------------------------
(* The service takes the requests of a smooth page in their order.         *)

Serves(c, answer) ==
    /\ c \in DOMAIN calls /\ IsSent(c)
    /\ screen' = screen /\ DOMAIN calls' = DOMAIN calls
    /\ \A d \in DOMAIN calls : d # c => calls'[d] = calls[d]
    /\ calls'[c].stage = "ok" /\ calls'[c].answer = answer
    /\ calls'[c].kind = calls[c].kind /\ calls'[c].node = calls[c].node /\ calls'[c].card = calls[c].card
    /\ \A d \in DOMAIN calls : d < c => ~IsSent(d)

LEMMA ServeServes ==
    ASSUME StoreInv, Smooth', NEW c \in CallIds, ServeUpdate(c) \/ ServeCreate(c) \/ ServeRemove(c)
    PROVE  Serves(c, ServedAnswer(c))
<1>1. "apart" \notin mishaps'
    BY DEF Smooth
<1>2. \A d \in 1..c - 1 : ~Sent(d)
    BY <1>1, ServeTyped DEF StoreInv
<1>3. \A d \in DOMAIN calls : d < c => ~IsSent(d)
    BY <1>2, NewIds, Typings DEF CallIds, Sent, IsSent
<1>4. QED
    BY <1>3, ServeTyped DEF StoreInv, Serves, IsSent

\* What does not depend on the rows.
LEMMA ServesKeeps ==
    ASSUME StoreInv, SmoothInv, NEW c, NEW answer, Serves(c, answer)
    PROVE  /\ InOrder' /\ AddedShown' /\ HostsKnown' /\ AskedKnown' /\ ScreenHosts' /\ RemovedOff' /\ SentHost'
           /\ \A kinds \in Fields : LastCarries(kinds)'
           /\ \A d \in DOMAIN calls : IsSent(d)' <=> IsSent(d) /\ d # c
           /\ \A kinds \in Fields, d \in DOMAIN calls, m \in Ids : Writing(d, kinds, m)' <=> Writing(d, kinds, m) /\ d # c
<1>1. \A d \in DOMAIN calls : IsSent(d)' <=> IsSent(d) /\ d # c
    BY DEF Serves, IsSent
<1>2. \A d \in DOMAIN calls : calls'[d].kind = calls[d].kind /\ calls'[d].node = calls[d].node /\ calls'[d].card = calls[d].card
    BY DEF Serves
<1>3. ASSUME NEW kinds, NEW d, NEW m \in Ids PROVE Writing(d, kinds, m)' <=> Writing(d, kinds, m) /\ d # c
    BY <1>1, <1>2 DEF Writing, Serves
<1>4. InOrder'
    BY <1>1, Typings DEF SmoothInv, InOrder, Serves
<1>5. AddedShown'
    <2>1. \A d \in DOMAIN calls : calls'[d].stage # "done" <=> calls[d].stage # "done"
        BY DEF Serves, IsSent
    <2>2. QED
        BY <1>2, <2>1 DEF SmoothInv, AddedShown, Serves, On
<1>6. HostsKnown' /\ ScreenHosts'
    BY DEF SmoothInv, HostsKnown, ScreenHosts, HostIsCard, Serves, On
<1>7. AskedKnown' /\ RemovedOff'
    BY <1>2 DEF SmoothInv, AskedKnown, RemovedOff, Serves, On
<1>8. SentHost'
    BY <1>1, <1>2 DEF SmoothInv, SentHost, Serves, On
<1>9. ASSUME NEW kinds \in Fields PROVE LastCarries(kinds)'
    <2>1. SUFFICES ASSUME NEW m \in Ids, NEW d \in DOMAIN calls', On(screen, m)', Writing(d, kinds, m)'
                   PROVE  SameIn(kinds, calls'[d].card, screen'[m])
                            \/ \E e \in DOMAIN calls' : e > d /\ Writing(e, kinds, m)'
        BY DEF LastCarries, SameIn
    <2>2. Writing(d, kinds, m) /\ d # c /\ d \in DOMAIN calls /\ On(screen, m) /\ screen' = screen
        BY <1>3, <2>1 DEF Serves, On
    <2>3. SameIn(kinds, calls[d].card, screen[m]) \/ \E e \in DOMAIN calls : e > d /\ Writing(e, kinds, m)
        BY <2>2 DEF SmoothInv, LastCarries
    <2>4. ASSUME NEW e \in DOMAIN calls, e > d, Writing(e, kinds, m) PROVE e # c
        BY <2>2, <2>4, Typings DEF Writing, Serves
    <2>5. QED
        BY <1>2, <1>3, <2>2, <2>3, <2>4 DEF Serves
<1>10. QED
    BY <1>1, <1>3, <1>4, <1>5, <1>6, <1>7, <1>8, <1>9

\* An update is known to come before the answer of no other update of its card.
LEMMA SmoothServeUpdate ==
    ASSUME StoreInv, SmoothInv, Smooth', NEW c \in CallIds, ServeUpdate(c)
    PROVE  SmoothInv'
<1>1. PICK y : y = ServedAnswer(c)
    OBVIOUS
<1>2. Serves(c, y)
    BY <1>1, ServeServes
<1>3. calls[c].kind \in Updates /\ c \in DOMAIN calls /\ calls[c].stage = "sent"
    BY <1>2 DEF ServeUpdate, Updates, Serves, IsSent
<1>4. PICK n \in Ids : n = calls[c].node
    BY <1>3, Typings
<1>5. y = Patched(calls[c])
    BY <1>1, <1>3 DEF ServedAnswer
<1>6. y \in Live /\ y.host = IF On(rows, n) THEN rows[n].host ELSE calls[c].card.host
    BY <1>3, <1>4, <1>5, PatchedLive DEF StoreInv
<1>7. \A m \in Ids : rows'[m] = IF m = n /\ On(rows, n) THEN y ELSE rows[m]
    BY <1>4, <1>5, Typings DEF ServeUpdate, Nodes
<1>8. \A m \in Ids : (On(rows', m) <=> On(rows, m)) /\ rows'[m].host = rows[m].host
    BY <1>6, <1>7, GoneApart DEF On
<1>9. /\ InOrder' /\ AddedShown' /\ HostsKnown' /\ AskedKnown' /\ ScreenHosts' /\ RemovedOff' /\ SentHost'
      /\ \A kinds \in Fields : LastCarries(kinds)'
      /\ \A d \in DOMAIN calls : IsSent(d)' <=> IsSent(d) /\ d # c
      /\ \A kinds \in Fields, d \in DOMAIN calls, m \in Ids : Writing(d, kinds, m)' <=> Writing(d, kinds, m) /\ d # c
    BY <1>2, ServesKeeps
<1>10. calls[c].kind \notin Creates \cup {"remove"}
    BY <1>3, KindsApart
<1>11. \A d \in DOMAIN calls :
         /\ calls'[d].kind = calls[d].kind /\ calls'[d].node = calls[d].node /\ calls'[d].card = calls[d].card
         /\ d # c => calls'[d] = calls[d]
    BY <1>2 DEF Serves
<1>12. RowHosts'
    BY <1>8, Typings DEF SmoothInv, RowHosts, On
<1>13. ScreenOnly'
    BY <1>2, <1>8 DEF SmoothInv, ScreenOnly, Orphan, Serves, On
<1>14. RowsOnly'
    <2>1. SUFFICES ASSUME NEW m \in Ids, On(rows, m)', ~On(screen, m)'
                   PROVE  \/ \E d \in DOMAIN calls' : IsSent(d)' /\ calls'[d].kind = "remove" /\ calls'[d].node = m
                          \/ \E d \in DOMAIN calls' : calls'[d].kind \in Creates /\ calls'[d].stage = "ok" /\ m = Made(d)
        BY DEF RowsOnly
    <2>2. On(rows, m) /\ ~On(screen, m)
        BY <1>2, <1>8, <2>1 DEF Serves, On
    <2>3. QED
        BY <1>2, <1>9, <1>10, <1>11, <2>2 DEF SmoothInv, RowsOnly, Serves
<1>15. SameHost'
    BY <1>2, <1>8 DEF SmoothInv, SameHost, Serves, On
<1>16. NotesFindHosts'
    BY <1>2, <1>8, <1>9, <1>11, Typings DEF SmoothInv, NotesFindHosts, Serves, On
<1>17. NewRows'
    <2>1. ASSUME NEW d \in DOMAIN calls, calls[d].kind \in Creates, calls[d].stage = "ok" PROVE Made(d) # n
        <3>1. ~Used(Made(d))
            BY <2>1, Typings DEF StoreInv, IdsInv
        <3>2. Used(n)
            BY <1>3, <1>4 DEF Used
        <3>3. QED
            BY <3>1, <3>2
    <2>2. QED
        BY <1>2, <1>7, <1>8, <1>10, <1>11, <2>1, Typings DEF SmoothInv, NewRows, Serves, On
<1>18. AnswersMatch'
    <2>1. SUFFICES ASSUME NEW d \in DOMAIN calls, calls'[d].kind \in {"detail", "price"}, calls'[d].stage = "ok",
                          On(screen', calls'[d].node)
                   PROVE  /\ calls'[d].answer.host = screen'[calls'[d].node].host
                          /\ ~Outdated(d)' /\ On(rows', calls'[d].node) => calls'[d].answer = rows'[calls'[d].node]
        BY <1>2 DEF AnswersMatch, Serves, On
    <2>2. Outdated(d)' <=> Outdated(d)
        BY <1>2, <1>11 DEF Outdated, Serves
    <2>3. On(screen, calls[d].node) /\ calls[d].node \in Ids /\ screen' = screen
        BY <1>2, <1>11, <2>1, Typings DEF Serves, Updates
    <2>4. CASE d = c
        <3>1. calls'[d].answer = y /\ calls'[d].node = n
            BY <1>2, <1>4, <2>4 DEF Serves
        <3>2. y.host = screen[n].host
            BY <1>3, <1>4, <1>6, <2>3, <2>4 DEF SmoothInv, SameHost, SentHost, IsSent
        <3>3. QED
            BY <1>4, <1>7, <1>8, <2>3, <2>4, <3>1, <3>2
    <2>5. CASE d # c
        <3>1. calls'[d] = calls[d] /\ calls[d].kind \in {"detail", "price"} /\ calls[d].stage = "ok"
            BY <1>11, <2>1, <2>5
        <3>2. /\ calls[d].answer.host = screen[calls[d].node].host
              /\ ~Outdated(d) /\ On(rows, calls[d].node) => calls[d].answer = rows[calls[d].node]
            BY <2>3, <3>1 DEF SmoothInv, AnswersMatch
        <3>3. d < c
            BY <1>3, <2>5, <3>1, Typings DEF SmoothInv, InOrder, IsSent
        <3>4. calls[d].node = n => Outdated(d)
            BY <1>3, <1>4, <3>3, Typings DEF Outdated
        <3>5. QED
            BY <1>7, <1>8, <2>2, <2>3, <3>1, <3>2, <3>4
    <2>6. QED
        BY <2>4, <2>5
<1>19. ASSUME NEW kinds \in Fields PROVE ServedShown(kinds)'
    <2>1. SUFFICES ASSUME NEW m \in Ids, On(screen, m)', On(rows, m)',
                          \A d \in DOMAIN calls' : ~Writing(d, kinds, m)'
                   PROVE  SameIn(kinds, rows'[m], screen'[m])
        BY DEF ServedShown, SameIn
    <2>2. On(screen, m) /\ On(rows, m) /\ screen' = screen
        BY <1>2, <1>8, <2>1 DEF Serves, On
    <2>3. \A d \in DOMAIN calls : d # c => ~Writing(d, kinds, m)
        BY <1>2, <1>9, <2>1 DEF Serves
    <2>4. CASE m = n /\ calls[c].kind \in kinds
        <3>1. Writing(c, kinds, m)
            BY <1>3, <1>4, <2>4 DEF Writing, IsSent
        <3>2. ~\E e \in DOMAIN calls : e > c /\ Writing(e, kinds, m)
            BY <1>3, <2>3, Typings
        <3>3. LastCarries(kinds)
            BY DEF SmoothInv
        <3>4. SameIn(kinds, calls[c].card, screen[m])
            BY <1>3, <2>2, <3>1, <3>2, <3>3 DEF LastCarries
        <3>5. SameIn(kinds, y, calls[c].card)
            BY <1>3, <1>4, <1>5, <2>2, <2>4, PatchedFields DEF StoreInv
        <3>6. QED
            BY <1>7, <2>2, <2>4, <3>4, <3>5, SameTrans
    <2>5. CASE m # n \/ calls[c].kind \notin kinds
        <3>1. \A d \in DOMAIN calls : ~Writing(d, kinds, m)
            BY <1>4, <2>3, <2>5 DEF Writing
        <3>2. SameIn(kinds, rows[m], screen[m])
            BY <2>2, <3>1 DEF SmoothInv, ServedShown
        <3>3. m = n => SameIn(kinds, y, rows[m])
            BY <1>3, <1>4, <1>5, <2>2, <2>5, PatchedFields DEF StoreInv
        <3>4. QED
            BY <1>7, <2>2, <3>2, <3>3, SameTrans
    <2>6. QED
        BY <2>4, <2>5
<1>20. QED
    BY <1>9, <1>12, <1>13, <1>14, <1>15, <1>16, <1>17, <1>18, <1>19 DEF SmoothInv

LEMMA SmoothServeCreate ==
    ASSUME StoreInv, SmoothInv, Smooth', NEW c \in CallIds, ServeCreate(c)
    PROVE  SmoothInv'
<1>1. PICK y : y = ServedAnswer(c)
    OBVIOUS
<1>2. Serves(c, y)
    BY <1>1, ServeServes
<1>3. calls[c].kind \in Creates /\ c \in DOMAIN calls /\ calls[c].stage = "sent"
    BY <1>2 DEF ServeCreate, Creates, Serves, IsSent
<1>4. PICK n \in Ids : n = Made(c)
    BY NewIds
<1>5. y \in Live /\ y = calls[c].card
    BY <1>1, <1>3, KindsApart, Typings DEF ServedAnswer
<1>6. \A m \in Ids : rows'[m] = IF m = n THEN y ELSE rows[m]
    BY <1>4, <1>5, Typings DEF ServeCreate, Nodes
<1>7. ~Used(n)
    BY <1>3, <1>4 DEF StoreInv, IdsInv
<1>8. /\ ~On(screen, n) /\ \A m \in Ids : On(rows, m) => rows[m].host # n
      /\ \A d \in DOMAIN calls : calls[d].card \in Live => calls[d].card.host # n
      /\ \A d \in DOMAIN calls : calls[d].kind \in Updates \cup {"remove"} => calls[d].node # n
    BY <1>7 DEF Used, Names
<1>9. ~On(rows, n)
    BY <1>3, <1>4, NewIds, Typings DEF StoreInv, RowsInv
<1>10. \A m \in Ids : On(rows', m) <=> On(rows, m) \/ m = n
    BY <1>5, <1>6, GoneApart DEF On
<1>11. /\ InOrder' /\ AddedShown' /\ HostsKnown' /\ AskedKnown' /\ ScreenHosts' /\ RemovedOff' /\ SentHost'
       /\ \A kinds \in Fields : LastCarries(kinds)'
       /\ \A d \in DOMAIN calls : IsSent(d)' <=> IsSent(d) /\ d # c
       /\ \A kinds \in Fields, d \in DOMAIN calls, m \in Ids : Writing(d, kinds, m)' <=> Writing(d, kinds, m) /\ d # c
    BY <1>2, ServesKeeps
<1>12. calls[c].kind \notin Updates \cup {"remove"}
    BY <1>3, KindsApart
<1>13. \A d \in DOMAIN calls :
         /\ calls'[d].kind = calls[d].kind /\ calls'[d].node = calls[d].node /\ calls'[d].card = calls[d].card
         /\ d # c => calls'[d] = calls[d]
    BY <1>2 DEF Serves
<1>14. y.host # None => /\ y.host \in Ids /\ y.host # n
                        /\ On(rows, y.host) /\ rows[y.host].host = None
    BY <1>3, <1>5, <1>8, Typings DEF SmoothInv, NotesFindHosts, IsSent
<1>15. RowHosts'
    <2>1. ASSUME NEW m \in Ids, On(rows', m), rows'[m].host # None
          PROVE  On(rows', rows'[m].host) /\ rows'[rows'[m].host].host = None
        <3>1. CASE m = n
            BY <1>6, <1>10, <1>14, <2>1, <3>1
        <3>2. CASE m # n
            BY <1>6, <1>8, <1>10, <2>1, <3>2, Typings DEF SmoothInv, RowHosts
        <3>3. QED
            BY <3>1, <3>2
    <2>2. QED
        BY <2>1 DEF RowHosts, On
<1>16. ScreenOnly'
    BY <1>2, <1>10 DEF SmoothInv, ScreenOnly, Orphan, Serves, On
<1>17. RowsOnly'
    <2>1. SUFFICES ASSUME NEW m \in Ids, On(rows, m)', ~On(screen, m)'
                   PROVE  \/ \E d \in DOMAIN calls' : IsSent(d)' /\ calls'[d].kind = "remove" /\ calls'[d].node = m
                          \/ \E d \in DOMAIN calls' : calls'[d].kind \in Creates /\ calls'[d].stage = "ok" /\ m = Made(d)
        BY DEF RowsOnly
    <2>2. CASE m = n
        BY <1>2, <1>3, <1>4, <2>2 DEF Serves
    <2>3. CASE m # n
        <3>1. On(rows, m) /\ ~On(screen, m)
            BY <1>2, <1>10, <2>1, <2>3 DEF Serves, On
        <3>2. CASE \E d \in DOMAIN calls : IsSent(d) /\ calls[d].kind = "remove" /\ calls[d].node = m
            BY <1>2, <1>11, <1>12, <1>13, <3>2 DEF Serves
        <3>3. CASE \E d \in DOMAIN calls : calls[d].kind \in Creates /\ calls[d].stage = "ok" /\ m = Made(d)
            BY <1>2, <1>3, <1>13, <3>3 DEF Serves
        <3>4. QED
            BY <3>1, <3>2, <3>3 DEF SmoothInv, RowsOnly
    <2>4. QED
        BY <2>2, <2>3
<1>18. SameHost'
    BY <1>2, <1>6, <1>8, <1>10 DEF SmoothInv, SameHost, Serves, On
<1>19. NotesFindHosts'
    <2>1. ASSUME NEW d \in DOMAIN calls, calls[d].kind \in Creates, IsSent(d), calls[d].card.host # None
          PROVE  /\ On(rows', calls[d].card.host) /\ rows'[calls[d].card.host].host = None
                 /\ \A e \in DOMAIN calls :
                      IsSent(e) /\ calls[e].kind = "remove" /\ calls[e].node = calls[d].card.host => e > d
        <3>1. calls[d].card.host \in Ids /\ calls[d].card.host # n
            BY <1>8, <2>1, Typings DEF IsSent
        <3>2. QED
            BY <1>6, <1>10, <2>1, <3>1 DEF SmoothInv, NotesFindHosts
    <2>2. QED
        BY <1>2, <1>11, <1>13, <2>1 DEF NotesFindHosts, Serves, On
<1>20. NewRows'
    <2>1. \A d \in DOMAIN calls : d # c => Made(d) # n
        BY <1>3, <1>4, NewIds, Typings
    <2>2. ASSUME NEW d \in DOMAIN calls, calls'[d].kind \in Creates, calls'[d].stage = "ok"
          PROVE  /\ On(rows', Made(d)) => rows'[Made(d)] = calls'[d].card
                 /\ ~On(rows', Made(d)) => calls'[d].card.host # None /\ ~On(screen', calls'[d].card.host)
        <3>1. CASE d = c
            BY <1>4, <1>5, <1>6, <1>10, <1>13, <3>1
        <3>2. CASE d # c
            BY <1>2, <1>6, <1>10, <1>13, <2>1, <2>2, <3>2, Typings DEF SmoothInv, NewRows, Serves
        <3>3. QED
            BY <3>1, <3>2
    <2>3. QED
        BY <1>2, <2>2 DEF NewRows, Serves, On
<1>21. AnswersMatch'
    <2>1. \A d \in DOMAIN calls : Outdated(d)' <=> Outdated(d)
        BY <1>2, <1>13 DEF Outdated, Serves
    <2>2. \A d \in DOMAIN calls : calls[d].kind \in {"detail", "price"} => d # c /\ calls[d].node \in Ids /\ calls[d].node # n
        BY <1>8, <1>12, Typings DEF Updates
    <2>3. QED
        BY <1>2, <1>6, <1>10, <1>13, <2>1, <2>2 DEF SmoothInv, AnswersMatch, Serves, On
<1>22. ASSUME NEW kinds \in Fields PROVE ServedShown(kinds)'
    <2>1. SUFFICES ASSUME NEW m \in Ids, On(screen, m)', On(rows, m)',
                          \A d \in DOMAIN calls' : ~Writing(d, kinds, m)'
                   PROVE  SameIn(kinds, rows'[m], screen'[m])
        BY DEF ServedShown, SameIn
    <2>2. On(screen, m) /\ screen' = screen /\ m # n
        BY <1>2, <1>8, <2>1 DEF Serves, On
    <2>3. On(rows, m) /\ rows'[m] = rows[m]
        BY <1>6, <1>10, <2>1, <2>2 DEF On
    <2>4. \A d \in DOMAIN calls : ~Writing(d, kinds, m)
        <3>1. ~Writing(c, kinds, m)
            BY <1>12, FieldsOfUpdates DEF Writing
        <3>2. QED
            BY <1>2, <1>11, <2>1, <3>1 DEF Serves
    <2>5. QED
        BY <2>2, <2>3, <2>4 DEF SmoothInv, ServedShown
<1>23. QED
    BY <1>11, <1>15, <1>16, <1>17, <1>18, <1>19, <1>20, <1>21, <1>22 DEF SmoothInv

LEMMA SmoothServeRemove ==
    ASSUME StoreInv, SmoothInv, Smooth', NEW c \in CallIds, ServeRemove(c)
    PROVE  SmoothInv'
<1>1. PICK y : y = ServedAnswer(c)
    OBVIOUS
<1>2. Serves(c, y)
    BY <1>1, ServeServes
<1>3. calls[c].kind = "remove" /\ c \in DOMAIN calls /\ calls[c].stage = "sent"
    BY <1>2 DEF ServeRemove, Serves, IsSent
<1>4. PICK n \in Ids : n = calls[c].node
    BY <1>3, Typings
<1>5. \A m \in Ids : rows'[m] = IF m = n \/ rows[m].host = n THEN Gone ELSE rows[m]
    BY <1>4 DEF ServeRemove
<1>6. \A m \in Ids : On(rows', m) <=> On(rows, m) /\ m # n /\ rows[m].host # n
    BY <1>5 DEF On
<1>7. ~On(screen, n)
    BY <1>3, <1>4 DEF SmoothInv, RemovedOff
<1>8. n # None
    BY <1>4, SeedsAssumption
<1>9. /\ InOrder' /\ AddedShown' /\ HostsKnown' /\ AskedKnown' /\ ScreenHosts' /\ RemovedOff' /\ SentHost'
      /\ \A kinds \in Fields : LastCarries(kinds)'
      /\ \A d \in DOMAIN calls : IsSent(d)' <=> IsSent(d) /\ d # c
      /\ \A kinds \in Fields, d \in DOMAIN calls, m \in Ids : Writing(d, kinds, m)' <=> Writing(d, kinds, m) /\ d # c
    BY <1>2, ServesKeeps
<1>10. calls[c].kind \notin Updates \cup Creates
    BY <1>3, KindsApart
<1>11. \A d \in DOMAIN calls :
         /\ calls'[d].kind = calls[d].kind /\ calls'[d].node = calls[d].node /\ calls'[d].card = calls[d].card
         /\ d # c => calls'[d] = calls[d]
    BY <1>2 DEF Serves
<1>12. RowHosts'
    <2>1. ASSUME NEW m \in Ids, On(rows', m), rows'[m].host # None
          PROVE  On(rows', rows'[m].host) /\ rows'[rows'[m].host].host = None
        <3>1. On(rows, m) /\ rows'[m] = rows[m] /\ rows[m].host # n
            BY <1>5, <1>6, <2>1
        <3>2. rows[m].host \in Ids /\ On(rows, rows[m].host) /\ rows[rows[m].host].host = None
            BY <2>1, <3>1, Typings DEF SmoothInv, RowHosts
        <3>3. QED
            BY <1>5, <1>6, <1>8, <3>1, <3>2
    <2>2. QED
        BY <2>1 DEF RowHosts, On
<1>13. ScreenOnly'
    <2>1. ASSUME NEW m \in Ids, On(screen, m), Known(m), ~On(rows', m) PROVE Orphan(screen, m)
        <3>1. CASE On(rows, m)
            BY <1>6, <1>7, <1>8, <2>1, <3>1 DEF SmoothInv, SameHost, Orphan
        <3>2. CASE ~On(rows, m)
            BY <2>1, <3>2 DEF SmoothInv, ScreenOnly
        <3>3. QED
            BY <3>1, <3>2
    <2>2. QED
        BY <1>2, <2>1 DEF ScreenOnly, Orphan, Serves, On
<1>14. RowsOnly'
    <2>1. SUFFICES ASSUME NEW m \in Ids, On(rows, m)', ~On(screen, m)'
                   PROVE  \/ \E d \in DOMAIN calls' : IsSent(d)' /\ calls'[d].kind = "remove" /\ calls'[d].node = m
                          \/ \E d \in DOMAIN calls' : calls'[d].kind \in Creates /\ calls'[d].stage = "ok" /\ m = Made(d)
        BY DEF RowsOnly
    <2>2. On(rows, m) /\ ~On(screen, m) /\ m # n
        BY <1>2, <1>6, <2>1 DEF Serves, On
    <2>3. QED
        BY <1>2, <1>4, <1>9, <1>10, <1>11, <2>2 DEF SmoothInv, RowsOnly, Serves
<1>15. SameHost'
    BY <1>2, <1>5, <1>6 DEF SmoothInv, SameHost, Serves, On
<1>16. NotesFindHosts'
    <2>1. ASSUME NEW d \in DOMAIN calls, d # c, calls[d].kind \in Creates, IsSent(d), calls[d].card.host # None
          PROVE  /\ On(rows', calls[d].card.host) /\ rows'[calls[d].card.host].host = None
                 /\ \A e \in DOMAIN calls :
                      IsSent(e) /\ calls[e].kind = "remove" /\ calls[e].node = calls[d].card.host => e > d
        <3>1. PICK h \in Ids : h = calls[d].card.host
            BY <2>1, Typings
        <3>2. /\ On(rows, h) /\ rows[h].host = None
              /\ \A e \in DOMAIN calls : IsSent(e) /\ calls[e].kind = "remove" /\ calls[e].node = h => e > d
            BY <2>1, <3>1 DEF SmoothInv, NotesFindHosts
        <3>3. h # n
            BY <1>2, <1>3, <1>4, <2>1, <3>2, Typings DEF Serves
        <3>4. QED
            BY <1>5, <1>6, <1>8, <3>1, <3>2, <3>3
    <2>2. QED
        BY <1>2, <1>9, <1>10, <1>11, <2>1 DEF NotesFindHosts, Serves, On
<1>17. NewRows'
    <2>1. ASSUME NEW d \in DOMAIN calls, d # c, calls[d].kind \in Creates, calls[d].stage = "ok"
          PROVE  /\ On(rows', Made(d)) => rows'[Made(d)] = calls[d].card
                 /\ ~On(rows', Made(d)) => calls[d].card.host # None /\ ~On(screen, calls[d].card.host)
        <3>1. PICK m \in Ids : m = Made(d)
            BY Typings
        <3>2. m # n
            <4>1. ~Used(m)
                BY <2>1, <3>1, Typings DEF StoreInv, IdsInv
            <4>2. Used(n)
                BY <1>3, <1>4 DEF Used
            <4>3. QED
                BY <4>1, <4>2
        <3>3. /\ On(rows, m) => rows[m] = calls[d].card
              /\ ~On(rows, m) => calls[d].card.host # None /\ ~On(screen, calls[d].card.host)
            BY <2>1, <3>1 DEF SmoothInv, NewRows
        <3>4. QED
            BY <1>5, <1>6, <1>7, <1>8, <3>1, <3>2, <3>3
    <2>2. QED
        BY <1>2, <1>10, <1>11, <2>1 DEF NewRows, Serves, On
<1>18. AnswersMatch'
    <2>1. \A d \in DOMAIN calls : Outdated(d)' <=> Outdated(d)
        BY <1>2, <1>11 DEF Outdated, Serves
    <2>2. \A d \in DOMAIN calls : calls[d].kind \in {"detail", "price"} => d # c /\ calls[d].node \in Ids
        BY <1>10, Typings DEF Updates
    <2>3. QED
        BY <1>2, <1>5, <1>6, <1>11, <2>1, <2>2 DEF SmoothInv, AnswersMatch, Serves, On
<1>19. ASSUME NEW kinds \in Fields PROVE ServedShown(kinds)'
    <2>1. SUFFICES ASSUME NEW m \in Ids, On(screen, m)', On(rows, m)',
                          \A d \in DOMAIN calls' : ~Writing(d, kinds, m)'
                   PROVE  SameIn(kinds, rows'[m], screen'[m])
        BY DEF ServedShown, SameIn
    <2>2. On(screen, m) /\ screen' = screen
        BY <1>2, <2>1 DEF Serves, On
    <2>3. On(rows, m) /\ rows'[m] = rows[m]
        BY <1>5, <1>6, <2>1, <2>2 DEF On
    <2>4. \A d \in DOMAIN calls : ~Writing(d, kinds, m)
        <3>1. ~Writing(c, kinds, m)
            BY <1>10, FieldsOfUpdates DEF Writing
        <3>2. QED
            BY <1>2, <1>9, <2>1, <3>1 DEF Serves
    <2>5. QED
        BY <2>2, <2>3, <2>4 DEF SmoothInv, ServedShown
<1>20. QED
    BY <1>9, <1>12, <1>13, <1>14, <1>15, <1>16, <1>17, <1>18, <1>19 DEF SmoothInv

\* The lock is nothing to the cards.
LEMMA SmoothReplies ==
    ASSUME StoreInv, SmoothInv, Smooth', NEW c \in CallIds, NEW stage \in Stages, Replies(c, stage)
    PROVE  SmoothInv'
<1>1. /\ c \in DOMAIN calls /\ rows' = rows /\ screen' = screen
      /\ DOMAIN calls' = DOMAIN calls
      /\ \A d \in DOMAIN calls : d # c => calls'[d] = calls[d]
      /\ calls'[c].stage \in {"ok", "refused", "already_locked"} /\ calls'[c].answer = Gone
      /\ calls'[c].stage # "refused" => calls[c].kind \in Locks
      /\ calls'[c].kind = calls[c].kind /\ calls'[c].node = calls[c].node
      /\ calls'[c].card = calls[c].card
    BY RepliesTyped DEF StoreInv
<1>2. calls'[c].stage = "ok" /\ calls[c].kind \in Locks
    BY <1>1 DEF Smooth, Doomed
<1>3. \A d \in 1..c - 1 : ~Sent(d)
    BY DEF Replies, Reply, Smooth
<1>4. IsSent(c) /\ \A d \in DOMAIN calls : d < c => ~IsSent(d)
    BY <1>3, NewIds, Typings DEF CallIds, Sent, IsSent, Replies
<1>5. Serves(c, Gone)
    BY <1>1, <1>2, <1>4 DEF Serves
<1>6. /\ InOrder' /\ AddedShown' /\ HostsKnown' /\ AskedKnown' /\ ScreenHosts' /\ RemovedOff' /\ SentHost'
      /\ \A kinds \in Fields : LastCarries(kinds)'
      /\ \A d \in DOMAIN calls : IsSent(d)' <=> IsSent(d) /\ d # c
      /\ \A kinds \in Fields, d \in DOMAIN calls, m \in Ids : Writing(d, kinds, m)' <=> Writing(d, kinds, m) /\ d # c
    BY <1>5, ServesKeeps
<1>7. calls[c].kind \notin Updates \cup Creates \cup {"remove"}
    BY <1>2, KindsApart
<1>8. \A d \in DOMAIN calls :
        /\ calls'[d].kind = calls[d].kind /\ calls'[d].node = calls[d].node /\ calls'[d].card = calls[d].card
        /\ d # c => calls'[d] = calls[d]
    BY <1>1
<1>9. RowHosts' /\ ScreenOnly' /\ SameHost'
    BY <1>1 DEF SmoothInv, RowHosts, ScreenOnly, SameHost, Orphan, On
<1>10. RowsOnly'
    BY <1>1, <1>6, <1>7, <1>8 DEF SmoothInv, RowsOnly, On
<1>11. NotesFindHosts'
    BY <1>1, <1>6, <1>8 DEF SmoothInv, NotesFindHosts, On
<1>12. NewRows'
    BY <1>1, <1>7, <1>8 DEF SmoothInv, NewRows, On
<1>13. AnswersMatch'
    <2>1. \A d \in DOMAIN calls : Outdated(d)' <=> Outdated(d)
        BY <1>1, <1>8 DEF Outdated
    <2>2. QED
        BY <1>1, <1>7, <1>8, <2>1 DEF SmoothInv, AnswersMatch, On, Updates
<1>14. ASSUME NEW kinds \in Fields PROVE ServedShown(kinds)'
    <2>1. SUFFICES ASSUME NEW m \in Ids, On(screen, m)', On(rows, m)',
                          \A d \in DOMAIN calls' : ~Writing(d, kinds, m)'
                   PROVE  SameIn(kinds, rows'[m], screen'[m])
        BY DEF ServedShown, SameIn
    <2>2. On(screen, m) /\ On(rows, m)
        BY <1>1, <2>1 DEF On
    <2>3. ~Writing(c, kinds, m)
        BY <1>7, FieldsOfUpdates DEF Writing
    <2>4. \A d \in DOMAIN calls : ~Writing(d, kinds, m)
        BY <1>1, <1>6, <2>1, <2>3
    <2>5. QED
        BY <1>1, <2>2, <2>4 DEF SmoothInv, ServedShown
<1>15. QED
    BY <1>6, <1>9, <1>10, <1>11, <1>12, <1>13, <1>14 DEF SmoothInv

-----------------------------------------------------------------------------
(* A smooth page takes in the answer of a request that was accepted.       *)

Takes(c) ==
    /\ c \in DOMAIN calls /\ calls[c].stage = "ok" /\ screen' = IfOk(c)
    /\ DOMAIN calls' = DOMAIN calls /\ rows' = rows
    /\ \A d \in DOMAIN calls : d # c => calls'[d] = calls[d]
    /\ calls'[c].stage = "done" /\ calls'[c].kind = calls[c].kind /\ calls'[c].node = calls[c].node

LEMMA AnswersTake ==
    ASSUME StoreInv, Smooth', NEW c, Answers(c)
    PROVE  Takes(c) /\ (calls[c].kind \in {"detail", "price"} => ~Outdated(c))
<1>1. IsOk(c)
    BY DEF Answers, Smooth
<1>2. Takes(c)
    BY <1>1, AnswersTyped DEF StoreInv, Takes, IsOk, Answers
<1>3. QED
    BY <1>1, <1>2 DEF Answers, Smooth

\* What does not depend on the screen.
LEMMA TakesKeeps ==
    ASSUME StoreInv, SmoothInv, NEW c, Takes(c)
    PROVE  /\ InOrder' /\ AskedKnown' /\ RowHosts' /\ NotesFindHosts'
           /\ \A d \in DOMAIN calls : IsSent(d)' <=> IsSent(d)
           /\ \A d \in DOMAIN calls : IsSent(d) => d # c
           /\ \A d \in DOMAIN calls : Outdated(d)' <=> Outdated(d)
           /\ \A kinds \in Fields, d \in DOMAIN calls, m \in Ids : Writing(d, kinds, m)' <=> Writing(d, kinds, m)
<1>1. \A d \in DOMAIN calls : (IsSent(d)' <=> IsSent(d)) /\ (IsSent(d) => d # c)
    BY DEF Takes, IsSent
<1>2. \A d \in DOMAIN calls :
        calls'[d].kind = calls[d].kind /\ calls'[d].node = calls[d].node /\ (d # c => calls'[d] = calls[d])
    BY DEF Takes
<1>3. InOrder' /\ AskedKnown' /\ RowHosts'
    BY <1>1, <1>2 DEF SmoothInv, InOrder, AskedKnown, RowHosts, Takes, On
<1>4. NotesFindHosts'
    BY <1>1, <1>2 DEF SmoothInv, NotesFindHosts, Takes, On
<1>5. \A d \in DOMAIN calls : Outdated(d)' <=> Outdated(d)
    BY <1>2 DEF Outdated, Takes
<1>6. \A kinds \in Fields, d \in DOMAIN calls, m \in Ids : Writing(d, kinds, m)' <=> Writing(d, kinds, m)
    BY <1>1, <1>2 DEF Writing, Takes
<1>7. QED
    BY <1>1, <1>3, <1>4, <1>5, <1>6

\* An answer that adds no card: what it changes on the screen is a note nobody sees.
LEMMA SmoothTakesOld ==
    ASSUME StoreInv, SmoothInv, NEW c \in CallIds, Takes(c), calls[c].kind \notin Creates,
           calls[c].kind \in {"detail", "price"} => ~Outdated(c)
    PROVE  SmoothInv'
<1>1. /\ InOrder' /\ AskedKnown' /\ RowHosts' /\ NotesFindHosts'
      /\ \A d \in DOMAIN calls : IsSent(d)' <=> IsSent(d)
      /\ \A d \in DOMAIN calls : IsSent(d) => d # c
      /\ \A d \in DOMAIN calls : Outdated(d)' <=> Outdated(d)
      /\ \A kinds \in Fields, d \in DOMAIN calls, m \in Ids : Writing(d, kinds, m)' <=> Writing(d, kinds, m)
    BY TakesKeeps
<1>2. /\ c \in DOMAIN calls /\ calls[c].stage = "ok" /\ DOMAIN calls' = DOMAIN calls /\ rows' = rows
      /\ \A d \in DOMAIN calls :
           calls'[d].kind = calls[d].kind /\ calls'[d].node = calls[d].node /\ (d # c => calls'[d] = calls[d])
      /\ calls'[c].stage = "done"
    BY DEF Takes
<1>3. \A m \in Ids : \/ screen'[m] = screen[m]
                     \/ /\ On(screen', m) /\ On(screen, m) /\ screen'[m].host = screen[m].host
                        /\ ~On(rows, m) /\ Known(m)
                        /\ \A d \in DOMAIN calls : calls[d].node = m => ~IsSent(d)
    <2>1. CASE calls[c].kind \in {"detail", "price"} /\ On(screen, calls[c].node)
        <3>1. PICK y : y = calls[c].answer
            OBVIOUS
        <3>2. PICK n \in Ids : n = calls[c].node
            BY <1>2, <2>1, Typings DEF Updates
        <3>3. screen' = [screen EXCEPT ![n] = y]
            BY <2>1, <3>1, <3>2 DEF Takes, IfOk, Adopted
        <3>4. \A m \in Ids : screen'[m] = IF m = n THEN y ELSE screen[m]
            BY <3>3, Typings DEF Nodes
        <3>5. y \in Live
            <4>1. PICK x \in Requests : x = calls[c]
                BY <1>2 DEF StoreInv, StoreType
            <4>2. QED
                BY <1>2, <2>1, <3>1, <4>1 DEF Requests, Updates
        <3>6. y.host = screen[n].host /\ (On(rows, n) => y = rows[n])
            BY <1>2, <2>1, <3>1, <3>2 DEF SmoothInv, AnswersMatch
        <3>7. \A d \in DOMAIN calls : calls[d].node = n => ~IsSent(d)
            <4>1. TAKE d \in DOMAIN calls
            <4>2. SUFFICES ASSUME calls[d].node = n, IsSent(d) PROVE FALSE
                OBVIOUS
            <4>3. ~(d > c)
                BY <2>1, <3>2, <4>2 DEF Outdated
            <4>4. ~(d < c)
                BY <1>2, <4>2 DEF SmoothInv, InOrder, IsSent
            <4>5. QED
                BY <1>1, <1>2, <4>2, <4>3, <4>4, Typings
        <3>8. Known(n)
            BY <1>2, <2>1, <3>2 DEF SmoothInv, AskedKnown, Updates
        <3>9. CASE On(rows, n)
            <4>1. ASSUME NEW kinds \in Fields PROVE SameIn(kinds, rows[n], screen[n])
                <5>1. \A d \in DOMAIN calls : ~Writing(d, kinds, n)
                    BY <3>7 DEF Writing
                <5>2. ServedShown(kinds)
                    BY DEF SmoothInv
                <5>3. QED
                    BY <2>1, <3>2, <3>9, <5>1, <5>2 DEF ServedShown
            <4>2. rows[n] \in Live /\ screen[n] \in Live
                BY <2>1, <3>2, <3>9, Typings DEF On
            <4>3. rows[n] = screen[n]
                BY <3>6, <3>9, <4>1, <4>2, AllSame
            <4>4. QED
                BY <3>4, <3>6, <3>9, <4>3
        <3>10. CASE ~On(rows, n)
            BY <2>1, <3>2, <3>4, <3>5, <3>6, <3>7, <3>8, <3>10, GoneApart DEF On
        <3>11. QED
            BY <3>9, <3>10
    <2>2. CASE ~(calls[c].kind \in {"detail", "price"} /\ On(screen, calls[c].node))
        <3>1. screen' = screen
            BY <2>2 DEF Takes, IfOk, Adopted, Creates
        <3>2. QED
            BY <3>1
    <2>3. QED
        BY <2>1, <2>2
<1>4. \A m \in Ids : (On(screen', m) <=> On(screen, m)) /\ screen'[m].host = screen[m].host
    BY <1>3 DEF On
<1>5. AddedShown'
    <2>1. \A d \in CallIds : Tmp(d) \in Ids /\ ~Known(Tmp(d))
        BY NewIds DEF Known
    <2>2. \A d \in CallIds : screen'[Tmp(d)] = screen[Tmp(d)]
        BY <1>3, <2>1
    <2>3. calls[c].kind # "add"
        BY DEF Creates
    <2>4. QED
        BY <1>2, <2>2, <2>3 DEF SmoothInv, AddedShown, On
<1>6. HostsKnown' /\ ScreenHosts'
    BY <1>4, Typings DEF SmoothInv, HostsKnown, ScreenHosts, HostIsCard, On
<1>7. RemovedOff'
    BY <1>2, <1>4, Typings DEF SmoothInv, RemovedOff, On
<1>8. ScreenOnly' /\ SameHost'
    BY <1>2, <1>4, Typings DEF SmoothInv, ScreenOnly, SameHost, Orphan, On
<1>9. RowsOnly'
    BY <1>1, <1>2, <1>4 DEF SmoothInv, RowsOnly, On
<1>10. NewRows'
    BY <1>2, <1>4, Typings DEF SmoothInv, NewRows, On
<1>11. SentHost'
    BY <1>1, <1>2, <1>4, Typings DEF SmoothInv, SentHost, On
<1>12. AnswersMatch'
    BY <1>1, <1>2, <1>4, Typings DEF SmoothInv, AnswersMatch, On, Updates
<1>13. ASSUME NEW kinds \in Fields PROVE LastCarries(kinds)' /\ ServedShown(kinds)'
    <2>1. LastCarries(kinds) /\ ServedShown(kinds)
        BY DEF SmoothInv
    <2>2. LastCarries(kinds)'
        <3>1. SUFFICES ASSUME NEW m \in Ids, NEW d \in DOMAIN calls', On(screen, m)', Writing(d, kinds, m)'
                       PROVE  SameIn(kinds, calls'[d].card, screen'[m])
                                \/ \E e \in DOMAIN calls' : e > d /\ Writing(e, kinds, m)'
            BY DEF LastCarries, SameIn
        <3>2. d \in DOMAIN calls /\ Writing(d, kinds, m) /\ On(screen, m) /\ IsSent(d) /\ calls[d].node = m
            BY <1>1, <1>2, <1>4, <3>1 DEF On, Writing
        <3>3. screen'[m] = screen[m] /\ calls'[d] = calls[d]
            BY <1>1, <1>2, <1>3, <3>2
        <3>4. SameIn(kinds, calls[d].card, screen[m]) \/ \E e \in DOMAIN calls : e > d /\ Writing(e, kinds, m)
            BY <2>1, <3>2 DEF LastCarries
        <3>5. QED
            BY <1>1, <1>2, <3>3, <3>4
    <2>3. ServedShown(kinds)'
        <3>1. SUFFICES ASSUME NEW m \in Ids, On(screen, m)', On(rows, m)',
                              \A d \in DOMAIN calls' : ~Writing(d, kinds, m)'
                       PROVE  SameIn(kinds, rows'[m], screen'[m])
            BY DEF ServedShown, SameIn
        <3>2. On(rows, m) /\ rows' = rows /\ On(screen, m)
            BY <1>2, <1>4, <3>1 DEF On
        <3>3. screen'[m] = screen[m]
            BY <1>3, <3>2
        <3>4. \A d \in DOMAIN calls : ~Writing(d, kinds, m)
            BY <1>1, <1>2, <3>1
        <3>5. QED
            BY <2>1, <3>2, <3>3, <3>4 DEF ServedShown
    <2>4. QED
        BY <2>2, <2>3
<1>14. QED
    BY <1>1, <1>5, <1>6, <1>7, <1>8, <1>9, <1>10, <1>11, <1>12, <1>13 DEF SmoothInv

\* The answer with a new card: it stands where its made-up id did, or is new on the screen.
LEMMA SmoothTakesNew ==
    ASSUME StoreInv, SmoothInv, NEW c \in CallIds, Takes(c), calls[c].kind \in Creates
    PROVE  SmoothInv'
<1>1. /\ InOrder' /\ AskedKnown' /\ RowHosts' /\ NotesFindHosts'
      /\ \A d \in DOMAIN calls : IsSent(d)' <=> IsSent(d)
      /\ \A d \in DOMAIN calls : IsSent(d) => d # c
      /\ \A d \in DOMAIN calls : Outdated(d)' <=> Outdated(d)
      /\ \A kinds \in Fields, d \in DOMAIN calls, m \in Ids : Writing(d, kinds, m)' <=> Writing(d, kinds, m)
    BY TakesKeeps
<1>2. /\ c \in DOMAIN calls /\ calls[c].stage = "ok" /\ DOMAIN calls' = DOMAIN calls /\ rows' = rows
      /\ \A d \in DOMAIN calls :
           calls'[d].kind = calls[d].kind /\ calls'[d].node = calls[d].node /\ (d # c => calls'[d] = calls[d])
      /\ calls'[c].stage = "done"
    BY DEF Takes
<1>3. PICK card \in Live : card = calls[c].card /\ card = calls[c].answer
    BY <1>2, Typings
<1>4. PICK t \in Ids, n \in Ids : t = Tmp(c) /\ n = Made(c) /\ t # n /\ ~Known(t) /\ Known(n)
    BY NewIds DEF Known
<1>5. /\ calls[c].kind = "add" => On(screen, t) /\ screen[t] = card
      /\ calls[c].kind # "add" => ~On(screen, t) /\ card.host = None
    BY <1>2, <1>3, <1>4, Typings DEF SmoothInv, AddedShown, Creates
<1>6. \A m \in Ids : screen'[m] = IF m = n THEN card ELSE IF m = t THEN Gone ELSE screen[m]
    <2>1. CASE calls[c].kind = "add"
        <3>1. screen' = [screen EXCEPT ![t] = Gone, ![n] = card]
            BY <1>3, <1>4, <1>5, <2>1 DEF Takes, IfOk
        <3>2. QED
            BY <1>4, <3>1, Typings DEF Nodes
    <2>2. CASE calls[c].kind \in {"link", "found"}
        <3>1. screen' = [screen EXCEPT ![n] = card]
            BY <1>3, <1>4, <2>2 DEF Takes, IfOk
        <3>2. screen[t] = Gone
            BY <1>5, <2>2 DEF On
        <3>3. QED
            BY <3>1, <3>2, Typings DEF Nodes
    <2>3. QED
        BY <2>1, <2>2 DEF Creates
<1>7. ~Used(n)
    BY <1>2, <1>4 DEF StoreInv, IdsInv
<1>8. /\ ~On(screen, n) /\ \A m \in Ids : On(screen, m) => screen[m].host # n
      /\ \A d \in DOMAIN calls : calls[d].card \in Live => calls[d].card.host # n
      /\ \A d \in DOMAIN calls : calls[d].kind \in Updates \cup {"remove"} => calls[d].node # n
    BY <1>7 DEF Used, Names
<1>9. \A m \in Ids : On(screen', m) <=> m = n \/ (On(screen, m) /\ m # t)
    BY <1>4, <1>6, GoneApart DEF On
<1>10. card.host # None => /\ card.host \in Ids /\ Known(card.host) /\ card.host # n /\ card.host # t
                           /\ On(screen, card.host) => screen[card.host].host = None
    <2>1. card.host # None => On(screen, t) /\ screen[t] = card
        BY <1>5, Typings, <1>2 DEF Creates
    <2>2. QED
        BY <1>3, <1>4, <1>8, <2>1, Typings, <1>2 DEF SmoothInv, HostsKnown, ScreenHosts, HostIsCard
<1>11. AddedShown'
    <2>1. \A d \in CallIds : Tmp(d) \in Ids /\ Tmp(d) # n /\ (Tmp(d) = t <=> d = c)
        BY <1>4, NewIds
    <2>2. ASSUME NEW d \in CallIds
          PROVE  /\ d \in DOMAIN calls' /\ calls'[d].kind = "add" /\ calls'[d].stage # "done" =>
                      On(screen', Tmp(d)) /\ screen'[Tmp(d)] = calls'[d].card
                 /\ On(screen', Tmp(d)) => d \in DOMAIN calls' /\ calls'[d].kind = "add" /\ calls'[d].stage # "done"
        <3>1. CASE d = c
            BY <1>2, <1>9, <2>1, <3>1
        <3>2. CASE d # c
            BY <1>2, <1>6, <1>9, <2>1, <3>2 DEF SmoothInv, AddedShown
        <3>3. QED
            BY <3>1, <3>2
    <2>3. QED
        BY <2>2 DEF AddedShown, On
<1>12. HostsKnown'
    BY <1>4, <1>6, <1>9, <1>10 DEF SmoothInv, HostsKnown, On
<1>13. ScreenHosts'
    <2>1. ASSUME NEW m \in Ids, On(screen', m), screen'[m].host # None, On(screen', screen'[m].host)
          PROVE  screen'[screen'[m].host].host = None
        <3>1. CASE m = n
            BY <1>6, <1>9, <1>10, <2>1, <3>1
        <3>2. CASE m # n
            <4>1. On(screen, m) /\ screen'[m] = screen[m]
                BY <1>6, <1>9, <2>1, <3>2
            <4>2. PICK h \in Ids : h = screen[m].host
                BY <2>1, <4>1, Typings
            <4>3. h # n /\ h # t /\ On(screen, h)
                BY <1>4, <1>8, <1>9, <2>1, <4>1, <4>2 DEF SmoothInv, HostsKnown
            <4>4. screen[h].host = None
                BY <2>1, <4>1, <4>2, <4>3 DEF SmoothInv, ScreenHosts, HostIsCard
            <4>5. QED
                BY <1>6, <4>1, <4>2, <4>3, <4>4
        <3>3. QED
            BY <3>1, <3>2
    <2>2. QED
        BY <2>1 DEF ScreenHosts, HostIsCard, On
<1>14. RemovedOff'
    BY <1>2, <1>8, <1>9, Typings DEF SmoothInv, RemovedOff, On
<1>15. ScreenOnly'
    <2>1. ASSUME NEW m \in Ids, On(screen', m), Known(m), ~On(rows, m)
          PROVE  screen'[m].host # None /\ ~On(screen', screen'[m].host)
        <3>1. CASE m = n
            <4>1. card.host # None /\ ~On(screen, card.host)
                BY <1>2, <1>3, <1>4, <2>1, <3>1 DEF SmoothInv, NewRows
            <4>2. QED
                BY <1>6, <1>9, <1>10, <3>1, <4>1
        <3>2. CASE m # n
            <4>1. On(screen, m) /\ screen'[m] = screen[m]
                BY <1>6, <1>9, <2>1, <3>2
            <4>2. screen[m].host # None /\ ~On(screen, screen[m].host)
                BY <2>1, <4>1 DEF SmoothInv, ScreenOnly, Orphan
            <4>3. screen[m].host \in Ids /\ screen[m].host # n
                BY <1>8, <4>1, <4>2, Typings
            <4>4. QED
                BY <1>9, <4>1, <4>2, <4>3
        <3>3. QED
            BY <3>1, <3>2
    <2>2. QED
        BY <1>2, <2>1 DEF ScreenOnly, Orphan, On
<1>16. RowsOnly'
    <2>1. SUFFICES ASSUME NEW m \in Ids, On(rows, m)', ~On(screen, m)'
                   PROVE  \/ \E d \in DOMAIN calls' : IsSent(d)' /\ calls'[d].kind = "remove" /\ calls'[d].node = m
                          \/ \E d \in DOMAIN calls' : calls'[d].kind \in Creates /\ calls'[d].stage = "ok" /\ m = Made(d)
        BY DEF RowsOnly
    <2>2. On(rows, m) /\ ~On(screen', m)
        BY <1>2, <2>1 DEF On
    <2>3. m # n /\ m # t /\ ~On(screen, m)
        BY <1>4, <1>9, <2>2, RowsKnown
    <2>4. CASE \E d \in DOMAIN calls : IsSent(d) /\ calls[d].kind = "remove" /\ calls[d].node = m
        BY <1>1, <1>2, <2>4
    <2>5. CASE \E d \in DOMAIN calls : calls[d].kind \in Creates /\ calls[d].stage = "ok" /\ m = Made(d)
        BY <1>2, <1>4, <2>3, <2>5
    <2>6. QED
        BY <2>2, <2>3, <2>4, <2>5 DEF SmoothInv, RowsOnly
<1>17. SameHost'
    <2>1. On(rows, n) => rows[n] = card
        BY <1>2, <1>3, <1>4 DEF SmoothInv, NewRows
    <2>2. QED
        BY <1>2, <1>6, <1>9, <2>1 DEF SmoothInv, SameHost, On
<1>18. NewRows'
    <2>1. ASSUME NEW d \in DOMAIN calls, d # c, calls[d].kind \in Creates, calls[d].stage = "ok"
          PROVE  /\ On(rows, Made(d)) => rows[Made(d)] = calls[d].card
                 /\ ~On(rows, Made(d)) => calls[d].card.host # None /\ ~On(screen', calls[d].card.host)
        <3>1. calls[d].card.host # n /\ calls[d].card.host \in Ids \cup {None}
            BY <1>8, <2>1, Typings
        <3>2. QED
            BY <1>9, <2>1, <3>1 DEF SmoothInv, NewRows
    <2>2. QED
        BY <1>2, <2>1 DEF NewRows, On
<1>19. \A d \in DOMAIN calls : calls[d].kind \in Updates =>
         calls[d].node \in Ids /\ calls[d].node # n /\ d # c
    BY <1>8, KindsApart, Typings
<1>20. SentHost'
    BY <1>1, <1>2, <1>6, <1>9, <1>19 DEF SmoothInv, SentHost, On
<1>21. AnswersMatch'
    BY <1>1, <1>2, <1>6, <1>9, <1>19 DEF SmoothInv, AnswersMatch, On, Updates
<1>22. ASSUME NEW kinds \in Fields PROVE LastCarries(kinds)' /\ ServedShown(kinds)'
    <2>1. LastCarries(kinds) /\ ServedShown(kinds)
        BY DEF SmoothInv
    <2>2. LastCarries(kinds)'
        <3>1. SUFFICES ASSUME NEW m \in Ids, NEW d \in DOMAIN calls', On(screen, m)', Writing(d, kinds, m)'
                       PROVE  SameIn(kinds, calls'[d].card, screen'[m])
                                \/ \E e \in DOMAIN calls' : e > d /\ Writing(e, kinds, m)'
            BY DEF LastCarries, SameIn
        <3>2. d \in DOMAIN calls /\ Writing(d, kinds, m) /\ calls[d].node = m /\ calls[d].kind \in Updates
            BY <1>1, <1>2, <3>1, FieldsOfUpdates DEF Writing
        <3>3. On(screen, m) /\ screen'[m] = screen[m] /\ calls'[d] = calls[d]
            BY <1>2, <1>6, <1>9, <1>19, <3>1, <3>2 DEF On
        <3>4. SameIn(kinds, calls[d].card, screen[m]) \/ \E e \in DOMAIN calls : e > d /\ Writing(e, kinds, m)
            BY <2>1, <3>2, <3>3 DEF LastCarries
        <3>5. QED
            BY <1>1, <1>2, <3>3, <3>4
    <2>3. ServedShown(kinds)'
        <3>1. SUFFICES ASSUME NEW m \in Ids, On(screen, m)', On(rows, m)',
                              \A d \in DOMAIN calls' : ~Writing(d, kinds, m)'
                       PROVE  SameIn(kinds, rows'[m], screen'[m])
            BY DEF ServedShown, SameIn
        <3>2. On(rows, m) /\ rows' = rows /\ On(screen', m)
            BY <1>2, <3>1 DEF On
        <3>3. CASE m = n
            <4>1. rows[m] = card
                BY <1>2, <1>3, <1>4, <3>2, <3>3 DEF SmoothInv, NewRows
            <4>2. QED
                BY <1>6, <3>2, <3>3, <4>1, SameRefl
        <3>4. CASE m # n
            <4>1. On(screen, m) /\ screen'[m] = screen[m]
                BY <1>6, <1>9, <3>2, <3>4
            <4>2. \A d \in DOMAIN calls : ~Writing(d, kinds, m)
                BY <1>1, <1>2, <3>1
            <4>3. QED
                BY <2>1, <3>2, <4>1, <4>2 DEF ServedShown
        <3>5. QED
            BY <3>3, <3>4
    <2>4. QED
        BY <2>2, <2>3
<1>23. QED
    BY <1>1, <1>11, <1>12, <1>13, <1>14, <1>15, <1>16, <1>17, <1>18, <1>20, <1>21, <1>22 DEF SmoothInv

-----------------------------------------------------------------------------
(* A page that is smooth stays so only through these steps.                *)

LEMMA SmoothInit == ASSUME Init PROVE SmoothInv
<1>1. calls = <<>> /\ rows = screen /\ DOMAIN calls = {}
    BY DEF Init
<1>2. \A n \in Ids : On(screen, n) => n \in Seeds /\ screen[n].host = None
    BY DEF Init, On, Seed
<1>3. InOrder /\ AskedKnown /\ RemovedOff /\ NotesFindHosts /\ NewRows /\ SentHost /\ AnswersMatch
    BY <1>1 DEF InOrder, AskedKnown, RemovedOff, NotesFindHosts, NewRows, SentHost, AnswersMatch
<1>4. AddedShown
    BY <1>1, <1>2, NewIds DEF AddedShown
<1>5. HostsKnown /\ ScreenHosts /\ RowHosts /\ ScreenOnly /\ RowsOnly /\ SameHost
    BY <1>1, <1>2 DEF HostsKnown, ScreenHosts, HostIsCard, RowHosts, ScreenOnly, RowsOnly, SameHost
<1>6. ASSUME NEW kinds \in Fields PROVE LastCarries(kinds) /\ ServedShown(kinds)
    BY <1>1, SameRefl DEF LastCarries, ServedShown
<1>7. QED
    BY <1>3, <1>4, <1>5, <1>6 DEF SmoothInv

LEMMA SmoothStutter == ASSUME SmoothInv, UNCHANGED <<screen, rows, calls, mishaps>> PROVE SmoothInv'
<1>1. InOrder' /\ AddedShown' /\ AskedKnown' /\ RemovedOff'
    BY DEF SmoothInv, InOrder, AddedShown, AskedKnown, RemovedOff, IsSent, On
<1>2. HostsKnown' /\ ScreenHosts' /\ RowHosts' /\ ScreenOnly' /\ SameHost'
    BY DEF SmoothInv, HostsKnown, ScreenHosts, HostIsCard, RowHosts, ScreenOnly, Orphan, SameHost, On
<1>3. RowsOnly' /\ NotesFindHosts' /\ NewRows'
    BY DEF SmoothInv, RowsOnly, NotesFindHosts, NewRows, IsSent, On
<1>4. SentHost' /\ AnswersMatch'
    BY DEF SmoothInv, SentHost, AnswersMatch, Outdated, IsSent, On
<1>5. ASSUME NEW kinds \in Fields PROVE LastCarries(kinds)' /\ ServedShown(kinds)'
    BY DEF SmoothInv, LastCarries, ServedShown, Writing, IsSent, On, SameIn
<1>6. QED
    BY <1>1, <1>2, <1>3, <1>4, <1>5 DEF SmoothInv

\* A page that is smooth after a step was so before it: a doomed request leaves by being refused.
LEMMA SmoothBefore == ASSUME StoreInv, [Next]_vars, Smooth' PROVE Smooth
<1>1. ASSUME NEW kind, NEW n, NEW card, NEW also, Joins(kind, n, card), Send(Call(kind, n, card), also) PROVE Smooth
    BY <1>1 DEF Smooth, Doomed, IsSent, Joins, Send
<1>2. CASE UNCHANGED <<screen, rows, calls, mishaps>>
    BY <1>2 DEF Smooth, Doomed, IsSent
<1>3. ASSUME NEW kind \in Updates, NEW n \in Ids, NEW v \in Nat, EditsCard(kind, n, v) PROVE Smooth
    BY <1>1, <1>3, EditsTyped, SendJoins, KindsApart DEF StoreInv, Updates
<1>4. ASSUME NEW n \in Ids, RemovesCard(n) PROVE Smooth
    BY <1>1, <1>4, SendJoins, KindsApart DEF RemovesCard, Optimistic, Kinds, Creates
<1>5. ASSUME NEW card \in Live, AddsCard(card) PROVE Smooth
    <2>1. Tmp(NextCall) \in Ids /\ Send(Call("add", Tmp(NextCall), card), {})
        BY <1>5, NewIds DEF AddsCard, Optimistic
    <2>2. QED
        BY <1>1, <2>1, SendJoins, KindsApart DEF Kinds, Creates
<1>6. ASSUME NEW kind \in Kinds, NEW card \in Live \cup {Gone}, NEW also, Asks(kind, card, also) PROVE Smooth
    <2>1. /\ Send(Call(kind, None, card), also) /\ card.host = None
          /\ kind \notin Updates \cup {"remove"} /\ (kind \in Creates => card \in Live)
        BY <1>6, GoneApart DEF Asks, Updates, Creates, Locks
    <2>2. QED
        BY <1>1, <2>1, SendJoins
<1>7. ASSUME NEW n \in Ids, NEW v \in Nat, DropsUnsent(n, v) PROVE FALSE
    BY <1>7 DEF DropsUnsent, Smooth
<1>8. ASSUME NEW c \in CallIds, ServeUpdate(c) \/ ServeCreate(c) \/ ServeRemove(c) PROVE Smooth
    <2>1. /\ c \in DOMAIN calls /\ calls[c].stage = "sent" /\ mishaps \subseteq mishaps'
          /\ DOMAIN calls' = DOMAIN calls /\ \A d \in DOMAIN calls : d # c => calls'[d] = calls[d]
        BY <1>8, ServeTyped DEF StoreInv
    <2>2. ~Doomed(c)
        BY <1>8, <2>1, KindsApart
           DEF ServeUpdate, ServeCreate, ServeRemove, Doomed, IsSent, Updates, Creates
    <2>3. QED
        BY <2>1, <2>2 DEF Smooth, Doomed, IsSent
<1>9. ASSUME NEW c, Lose(c) PROVE FALSE
    BY <1>9 DEF Lose, Smooth
<1>10. ASSUME NEW c \in CallIds, NEW stage \in Stages, Replies(c, stage) PROVE Smooth
    <2>1. /\ c \in DOMAIN calls /\ mishaps \subseteq mishaps' /\ calls[c].stage = "sent"
          /\ DOMAIN calls' = DOMAIN calls /\ \A d \in DOMAIN calls : d # c => calls'[d] = calls[d]
          /\ calls'[c].stage \in {"ok", "refused", "already_locked"}
          /\ calls'[c].stage # "refused" => calls[c].kind \in Locks
        BY <1>10, RepliesTyped DEF StoreInv, Replies, Sent
    <2>2. ~Doomed(c)
        BY <2>1, KindsApart DEF Smooth, Doomed, IsSent
    <2>3. QED
        BY <2>1, <2>2 DEF Smooth, Doomed, IsSent
<1>11. ASSUME NEW c \in CallIds, Answers(c) PROVE Smooth
    <2>1. Takes(c) /\ mishaps \subseteq mishaps'
        BY <1>11, AnswersTake DEF Answers
    <2>2. ~Doomed(c)
        BY <2>1 DEF Doomed, IsSent, Takes
    <2>3. QED
        BY <2>1, <2>2 DEF Smooth, Doomed, IsSent, Takes
<1>12. QED
    BY NextSteps, <1>2, <1>3, <1>4, <1>5, <1>6, <1>7, <1>8, <1>9, <1>10, <1>11 DEF Steps, StoreInv

LEMMA SmoothStep == ASSUME StoreInv, SmoothInv, [Next]_vars, Smooth' PROVE SmoothInv'
<1>1. ASSUME NEW n \in Ids, NEW v \in Nat, DropsUnsent(n, v) PROVE FALSE
    BY <1>1 DEF DropsUnsent, Smooth
<1>2. ASSUME NEW c, Lose(c) PROVE FALSE
    BY <1>2 DEF Lose, Smooth
<1>3. ASSUME NEW c \in CallIds, Answers(c) PROVE SmoothInv'
    BY <1>3, AnswersTake, SmoothTakesOld, SmoothTakesNew
<1>4. QED
    BY NextSteps, <1>1, <1>2, <1>3, SmoothStutter, SmoothEdit, SmoothRemove, SmoothAdd, SmoothAsk,
       SmoothServeUpdate, SmoothServeCreate, SmoothServeRemove, SmoothReplies
       DEF Steps, StoreInv

LEMMA SmoothInvariant == Spec => [](StoreInv /\ SmoothPage)
<1>1. Init => SmoothPage
    BY SmoothInit DEF SmoothPage
<1>2. StoreInv /\ SmoothPage /\ [Next]_vars => SmoothPage'
    BY SmoothBefore, SmoothStep DEF SmoothPage
<1>3. QED
    BY <1>1, <1>2, StoreInvariant, PTL DEF Spec

\* At rest a smooth page draws the cards the service has, as it has them.
LEMMA SmoothRests == ASSUME StoreInv, SmoothInv, InFlight = {} PROVE ScreenShowsRows
<1>1. \A d \in DOMAIN calls : calls[d].stage = "done"
    BY DEF InFlight
<1>2. ASSUME NEW n \in Ids, On(screen, n) PROVE Known(n)
    <2>1. ASSUME NEW c \in CallIds, n = Tmp(c) PROVE FALSE
        BY <1>1, <1>2, <2>1 DEF SmoothInv, AddedShown
    <2>2. QED
        BY <2>1 DEF Ids, Known
<1>3. ASSUME NEW n \in Ids, On(rows, n) PROVE On(screen, n)
    BY <1>1, <1>3 DEF SmoothInv, RowsOnly, IsSent
<1>4. ASSUME NEW n \in Ids, On(screen, n), On(rows, n) PROVE rows[n] = screen[n]
    <2>1. ASSUME NEW kinds \in Fields PROVE SameIn(kinds, rows[n], screen[n])
        <3>1. \A d \in DOMAIN calls : ~Writing(d, kinds, n)
            BY <1>1 DEF Writing, IsSent
        <3>2. QED
            BY <1>4, <3>1 DEF SmoothInv, ServedShown
    <2>2. rows[n] \in Live /\ screen[n] \in Live /\ rows[n].host = screen[n].host
        BY <1>4, Typings DEF On, SmoothInv, SameHost
    <2>3. QED
        BY <2>1, <2>2, AllSame
<1>5. ASSUME NEW n \in Ids, Drawn(screen, n) PROVE Drawn(rows, n) /\ On(rows, n)
    <2>1. On(screen, n) /\ Known(n) /\ ~Orphan(screen, n)
        BY <1>2, <1>5 DEF Drawn, Orphan
    <2>2. On(rows, n)
        BY <2>1 DEF SmoothInv, ScreenOnly
    <2>3. QED
        BY <2>2 DEF Drawn, SmoothInv, RowHosts
<1>6. ASSUME NEW n \in Ids, Drawn(rows, n) PROVE Drawn(screen, n)
    BY <1>3, <1>4, <1>6, Typings DEF Drawn
<1>7. ASSUME NEW n \in Ids, Drawn(screen, n) PROVE SameCard(screen[n], rows[n])
    BY <1>4, <1>5, <1>7 DEF Drawn, SameCard
<1>8. QED
    BY <1>5, <1>6, <1>7 DEF ScreenShowsRows

-----------------------------------------------------------------------------
(* A page that makes one edit at a time, some of which are refused.        *)

\* The screen shows the rows, and nothing else but notes without their card.
Shows(nodes) ==
    \A n \in Ids :
        /\ On(nodes, n) => Known(n)
        /\ On(rows, n) =>
             /\ nodes[n] = rows[n]
             /\ rows[n].host # None => On(rows, rows[n].host) /\ rows[rows[n].host].host = None
        /\ On(nodes, n) /\ ~On(rows, n) => Orphan(nodes, n)

\* What a request that was sent did to the screen.
SentEdit(c) ==
    LET n == calls[c].node  card == calls[c].card  old == IfRefused(c) IN
    /\ calls[c].kind \in Updates \cup {"remove"} => On(old, n)
    /\ calls[c].kind \in Updates =>
         /\ screen = [old EXCEPT ![n] = card]
         /\ card.host = old[n].host
         /\ \A kinds \in Fields : calls[c].kind \notin kinds => SameIn(kinds, card, old[n])
    /\ calls[c].kind = "remove" => screen = [old EXCEPT ![n] = Gone]
    /\ calls[c].kind = "add" =>
         /\ screen[Tmp(c)] = card
         /\ card.host # None => On(old, card.host) /\ old[card.host].host = None

\* Only the last request is in flight.  A screen to put back shows the rows, and so does the one an
\* answer of the service leads to.
SerialInv ==
    /\ \A c, d \in DOMAIN calls : calls[c].stage # "done" => d <= c
    /\ InFlight = {} => Shows(screen)
    /\ \A c \in InFlight : ~IsOk(c) => Shows(IfRefused(c))
    /\ \A c \in InFlight : IsOk(c) => Shows(IfOk(c))
    /\ \A c \in InFlight : IsSent(c) => SentEdit(c)

Serial == mishaps \subseteq {"refused"}
SerialPage == Serial => SerialInv

LEMMA SerialInit == ASSUME Init PROVE SerialInv
<1>1. calls = <<>> /\ rows = screen /\ DOMAIN calls = {}
    BY DEF Init
<1>2. \A n \in Ids : On(screen, n) => n \in Seeds /\ screen[n].host = None
    BY DEF Init, On, Seed
<1>3. Shows(screen)
    BY <1>1, <1>2 DEF Shows, Known
<1>4. QED
    BY <1>1, <1>3 DEF SerialInv, InFlight

LEMMA SerialStutter == ASSUME SerialInv, UNCHANGED <<screen, rows, calls, mishaps>> PROVE SerialInv'
<1>1. InFlight' = InFlight /\ DOMAIN calls' = DOMAIN calls
    BY DEF InFlight
<1>2. ASSUME NEW c \in InFlight
      PROVE  /\ (IsOk(c)' <=> IsOk(c)) /\ (IsSent(c)' <=> IsSent(c))
             /\ IfOk(c)' = IfOk(c) /\ IfRefused(c)' = IfRefused(c) /\ calls' = calls /\ screen' = screen
    BY DEF IsOk, IsSent, IfOk, IfRefused, Adopted, On
<1>3. ASSUME NEW nodes, Shows(nodes) PROVE Shows(nodes)'
    BY <1>3 DEF Shows, On, Orphan
<1>4. InFlight' = {} => Shows(screen)'
    BY <1>1 DEF SerialInv, Shows, On, Orphan
<1>5. ASSUME NEW c \in InFlight
      PROVE  /\ ~IsOk(c)' => Shows(IfRefused(c))'
             /\ IsOk(c)' => Shows(IfOk(c))'
             /\ IsSent(c)' => SentEdit(c)'
    <2>1. PICK old, new : old = IfRefused(c) /\ new = IfOk(c)
        OBVIOUS
    <2>2. ~IsOk(c)' => Shows(old)'
        BY <1>2, <1>3, <2>1 DEF SerialInv
    <2>3. IsOk(c)' => Shows(new)'
        BY <1>2, <1>3, <2>1 DEF SerialInv
    <2>4. IfRefused(c)' = old /\ IfOk(c)' = new
        BY <1>2, <2>1
    <2>5. ~IsOk(c)' => Shows(IfRefused(c))'
        BY <2>2, <2>4 DEF Shows, On, Orphan
    <2>6. IsOk(c)' => Shows(IfOk(c))'
        BY <2>3, <2>4 DEF Shows, On, Orphan
    <2>7. IsSent(c)' => SentEdit(c)'
        BY <1>2, <2>1, <2>4 DEF SerialInv, SentEdit, On, SameIn
    <2>8. QED
        BY <2>5, <2>6, <2>7
<1>6. QED
    BY <1>1, <1>2, <1>4, <1>5 DEF SerialInv

\* A request that is sent when no other is in flight.
LEMMA SerialSend ==
    ASSUME StoreInv, SerialInv, Serial', NEW kind \in Kinds, NEW n \in Ids \cup {None}, NEW card \in Live \cup {Gone}, NEW also,
           kind \in Updates \cup {"remove"} => n \in Ids /\ On(screen, n),
           kind \in Updates \cup Creates => card \in Live, kind \in {"link", "found"} => card.host = None,
           kind \in Updates \cup {"remove", "add"} => screen' = [screen EXCEPT ![n] = card],
           kind \notin Updates \cup {"remove", "add"} => screen' = screen,
           kind \in Updates => /\ card.host = screen[n].host
                               /\ \A kinds \in Fields : kind \notin kinds => SameIn(kinds, card, screen[n]),
           kind = "remove" => card = Gone,
           kind = "add" => n = Tmp(NextCall) /\ HostReady(card),
           Send(Call(kind, n, card), also)
    PROVE  SerialInv'
<1>1. InFlight = {}
    BY DEF Send, Serial
<1>2. Joins(kind, n, card)
    BY SendJoins
<1>3. PICK q \in CallIds : q = NextCall
    BY <1>2 DEF Joins
<1>4. /\ DOMAIN calls' = DOMAIN calls \cup {q} /\ q \notin DOMAIN calls /\ q \in Nat
      /\ \A d \in DOMAIN calls : calls'[d] = calls[d] /\ d < q
      /\ calls'[q].kind = kind /\ calls'[q].node = n /\ calls'[q].card = card
      /\ calls'[q].stage = "sent" /\ rows' = rows
    BY <1>2, <1>3 DEF Joins
<1>5. \A d \in DOMAIN calls : calls[d].stage = "done" /\ d \in Nat
    BY <1>1, Typings DEF InFlight
<1>6. InFlight' = {q}
    BY <1>4, <1>5 DEF InFlight
<1>7. PICK old \in Nodes : old = screen
    BY Typings
<1>8. Shows(old)'
    BY <1>1, <1>4, <1>7 DEF SerialInv, Shows, On, Orphan
<1>9. IfRefused(q)' = old
    <2>1. calls'[q].snap = IF kind \in BySnapshot THEN screen ELSE Empty
        <3>1. calls'[NextCall] = Call(kind, n, card)
            BY SendTyped DEF StoreInv
        <3>2. QED
            BY <1>3, <3>1, CallTyped DEF StoreInv
    <2>2. CASE kind \in BySnapshot
        BY <1>4, <1>7, <2>1, <2>2 DEF IfRefused, BySnapshot
    <2>3. CASE kind = "add"
        <3>1. PICK t \in Ids : t = Tmp(q) /\ n = t
            BY <1>3, <2>3, NewIds
        <3>2. ~Known(t)
            BY <1>3, <3>1, NewIds DEF Known
        <3>3. old[t] = Gone
            BY <1>1, <1>7, <3>2 DEF SerialInv, Shows, On
        <3>4. IfRefused(q)' = [screen' EXCEPT ![t] = Gone]
            BY <1>4, <2>3, <3>1 DEF IfRefused, BySnapshot
        <3>5. screen' = [old EXCEPT ![t] = card]
            BY <1>7, <2>3, <3>1
        <3>6. QED
            BY <1>7, <3>3, <3>4, <3>5 DEF Nodes
    <2>4. CASE kind \notin BySnapshot \cup {"add"}
        <3>1. screen' = screen
            BY <2>4 DEF BySnapshot, Updates
        <3>2. QED
            BY <1>4, <1>7, <2>4, <3>1 DEF IfRefused
    <2>5. QED
        BY <2>2, <2>3, <2>4
<1>10. Shows(IfRefused(q))'
    BY <1>8, <1>9 DEF Shows, On, Orphan
<1>11. SentEdit(q)'
    <2>1. kind \in Updates \cup {"remove"} => On(old, n)
        BY <1>7
    <2>2. kind \in Updates => /\ screen' = [old EXCEPT ![n] = card] /\ card.host = old[n].host
                              /\ \A kinds \in Fields : kind \notin kinds => SameIn(kinds, card, old[n])
        BY <1>7
    <2>3. kind = "remove" => screen' = [old EXCEPT ![n] = Gone]
        BY <1>7
    <2>4. kind = "add" => screen'[Tmp(q)] = card /\ (card.host # None => On(old, card.host) /\ old[card.host].host = None)
        BY <1>3, <1>7, NewIds DEF Nodes, HostReady
    <2>5. QED
        BY <1>4, <1>9, <2>1, <2>2, <2>3, <2>4 DEF SentEdit, On, SameIn
<1>12. QED
    <2>1. IsSent(q)' /\ ~IsOk(q)'
        BY <1>4 DEF IsSent, IsOk
    <2>2. \A c, d \in DOMAIN calls' : calls'[c].stage # "done" => d <= c
        BY <1>4, <1>5
    <2>3. QED
        BY <1>6, <1>10, <1>11, <2>1, <2>2 DEF SerialInv

\* The request in flight is the only one.
LEMMA Alone ==
    ASSUME StoreInv, SerialInv, NEW c \in DOMAIN calls, calls[c].stage # "done", NEW d \in DOMAIN calls, d # c
    PROVE  calls[d].stage = "done"
BY Typings DEF SerialInv

\* Its answer is known: the screen it leads to shows the rows.
LEMMA SerialServed ==
    ASSUME StoreInv, SerialInv, NEW c \in DOMAIN calls, calls[c].stage # "done", DOMAIN calls' = DOMAIN calls,
           \A d \in DOMAIN calls : d # c => calls'[d] = calls[d],
           calls'[c].stage = "ok", NEW new, IfOk(c)' = new, Shows(new)'
    PROVE  SerialInv'
<1>1. InFlight' = {c}
    BY Alone DEF InFlight
<1>2. IsOk(c)' /\ ~IsSent(c)'
    BY DEF IsOk, IsSent
<1>3. Shows(IfOk(c))'
    BY DEF Shows, On, Orphan
<1>4. \A d, e \in DOMAIN calls' : calls'[d].stage # "done" => e <= d
    BY DEF SerialInv
<1>5. QED
    BY <1>1, <1>2, <1>3, <1>4 DEF SerialInv

LEMMA SerialServeUpdate ==
    ASSUME StoreInv, SerialInv, NEW c \in CallIds, ServeUpdate(c)
    PROVE  SerialInv'
<1>1. /\ c \in DOMAIN calls /\ calls[c].stage = "sent"
      /\ screen' = screen /\ DOMAIN calls' = DOMAIN calls
      /\ \A d \in DOMAIN calls : d # c => calls'[d] = calls[d]
      /\ calls'[c].stage = "ok" /\ calls'[c].answer = ServedAnswer(c)
      /\ calls'[c].kind = calls[c].kind /\ calls'[c].node = calls[c].node
    BY ServeTyped DEF StoreInv
<1>2. calls[c].kind \in Updates
    BY DEF ServeUpdate, Updates
<1>3. PICK n \in Ids : n = calls[c].node /\ Known(n)
    BY <1>1, <1>2, Typings DEF ServeUpdate
<1>4. PICK card \in Live : card = calls[c].card
    BY <1>1, <1>2, Typings
<1>5. c \in InFlight /\ IsSent(c) /\ ~IsOk(c)
    BY <1>1 DEF InFlight, IsSent, IsOk
<1>6. PICK old \in Nodes : old = IfRefused(c)
    <2>1. IfRefused(c) \in Nodes
        <3>1. PICK x \in Requests : x = calls[c]
            BY <1>1 DEF StoreInv, StoreType
        <3>2. IfRefused(c) = x.snap
            BY <1>2, <3>1 DEF IfRefused, BySnapshot, Updates
        <3>3. QED
            BY <3>1, <3>2 DEF Requests
    <2>2. QED
        BY <2>1
<1>7. Shows(old)
    BY <1>5, <1>6 DEF SerialInv
<1>8. /\ On(old, n) /\ screen = [old EXCEPT ![n] = card] /\ card.host = old[n].host
      /\ \A kinds \in Fields : calls[c].kind \notin kinds => SameIn(kinds, card, old[n])
    BY <1>2, <1>3, <1>4, <1>5, <1>6 DEF SerialInv, SentEdit
<1>9. PICK y : y = Patched(calls[c])
    OBVIOUS
<1>10. y = card
    <2>1. CASE On(rows, n)
        <3>1. y \in Live /\ y.host = rows[n].host /\ old[n] = rows[n]
            BY <1>1, <1>2, <1>3, <1>7, <1>9, <2>1, PatchedLive DEF StoreInv, Shows
        <3>2. ASSUME NEW kinds \in Fields PROVE SameIn(kinds, y, card)
            <4>1. CASE calls[c].kind \in kinds
                BY <1>1, <1>2, <1>3, <1>4, <1>9, <2>1, <4>1, PatchedFields DEF StoreInv
            <4>2. CASE calls[c].kind \notin kinds
                <5>1. SameIn(kinds, y, rows[n])
                    BY <1>1, <1>2, <1>3, <1>9, <2>1, <4>2, PatchedFields DEF StoreInv
                <5>2. SameIn(kinds, rows[n], card)
                    BY <1>8, <3>1, <4>2, SameSym
                <5>3. QED
                    BY <5>1, <5>2, SameTrans
            <4>3. QED
                BY <4>1, <4>2
        <3>3. QED
            BY <1>8, <3>1, <3>2, AllSame
    <2>2. CASE ~On(rows, n)
        BY <1>1, <1>2, <1>3, <1>4, <1>9, <2>2, PatchedLive DEF StoreInv
    <2>3. QED
        BY <2>1, <2>2
<1>11. \A m \in Ids : rows'[m] = IF m = n /\ On(rows, n) THEN card ELSE rows[m]
    BY <1>3, <1>9, <1>10, Typings DEF ServeUpdate, Nodes
<1>12. PICK new \in Nodes : new = screen
    BY Typings
<1>13. \A m \in Ids : new[m] = IF m = n THEN card ELSE old[m]
    BY <1>8, <1>12 DEF Nodes
<1>14. \A m \in Ids : (On(rows', m) <=> On(rows, m)) /\ (On(new, m) <=> On(old, m)) /\ new[m].host = old[m].host
    BY <1>8, <1>11, <1>13, GoneApart DEF On
<1>15. \A m \in Ids : On(rows, m) => rows'[m].host = rows[m].host /\ rows[m].host \in Ids \cup {None}
    BY <1>7, <1>8, <1>11, Typings DEF Shows
<1>16. Shows(new)'
    <2>1. ASSUME NEW m \in Ids
          PROVE  /\ On(new, m) => Known(m)
                 /\ On(rows', m) =>
                      /\ new[m] = rows'[m]
                      /\ rows'[m].host # None => On(rows', rows'[m].host) /\ rows'[rows'[m].host].host = None
                 /\ On(new, m) /\ ~On(rows', m) => new[m].host # None /\ ~On(new, new[m].host)
        <3>1. On(new, m) => Known(m)
            BY <1>7, <1>14 DEF Shows
        <3>2. ASSUME On(rows', m)
              PROVE  /\ new[m] = rows'[m]
                     /\ rows'[m].host # None => On(rows', rows'[m].host) /\ rows'[rows'[m].host].host = None
            <4>1. On(rows, m) /\ rows'[m].host = rows[m].host /\ rows[m].host \in Ids \cup {None}
                BY <1>14, <1>15, <3>2
            <4>2. new[m] = rows'[m]
                BY <1>7, <1>11, <1>13, <4>1 DEF Shows
            <4>3. rows[m].host # None => On(rows, rows[m].host) /\ rows[rows[m].host].host = None
                BY <1>7, <4>1 DEF Shows
            <4>4. QED
                BY <1>14, <1>15, <4>1, <4>2, <4>3
        <3>3. ASSUME On(new, m), ~On(rows', m) PROVE new[m].host # None /\ ~On(new, new[m].host)
            <4>1. On(old, m) /\ ~On(rows, m) /\ new[m].host = old[m].host
                BY <1>14, <3>3
            <4>2. old[m].host # None /\ ~On(old, old[m].host)
                BY <1>7, <4>1 DEF Shows, Orphan
            <4>3. old[m].host \in Ids
                BY <4>1, <4>2 DEF Nodes, Live, On
            <4>4. QED
                BY <1>14, <4>1, <4>2, <4>3
        <3>4. QED
            BY <3>1, <3>2, <3>3
    <2>2. QED
        BY <2>1 DEF Shows, Orphan, On
<1>17. IfOk(c)' = new
    <2>1. calls'[c].answer = card /\ calls'[c].node = n
        BY <1>1, <1>2, <1>3, <1>9, <1>10 DEF ServedAnswer
    <2>2. new = [new EXCEPT ![n] = card]
        BY <1>13 DEF Nodes
    <2>3. CASE calls[c].kind \in {"detail", "price"}
        BY <1>1, <1>12, <2>1, <2>2, <2>3 DEF IfOk, Adopted
    <2>4. CASE calls[c].kind \notin {"detail", "price"}
        BY <1>1, <1>2, <1>12, <2>4 DEF IfOk, Updates
    <2>5. QED
        BY <2>3, <2>4
<1>18. QED
    BY <1>1, <1>16, <1>17, SerialServed

LEMMA SerialServeCreate ==
    ASSUME StoreInv, SerialInv, NEW c \in CallIds, ServeCreate(c)
    PROVE  SerialInv'
<1>1. /\ c \in DOMAIN calls /\ calls[c].stage = "sent"
      /\ screen' = screen /\ DOMAIN calls' = DOMAIN calls
      /\ \A d \in DOMAIN calls : d # c => calls'[d] = calls[d]
      /\ calls'[c].stage = "ok" /\ calls'[c].answer = ServedAnswer(c)
      /\ calls'[c].kind = calls[c].kind /\ calls'[c].node = calls[c].node
    BY ServeTyped DEF StoreInv
<1>2. calls[c].kind \in Creates
    BY DEF ServeCreate, Creates
<1>3. PICK n \in Ids, t \in Ids : n = Made(c) /\ Known(n) /\ t = Tmp(c) /\ ~Known(t) /\ t # n
    BY NewIds DEF Known
<1>4. PICK card \in Live : card = calls[c].card /\ card = calls'[c].answer
    <2>1. calls[c].card \in Live /\ ServedAnswer(c) = calls[c].card
        BY <1>1, <1>2, KindsApart, Typings DEF ServedAnswer
    <2>2. QED
        BY <1>1, <2>1
<1>5. c \in InFlight /\ IsSent(c) /\ ~IsOk(c)
    BY <1>1 DEF InFlight, IsSent, IsOk
<1>6. PICK old : old = IfRefused(c)
    OBVIOUS
<1>7. Shows(old)
    BY <1>5, <1>6 DEF SerialInv
<1>8. /\ old \in Nodes
      /\ \A m \in Ids : m # t => old[m] = screen[m]
      /\ ~On(old, t)
      /\ calls[c].kind = "add" => screen[t] = card
      /\ calls[c].kind # "add" => screen[t] = old[t]
      /\ card.host # None => card.host \in Ids /\ On(old, card.host) /\ old[card.host].host = None
    <2>1. CASE calls[c].kind = "add"
        <3>1. old = [screen EXCEPT ![t] = Gone]
            BY <1>3, <1>6, <2>1 DEF IfRefused, BySnapshot
        <3>2. screen[t] = card /\ (card.host # None => On(old, card.host) /\ old[card.host].host = None)
            BY <1>3, <1>4, <1>5, <1>6, <2>1 DEF SerialInv, SentEdit
        <3>3. old \in Nodes /\ ~On(old, t) /\ \A m \in Ids : m # t => old[m] = screen[m]
            BY <3>1, Typings DEF Nodes, On
        <3>4. QED
            BY <1>4, <2>1, <3>2, <3>3 DEF Live
    <2>2. CASE calls[c].kind \in {"link", "found"}
        <3>1. old = screen
            BY <1>6, <2>2 DEF IfRefused, BySnapshot
        <3>2. card.host = None
            BY <1>1, <1>4, <2>2, Typings
        <3>3. ~On(old, t)
            BY <1>3, <1>7 DEF Shows
        <3>4. QED
            BY <2>2, <3>1, <3>2, <3>3, Typings
    <2>3. QED
        BY <1>2, <2>1, <2>2 DEF Creates
<1>9. PICK new : new = IfOk(c)'
    OBVIOUS
<1>10. \A m \in Ids : new[m] = IF m = n THEN card ELSE old[m]
    <2>1. CASE calls[c].kind = "add"
        <3>1. On(screen', t)
            BY <1>1, <1>8, <2>1, GoneApart DEF On
        <3>2. new = [screen EXCEPT ![t] = Gone, ![n] = card]
            BY <1>1, <1>3, <1>4, <1>9, <2>1, <3>1 DEF IfOk, On
        <3>3. QED
            BY <1>3, <1>8, <3>2, Typings DEF Nodes, On
    <2>2. CASE calls[c].kind \in {"link", "found"}
        <3>1. new = [screen EXCEPT ![n] = card]
            BY <1>1, <1>3, <1>4, <1>9, <2>2 DEF IfOk
        <3>2. \A m \in Ids : old[m] = screen[m]
            BY <1>8, <2>2
        <3>3. QED
            BY <3>1, <3>2, Typings DEF Nodes
    <2>3. QED
        BY <1>2, <2>1, <2>2 DEF Creates
<1>11. \A m \in Ids : rows'[m] = IF m = n THEN card ELSE rows[m]
    BY <1>3, <1>4, Typings DEF ServeCreate, Nodes
<1>12. ~Used(n) /\ ~On(rows, n)
    BY <1>1, <1>3, NewIds, Typings DEF StoreInv, IdsInv, RowsInv
<1>13. /\ \A m \in Ids : On(old, m) => old[m].host # n /\ m # n
       /\ \A m \in Ids : On(rows, m) => rows[m].host # n
    <2>1. \A m \in Ids : On(screen, m) => screen[m].host # n /\ m # n
        BY <1>12 DEF Used, Names
    <2>2. QED
        BY <1>8, <1>12, <2>1 DEF Used, On
<1>14. \A m \in Ids : (On(rows', m) <=> On(rows, m) \/ m = n) /\ (On(new, m) <=> On(old, m) \/ m = n)
    BY <1>10, <1>11, GoneApart DEF On
<1>15. card.host # None => /\ card.host \in Ids /\ card.host # n /\ On(rows, card.host) /\ rows[card.host].host = None
    BY <1>7, <1>8, <1>13 DEF Shows, Orphan
<1>16. Shows(new)'
    <2>1. ASSUME NEW m \in Ids
          PROVE  /\ On(new, m) => Known(m)
                 /\ On(rows', m) =>
                      /\ new[m] = rows'[m]
                      /\ rows'[m].host # None => On(rows', rows'[m].host) /\ rows'[rows'[m].host].host = None
                 /\ On(new, m) /\ ~On(rows', m) => new[m].host # None /\ ~On(new, new[m].host)
        <3>1. CASE m = n
            BY <1>3, <1>10, <1>11, <1>14, <1>15, <3>1
        <3>2. CASE m # n
            <4>1. new[m] = old[m] /\ rows'[m] = rows[m] /\ (On(new, m) <=> On(old, m)) /\ (On(rows', m) <=> On(rows, m))
                BY <1>10, <1>11, <1>14, <3>2
            <4>2. /\ On(old, m) => Known(m) /\ old[m].host # n
                  /\ On(rows, m) => /\ old[m] = rows[m] /\ rows[m].host # n
                                    /\ rows[m].host # None => On(rows, rows[m].host) /\ rows[rows[m].host].host = None
                  /\ On(old, m) /\ ~On(rows, m) => old[m].host # None /\ ~On(old, old[m].host)
                BY <1>7, <1>13 DEF Shows, Orphan
            <4>3. old[m].host \in Ids \cup {None} /\ rows[m].host \in Ids \cup {None}
                BY <1>8, GoneApart, Typings DEF Nodes, Live
            <4>4. On(rows, m) => (rows[m].host # None => On(rows', rows[m].host) /\ rows'[rows[m].host].host = None)
                BY <1>11, <1>14, <4>2, <4>3
            <4>5. On(old, m) /\ ~On(rows, m) => old[m].host # None /\ ~On(new, old[m].host)
                BY <1>14, <4>2, <4>3
            <4>6. QED
                BY <4>1, <4>2, <4>4, <4>5
        <3>3. QED
            BY <3>1, <3>2
    <2>2. QED
        BY <2>1 DEF Shows, Orphan, On
<1>17. QED
    BY <1>1, <1>9, <1>16, SerialServed

LEMMA SerialServeRemove ==
    ASSUME StoreInv, SerialInv, NEW c \in CallIds, ServeRemove(c)
    PROVE  SerialInv'
<1>1. /\ c \in DOMAIN calls /\ calls[c].stage = "sent"
      /\ screen' = screen /\ DOMAIN calls' = DOMAIN calls
      /\ \A d \in DOMAIN calls : d # c => calls'[d] = calls[d]
      /\ calls'[c].stage = "ok" /\ calls'[c].kind = calls[c].kind
    BY ServeTyped DEF StoreInv
<1>2. calls[c].kind = "remove"
    BY DEF ServeRemove
<1>3. PICK n \in Ids : n = calls[c].node /\ n # None
    BY <1>1, <1>2, Typings, SeedsAssumption
<1>4. c \in InFlight /\ IsSent(c) /\ ~IsOk(c)
    BY <1>1 DEF InFlight, IsSent, IsOk
<1>5. PICK old \in Nodes : old = IfRefused(c)
    <2>1. IfRefused(c) \in Nodes
        <3>1. PICK x \in Requests : x = calls[c]
            BY <1>1 DEF StoreInv, StoreType
        <3>2. IfRefused(c) = x.snap
            BY <1>2, <3>1 DEF IfRefused, BySnapshot
        <3>3. QED
            BY <3>1, <3>2 DEF Requests
    <2>2. QED
        BY <2>1
<1>6. Shows(old)
    BY <1>4, <1>5 DEF SerialInv
<1>7. On(old, n) /\ screen = [old EXCEPT ![n] = Gone]
    BY <1>2, <1>3, <1>4, <1>5 DEF SerialInv, SentEdit
<1>8. PICK new \in Nodes : new = screen
    BY Typings
<1>9. \A m \in Ids : new[m] = IF m = n THEN Gone ELSE old[m]
    BY <1>7, <1>8 DEF Nodes
<1>10. \A m \in Ids : rows'[m] = IF m = n \/ rows[m].host = n THEN Gone ELSE rows[m]
    BY <1>3 DEF ServeRemove
<1>11. \A m \in Ids : /\ On(rows', m) <=> On(rows, m) /\ m # n /\ rows[m].host # n
                      /\ On(new, m) <=> On(old, m) /\ m # n
    BY <1>9, <1>10 DEF On
<1>12. Shows(new)'
    <2>1. ASSUME NEW m \in Ids
          PROVE  /\ On(new, m) => Known(m)
                 /\ On(rows', m) =>
                      /\ new[m] = rows'[m]
                      /\ rows'[m].host # None => On(rows', rows'[m].host) /\ rows'[rows'[m].host].host = None
                 /\ On(new, m) /\ ~On(rows', m) => new[m].host # None /\ ~On(new, new[m].host)
        <3>1. On(new, m) => Known(m)
            BY <1>6, <1>11 DEF Shows
        <3>2. ASSUME On(rows', m)
              PROVE  /\ new[m] = rows'[m]
                     /\ rows'[m].host # None => On(rows', rows'[m].host) /\ rows'[rows'[m].host].host = None
            <4>1. On(rows, m) /\ m # n /\ rows[m].host # n /\ rows'[m] = rows[m]
                BY <1>10, <1>11, <3>2
            <4>2. new[m] = rows'[m]
                BY <1>6, <1>9, <4>1 DEF Shows
            <4>3. rows[m].host # None => rows[m].host \in Ids /\ On(rows, rows[m].host) /\ rows[rows[m].host].host = None
                BY <1>6, <4>1, Typings DEF Shows
            <4>4. QED
                BY <1>3, <1>10, <1>11, <4>1, <4>2, <4>3
        <3>3. ASSUME On(new, m), ~On(rows', m) PROVE new[m].host # None /\ ~On(new, new[m].host)
            <4>1. On(old, m) /\ m # n /\ new[m] = old[m]
                BY <1>9, <1>11, <3>3
            <4>2. CASE On(rows, m)
                <5>1. new[m].host = n
                    BY <1>6, <1>11, <3>3, <4>1, <4>2 DEF Shows
                <5>2. QED
                    BY <1>3, <1>11, <5>1
            <4>3. CASE ~On(rows, m)
                <5>1. old[m].host # None /\ ~On(old, old[m].host)
                    BY <1>6, <4>1, <4>3 DEF Shows, Orphan
                <5>2. old[m].host \in Ids
                    BY <4>1, <5>1 DEF Nodes, Live, On
                <5>3. QED
                    BY <1>11, <4>1, <5>1, <5>2
            <4>4. QED
                BY <4>2, <4>3
        <3>4. QED
            BY <3>1, <3>2, <3>3
    <2>2. QED
        BY <2>1 DEF Shows, Orphan, On
<1>13. IfOk(c)' = new
    BY <1>1, <1>2, <1>8 DEF IfOk
<1>14. QED
    BY <1>1, <1>12, <1>13, SerialServed

LEMMA SerialReplies ==
    ASSUME StoreInv, SerialInv, NEW c \in CallIds, NEW stage \in Stages, Replies(c, stage)
    PROVE  SerialInv'
<1>1. /\ c \in DOMAIN calls /\ rows' = rows /\ screen' = screen
      /\ DOMAIN calls' = DOMAIN calls
      /\ \A d \in DOMAIN calls : d # c => calls'[d] = calls[d]
      /\ calls'[c].stage \in {"ok", "refused", "already_locked"}
      /\ calls'[c].stage # "refused" => calls[c].kind \in Locks
      /\ calls'[c].kind = calls[c].kind /\ calls'[c].snap = calls[c].snap
    BY RepliesTyped DEF StoreInv
<1>2. calls[c].stage = "sent"
    BY DEF Replies, Sent
<1>3. c \in InFlight /\ ~IsOk(c)
    BY <1>1, <1>2 DEF InFlight, IsOk
<1>4. PICK old : old = IfRefused(c)
    OBVIOUS
<1>5. Shows(old)
    BY <1>3, <1>4 DEF SerialInv
<1>6. Shows(old)'
    BY <1>1, <1>5 DEF Shows, On, Orphan
<1>7. CASE calls'[c].stage = "ok"
    <2>1. calls[c].kind \in Locks
        BY <1>1, <1>7
    <2>2. IfOk(c)' = old
        BY <1>1, <1>4, <2>1 DEF IfOk, IfRefused, BySnapshot, Locks
    <2>3. QED
        BY <1>1, <1>2, <1>6, <1>7, <2>2, SerialServed
<1>8. CASE calls'[c].stage # "ok"
    <2>1. IfRefused(c)' = old
        <3>1. CASE calls[c].kind \in BySnapshot
            BY <1>1, <1>4, <3>1 DEF IfRefused, BySnapshot
        <3>2. CASE calls[c].kind = "add"
            BY <1>1, <1>4, <3>2 DEF IfRefused, BySnapshot
        <3>3. CASE calls[c].kind \notin BySnapshot \cup {"add"}
            BY <1>1, <1>4, <3>3 DEF IfRefused
        <3>4. QED
            BY <3>1, <3>2, <3>3
    <2>2. Shows(IfRefused(c))'
        BY <1>6, <2>1 DEF Shows, On, Orphan
    <2>3. InFlight' = {c}
        BY <1>1, <1>2, Alone DEF InFlight
    <2>4. ~IsOk(c)' /\ ~IsSent(c)'
        BY <1>1, <1>8 DEF IsOk, IsSent
    <2>5. \A d, e \in DOMAIN calls' : calls'[d].stage # "done" => e <= d
        BY <1>1, <1>2 DEF SerialInv
    <2>6. QED
        BY <2>2, <2>3, <2>4, <2>5 DEF SerialInv
<1>9. QED
    BY <1>7, <1>8

LEMMA SerialAnswers ==
    ASSUME StoreInv, SerialInv, NEW c \in CallIds, Answers(c)
    PROVE  SerialInv'
<1>1. /\ c \in DOMAIN calls /\ DOMAIN calls' = DOMAIN calls
      /\ \A d \in DOMAIN calls : d # c => calls'[d] = calls[d]
      /\ calls'[c].stage = "done"
      /\ screen' = IF IsOk(c) THEN IfOk(c) ELSE IfRefused(c)
    BY AnswersTyped DEF StoreInv
<1>2. calls[c].stage # "done" /\ rows' = rows
    BY DEF Answers
<1>3. c \in InFlight
    BY <1>1, <1>2 DEF InFlight
<1>4. \A d \in DOMAIN calls' : calls'[d].stage = "done"
    BY <1>1, <1>2, Alone
<1>5. PICK new : new = IF IsOk(c) THEN IfOk(c) ELSE IfRefused(c)
    OBVIOUS
<1>6. Shows(new)
    BY <1>3, <1>5 DEF SerialInv
<1>7. Shows(screen)'
    BY <1>1, <1>2, <1>5, <1>6 DEF Shows, On, Orphan
<1>8. InFlight' = {}
    BY <1>4 DEF InFlight
<1>9. QED
    BY <1>4, <1>7, <1>8 DEF SerialInv

LEMMA SerialStep == ASSUME StoreInv, SerialInv, [Next]_vars, Serial' PROVE SerialInv'
<1>1. ASSUME NEW kind \in Updates, NEW n \in Ids, NEW v \in Nat, EditsCard(kind, n, v) PROVE SerialInv'
    <2>1. PICK card : card = EditOf(kind, n, v)
        OBVIOUS
    <2>2. /\ On(screen, n) /\ card \in Live /\ screen' = [screen EXCEPT ![n] = card]
          /\ Send(Call(kind, n, card), {}) /\ kind \in Kinds
        BY <1>1, <2>1, EditsTyped DEF StoreInv
    <2>3. card.host = screen[n].host /\ \A kinds \in Fields : kind \notin kinds => SameIn(kinds, card, screen[n])
        BY <2>1, <2>2, EditOfLive, EditKeepsFields DEF StoreInv
    <2>4. kind \notin {"remove", "add", "link", "found"}
        BY DEF Updates
    <2>5. QED
        BY <2>2, <2>3, <2>4, SerialSend
<1>2. ASSUME NEW n \in Ids, RemovesCard(n) PROVE SerialInv'
    <2>1. On(screen, n) /\ screen' = [screen EXCEPT ![n] = Gone] /\ Send(Call("remove", n, Gone), {})
        BY <1>2 DEF RemovesCard, Optimistic
    <2>2. "remove" \in Kinds /\ "remove" \notin Updates \cup Creates
        BY DEF Kinds, Updates, Creates
    <2>3. QED
        BY <2>1, <2>2, SerialSend
<1>3. ASSUME NEW card \in Live, AddsCard(card) PROVE SerialInv'
    <2>1. PICK t \in Ids : t = Tmp(NextCall)
        BY <1>3, NewIds DEF AddsCard
    <2>2. screen' = [screen EXCEPT ![t] = card] /\ Send(Call("add", t, card), {}) /\ HostReady(card)
        BY <1>3, <2>1 DEF AddsCard, Optimistic
    <2>3. "add" \in Kinds /\ "add" \notin Updates
        BY DEF Kinds, Updates, Creates
    <2>4. QED
        BY <2>1, <2>2, <2>3, SerialSend
<1>4. ASSUME NEW kind \in Kinds, NEW card \in Live \cup {Gone}, NEW also, Asks(kind, card, also) PROVE SerialInv'
    <2>1. /\ screen' = screen /\ Send(Call(kind, None, card), also) /\ card.host = None
          /\ kind \notin Updates \cup {"remove", "add"} /\ (kind \in Creates => card \in Live)
        BY <1>4, GoneApart DEF Asks, Updates, Creates, Locks
    <2>2. QED
        BY <2>1, SerialSend
<1>5. ASSUME NEW n \in Ids, NEW v \in Nat, DropsUnsent(n, v) PROVE FALSE
    BY <1>5 DEF DropsUnsent, Serial
<1>6. ASSUME NEW c, Lose(c) PROVE FALSE
    BY <1>6 DEF Lose, Serial
<1>7. QED
    BY NextSteps, <1>1, <1>2, <1>3, <1>4, <1>5, <1>6, SerialStutter, SerialServeUpdate, SerialServeCreate,
       SerialServeRemove, SerialReplies, SerialAnswers
       DEF Steps, StoreInv

\* The history only grows.
LEMMA SerialBefore == ASSUME StoreInv, [Next]_vars, Serial' PROVE Serial
<1>1. mishaps \subseteq mishaps'
    <2>1. ASSUME NEW call, NEW also, Send(call, also) PROVE mishaps \subseteq mishaps'
        BY <2>1 DEF Send
    <2>2. ASSUME NEW c, Lose(c) PROVE mishaps \subseteq mishaps'
        BY <2>2 DEF Lose
    <2>3. ASSUME NEW c \in CallIds, ServeUpdate(c) \/ ServeCreate(c) \/ ServeRemove(c) PROVE mishaps \subseteq mishaps'
        BY <2>3, ServeTyped DEF StoreInv
    <2>4. QED
        BY NextSteps, <2>1, <2>2, <2>3
           DEF Steps, StoreInv, EditsCard, RemovesCard, AddsCard, Optimistic, Asks, DropsUnsent, Replies, Reply, Answers
<1>2. QED
    BY <1>1 DEF Serial

LEMMA SerialInvariant == Spec => [](StoreInv /\ SerialPage)
<1>1. Init => SerialPage
    BY SerialInit DEF SerialPage
<1>2. StoreInv /\ SerialPage /\ [Next]_vars => SerialPage'
    BY SerialBefore, SerialStep DEF SerialPage
<1>3. QED
    BY <1>1, <1>2, StoreInvariant, PTL DEF Spec

\* So at rest it draws the cards the service has.
LEMMA SerialRests == ASSUME StoreInv, Shows(screen) PROVE ScreenShowsRows
<1>1. ASSUME NEW n \in Ids, On(rows, n) PROVE On(screen, n) /\ screen[n] = rows[n]
    BY <1>1 DEF Shows, On
<1>2. ASSUME NEW n \in Ids, Drawn(screen, n) PROVE On(rows, n) /\ Drawn(rows, n)
    <2>1. On(rows, n)
        BY <1>2 DEF Shows, Drawn, Orphan
    <2>2. QED
        BY <2>1 DEF Shows, Drawn
<1>3. ASSUME NEW n \in Ids, Drawn(rows, n) PROVE Drawn(screen, n)
    BY <1>1, <1>3, Typings DEF Drawn
<1>4. ASSUME NEW n \in Ids, Drawn(screen, n) PROVE SameCard(screen[n], rows[n])
    BY <1>1, <1>2, <1>4 DEF SameCard
<1>5. QED
    BY <1>2, <1>3, <1>4 DEF ScreenShowsRows

\* QuietPageAgrees for any number of cards and requests: at rest the page shows what the service has,
\* whether the edits were made one at a time and some refused, or overlapped and were all accepted in order.
THEOREM StoreQuietPageAgrees == Spec => []QuietPageAgrees
<1>1. StoreInv /\ SmoothPage /\ SerialPage => QuietPageAgrees
    <2>1. SUFFICES ASSUME StoreInv, SmoothPage, SerialPage, InFlight = {},
                          mishaps \subseteq {"refused"} \/ mishaps \subseteq {"overlap"}
                   PROVE  ScreenShowsRows
        BY DEF QuietPageAgrees
    <2>2. CASE mishaps \subseteq {"refused"}
        BY <2>1, <2>2, SerialRests DEF SerialPage, Serial, SerialInv
    <2>3. CASE mishaps \subseteq {"overlap"}
        <3>1. Smooth
            BY <2>1, <2>3 DEF Smooth, Doomed, IsSent, InFlight
        <3>2. QED
            BY <2>1, <3>1, SmoothRests DEF SmoothPage
    <2>4. QED
        BY <2>1, <2>2, <2>3
<1>2. QED
    BY <1>1, SmoothInvariant, SerialInvariant, PTL
=============================================================================
