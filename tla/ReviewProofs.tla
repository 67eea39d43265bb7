-------------------------- MODULE ReviewProofs --------------------------
(***************************************************************************)
(* The review of an itinerary, for any cards and any number of requests:   *)
(* an approved plan leaves nothing proposed, and a page that is the only   *)
(* one to send requests shows what is on file when they are answered.  And *)
(* of its two versions: a move carried to a new fork arrives there.        *)
(***************************************************************************)
EXTENDS MCReview, TLAPS

Kinds == {"propose", "reopen", "approve", "approveNode", "proposeCard", "card", "remove", "note"}
CardKinds == {"approveNode", "proposeCard", "card", "remove", "note"}
Stages == {"sent", "loaded", "flushed", "ok", "refused", "done"}
Statuses == [Nodes -> NodeStatus]

Calls == [by : Viewers, kind : Kinds, node : Nodes \cup {None}, to : NodeStatus, stage : Stages,
          derived : BOOLEAN, was : PlanStatus, snap : Statuses]

Pages == [status : PlanStatus, cards : Statuses, waiting : SUBSET Buttons]

\* While the pages of a review are open.
ReviewType ==
    /\ plan \in PlanStatus /\ row \in Statuses
    /\ page \in [Viewers -> Pages]
    /\ open \subseteq Viewers
    /\ calls \in Seq(Calls)
    /\ \A c \in 1..Len(calls) : calls[c].kind \in CardKinds => calls[c].node \in Nodes

-----------------------------------------------------------------------------
(* What a step does to a request.                                          *)

Same(x, y) ==
    /\ x.by = y.by /\ x.kind = y.kind /\ x.node = y.node /\ x.to = y.to /\ x.was = y.was /\ x.snap = y.snap

\* The request c moves on, and no other.
Moved(c, stage) ==
    /\ calls' \in Seq(Calls) /\ Len(calls') = Len(calls) /\ c \in 1..Len(calls)
    /\ \A d \in 1..Len(calls) : d # c => calls'[d] = calls[d]
    /\ calls'[c].stage = stage

LEMMA Restaged ==
    \A x \in Calls : \A st \in Stages :
      LET y == [x EXCEPT !.stage = st] IN y \in Calls /\ y.stage = st /\ Same(y, x) /\ y.derived = x.derived
BY DEF Calls, Same

Count(x, b) == [x EXCEPT !.stage = "flushed", !.derived = b]

LEMMA CountFields ==
    ASSUME NEW x \in Calls, NEW b
    PROVE  Count(x, b).stage = "flushed" /\ Same(Count(x, b), x) /\ Count(x, b).derived = b
BY DEF Calls, Same, Count

LEMMA CountTyped == ASSUME NEW x \in Calls, NEW b \in BOOLEAN PROVE Count(x, b) \in Calls
BY DEF Calls, Stages, Count

LEMMA SetStage ==
    ASSUME ReviewType, NEW c \in DOMAIN calls, NEW st \in Stages, calls' = [calls EXCEPT ![c].stage = st]
    PROVE  Moved(c, st) /\ Same(calls'[c], calls[c]) /\ calls'[c].derived = calls[c].derived
<1>1. calls \in Seq(Calls) /\ c \in 1..Len(calls) /\ calls[c] \in Calls
    BY DEF ReviewType
<1> DEFINE x == [calls[c] EXCEPT !.stage = st]
<1>2. x \in Calls /\ x.stage = st /\ Same(x, calls[c]) /\ x.derived = calls[c].derived
    BY <1>1, Restaged
<1>3. calls' = [calls EXCEPT ![c] = x]
    OBVIOUS
<1> HIDE DEF x
<1>4. QED
    BY <1>1, <1>2, <1>3 DEF Moved

LEMMA PutCall ==
    ASSUME calls \in Seq(Calls), NEW c \in 1..Len(calls), NEW x \in Calls, calls' = [calls EXCEPT ![c] = x]
    PROVE  /\ calls' \in Seq(Calls) /\ Len(calls') = Len(calls) /\ calls'[c] = x
           /\ \A d \in 1..Len(calls) : d # c => calls'[d] = calls[d]
OBVIOUS

LEMMA SetFlushed ==
    ASSUME ReviewType, NEW c \in DOMAIN calls, NEW b, b \in BOOLEAN,
           calls' = [calls EXCEPT ![c].stage = "flushed", ![c].derived = b]
    PROVE  Moved(c, "flushed") /\ Same(calls'[c], calls[c]) /\ calls'[c].derived = b
<1>1. calls \in Seq(Calls) /\ c \in 1..Len(calls) /\ calls[c] \in Calls /\ "flushed" \in Stages
    BY DEF ReviewType, Stages
<1>2. /\ Count(calls[c], b).stage = "flushed" /\ Same(Count(calls[c], b), calls[c])
      /\ Count(calls[c], b).derived = b
    BY <1>1, CountFields
<1>3. Count(calls[c], b) \in Calls
    BY <1>1, CountTyped
<1>4. calls' = [calls EXCEPT ![c] = Count(calls[c], b)]
    <2>1. calls' = [[calls EXCEPT ![c].stage = "flushed"] EXCEPT ![c].derived = b]
        BY <1>1
    <2>2. [calls EXCEPT ![c].stage = "flushed"][c] = [calls[c] EXCEPT !.stage = "flushed"]
        BY <1>1
    <2>3. Count(calls[c], b) = [[calls[c] EXCEPT !.stage = "flushed"] EXCEPT !.derived = b]
        BY DEF Count
    <2>4. QED
        BY <1>1, <2>1, <2>2, <2>3
<1>5. /\ calls' \in Seq(Calls) /\ Len(calls') = Len(calls) /\ calls'[c] = Count(calls[c], b)
      /\ \A d \in 1..Len(calls) : d # c => calls'[d] = calls[d]
    BY <1>1, <1>3, <1>4, PutCall, Zenon
<1>6. calls'[c].derived = b
    BY <1>2, <1>5, Zenon
<1>7. QED
    BY <1>1, <1>2, <1>5, <1>6 DEF Moved

LEMMA Answers ==
    ASSUME ReviewType, NEW c \in 1..Len(calls), NEW status \in PlanStatus, NEW cards \in Statuses, Settle(c, status, cards)
    PROVE  /\ Moved(c, "done") /\ calls'[c].by = calls[c].by /\ calls'[c].node = calls[c].node
           /\ calls'[c].kind = calls[c].kind /\ calls'[c].snap = Empty
           /\ page' \in [Viewers -> Pages]
           /\ page'[calls[c].by].status = status /\ page'[calls[c].by].cards = cards
           /\ \A v \in Viewers : v # calls[c].by => page'[v] = page[v]
<1>1. calls \in Seq(Calls) /\ c \in DOMAIN calls /\ calls[c] \in Calls /\ "done" \in Stages /\ "draft" \in PlanStatus
      /\ "idea" \in NodeStatus /\ "gone" \in NodeStatus /\ calls[c].by \in Viewers
    <2>1. calls \in Seq(Calls)
        BY DEF ReviewType
    <2>2. calls[c] \in Calls
        BY <2>1
    <2>3. QED
        BY <2>1, <2>2 DEF Stages, PlanStatus, NodeStatus, Calls
<1>2. Empty \in Statuses
    BY <1>1 DEF Empty, Statuses
<1> DEFINE x == [calls[c] EXCEPT !.stage = "done", !.snap = Empty, !.was = "draft", !.derived = FALSE, !.to = "idea"]
           y == [status |-> status, cards |-> cards, waiting |-> page[calls[c].by].waiting \ {calls[c].kind}]
<1>3. x \in Calls /\ x.stage = "done" /\ x.snap = Empty /\ x.by = calls[c].by /\ x.node = calls[c].node /\ x.kind = calls[c].kind
    BY <1>1, <1>2 DEF Calls
<1>4. calls' = [calls EXCEPT ![c] = x]
    BY DEF Settle
<1>5. y \in Pages /\ y.status = status /\ y.cards = cards
    <2>1. page[calls[c].by] \in Pages
        BY <1>1 DEF ReviewType
    <2>2. page[calls[c].by].waiting \ {calls[c].kind} \subseteq Buttons
        BY <2>1 DEF Pages
    <2>3. QED
        BY <2>2 DEF Pages
<1>6. page' = [page EXCEPT ![calls[c].by] = y] /\ page \in [Viewers -> Pages]
    BY DEF Settle, ReviewType
<1> HIDE DEF x, y
<1>7. QED
    BY <1>1, <1>3, <1>4, <1>5, <1>6 DEF Moved

\* A request is sent, with what its page showed before and shows at once.
Sent(v, kind, n, to, status, cards) ==
    /\ v \in open /\ calls' \in Seq(Calls) /\ Len(calls') = Len(calls) + 1
    /\ \A d \in 1..Len(calls) : calls'[d] = calls[d]
    /\ calls'[Len(calls) + 1].by = v /\ calls'[Len(calls) + 1].kind = kind /\ calls'[Len(calls) + 1].node = n
    /\ calls'[Len(calls) + 1].to = to /\ calls'[Len(calls) + 1].stage = "sent"
    /\ calls'[Len(calls) + 1].was = page[v].status
    /\ calls'[Len(calls) + 1].snap = IF kind \in {"propose", "reopen", "note"} THEN Empty ELSE page[v].cards
    /\ page' \in [Viewers -> Pages]
    /\ page'[v].status = status /\ page'[v].cards = cards
    /\ \A u \in Viewers : u # v => page'[u] = page[u]
    /\ UNCHANGED <<plan, row, open>>
    /\ mishaps' = mishaps \cup (IF InFlight = {} THEN {} ELSE {"overlap"})

LEMMA Sends ==
    ASSUME ReviewType, NEW v \in Viewers, NEW kind \in Kinds, NEW n \in Nodes \cup {None}, NEW to \in NodeStatus,
           NEW status \in PlanStatus, NEW cards \in Statuses, Send(v, kind, n, to, status, cards)
    PROVE  Sent(v, kind, n, to, status, cards)
<1>1. calls \in Seq(Calls) /\ page[v] \in Pages
    BY DEF ReviewType
<1> DEFINE x == Request(v, kind, n, to)
           y == [status |-> status, cards |-> cards, waiting |-> page[v].waiting \cup ({kind} \cap Buttons)]
<1>2. x.by = v /\ x.kind = kind /\ x.node = n /\ x.to = to /\ x.stage = "sent" /\ x.was = page[v].status
      /\ x.snap = IF kind \in {"propose", "reopen", "note"} THEN Empty ELSE page[v].cards
    BY DEF Request, Shown
<1>3. x \in Calls
    <2>1. Empty \in Statuses /\ page[v].cards \in Statuses /\ page[v].status \in PlanStatus
        BY <1>1 DEF Empty, Statuses, NodeStatus, Pages
    <2>2. (IF kind \in {"propose", "reopen", "note"} THEN Empty ELSE Shown(v)) \in Statuses
        BY <2>1 DEF Shown
    <2>3. QED
        BY <2>1, <2>2 DEF Request, Calls, Stages
<1>4. calls' = Append(calls, x)
    BY DEF Send
<1>5. y \in Pages /\ y.status = status /\ y.cards = cards
    <2>1. page[v].waiting \cup ({kind} \cap Buttons) \subseteq Buttons
        BY <1>1 DEF Pages
    <2>2. QED
        BY <2>1 DEF Pages
<1>6. page' = [page EXCEPT ![v] = y] /\ page \in [Viewers -> Pages]
    BY DEF Send, ReviewType
<1>7. v \in open /\ UNCHANGED <<plan, row, open>> /\ mishaps' = mishaps \cup (IF InFlight = {} THEN {} ELSE {"overlap"})
    BY DEF Send
<1> HIDE DEF x, y
<1>8. /\ calls' \in Seq(Calls) /\ Len(calls') = Len(calls) + 1 /\ calls'[Len(calls) + 1] = x
      /\ \A d \in 1..Len(calls) : calls'[d] = calls[d]
    BY <1>1, <1>3, <1>4
<1>9. page' \in [Viewers -> Pages] /\ page'[v] = y /\ \A u \in Viewers : u # v => page'[u] = page[u]
    BY <1>5, <1>6
<1>10. QED
    BY <1>2, <1>5, <1>7, <1>8, <1>9 DEF Sent

-----------------------------------------------------------------------------
(* What a page shows for each request.                                     *)

States == [status : PlanStatus, cards : Statuses]
State(v) == [status |-> page[v].status, cards |-> page[v].cards]

\* What the viewer v shows before and after a request.
Effect(v, kind, n, to, s, t) ==
    /\ kind \in Kinds /\ (v = "board" <=> kind = "card")
    /\ kind \in CardKinds => n \in Nodes
    /\ kind = "propose" => s.status = "draft" /\ t.status = "proposed" /\ t.cards = s.cards
    /\ kind = "reopen" => s.status = "proposed" /\ t.status = "draft" /\ t.cards = s.cards
    /\ kind = "approve" => s.status = "proposed" /\ t.status = "approved" /\ t.cards = ApprovedAll(s.cards)
    /\ kind = "approveNode" =>
         /\ to = "approved" /\ s.cards[n] = "proposed" /\ t.cards = [s.cards EXCEPT ![n] = "approved"]
         /\ t.status = IF With(t.cards, "proposed") = {} /\ s.status = "proposed" THEN "approved" ELSE s.status
    /\ kind = "proposeCard" =>
         /\ s.status = "draft" /\ t.status = "draft"
         /\ to = "proposed" /\ s.cards[n] = "idea" /\ t.cards = [s.cards EXCEPT ![n] = "proposed"]
    /\ kind = "card" =>
         /\ to \in {"approved", "proposed", "discarded"} /\ s.cards[n] # "gone" /\ t.cards = [s.cards EXCEPT ![n] = to]
         /\ t.status = s.status
    /\ kind = "remove" => t.cards = [s.cards EXCEPT ![n] = "gone"] /\ t.status = s.status
    /\ kind = "note" => t.cards = [s.cards EXCEPT ![n] = "proposed"] /\ t.status = s.status

\* The page shows the effect of a request as it sends it.
Click(v, kind, n, to) ==
    \E t \in States : /\ Sent(v, kind, n, to, t.status, t.cards) /\ t = State(v)'
                      /\ Effect(v, kind, n, to, State(v), t)
                      /\ kind = "note" => n \in Notes /\ \A c \in DOMAIN calls : calls[c].node # n

LEMMA StateTyped == ReviewType => \A v \in Viewers : State(v) \in States
<1> SUFFICES ASSUME ReviewType, NEW v \in Viewers PROVE State(v) \in States
    OBVIOUS
<1>1. page[v] \in Pages
    BY DEF ReviewType
<1>2. QED
    BY <1>1 DEF Pages, State, States

LEMMA CardsTyped ==
    ASSUME NEW cards \in Statuses
    PROVE  /\ \A n \in Nodes : \A to \in NodeStatus : [cards EXCEPT ![n] = to] \in Statuses
           /\ ApprovedAll(cards) \in Statuses
BY DEF Statuses, ApprovedAll, NodeStatus

LEMMA Clicking ==
    ASSUME ReviewType, NEW v \in Viewers, NEW kind \in Kinds, NEW n \in Nodes \cup {None}, NEW to \in NodeStatus,
           NEW t \in States, Send(v, kind, n, to, t.status, t.cards), Effect(v, kind, n, to, State(v), t),
           kind = "note" => n \in Notes /\ \A c \in DOMAIN calls : calls[c].node # n
    PROVE  Click(v, kind, n, to)
<1>1. t.status \in PlanStatus /\ t.cards \in Statuses
    BY DEF States
<1>2. Sent(v, kind, n, to, t.status, t.cards)
    BY <1>1, Sends
<1>3. page'[v].status = t.status /\ page'[v].cards = t.cards
    BY <1>2 DEF Sent
<1>4. t = State(v)'
    BY <1>3 DEF States, State
<1>5. QED
    BY <1>2, <1>4 DEF Click

LEMMA PlanClicks ==
    ASSUME ReviewType, NEW v \in Viewers, PlanAction(v)
    PROVE  \E kind \in Kinds, to \in NodeStatus : Click(v, kind, None, to)
<1> DEFINE cards == page[v].cards
<1>1. State(v) \in States /\ State(v).status = page[v].status /\ State(v).cards = cards /\ cards \in Statuses
      /\ ApprovedAll(cards) \in Statuses
    BY StateTyped, CardsTyped DEF State, States
<1>2. {"propose", "reopen", "approve"} \subseteq Kinds /\ {"draft", "proposed", "approved"} \subseteq PlanStatus
      /\ "idea" \in NodeStatus /\ {"propose", "reopen", "approve"} \cap CardKinds = {}
    BY DEF Kinds, CardKinds, PlanStatus, NodeStatus
<1> HIDE DEF cards
<1>3. CASE propose(v)
    <2> DEFINE t == [status |-> "proposed", cards |-> cards]
    <2>1. t \in States /\ t.status = "proposed" /\ t.cards = cards
        BY <1>1, <1>2 DEF States
    <2>2. v = "advisor" /\ page[v].status = "draft" /\ Send(v, "propose", None, "idea", "proposed", cards)
        BY <1>3 DEF propose, selectCanPropose, Shown, cards
    <2> HIDE DEF t
    <2>3. Effect(v, "propose", None, "idea", State(v), t)
        BY <1>1, <1>2, <2>1, <2>2 DEF Effect
    <2>4. QED
        BY <1>2, <2>1, <2>2, <2>3, Clicking
<1>4. CASE reopen(v)
    <2> DEFINE t == [status |-> "draft", cards |-> cards]
    <2>1. t \in States /\ t.status = "draft" /\ t.cards = cards
        BY <1>1, <1>2 DEF States
    <2>2. v = "advisor" /\ page[v].status = "proposed" /\ Send(v, "reopen", None, "idea", "draft", cards)
        BY <1>4 DEF reopen, selectCanReopen, Shown, cards
    <2> HIDE DEF t
    <2>3. Effect(v, "reopen", None, "idea", State(v), t)
        BY <1>1, <1>2, <2>1, <2>2 DEF Effect
    <2>4. QED
        BY <1>2, <2>1, <2>2, <2>3, Clicking
<1>5. CASE approve(v)
    <2> DEFINE t == [status |-> "approved", cards |-> ApprovedAll(cards)]
    <2>1. t \in States /\ t.status = "approved" /\ t.cards = ApprovedAll(cards)
        BY <1>1, <1>2 DEF States
    <2>2. v = "traveler" /\ page[v].status = "proposed" /\ Send(v, "approve", None, "idea", "approved", ApprovedAll(cards))
        BY <1>5 DEF approve, selectCanApprove, Shown, cards
    <2> HIDE DEF t
    <2>3. Effect(v, "approve", None, "idea", State(v), t)
        BY <1>1, <1>2, <2>1, <2>2 DEF Effect
    <2>4. QED
        BY <1>2, <2>1, <2>2, <2>3, Clicking
<1>6. QED
    BY <1>3, <1>4, <1>5 DEF PlanAction

LEMMA CardClicks ==
    ASSUME ReviewType, NEW v \in Viewers, NEW n \in Nodes, CardAction(v, n)
    PROVE  \E kind \in Kinds, to \in NodeStatus : Click(v, kind, n, to)
<1> DEFINE cards == page[v].cards
           After(to) == [cards EXCEPT ![n] = to]
           Plan(to) == [status |-> page[v].status, cards |-> After(to)]
<1>1. State(v) \in States /\ State(v).status = page[v].status /\ State(v).cards = cards /\ cards \in Statuses
      /\ page[v].status \in PlanStatus
    BY StateTyped DEF State, States
<1>2. CardKinds \subseteq Kinds /\ {"draft", "proposed", "approved"} \subseteq PlanStatus
      /\ {"approved", "proposed", "discarded", "gone"} \subseteq NodeStatus
    BY DEF Kinds, CardKinds, PlanStatus, NodeStatus
<1>3. \A to \in NodeStatus : After(to) \in Statuses
    BY <1>1, CardsTyped
<1>4. \A to \in NodeStatus : Plan(to) \in States /\ Plan(to).status = page[v].status /\ Plan(to).cards = After(to)
    BY <1>1, <1>3 DEF States
<1>5. n \in Nodes \cup {None}
    OBVIOUS
<1> HIDE DEF Plan
<1>6. CASE approveNode(v, n)
    <2> DEFINE over == With(After("approved"), "proposed") = {} /\ page[v].status = "proposed"
               t == [status |-> IF over THEN "approved" ELSE page[v].status, cards |-> After("approved")]
    <2>1. t \in States /\ t.status = (IF over THEN "approved" ELSE page[v].status) /\ t.cards = After("approved")
        BY <1>1, <1>2, <1>3 DEF States
    <2>2. v # "board" /\ cards[n] = "proposed"
          /\ Send(v, "approveNode", n, "approved", IF over THEN "approved" ELSE page[v].status, After("approved"))
        BY <1>6 DEF approveNode, selectCanApprove, Shown
    <2> HIDE DEF t
    <2>3. Effect(v, "approveNode", n, "approved", State(v), t)
        BY <1>1, <1>2, <2>1, <2>2 DEF Effect, Kinds
    <2>4. QED
        BY <1>2, <1>5, <2>1, <2>2, <2>3, Clicking DEF CardKinds
<1>7. CASE proposeCard(v, n)
    <2>1. v # "board" /\ page[v].status = "draft" /\ cards[n] = "idea"
          /\ Send(v, "proposeCard", n, "proposed", page[v].status, After("proposed"))
        BY <1>7 DEF proposeCard, selectCanPropose, Shown
    <2>2. Effect(v, "proposeCard", n, "proposed", State(v), Plan("proposed"))
        BY <1>1, <1>2, <1>4, <2>1 DEF Effect, Kinds
    <2>3. QED
        BY <1>2, <1>4, <1>5, <2>1, <2>2, Clicking DEF CardKinds
<1>8. ASSUME NEW to \in NodeStatus, onCardAction(v, n, to) PROVE \E kind \in Kinds : Click(v, kind, n, to)
    <2>1. v = "board" /\ to \in {"approved", "proposed", "discarded"} /\ cards[n] # "gone"
          /\ Send(v, "card", n, to, page[v].status, After(to))
        BY <1>8 DEF onCardAction, Shown
    <2>2. Effect(v, "card", n, to, State(v), Plan(to))
        BY <1>1, <1>2, <1>4, <2>1 DEF Effect, Kinds
    <2>3. QED
        BY <1>2, <1>4, <1>5, <2>1, <2>2, Clicking DEF CardKinds
<1>9. CASE removeNode(v, n)
    <2>1. v # "board" /\ Send(v, "remove", n, "gone", page[v].status, After("gone"))
        BY <1>9 DEF removeNode, Shown
    <2>2. Effect(v, "remove", n, "gone", State(v), Plan("gone"))
        BY <1>1, <1>2, <1>4, <2>1 DEF Effect, Kinds
    <2>3. QED
        BY <1>2, <1>4, <1>5, <2>1, <2>2, Clicking DEF CardKinds
<1>10. CASE addNote(v, n)
    <2>1. v # "board" /\ Send(v, "note", n, "proposed", page[v].status, After("proposed"))
          /\ n \in Notes /\ \A c \in DOMAIN calls : calls[c].node # n
        BY <1>10 DEF addNote, Shown
    <2>2. Effect(v, "note", n, "proposed", State(v), Plan("proposed"))
        BY <1>1, <1>2, <1>4, <2>1 DEF Effect, Kinds
    <2>3. QED
        BY <1>2, <1>4, <1>5, <2>1, <2>2, Clicking DEF CardKinds
<1>11. QED
    BY <1>6, <1>7, <1>8, <1>9, <1>10 DEF CardAction

-----------------------------------------------------------------------------
(* What the service does with a request.                                   *)

\* The request c moves on, unchanged but for its stage and, when counted, for what was found.
Staged(c, stage) == Moved(c, stage) /\ Same(calls'[c], calls[c]) /\ UNCHANGED <<page, open>>

\* A request is loaded, refused, or its answer lost.
Turned(c) ==
    /\ UNCHANGED <<plan, row>> /\ calls'[c].derived = calls[c].derived
    /\ \/ Staged(c, "loaded") /\ calls[c].stage = "sent" /\ mishaps' = mishaps \cup OutOfOrder(c)
       \/ Staged(c, "refused") /\ calls[c].stage \in {"sent", "loaded"} /\ mishaps' = mishaps \cup {"refused"}
       \/ Staged(c, "refused") /\ calls[c].stage = "ok" /\ mishaps' = mishaps \cup {"refused", "lost"}

Flushed(c) ==
    /\ Staged(c, "flushed") /\ calls[c].stage = "loaded" /\ calls[c].kind \in Updates
    /\ calls'[c].derived = Derives(c) /\ UNCHANGED <<plan, row, mishaps>>

Committed(c) ==
    /\ Staged(c, "ok") /\ calls[c].stage = "flushed" /\ calls[c].kind \in Updates
    /\ row' = Written(c) /\ plan' = IF calls[c].derived /\ plan = "proposed" THEN "approved" ELSE plan
    /\ mishaps' = mishaps \cup Late(c, calls[c].to)

Removed(c) ==
    /\ Staged(c, "ok") /\ calls[c].stage = "loaded" /\ calls[c].kind = "remove"
    /\ row' = [row EXCEPT ![calls[c].node] = "gone"] /\ UNCHANGED <<plan, mishaps>>

Noted(c) ==
    /\ Staged(c, "ok") /\ calls[c].stage = "sent" /\ calls[c].kind = "note"
    /\ row' = [row EXCEPT ![calls[c].node] = "proposed"]
    /\ mishaps' = mishaps \cup OutOfOrder(c) \cup Late(c, "proposed") /\ plan' = plan

Planned(c) ==
    /\ Staged(c, "ok") /\ calls[c].stage = "sent" /\ mishaps' = mishaps \cup OutOfOrder(c)
    /\ \/ calls[c].kind = "propose" /\ plan = "draft" /\ plan' = "proposed" /\ row' = row
       \/ calls[c].kind = "reopen" /\ plan = "proposed" /\ plan' = "draft" /\ row' = row
       \/ calls[c].kind = "approve" /\ plan' = "approved" /\ row' = ApprovedAll(row)

LEMMA ServeSteps ==
    ASSUME ReviewType, NEW c \in CallIds, Serve(c)
    PROVE  /\ c \in 1..Len(calls)
           /\ Turned(c) \/ Flushed(c) \/ Committed(c) \/ Removed(c) \/ Noted(c) \/ Planned(c)
<1>1. calls \in Seq(Calls) /\ DOMAIN calls = 1..Len(calls)
    BY DEF ReviewType
<1>2. ASSUME c \in DOMAIN calls, NEW st \in Stages, calls' = [calls EXCEPT ![c].stage = st], UNCHANGED <<page, open>>
      PROVE  Staged(c, st) /\ calls'[c].derived = calls[c].derived
    BY <1>2, SetStage DEF Staged
<1>3. {"loaded", "refused", "ok"} \subseteq Stages
    BY DEF Stages
<1>4. CASE LoadNode(c)
    <2>1. c \in DOMAIN calls /\ calls[c].stage = "sent" /\ Reply(c, "loaded") /\ mishaps' = mishaps \cup OutOfOrder(c)
          /\ UNCHANGED <<plan, row>>
        BY <1>4 DEF LoadNode, At
    <2>2. QED
        BY <1>1, <1>2, <1>3, <2>1 DEF Reply, Turned
<1>5. CASE FlushNode(c)
    <2>1. /\ c \in DOMAIN calls /\ calls[c].stage = "loaded" /\ calls[c].kind \in Updates
          /\ calls' = [calls EXCEPT ![c].stage = "flushed", ![c].derived = Derives(c)]
          /\ UNCHANGED <<plan, row, page, open, mishaps>>
        BY <1>5 DEF FlushNode, At
    <2>2. Derives(c) \in BOOLEAN
        BY DEF Derives, LeavesNone
    <2>3. Moved(c, "flushed") /\ Same(calls'[c], calls[c]) /\ calls'[c].derived = Derives(c)
        BY <2>1, <2>2, SetFlushed
    <2>4. QED
        BY <1>1, <2>1, <2>3 DEF Flushed, Staged
<1>6. CASE CommitNode(c)
    <2>1. /\ c \in DOMAIN calls /\ calls[c].stage = "flushed" /\ calls[c].kind \in Updates
          /\ calls' = [calls EXCEPT ![c].stage = "ok"] /\ UNCHANGED <<page, open>>
          /\ row' = Written(c) /\ plan' = IF calls[c].derived /\ plan = "proposed" THEN "approved" ELSE plan
          /\ mishaps' = mishaps \cup Late(c, calls[c].to)
        BY <1>6 DEF CommitNode, At
    <2>2. Staged(c, "ok")
        BY <1>2, <1>3, <2>1
    <2>3. QED
        BY <1>1, <2>1, <2>2 DEF Committed
<1>7. CASE ServeRemove(c)
    BY <1>1, <1>2, <1>3, <1>7 DEF ServeRemove, At, Reply, Removed
<1>8. CASE ServeNote(c)
    BY <1>1, <1>2, <1>3, <1>8 DEF ServeNote, At, Reply, Noted
<1>9. CASE propose_itinerary(c) \/ reopen_itinerary(c) \/ approve_itinerary(c)
    BY <1>1, <1>2, <1>3, <1>9 DEF propose_itinerary, reopen_itinerary, approve_itinerary, At, Reply, Planned
<1>10. CASE Refuse(c)
    <2>1. c \in DOMAIN calls /\ calls[c].stage \in {"sent", "loaded"} /\ Reply(c, "refused") /\ mishaps' = mishaps \cup {"refused"}
          /\ UNCHANGED <<plan, row>>
        BY <1>10 DEF Refuse, At
    <2>2. QED
        BY <1>1, <1>2, <1>3, <2>1 DEF Reply, Turned
<1>11. CASE Lose(c)
    <2>1. c \in DOMAIN calls /\ calls[c].stage = "ok" /\ Reply(c, "refused") /\ mishaps' = mishaps \cup {"refused", "lost"}
          /\ UNCHANGED <<plan, row>>
        BY <1>11 DEF Lose
    <2>2. QED
        BY <1>1, <1>2, <1>3, <2>1 DEF Reply, Turned
<1>12. QED
    BY <1>4, <1>5, <1>6, <1>7, <1>8, <1>9, <1>10, <1>11 DEF Serve

\* An answer leaves the rows alone; a request that went well changes nothing of what its page shows, and one
\* that was refused puts back what the page showed before it.
Settled(c) ==
    /\ Moved(c, "done") /\ calls'[c].by = calls[c].by /\ calls'[c].node = calls[c].node
    /\ calls'[c].kind = calls[c].kind /\ calls'[c].snap = Empty
    /\ UNCHANGED <<plan, row, open, mishaps>>
    /\ \A v \in Viewers : v # calls[c].by => page'[v] = page[v]
    /\ page' \in [Viewers -> Pages]
    /\ \/ calls[c].stage = "ok" /\ State(calls[c].by)' = State(calls[c].by)
       \/ /\ calls[c].stage = "refused"
          /\ page'[calls[c].by].status =
               IF calls[c].kind \in {"propose", "reopen", "approve", "approveNode"} THEN calls[c].was
               ELSE page[calls[c].by].status
          /\ page'[calls[c].by].cards =
               CASE calls[c].kind \in {"propose", "reopen"} -> page[calls[c].by].cards
                 [] calls[c].kind \in {"approve", "approveNode", "proposeCard", "remove"} -> calls[c].snap
                 [] calls[c].kind = "card" ->
                      [page[calls[c].by].cards EXCEPT ![calls[c].node] = calls[c].snap[calls[c].node]]
                 [] OTHER -> [page[calls[c].by].cards EXCEPT ![calls[c].node] = "gone"]

LEMMA AnswerSteps ==
    ASSUME ReviewType, NEW c \in CallIds, Answer(c)
    PROVE  c \in 1..Len(calls) /\ Settled(c)
<1> DEFINE by == calls[c].by
<1>1. /\ c \in 1..Len(calls) /\ calls[c].stage \in {"ok", "refused"}
      /\ calls \in Seq(Calls)
    BY DEF ReviewType, Answer, AnswerPlan, AnswerApprove, AnswerApproveNode, AnswerProposeCard, AnswerCard, AnswerRemove,
           AnswerNote, Answered, proposeItinerary, reopenItinerary, approveItinerary, updateNodeStatus
<1>2. calls[c] \in Calls
    BY <1>1
<1>3. by \in Viewers /\ calls[c].was \in PlanStatus /\ calls[c].snap \in Statuses /\ calls[c].kind \in Kinds
    BY <1>2 DEF Calls
<1>4. page[by] \in Pages /\ page[by].status \in PlanStatus /\ page[by].cards \in Statuses
    BY <1>3 DEF ReviewType, Pages
<1>5. calls[c].kind \in {"card", "note"} => calls[c].node \in Nodes /\ calls[c].snap[calls[c].node] \in NodeStatus
    BY <1>1, <1>3 DEF ReviewType, CardKinds, Statuses
<1>6. ASSUME NEW status \in PlanStatus, NEW cards \in Statuses, Settle(c, status, cards)
      PROVE  /\ Moved(c, "done") /\ calls'[c].by = calls[c].by /\ calls'[c].node = calls[c].node
             /\ calls'[c].kind = calls[c].kind /\ calls'[c].snap = Empty
             /\ UNCHANGED <<plan, row, open, mishaps>>
             /\ page' \in [Viewers -> Pages]
             /\ \A v \in Viewers : v # calls[c].by => page'[v] = page[v]
             /\ page'[by].status = status /\ page'[by].cards = cards
             /\ status = page[by].status /\ cards = page[by].cards => State(calls[c].by)' = State(calls[c].by)
    <2>1. calls'[c].by = calls[c].by /\ page'[by].status = status /\ page'[by].cards = cards
        BY <1>1, <1>6, Answers
    <2>2. State(calls[c].by)' = [status |-> page'[calls'[c].by].status, cards |-> page'[calls'[c].by].cards]
        BY DEF State
    <2>3. QED
        BY <1>1, <1>6, <2>1, <2>2, Answers DEF Settle, State
<1>7. page[by].cards \in Statuses => \A x \in NodeStatus : \A n \in Nodes : [page[by].cards EXCEPT ![n] = x] \in Statuses
    BY CardsTyped
<1>8. "gone" \in NodeStatus
    BY DEF NodeStatus
<1>9. CASE AnswerPlan(c)
    <2>1. calls[c].kind \in {"propose", "reopen"}
          /\ Settle(c, IF calls[c].stage = "ok" THEN page[by].status ELSE calls[c].was, page[by].cards)
        BY <1>9 DEF AnswerPlan, Answered, proposeItinerary, reopenItinerary, Ok, Now, Before, NowShown
    <2>2. QED
        BY <1>1, <1>3, <1>4, <1>6, <2>1 DEF Settled
<1>10. CASE AnswerApprove(c) \/ AnswerApproveNode(c)
    <2>1. calls[c].kind \in {"approve", "approveNode"}
          /\ Settle(c, IF calls[c].stage = "ok" THEN page[by].status ELSE calls[c].was,
                       IF calls[c].stage = "ok" THEN page[by].cards ELSE calls[c].snap)
        BY <1>10 DEF AnswerApprove, AnswerApproveNode, Answered, approveItinerary, updateNodeStatus, Ok, Now, Before, NowShown
    <2>2. QED
        BY <1>1, <1>3, <1>4, <1>6, <2>1 DEF Settled
<1>11. CASE AnswerProposeCard(c) \/ AnswerRemove(c)
    <2>1. calls[c].kind \in {"proposeCard", "remove"}
          /\ Settle(c, page[by].status, IF calls[c].stage = "ok" THEN page[by].cards ELSE calls[c].snap)
        BY <1>11 DEF AnswerProposeCard, AnswerRemove, Answered, updateNodeStatus, Ok, Now, NowShown
    <2>2. QED
        BY <1>1, <1>3, <1>4, <1>6, <2>1 DEF Settled
<1>12. CASE AnswerCard(c)
    <2> DEFINE back == [page[by].cards EXCEPT ![calls[c].node] = calls[c].snap[calls[c].node]]
    <2>1. calls[c].kind = "card" /\ Settle(c, page[by].status, IF calls[c].stage = "ok" THEN page[by].cards ELSE back)
        BY <1>12 DEF AnswerCard, Answered, updateNodeStatus, Ok, Now, NowShown
    <2>2. back \in Statuses
        BY <1>4, <1>5, <1>7, <2>1
    <2>3. QED
        BY <1>1, <1>3, <1>4, <1>6, <2>1, <2>2 DEF Settled
<1>13. CASE AnswerNote(c)
    <2> DEFINE back == [page[by].cards EXCEPT ![calls[c].node] = "gone"]
    <2>1. calls[c].kind = "note" /\ Settle(c, page[by].status, IF calls[c].stage = "ok" THEN page[by].cards ELSE back)
        BY <1>13 DEF AnswerNote, Answered, Ok, Now, NowShown
    <2>2. back \in Statuses
        BY <1>4, <1>5, <1>7, <1>8, <2>1
    <2>3. QED
        BY <1>1, <1>3, <1>4, <1>6, <2>1, <2>2 DEF Settled
<1>14. QED
    BY <1>9, <1>10, <1>11, <1>12, <1>13 DEF Answer

-----------------------------------------------------------------------------
(* Types, and what has been counted.                                       *)

LEMMA WrittenTyped ==
    ASSUME ReviewType, NEW c \in 1..Len(calls), calls[c].kind \in CardKinds
    PROVE  /\ calls[c].node \in Nodes /\ calls[c].to \in NodeStatus
           /\ Written(c) = [row EXCEPT ![calls[c].node] = IF row[calls[c].node] = "gone" THEN "gone" ELSE calls[c].to]
           /\ Written(c) \in Statuses
<1>1. calls[c] \in Calls
    BY DEF ReviewType
<1>2. calls[c].node \in Nodes /\ calls[c].to \in NodeStatus /\ row \in Statuses
    BY <1>1 DEF ReviewType, Calls
<1> DEFINE x == IF row[calls[c].node] = "gone" THEN "gone" ELSE calls[c].to
<1>3. Written(c) = [row EXCEPT ![calls[c].node] = x]
    BY <1>2 DEF Written, Statuses
<1>4. x \in NodeStatus
    BY <1>2 DEF NodeStatus
<1> HIDE DEF x
<1>5. [row EXCEPT ![calls[c].node] = x] \in Statuses
    BY <1>2, <1>4, CardsTyped
<1>6. QED
    BY <1>2, <1>3, <1>5 DEF x

LEMMA UpdatesAreCards == Updates \subseteq CardKinds
BY DEF Updates, CardKinds

LEMMA ServeType ==
    ASSUME ReviewType, NEW c \in 1..Len(calls),
           Turned(c) \/ Flushed(c) \/ Committed(c) \/ Removed(c) \/ Noted(c) \/ Planned(c)
    PROVE  ReviewType' /\ open' = open
<1>1. \E st : Staged(c, st)
    BY DEF Turned, Flushed, Committed, Removed, Noted, Planned
<1>2. calls' \in Seq(Calls) /\ UNCHANGED <<page, open>>
      /\ \A d \in 1..Len(calls') : calls'[d].kind \in CardKinds => calls'[d].node \in Nodes
    BY <1>1 DEF Staged, Moved, Same, ReviewType
<1>3. row' \in Statuses
    <2>1. "gone" \in NodeStatus /\ "proposed" \in NodeStatus /\ "remove" \in CardKinds /\ "note" \in CardKinds
        BY DEF NodeStatus, CardKinds
    <2>2. row \in Statuses /\ calls[c].kind \in CardKinds => calls[c].node \in Nodes
        BY DEF ReviewType
    <2>3. CASE Turned(c) \/ Flushed(c)
        BY <2>2, <2>3 DEF Turned, Flushed, ReviewType
    <2>4. CASE Committed(c)
        BY <2>4, UpdatesAreCards, WrittenTyped DEF Committed
    <2>5. CASE Removed(c) \/ Noted(c)
        BY <2>1, <2>2, <2>5, CardsTyped DEF Removed, Noted, ReviewType
    <2>6. CASE Planned(c)
        BY <2>6, CardsTyped DEF Planned, ReviewType
    <2>7. QED
        BY <2>3, <2>4, <2>5, <2>6
<1>4. plan' \in PlanStatus
    BY DEF Turned, Flushed, Committed, Removed, Noted, Planned, ReviewType, PlanStatus
<1>5. QED
    BY <1>2, <1>3, <1>4 DEF ReviewType

LEMMA AnswerType == ASSUME ReviewType, NEW c \in 1..Len(calls), Settled(c) PROVE ReviewType' /\ open' = open
BY DEF ReviewType, Settled, Moved

LEMMA ClickType ==
    ASSUME ReviewType, NEW v \in Viewers, NEW kind \in Kinds, NEW n, NEW to \in NodeStatus, Click(v, kind, n, to)
    PROVE  ReviewType' /\ open' = open
<1>1. PICK t \in States : Sent(v, kind, n, to, t.status, t.cards) /\ Effect(v, kind, n, to, State(v), t)
    BY DEF Click
<1>2. kind \in CardKinds => n \in Nodes
    BY <1>1 DEF Effect
<1>3. Len(calls) \in Nat /\ 1..Len(calls') = 1..Len(calls) \cup {Len(calls) + 1}
    BY <1>1 DEF Sent, ReviewType
<1>4. QED
    BY <1>1, <1>2, <1>3 DEF Sent, ReviewType

\* A page's step.
Clicks == \E v \in Viewers : \E kind \in Kinds, to \in NodeStatus : \E n \in Nodes \cup {None} : Click(v, kind, n, to)

LEMMA ReviewSteps ==
    ASSUME ReviewType, Next
    PROVE  \/ Clicks
           \/ \E c \in 1..Len(calls) : Turned(c) \/ Flushed(c) \/ Committed(c) \/ Removed(c) \/ Noted(c) \/ Planned(c) \/ Settled(c)
<1>1. ASSUME NEW v \in Viewers, PlanAction(v) PROVE Clicks
    BY <1>1, PlanClicks DEF Clicks
<1>2. ASSUME NEW v \in Viewers, NEW n \in Nodes, CardAction(v, n) PROVE Clicks
    BY <1>2, CardClicks DEF Clicks
<1>3. QED
    BY <1>1, <1>2, ServeSteps, AnswerSteps DEF Next

LEMMA ReviewKeepsType == ReviewType /\ Next => ReviewType' /\ open' = open
BY ReviewSteps, ClickType, ServeType, AnswerType DEF Clicks

\* A request that found nothing left to be approved is right when it commits, unless a card is proposed meanwhile.
CountHolds ==
    "late" \notin mishaps =>
      \A c \in 1..Len(calls) : calls[c].stage = "flushed" /\ calls[c].derived =>
        \A m \in Nodes : Written(c)[m] # "proposed"

LEMMA RowsKeepCount ==
    ASSUME ReviewType, ReviewType', CountHolds, NEW c \in 1..Len(calls), Moved(c, calls'[c].stage),
           calls'[c].stage # "flushed", "late" \notin mishaps' => "late" \notin mishaps,
           \A d \in 1..Len(calls) : calls[d].stage = "flushed" => calls[d].kind \in Updates,
           "late" \notin mishaps' /\ (\E d \in 1..Len(calls) : d # c /\ calls[d].stage = "flushed") =>
             \A m \in Nodes : row'[m] = row[m] \/ (row'[m] # "proposed" /\ (row[m] = "gone" => row'[m] = "gone"))
    PROVE  CountHolds'
<1> SUFFICES ASSUME "late" \notin mishaps', NEW d \in 1..Len(calls'), calls'[d].stage = "flushed", calls'[d].derived,
                    NEW m \in Nodes
             PROVE  Written(d)'[m] # "proposed"
    BY DEF CountHolds
<1>1. d \in 1..Len(calls) /\ d # c /\ calls'[d] = calls[d] /\ calls[d].stage = "flushed"
    BY DEF Moved
<1>2. calls[d].kind \in CardKinds /\ calls'[d].kind \in CardKinds
    BY <1>1, UpdatesAreCards
<1>3. /\ Written(d) = [row EXCEPT ![calls[d].node] = IF row[calls[d].node] = "gone" THEN "gone" ELSE calls[d].to]
      /\ calls[d].node \in Nodes
    BY <1>1, <1>2, WrittenTyped
<1>4. Written(d)' = [row' EXCEPT ![calls'[d].node] = IF row'[calls'[d].node] = "gone" THEN "gone" ELSE calls'[d].to]
    <2>1. row' \in [Nodes -> NodeStatus] /\ calls'[d].node \in Nodes
        BY <1>2 DEF ReviewType, Statuses
    <2>2. QED
        BY <2>1 DEF Written
<1>5. Written(d)[m] # "proposed"
    <2>1. calls[d].derived
        BY <1>1
    <2>2. QED
        BY <1>1, <2>1 DEF CountHolds
<1>6. row'[m] = row[m] \/ (row'[m] # "proposed" /\ (row[m] = "gone" => row'[m] = "gone"))
    BY <1>1
<1>7. row \in Statuses /\ row' \in Statuses
    BY DEF ReviewType
<1>8. QED
    BY <1>1, <1>3, <1>4, <1>5, <1>6, <1>7 DEF Statuses

UpdatesFlush == \A c \in 1..Len(calls) : calls[c].stage = "flushed" => calls[c].kind \in Updates

CountInv == CountHolds /\ UpdatesFlush

LEMMA ClickKeepsCount == ASSUME ReviewType, CountInv, Clicks PROVE CountInv'
<1>1. PICK v \in Viewers, kind \in Kinds, to \in NodeStatus, n \in Nodes \cup {None}, t \in States :
         Sent(v, kind, n, to, t.status, t.cards)
    BY DEF Clicks, Click
<1>2. /\ row' = row /\ Len(calls) \in Nat /\ ("late" \notin mishaps' => "late" \notin mishaps)
      /\ \A d \in 1..Len(calls') : calls'[d].stage = "flushed" => d \in 1..Len(calls) /\ calls'[d] = calls[d]
    <2>1. Len(calls) \in Nat /\ Len(calls') = Len(calls) + 1
        BY <1>1 DEF ReviewType, Sent
    <2>2. \A d \in 1..Len(calls') : d \in 1..Len(calls) \/ d = Len(calls) + 1
        BY <2>1
    <2>3. QED
        BY <1>1, <2>1, <2>2 DEF Sent
<1>3. \A d \in 1..Len(calls) : calls'[d] = calls[d] => Written(d)' = Written(d)
    BY <1>2 DEF Written
<1>4. QED
    BY <1>2, <1>3 DEF CountInv, CountHolds, UpdatesFlush

LEMMA ServeKeepsCount ==
    ASSUME ReviewType, ReviewType', CountInv, NEW c \in 1..Len(calls),
           Turned(c) \/ Flushed(c) \/ Committed(c) \/ Removed(c) \/ Noted(c) \/ Planned(c) \/ Settled(c)
    PROVE  CountInv'
<1>1. row \in Statuses /\ row' \in Statuses
    BY DEF ReviewType
<1>2. CASE Flushed(c)
    <2>1. /\ Moved(c, "flushed") /\ Same(calls'[c], calls[c]) /\ calls[c].kind \in Updates /\ calls'[c].derived = Derives(c)
          /\ row' = row /\ mishaps' = mishaps
        BY <1>2 DEF Flushed, Staged
    <2>2. \A d \in 1..Len(calls) : Same(calls'[d], calls[d]) => Written(d)' = Written(d)
        BY <2>1 DEF Written, Same
    <2>3. Derives(c) => \A m \in Nodes : Written(c)[m] # "proposed"
        BY DEF Derives, LeavesNone, With
    <2>4. \A d \in 1..Len(calls) : d # c => calls'[d] = calls[d] /\ Same(calls'[d], calls[d])
        BY <2>1 DEF Moved, Same
    <2>5. CountHolds'
        BY <2>1, <2>2, <2>3, <2>4 DEF CountInv, CountHolds, Moved
    <2>6. UpdatesFlush'
        BY <2>1 DEF CountInv, UpdatesFlush, Moved, Same
    <2>7. QED
        BY <2>5, <2>6 DEF CountInv
<1>3. CASE ~Flushed(c)
    <2>1. Moved(c, calls'[c].stage) /\ calls'[c].stage # "flushed" /\ mishaps \subseteq mishaps'
        BY <1>3 DEF Turned, Committed, Removed, Noted, Planned, Settled, Staged, Moved
    <2>2. "late" \notin mishaps' /\ (\E d \in 1..Len(calls) : d # c /\ calls[d].stage = "flushed") =>
             \A m \in Nodes : row'[m] = row[m] \/ (row'[m] # "proposed" /\ (row[m] = "gone" => row'[m] = "gone"))
        <3>1. SUFFICES ASSUME "late" \notin mishaps', NEW d \in 1..Len(calls), d # c, calls[d].stage = "flushed", NEW m \in Nodes
                       PROVE  row'[m] = row[m] \/ (row'[m] # "proposed" /\ (row[m] = "gone" => row'[m] = "gone"))
            OBVIOUS
        <3>2. \A to : Late(c, to) \subseteq mishaps' => to # "proposed"
            <4>1. DOMAIN calls = 1..Len(calls)
                BY DEF ReviewType
            <4>2. QED
                BY <3>1, <4>1 DEF Late
        <3>3. CASE Turned(c) \/ Settled(c)
            BY <3>3 DEF Turned, Settled
        <3>4. CASE Committed(c)
            <4>1. /\ Written(c) = [row EXCEPT ![calls[c].node] = IF row[calls[c].node] = "gone" THEN "gone" ELSE calls[c].to]
                  /\ calls[c].node \in Nodes
                BY <3>4, UpdatesAreCards, WrittenTyped DEF Committed
            <4>2. row' = Written(c) /\ calls[c].to # "proposed"
                BY <3>2, <3>4 DEF Committed
            <4>3. QED
                BY <1>1, <4>1, <4>2 DEF Statuses
        <3>5. CASE Removed(c)
            BY <1>1, <3>5 DEF Removed, Statuses
        <3>6. CASE Noted(c)
            BY <3>2, <3>6 DEF Noted
        <3>7. CASE Planned(c)
            BY <1>1, <3>7 DEF Planned, ApprovedAll, Statuses
        <3>8. QED
            BY <1>3, <3>3, <3>4, <3>5, <3>6, <3>7
    <2>3. UpdatesFlush'
        BY <2>1 DEF CountInv, UpdatesFlush, Moved
    <2>4. QED
        BY <2>1, <2>2, <2>3, RowsKeepCount DEF CountInv, UpdatesFlush
<1>4. QED
    BY <1>2, <1>3

\* Whoever works on the versions, the pages of the review are not open.
ReviewInv == open # {} => ReviewType /\ CountInv

LEMMA VersionsKeepClosed == ReviewNext /\ open = {} => open' = {}
BY DEF ReviewNext, Traveler, Advisor, Service, selectOfficial, selectMine, forkAndMove, discardMine, EditMine,
       AnswerFork, AnswerCarry, AnswerDiscard, refresh, Leave, reconcile, reconcileFork, toggle, fork_itinerary, carryMove,
       abandon_fork, RefuseAsk, Progress, Load, Finish, Break, ApplyAdded, ApplyRemoved, ApplyBooked, Demote, ApplyChanged,
       OnlyMerge, review, vars, versions

LEMMA ReviewInitInv == ReviewInit => ReviewInv
<1> SUFFICES ASSUME ReviewInit, open # {} PROVE ReviewType /\ CountInv
    BY DEF ReviewInv
<1>1. Init
    BY DEF ReviewInit
<1>2. row \in Statuses /\ plan \in PlanStatus
    BY <1>1 DEF Init, Statuses, NodeStatus, PlanStatus
<1>3. [status |-> plan, cards |-> row, waiting |-> {}] \in Pages
    BY <1>2 DEF Pages
<1>4. page \in [Viewers -> Pages]
    BY <1>1, <1>3 DEF Init
<1>5. open \subseteq Viewers
    BY <1>1 DEF Init, Viewers
<1>6. calls = <<>>
    BY <1>1 DEF Init
<1>7. QED
    BY <1>2, <1>4, <1>5, <1>6 DEF ReviewType, CountInv, CountHolds, UpdatesFlush

LEMMA ReviewNextInv == ReviewInv /\ [ReviewNext]_allVars => ReviewInv'
<1> SUFFICES ASSUME ReviewInv, [ReviewNext]_allVars PROVE ReviewInv'
    OBVIOUS
<1>1. CASE UNCHANGED allVars
    <2>1. \A c \in 1..Len(calls) : Written(c)' = Written(c)
        BY <1>1 DEF allVars, vars, Written
    <2>2. QED
        BY <1>1, <2>1 DEF allVars, vars, ReviewInv, ReviewType, CountInv, CountHolds, UpdatesFlush
<1>2. CASE ReviewNext /\ open = {}
    BY <1>2, VersionsKeepClosed DEF ReviewInv
<1>3. CASE open # {} /\ Next
    <2>1. ReviewType' /\ open' = open
        BY <1>3, ReviewKeepsType DEF ReviewInv
    <2>2. CountInv'
        BY <1>3, <2>1, ReviewSteps, ClickKeepsCount, ServeKeepsCount DEF ReviewInv
    <2>3. QED
        BY <2>1, <2>2 DEF ReviewInv
<1>4. QED
    BY <1>1, <1>2, <1>3 DEF ReviewNext

\* While the versions are worked on, a plan is approved with the last card that was left.
LEMMA VersionsApprove ==
    ASSUME ReviewNext, open = {}, plan # "approved", plan' = "approved" PROVE With(row', "proposed") = {}
<1>1. \/ \E n \in Nodes : Progress(n)
      \/ \E c \in merge.todo : ApplyChanged(c)
    BY DEF ReviewNext, Traveler, Advisor, Service, selectOfficial, selectMine, forkAndMove, discardMine, EditMine,
       AnswerFork, AnswerCarry, AnswerDiscard, refresh, Leave, reconcile, reconcileFork, toggle, fork_itinerary, carryMove,
       abandon_fork, RefuseAsk, Load, Finish, Break, ApplyAdded, ApplyRemoved, ApplyBooked, Demote,
       OnlyMerge, review, vars, versions
<1>2. ASSUME NEW n \in Nodes, Progress(n) PROVE LeavesNone(row')
    BY <1>2 DEF Progress
<1>3. ASSUME NEW c \in merge.todo, ApplyChanged(c) PROVE LeavesNone(row')
    BY <1>3 DEF ApplyChanged
<1>4. QED
    BY <1>1, <1>2, <1>3 DEF LeavesNone

LEMMA ReviewApproves ==
    ASSUME ReviewType, CountInv, Next, plan # "approved", plan' = "approved", "late" \notin mishaps'
    PROVE  With(row', "proposed") = {}
<1>1. PICK c \in 1..Len(calls) : Committed(c) \/ Planned(c)
    <2>1. Clicks => plan' = plan
        BY DEF Clicks, Click, Sent
    <2>2. \A c \in 1..Len(calls) : Turned(c) \/ Flushed(c) \/ Removed(c) \/ Noted(c) \/ Settled(c) => plan' = plan
        BY DEF Turned, Flushed, Removed, Noted, Settled
    <2>3. QED
        BY <2>1, <2>2, ReviewSteps
<1>2. CASE Committed(c)
    <2>1. calls[c].stage = "flushed" /\ row' = Written(c) /\ "late" \notin mishaps /\ calls[c].derived
        BY <1>2 DEF Committed
    <2>2. \A m \in Nodes : Written(c)[m] # "proposed"
        BY <2>1 DEF CountInv, CountHolds
    <2>3. QED
        BY <2>1, <2>2 DEF With
<1>3. CASE Planned(c)
    <2>1. row' = ApprovedAll(row)
        BY <1>3 DEF Planned
    <2>2. QED
        BY <2>1 DEF With, ApprovedAll
<1>4. QED
    BY <1>1, <1>2, <1>3

\* An approved plan leaves nothing proposed behind: approved as a whole, derived from its cards, or in a merge, with
\* any requests of any pages between, unless a card was proposed after they had been counted.
THEOREM ReviewNothingLeftProposed == ReviewSpec => NothingLeftProposed
<1>1. ReviewInv /\ [ReviewNext]_allVars =>
        [plan # "approved" /\ plan' = "approved" /\ "late" \notin mishaps' => With(row', "proposed") = {}]_vars
    <2>1. SUFFICES ASSUME ReviewInv, [ReviewNext]_allVars, ~UNCHANGED vars,
                          plan # "approved", plan' = "approved", "late" \notin mishaps'
                   PROVE  With(row', "proposed") = {}
        OBVIOUS
    <2>2. ReviewNext
        BY <2>1 DEF allVars
    <2>3. CASE open = {}
        BY <2>1, <2>2, <2>3, VersionsApprove
    <2>4. CASE open # {}
        BY <2>1, <2>2, <2>4, ReviewApproves DEF ReviewInv, ReviewNext
    <2>5. QED
        BY <2>3, <2>4
<1>2. QED
    BY <1>1, ReviewInitInv, ReviewNextInv, PTL DEF ReviewSpec, NothingLeftProposed

-----------------------------------------------------------------------------
(* A page that is the only one to send requests.                           *)

Sole(v) == \A c \in 1..Len(calls) : calls[c].by = v
Calm == mishaps \subseteq {"refused"} \/ mishaps \subseteq {"overlap", "late"}

OnFile(v, s) == s.cards = row /\ (v = "board" \/ s.status = plan)

\* What the page showed from request to request: up to the last one that was served it is what is on file.
Waits(v, c, s, t) ==
    /\ Effect(v, calls[c].kind, calls[c].node, calls[c].to, s, t)
    /\ calls[c].was = s.status
    /\ calls[c].kind \notin {"propose", "reopen", "note"} => calls[c].snap = s.cards
    /\ calls[c].kind = "note" => s.cards[calls[c].node] = "gone"
    /\ calls[c].stage \in {"sent", "loaded", "flushed", "refused"}
    /\ calls[c].stage = "flushed" => (calls[c].derived <=> Derives(c))

Shows(v, k, h) ==
    /\ k \in 0..Len(calls) /\ h \in [0..Len(calls) -> States]
    /\ OnFile(v, h[k]) /\ h[Len(calls)] = State(v)
    /\ \A c \in 1..k : calls[c].stage \in {"ok", "done"}
    /\ \A c \in k + 1..Len(calls) : Waits(v, c, h[c - 1], h[c]) /\ (c # k + 1 => calls[c].stage = "sent")

\* One request at a time, unless they overlap; and a refused one is noted.
Taken ==
    /\ "overlap" \notin mishaps =>
         \A c, d \in 1..Len(calls) : calls[c].stage # "done" /\ calls[d].stage # "done" => c = d
    /\ \A c \in 1..Len(calls) : calls[c].stage = "refused" => "refused" \in mishaps

\* A note that nobody has written is nowhere.
Unwritten ==
    \A n \in Notes : (\A c \in 1..Len(calls) : calls[c].node # n) =>
       /\ \A v \in Viewers : page[v].cards[n] = "gone"
       /\ \A c \in 1..Len(calls) : calls[c].snap[n] = "gone"

QuietInv ==
    /\ Taken /\ Unwritten
    /\ Calm => \A v \in open : Sole(v) => \E k, h : Shows(v, k, h)

LEMMA ClickKeepsTaken == ASSUME ReviewType, Taken, Clicks PROVE Taken'
<1>1. PICK v \in Viewers, kind \in Kinds, to \in NodeStatus, n \in Nodes \cup {None}, t \in States :
         Sent(v, kind, n, to, t.status, t.cards)
    BY DEF Clicks, Click
<1>2. Len(calls) \in Nat /\ Len(calls') = Len(calls) + 1 /\ DOMAIN calls = 1..Len(calls)
      /\ \A d \in 1..Len(calls') : d \in 1..Len(calls) \/ d = Len(calls) + 1
    BY <1>1 DEF ReviewType, Sent
<1>3. mishaps \subseteq mishaps' /\ ("overlap" \notin mishaps' => InFlight = {})
    BY <1>1 DEF Sent
<1>4. "overlap" \notin mishaps' => \A d \in 1..Len(calls) : calls[d].stage = "done"
    BY <1>2, <1>3 DEF InFlight
<1>5. QED
    BY <1>1, <1>2, <1>3, <1>4 DEF Sent, Taken

LEMMA ServeKeepsTaken ==
    ASSUME ReviewType, Taken, NEW c \in 1..Len(calls),
           Turned(c) \/ Flushed(c) \/ Committed(c) \/ Removed(c) \/ Noted(c) \/ Planned(c) \/ Settled(c)
    PROVE  Taken'
<1>1. mishaps \subseteq mishaps' /\ Moved(c, calls'[c].stage)
    BY DEF Turned, Flushed, Committed, Removed, Noted, Planned, Settled, Staged, Moved
<1>2. calls'[c].stage = "refused" => "refused" \in mishaps'
    BY DEF Turned, Flushed, Committed, Removed, Noted, Planned, Settled, Staged, Moved
<1>3. calls'[c].stage # "done" => calls[c].stage # "done"
    BY DEF Turned, Flushed, Committed, Removed, Noted, Planned, Settled, Staged, Moved
<1>4. QED
    BY <1>1, <1>2, <1>3 DEF Taken, Moved

LEMMA NotesAreNodes == Notes \subseteq Nodes
BY DEF Nodes

LEMMA PageTyped == ReviewType => \A v \in Viewers : page[v].cards \in Statuses /\ page[v].status \in PlanStatus
BY DEF ReviewType, Pages

\* What a request does to a card that it does not name, and that is gone.
LEMMA EffectElsewhere ==
    \A v, kind, n, to : \A s, t \in States : Effect(v, kind, n, to, s, t) =>
      \A m \in Nodes : m # n /\ s.cards[m] = "gone" => t.cards[m] = "gone"
<1> SUFFICES ASSUME NEW v, NEW kind, NEW n, NEW to, NEW s \in States, NEW t \in States, Effect(v, kind, n, to, s, t),
                    NEW m \in Nodes, m # n, s.cards[m] = "gone"
             PROVE  t.cards[m] = "gone"
    OBVIOUS
<1>1. s.cards \in Statuses /\ t.cards \in Statuses
    BY DEF States
<1>2. CASE kind = "approve"
    BY <1>1, <1>2 DEF Effect, ApprovedAll, Statuses
<1>3. CASE kind \in {"propose", "reopen"}
    BY <1>3 DEF Effect
<1>4. CASE kind \in CardKinds
    <2>1. \E x : t.cards = [s.cards EXCEPT ![n] = x]
        BY <1>4 DEF Effect, CardKinds
    <2>2. QED
        BY <1>1, <2>1 DEF Statuses
<1>5. QED
    BY <1>2, <1>3, <1>4 DEF Effect, Kinds, CardKinds

LEMMA ClickKeepsUnwritten == ASSUME ReviewType, Unwritten, Clicks PROVE Unwritten'
<1>1. PICK v \in Viewers, kind \in Kinds, to \in NodeStatus, n \in Nodes \cup {None}, t \in States :
         Sent(v, kind, n, to, t.status, t.cards) /\ Effect(v, kind, n, to, State(v), t)
    BY DEF Clicks, Click
<1>2. Len(calls) \in Nat /\ Len(calls') = Len(calls) + 1
      /\ \A d \in 1..Len(calls') : d \in 1..Len(calls) \/ d = Len(calls) + 1
    BY <1>1 DEF ReviewType, Sent
<1> SUFFICES ASSUME NEW m \in Notes, \A d \in 1..Len(calls') : calls'[d].node # m
             PROVE  /\ \A u \in Viewers : page'[u].cards[m] = "gone"
                    /\ \A d \in 1..Len(calls') : calls'[d].snap[m] = "gone"
    BY DEF Unwritten
<1>3. m \in Nodes /\ m # n /\ \A d \in 1..Len(calls) : calls[d].node # m
    BY <1>1, <1>2, NotesAreNodes DEF Sent
<1>4. (\A u \in Viewers : page[u].cards[m] = "gone") /\ \A d \in 1..Len(calls) : calls[d].snap[m] = "gone"
    BY <1>3 DEF Unwritten
<1>5. t.cards[m] = "gone"
    <2>1. State(v) \in States /\ State(v).cards[m] = "gone"
        BY <1>4, StateTyped DEF State
    <2>2. \A s \in States : Effect(v, kind, n, to, s, t) => (s.cards[m] = "gone" => t.cards[m] = "gone")
        BY <1>3, EffectElsewhere
    <2>3. Effect(v, kind, n, to, State(v), t)
        BY <1>1
    <2>4. QED
        BY <2>1, <2>2, <2>3, Zenon
<1>6. Empty[m] = "gone"
    BY <1>3 DEF Empty
<1>7. QED
    BY <1>1, <1>2, <1>4, <1>5, <1>6 DEF Sent

LEMMA ServeKeepsUnwritten ==
    ASSUME ReviewType, Unwritten, NEW c \in 1..Len(calls),
           Turned(c) \/ Flushed(c) \/ Committed(c) \/ Removed(c) \/ Noted(c) \/ Planned(c) \/ Settled(c)
    PROVE  Unwritten'
<1> SUFFICES ASSUME NEW m \in Notes, \A d \in 1..Len(calls') : calls'[d].node # m
             PROVE  /\ \A u \in Viewers : page'[u].cards[m] = "gone"
                    /\ \A d \in 1..Len(calls') : calls'[d].snap[m] = "gone"
    BY DEF Unwritten
<1>1. Len(calls') = Len(calls) /\ calls'[c].node = calls[c].node /\ \A d \in 1..Len(calls) : d # c => calls'[d] = calls[d]
    BY DEF Turned, Flushed, Committed, Removed, Noted, Planned, Settled, Staged, Moved, Same
<1>2. m \in Nodes /\ \A d \in 1..Len(calls) : calls[d].node # m
    BY <1>1, NotesAreNodes
<1>3. (\A u \in Viewers : page[u].cards[m] = "gone") /\ \A d \in 1..Len(calls) : calls[d].snap[m] = "gone"
    BY <1>2 DEF Unwritten
<1>4. CASE ~Settled(c)
    <2>1. page' = page /\ calls'[c].snap = calls[c].snap
        BY <1>4 DEF Turned, Flushed, Committed, Removed, Noted, Planned, Staged, Same
    <2>2. QED
        BY <1>1, <1>3, <2>1
<1>5. CASE Settled(c)
    <2>1. calls[c].by \in Viewers
        <3>1. calls[c] \in Calls
            BY DEF ReviewType
        <3>2. QED
            BY <3>1 DEF Calls
    <2>2. Empty[m] = "gone"
        BY <1>2 DEF Empty
    <2>3. page[calls[c].by].cards \in Statuses /\ page[calls[c].by].cards[m] = "gone" /\ calls[c].node # m
          /\ calls[c].snap[m] = "gone"
        BY <1>2, <1>3, <2>1, PageTyped
    <2>4. page'[calls[c].by].cards[m] = "gone"
        <3>1. CASE calls[c].stage = "ok"
            BY <1>5, <2>3, <3>1 DEF Settled, State
        <3>2. CASE calls[c].stage = "refused"
            <4>1. \A x : [page[calls[c].by].cards EXCEPT ![calls[c].node] = x][m] = "gone"
                BY <1>2, <2>3 DEF Statuses
            <4>2. page'[calls[c].by].cards \in {page[calls[c].by].cards, calls[c].snap}
                  \/ \E x : page'[calls[c].by].cards = [page[calls[c].by].cards EXCEPT ![calls[c].node] = x]
                BY <1>5, <3>2 DEF Settled
            <4>3. QED
                BY <2>3, <4>1, <4>2
        <3>3. QED
            BY <1>5, <3>1, <3>2 DEF Settled
    <2>5. QED
        BY <1>1, <1>3, <1>5, <2>1, <2>2, <2>4 DEF Settled
<1>6. QED
    BY <1>4, <1>5

LEMMA StateFields ==
    ASSUME NEW v, NEW s \in States, s.status = page[v].status, s.cards = page[v].cards PROVE s = State(v)
BY DEF States, State

LEMMA ClickKeepsShows ==
    ASSUME ReviewType, QuietInv, Calm, NEW v \in Viewers, NEW kind \in Kinds, NEW to \in NodeStatus, NEW n \in Nodes \cup {None},
           Click(v, kind, n, to), Sole(v), NEW k, NEW h, Shows(v, k, h)
    PROVE  \E g : Shows(v, k, g)'
<1>1. PICK t \in States : /\ Sent(v, kind, n, to, t.status, t.cards) /\ t = State(v)'
                          /\ Effect(v, kind, n, to, State(v), t)
                          /\ kind = "note" => n \in Notes /\ \A c \in DOMAIN calls : calls[c].node # n
    BY DEF Click
<1>0. PICK N, g : N = Len(calls) /\ g = [i \in 0..N + 1 |-> IF i = N + 1 THEN t ELSE h[i]]
    OBVIOUS
<1>2. N \in Nat /\ DOMAIN calls = 1..N /\ Len(calls') = N + 1 /\ k \in 0..N
      /\ h \in [0..N -> States] /\ h[N] = State(v)
    BY <1>0, <1>1 DEF ReviewType, Sent, Shows
<1>3. g \in [0..N + 1 -> States] /\ g[N + 1] = t /\ \A i \in 0..N : g[i] = h[i]
    BY <1>0, <1>2
<1>4. N + 1 - 1 = N /\ N \in 0..N /\ \A c \in 1..N : c \in 0..N /\ c - 1 \in 0..N
    BY <1>2
<1>5. \A c \in 1..N : calls'[c] = calls[c] /\ Derives(c)' = Derives(c)
    BY <1>0, <1>1 DEF Sent, Derives, Written, LeavesNone
<1>6. ASSUME NEW c \in k + 1..N PROVE Waits(v, c, g[c - 1], g[c])' /\ (c # k + 1 => calls'[c].stage = "sent")
    <2>1. Waits(v, c, h[c - 1], h[c]) /\ (c # k + 1 => calls[c].stage = "sent")
        BY <1>0, <1>6 DEF Shows
    <2>2. c \in 1..N
        BY <1>2, <1>6
    <2>3. g[c - 1] = h[c - 1] /\ g[c] = h[c] /\ calls'[c] = calls[c] /\ Derives(c)' = Derives(c)
        BY <1>3, <1>4, <1>5, <2>2
    <2>4. QED
        BY <2>1, <2>3 DEF Waits, Effect, With, ApprovedAll
<1>7. ASSUME NEW c \in {N + 1} PROVE Waits(v, c, g[c - 1], g[c])' /\ calls'[c].stage = "sent"
    <2>1. h[N].status = page[v].status /\ h[N].cards = page[v].cards /\ g[c - 1] = h[N] /\ g[c] = t
        BY <1>2, <1>3, <1>4, <1>7 DEF State
    <2>2. kind = "note" => page[v].cards[n] = "gone"
        BY <1>1, <1>2 DEF QuietInv, Unwritten
    <2>3. Effect(v, kind, n, to, h[N], t)
        BY <1>1, <1>2
    <2>4. /\ calls'[c].kind = kind /\ calls'[c].node = n /\ calls'[c].to = to /\ calls'[c].stage = "sent"
          /\ calls'[c].was = page[v].status
          /\ calls'[c].snap = IF kind \in {"propose", "reopen", "note"} THEN Empty ELSE page[v].cards
        BY <1>0, <1>1, <1>7 DEF Sent
    <2>5. Effect(v, calls'[c].kind, calls'[c].node, calls'[c].to, h[N], t)
        BY <2>3, <2>4
    <2>6. QED
        BY <2>1, <2>2, <2>4, <2>5 DEF Waits
<1>8. OnFile(v, g[k])'
    BY <1>1, <1>2, <1>3 DEF Shows, OnFile, Sent
<1>9. g[N + 1] = State(v)'
    BY <1>1, <1>3
<1>10. \A c \in 1..k : calls'[c].stage \in {"ok", "done"}
    <2>1. \A c \in 1..k : c \in 1..N
        BY <1>2
    <2>2. QED
        BY <1>5, <2>1 DEF Shows
<1>11. \A c \in k + 1..N + 1 : Waits(v, c, g[c - 1], g[c])' /\ (c # k + 1 => calls'[c].stage = "sent")
    <2>1. \A c \in k + 1..N + 1 : c \in k + 1..N \/ c \in {N + 1}
        BY <1>2
    <2>2. QED
        BY <1>6, <1>7, <2>1
<1>12. Shows(v, k, g)'
    BY <1>2, <1>3, <1>8, <1>9, <1>10, <1>11 DEF Shows
<1>13. QED
    BY <1>12

\* The request that is worked on is the first that waits.
LEMMA IsNext ==
    ASSUME ReviewType, Taken, Calm', mishaps \subseteq mishaps', NEW v, NEW k, NEW h, Shows(v, k, h),
           NEW c \in 1..Len(calls), calls[c].stage \in {"sent", "loaded", "flushed"},
           OutOfOrder(c) \subseteq mishaps' \/ "refused" \in mishaps' \/ calls[c].stage # "sent"
    PROVE  c = k + 1
<1> SUFFICES ASSUME c # k + 1 PROVE FALSE
    OBVIOUS
<1>1. k \in 0..Len(calls) /\ Len(calls) \in Nat
    BY DEF Shows, ReviewType
<1>2. c \notin 1..k
    BY DEF Shows
<1>3. c \in k + 1..Len(calls) /\ k + 1 \in k + 1..Len(calls) /\ k + 1 \in 1..Len(calls) /\ k + 1 \in 1..c - 1
    BY <1>1, <1>2
<1>4. calls[c].stage = "sent" /\ calls[k + 1].stage \in {"sent", "loaded", "flushed", "refused"}
    BY <1>3 DEF Shows, Waits
<1>5. "refused" \notin mishaps'
    <2>1. SUFFICES ASSUME "refused" \in mishaps' PROVE FALSE
        OBVIOUS
    <2>2. "overlap" \notin mishaps
        BY <2>1 DEF Calm
    <2>3. QED
        BY <1>3, <1>4, <2>2 DEF Taken
<1>6. calls[k + 1].stage # "refused"
    BY <1>3, <1>5 DEF Taken
<1>7. "apart" \in OutOfOrder(c)
    BY <1>3, <1>4, <1>6 DEF OutOfOrder
<1>8. QED
    BY <1>4, <1>5, <1>7 DEF Calm

\* A request that moves on and waits still.
LEMMA StillShows ==
    ASSUME ReviewType, NEW v, NEW k, NEW h, Shows(v, k, h), k + 1 \in 1..Len(calls), NEW st \in {"loaded", "flushed", "refused"},
           Staged(k + 1, st), UNCHANGED <<plan, row>>,
           st = "flushed" => calls'[k + 1].derived = Derives(k + 1)
    PROVE  Shows(v, k, h)'
<1>1. /\ Len(calls') = Len(calls) /\ Len(calls) \in Nat /\ k \in 0..Len(calls)
      /\ \A d \in 1..Len(calls) : d # k + 1 => calls'[d] = calls[d]
      /\ Same(calls'[k + 1], calls[k + 1]) /\ calls'[k + 1].stage = st
      /\ \A d \in 1..k : d \in 1..Len(calls) /\ d # k + 1
      /\ \A d \in k + 1..Len(calls) : d \in 1..Len(calls)
    BY DEF Staged, Moved, Shows, ReviewType
<1>2. \A d \in 1..Len(calls) : Same(calls'[d], calls[d]) => Derives(d)' = Derives(d)
    BY DEF Derives, Written, LeavesNone, Same
<1>3. Same(calls'[k + 1], calls[k + 1]) /\ \A d \in 1..Len(calls) : d # k + 1 => Same(calls'[d], calls[d])
    BY <1>1 DEF Same
<1>4. ASSUME NEW d \in k + 1..Len(calls) PROVE Waits(v, d, h[d - 1], h[d])' /\ (d # k + 1 => calls'[d].stage = "sent")
    <2>1. Waits(v, d, h[d - 1], h[d]) /\ (d # k + 1 => calls[d].stage = "sent")
        BY <1>4 DEF Shows
    <2>2. Same(calls'[d], calls[d]) /\ Derives(d)' = Derives(d)
        BY <1>1, <1>2, <1>3, <1>4
    <2>3. calls'[d].stage \in {"sent", "loaded", "flushed", "refused"}
        BY <1>1, <1>4, <2>1
    <2>4. calls'[d].stage = "flushed" => (calls'[d].derived <=> Derives(d)')
        <3>1. CASE d = k + 1
            BY <1>1, <2>2, <3>1
        <3>2. CASE d # k + 1
            BY <1>1, <1>4, <2>1, <3>2
        <3>3. QED
            BY <3>1, <3>2
    <2>5. Effect(v, calls'[d].kind, calls'[d].node, calls'[d].to, h[d - 1], h[d])
        BY <2>1, <2>2 DEF Waits, Same
    <2>6. QED
        BY <1>1, <2>1, <2>2, <2>3, <2>4, <2>5 DEF Waits, Same
<1>5. OnFile(v, h[k])' /\ h[Len(calls')] = State(v)'
    BY <1>1 DEF Shows, OnFile, State, Staged
<1>6. \A d \in 1..k : calls'[d].stage \in {"ok", "done"}
    BY <1>1 DEF Shows
<1>7. h \in [0..Len(calls') -> States]
    BY <1>1 DEF Shows
<1>8. QED
    BY <1>1, <1>4, <1>5, <1>6, <1>7 DEF Shows

\* What a request does when it is served is what its page showed.
LEMMA ServedAsShown ==
    ASSUME ReviewType, NEW v, NEW c \in 1..Len(calls), NEW s \in States, NEW t \in States, Waits(v, c, s, t), OnFile(v, s),
           Committed(c) \/ Removed(c) \/ Noted(c) \/ Planned(c)
    PROVE  OnFile(v, t)'
<1> DEFINE n == calls[c].node
           to == calls[c].to
           kind == calls[c].kind
<1>1. s.cards = row /\ (v = "board" \/ s.status = plan) /\ row \in Statuses
    BY DEF OnFile, ReviewType
<1>2. Effect(v, kind, n, to, s, t)
    BY DEF Waits
<1> HIDE DEF n, to, kind
<1>3. SUFFICES t.cards = row' /\ (v = "board" \/ t.status = plan')
    BY DEF OnFile
<1>4. CASE Committed(c)
    <2>1. /\ kind \in Updates /\ kind \in CardKinds /\ calls[c].stage = "flushed"
          /\ row' = Written(c) /\ plan' = IF calls[c].derived /\ plan = "proposed" THEN "approved" ELSE plan
        BY <1>4, UpdatesAreCards DEF Committed, kind
    <2>2. n \in Nodes /\ Written(c) = [row EXCEPT ![n] = IF row[n] = "gone" THEN "gone" ELSE to]
        BY <2>1, WrittenTyped DEF n, to, kind
    <2>3. row[n] # "gone" /\ t.cards = [row EXCEPT ![n] = to]
        BY <1>1, <1>2, <2>1 DEF Effect, Updates
    <2>4. t.cards = Written(c)
        BY <2>2, <2>3
    <2>5. calls[c].derived <=> plan = "proposed" /\ With(t.cards, "proposed") = {} /\ With(t.cards, "approved") # {}
        BY <2>1, <2>4 DEF Waits, Derives, LeavesNone
    <2>6. CASE kind = "approveNode"
        <3>1. v # "board" /\ s.status = plan
            BY <1>1, <1>2, <2>6 DEF Effect
        <3>2. n \in With(t.cards, "approved")
            BY <1>1, <1>2, <2>2, <2>6 DEF Effect, With, Statuses
        <3>3. t.status = IF With(t.cards, "proposed") = {} /\ plan = "proposed" THEN "approved" ELSE plan
            BY <1>2, <2>6, <3>1 DEF Effect
        <3>4. QED
            BY <2>1, <2>4, <2>5, <3>2, <3>3
    <2>7. CASE kind = "proposeCard"
        BY <1>1, <1>2, <2>1, <2>4, <2>7 DEF Effect
    <2>8. CASE kind = "card"
        BY <1>2, <2>1, <2>4, <2>8 DEF Effect
    <2>9. QED
        BY <2>1, <2>6, <2>7, <2>8 DEF Updates
<1>5. CASE Removed(c)
    BY <1>1, <1>2, <1>5 DEF Effect, Removed, n, kind
<1>6. CASE Noted(c)
    BY <1>1, <1>2, <1>6 DEF Effect, Noted, n, kind
<1>7. CASE Planned(c)
    BY <1>1, <1>2, <1>7 DEF Effect, Planned, kind
<1>8. QED
    BY <1>4, <1>5, <1>6, <1>7

LEMMA ServedShows ==
    ASSUME ReviewType, NEW v, NEW k, NEW h, Shows(v, k, h), k + 1 \in 1..Len(calls), Staged(k + 1, "ok"), OnFile(v, h[k + 1])'
    PROVE  Shows(v, k + 1, h)'
<1>1. /\ Len(calls') = Len(calls) /\ Len(calls) \in Nat /\ k \in 0..Len(calls)
      /\ \A d \in 1..Len(calls) : d # k + 1 => calls'[d] = calls[d]
      /\ calls'[k + 1].stage = "ok"
      /\ \A d \in 1..k + 1 : d = k + 1 \/ (d \in 1..k /\ d \in 1..Len(calls) /\ d # k + 1)
      /\ \A d \in k + 1 + 1..Len(calls) : d \in 1..Len(calls) /\ d # k + 1 /\ d \in k + 1..Len(calls)
    BY DEF Staged, Moved, Shows, ReviewType
<1>2. ASSUME NEW d \in k + 1 + 1..Len(calls) PROVE Waits(v, d, h[d - 1], h[d])' /\ calls'[d].stage = "sent"
    <2>1. Waits(v, d, h[d - 1], h[d]) /\ calls[d].stage = "sent" /\ calls'[d] = calls[d]
        BY <1>1, <1>2 DEF Shows
    <2>2. QED
        BY <2>1 DEF Waits
<1>3. h[Len(calls')] = State(v)'
    BY <1>1 DEF Shows, State, Staged
<1>4. \A d \in 1..k + 1 : calls'[d].stage \in {"ok", "done"}
    BY <1>1 DEF Shows
<1>5. h \in [0..Len(calls') -> States] /\ k + 1 \in 0..Len(calls')
    BY <1>1 DEF Shows
<1>6. QED
    BY <1>1, <1>2, <1>3, <1>4, <1>5 DEF Shows

\* An answer that was good, and one that was refused.
LEMMA GoodShows ==
    ASSUME ReviewType, NEW v \in Viewers, NEW k, NEW h, Shows(v, k, h), NEW c \in 1..Len(calls), calls[c].by = v, Settled(c),
           calls[c].stage = "ok"
    PROVE  Shows(v, k, h)'
<1>1. /\ Len(calls') = Len(calls) /\ Len(calls) \in Nat /\ k \in 0..Len(calls)
      /\ \A d \in 1..Len(calls) : d # c => calls'[d] = calls[d]
      /\ calls'[c].stage = "done"
      /\ \A d \in 1..k : d \in 1..Len(calls)
      /\ \A d \in k + 1..Len(calls) : d \in 1..Len(calls)
    BY DEF Settled, Moved, Shows, ReviewType
<1>2. \A d \in k + 1..Len(calls) : d # c
    BY DEF Shows, Waits
<1>3. ASSUME NEW d \in k + 1..Len(calls) PROVE Waits(v, d, h[d - 1], h[d])' /\ (d # k + 1 => calls'[d].stage = "sent")
    <2>1. Waits(v, d, h[d - 1], h[d]) /\ (d # k + 1 => calls[d].stage = "sent") /\ calls'[d] = calls[d]
        BY <1>1, <1>2, <1>3 DEF Shows
    <2>2. Derives(d)' = Derives(d)
        BY <2>1 DEF Settled, Derives, Written, LeavesNone
    <2>3. QED
        BY <2>1, <2>2 DEF Waits
<1>4. h[Len(calls')] = State(v)'
    BY <1>1 DEF Shows, Settled, State
<1>5. \A d \in 1..k : calls'[d].stage \in {"ok", "done"}
    BY <1>1 DEF Shows
<1>6. h \in [0..Len(calls') -> States] /\ k \in 0..Len(calls') /\ OnFile(v, h[k])'
    BY <1>1 DEF Shows, OnFile, Settled
<1>7. QED
    BY <1>1, <1>3, <1>4, <1>5, <1>6 DEF Shows

LEMMA RefusedShows ==
    ASSUME ReviewType, Taken, Calm, NEW v \in Viewers, NEW k, NEW h, Shows(v, k, h), NEW c \in 1..Len(calls), calls[c].by = v,
           Settled(c), calls[c].stage = "refused"
    PROVE  \E g : Shows(v, c, g)'
<1>1. PICK N, g : N = Len(calls) /\ g = [h EXCEPT ![N] = h[k]]
    OBVIOUS
<1>2. N \in Nat /\ k \in 0..N /\ h \in [0..N -> States] /\ h[k] \in States /\ h[N] = State(v)
    BY <1>1 DEF Shows, ReviewType
<1>3. g \in [0..N -> States] /\ g[N] = h[k]
    BY <1>1, <1>2
<1>4. "overlap" \notin mishaps
    BY DEF Taken, Calm
<1>5. c = N /\ c = k + 1
    <2>1. c \notin 1..k
        BY DEF Shows
    <2>2. c \in k + 1..N /\ N \in k + 1..N /\ k + 1 \in k + 1..N /\ N \in 1..N /\ k + 1 \in 1..N
        BY <1>1, <1>2, <2>1
    <2>3. calls[c].stage # "done" /\ calls[N].stage # "done" /\ calls[k + 1].stage # "done"
        BY <1>1, <2>2 DEF Shows, Waits
    <2>4. QED
        BY <1>1, <1>4, <2>2, <2>3 DEF Taken
<1>6. Waits(v, c, h[k], h[N]) /\ k = c - 1
    <2>1. k = c - 1 /\ c \in k + 1..Len(calls) /\ c = N
        BY <1>1, <1>2, <1>5
    <2>2. Waits(v, c, h[c - 1], h[c])
        BY <2>1 DEF Shows
    <2>3. QED
        BY <2>1, <2>2
<1>7. h[N].status = page[v].status /\ h[N].cards = page[v].cards /\ h[k].cards \in Statuses
    BY <1>2 DEF State, States
<1> DEFINE kind == calls[c].kind
           n == calls[c].node
<1>8. /\ Effect(v, kind, n, calls[c].to, h[k], h[N]) /\ calls[c].was = h[k].status
      /\ kind \notin {"propose", "reopen", "note"} => calls[c].snap = h[k].cards
      /\ kind = "note" => h[k].cards[n] = "gone"
    BY <1>6 DEF Waits
<1>9. page'[v].status = h[k].status
    <2>1. page'[v].status = IF kind \in {"propose", "reopen", "approve", "approveNode"} THEN calls[c].was ELSE page[v].status
        BY DEF Settled
    <2>2. kind \notin {"propose", "reopen", "approve", "approveNode"} => h[N].status = h[k].status
        BY <1>8 DEF Effect, Kinds
    <2>3. QED
        BY <1>7, <1>8, <2>1, <2>2
<1>10. page'[v].cards = h[k].cards
    <2>1. page'[v].cards =
            CASE kind \in {"propose", "reopen"} -> page[v].cards
              [] kind \in {"approve", "approveNode", "proposeCard", "remove"} -> calls[c].snap
              [] kind = "card" -> [page[v].cards EXCEPT ![n] = calls[c].snap[n]]
              [] OTHER -> [page[v].cards EXCEPT ![n] = "gone"]
        BY DEF Settled
    <2>2. CASE kind \in {"propose", "reopen"}
        BY <1>7, <1>8, <2>1, <2>2 DEF Effect
    <2>3. CASE kind \in {"approve", "approveNode", "proposeCard", "remove"}
        BY <1>8, <2>1, <2>3
    <2>4. \A x : [[h[k].cards EXCEPT ![n] = x] EXCEPT ![n] = h[k].cards[n]] = h[k].cards
        BY <1>7 DEF Statuses
    <2>5. CASE kind = "card"
        <3>1. page'[v].cards = [h[N].cards EXCEPT ![n] = h[k].cards[n]]
            BY <1>7, <1>8, <2>1, <2>5
        <3>2. h[N].cards = [h[k].cards EXCEPT ![n] = calls[c].to]
            BY <1>8, <2>5 DEF Effect
        <3>3. QED
            BY <2>4, <3>1, <3>2
    <2>6. CASE kind = "note"
        <3>1. page'[v].cards = [h[N].cards EXCEPT ![n] = h[k].cards[n]]
            BY <1>7, <1>8, <2>1, <2>6
        <3>2. h[N].cards = [h[k].cards EXCEPT ![n] = "proposed"]
            BY <1>8, <2>6 DEF Effect
        <3>3. QED
            BY <2>4, <3>1, <3>2
    <2>7. QED
        BY <1>8, <2>2, <2>3, <2>5, <2>6 DEF Effect, Kinds
<1>11. h[k] = State(v)'
    BY <1>2, <1>9, <1>10 DEF State, States
<1>12. /\ Len(calls') = N /\ c \in 0..N /\ \A d \in 1..c : d = c \/ d \in 1..k
       /\ \A d \in 1..k : d \in 1..Len(calls) /\ d # c
       /\ c + 1..N = {}
    BY <1>1, <1>2, <1>5 DEF Settled, Moved
<1>13. \A d \in 1..c : calls'[d].stage \in {"ok", "done"}
    BY <1>12 DEF Settled, Moved, Shows
<1>14. OnFile(v, g[c])' /\ g[Len(calls')] = State(v)'
    <2>1. OnFile(v, h[k])'
        BY DEF Shows, OnFile, Settled
    <2>2. QED
        BY <1>3, <1>5, <1>11, <1>12, <2>1
<1>15. g \in [0..Len(calls') -> States] /\ c \in 0..Len(calls') /\ c + 1..Len(calls') = {}
    BY <1>3, <1>12
<1>16. Shows(v, c, g)'
    BY <1>13, <1>14, <1>15 DEF Shows
<1>17. QED
    BY <1>16

LEMMA ServeKeepsShows ==
    ASSUME ReviewType, QuietInv, Calm, Calm', NEW v \in open, Sole(v), NEW c \in 1..Len(calls),
           Turned(c) \/ Flushed(c) \/ Committed(c) \/ Removed(c) \/ Noted(c) \/ Planned(c) \/ Settled(c)
    PROVE  \E k, h : Shows(v, k, h)'
<1>1. PICK k, h : Shows(v, k, h)
    BY DEF QuietInv
<1>2. v \in Viewers /\ calls[c].by = v
    BY DEF ReviewType, Sole
<1>3. mishaps \subseteq mishaps'
    BY DEF Turned, Flushed, Committed, Removed, Noted, Planned, Settled
<1>4. CASE Settled(c)
    BY <1>1, <1>2, <1>4, GoodShows, RefusedShows DEF Settled, QuietInv
<1>5. CASE ~Settled(c)
    <2>1. calls[c].stage \in {"sent", "loaded", "flushed"}
          /\ (OutOfOrder(c) \subseteq mishaps' \/ "refused" \in mishaps' \/ calls[c].stage # "sent")
        <3>1. "lost" \notin mishaps'
            BY DEF Calm
        <3>2. QED
            BY <1>5, <3>1 DEF Turned, Flushed, Committed, Removed, Noted, Planned
    <2>2. c = k + 1
        BY <1>1, <1>3, <2>1, IsNext DEF QuietInv
    <2>3. CASE Turned(c) \/ Flushed(c)
        <3>1. PICK st \in {"loaded", "flushed", "refused"} : Staged(k + 1, st) /\ (st = "flushed" => calls'[k + 1].derived = Derives(k + 1))
              /\ UNCHANGED <<plan, row>>
            BY <2>2, <2>3 DEF Turned, Flushed
        <3>2. Shows(v, k, h)'
            BY <1>1, <2>2, <3>1, StillShows
        <3>3. QED
            BY <3>2
    <2>4. CASE Committed(c) \/ Removed(c) \/ Noted(c) \/ Planned(c)
        <3>1. k \in 0..Len(calls) /\ Len(calls) \in Nat /\ k + 1 \in k + 1..Len(calls) /\ k + 1 - 1 = k /\ h \in [0..Len(calls) -> States]
            BY <1>1, <2>2 DEF Shows, ReviewType
        <3>2. Waits(v, k + 1, h[k + 1 - 1], h[k + 1])
            BY <1>1, <3>1 DEF Shows
        <3>3. Waits(v, c, h[k], h[k + 1]) /\ OnFile(v, h[k]) /\ h[k] \in States /\ h[k + 1] \in States
            BY <1>1, <2>2, <3>1, <3>2 DEF Shows
        <3>4. OnFile(v, h[k + 1])'
            BY <2>4, <3>3, ServedAsShown
        <3>5. Staged(k + 1, "ok")
            BY <2>2, <2>4 DEF Committed, Removed, Noted, Planned
        <3>6. Shows(v, k + 1, h)'
            BY <1>1, <2>2, <3>4, <3>5, ServedShows
        <3>7. QED
            BY <3>6
    <2>5. QED
        BY <1>5, <2>3, <2>4
<1>6. QED
    BY <1>4, <1>5

LEMMA StepKeepsQuiet == ASSUME ReviewType, QuietInv, Next PROVE QuietInv'
<1>1. mishaps \subseteq mishaps' /\ open' = open
    <2>1. Clicks => mishaps \subseteq mishaps'
        BY DEF Clicks, Click, Sent
    <2>2. \A c \in 1..Len(calls) :
            Turned(c) \/ Flushed(c) \/ Committed(c) \/ Removed(c) \/ Noted(c) \/ Planned(c) \/ Settled(c) => mishaps \subseteq mishaps'
        BY DEF Turned, Flushed, Committed, Removed, Noted, Planned, Settled
    <2>3. QED
        BY <2>1, <2>2, ReviewSteps, ReviewKeepsType
<1>2. Calm' => Calm
    BY <1>1 DEF Calm
<1>3. CASE Clicks
    <2>1. Taken' /\ Unwritten'
        BY <1>3, ClickKeepsTaken, ClickKeepsUnwritten DEF QuietInv
    <2>2. ASSUME Calm', NEW v \in open, Sole(v)' PROVE \E k, h : Shows(v, k, h)'
        <3>1. PICK u \in Viewers, kind \in Kinds, to \in NodeStatus, n \in Nodes \cup {None} : Click(u, kind, n, to)
            BY <1>3 DEF Clicks
        <3>2. PICK t \in States : Sent(u, kind, n, to, t.status, t.cards)
            BY <3>1 DEF Click
        <3>3. Len(calls) \in Nat /\ Len(calls') = Len(calls) + 1 /\ Len(calls) + 1 \in 1..Len(calls') /\ 1..Len(calls) \subseteq 1..Len(calls')
            BY <3>2 DEF Sent, ReviewType
        <3>4. u = v /\ Sole(v)
            BY <2>2, <3>2, <3>3 DEF Sole, Sent
        <3>5. PICK k, h : Shows(v, k, h)
            BY <1>2, <2>2, <3>4 DEF QuietInv
        <3>6. \E g : Shows(v, k, g)'
            BY <1>2, <2>2, <3>1, <3>4, <3>5, ClickKeepsShows
        <3>7. QED
            BY <3>6
    <2>3. QED
        BY <1>1, <2>1, <2>2 DEF QuietInv
<1>4. ASSUME NEW c \in 1..Len(calls),
             Turned(c) \/ Flushed(c) \/ Committed(c) \/ Removed(c) \/ Noted(c) \/ Planned(c) \/ Settled(c)
      PROVE  QuietInv'
    <2>1. Taken' /\ Unwritten'
        BY <1>4, ServeKeepsTaken, ServeKeepsUnwritten DEF QuietInv
    <2>2. Len(calls') = Len(calls) /\ \A d \in 1..Len(calls) : calls'[d].by = calls[d].by
        BY <1>4 DEF Turned, Flushed, Committed, Removed, Noted, Planned, Settled, Staged, Moved, Same
    <2>3. ASSUME Calm', NEW v \in open, Sole(v)' PROVE \E k, h : Shows(v, k, h)'
        <3>1. Sole(v)
            BY <2>2, <2>3 DEF Sole
        <3>2. QED
            BY <1>2, <1>4, <2>1, <2>3, <3>1, ServeKeepsShows
    <2>4. QED
        BY <1>1, <2>1, <2>3 DEF QuietInv
<1>5. QED
    BY <1>3, <1>4, ReviewSteps

LEMMA InitQuiet == ASSUME Init, ReviewType PROVE QuietInv
<1>1. /\ calls = <<>> /\ Len(calls) = 0 /\ 1..Len(calls) = {}
      /\ \A v \in Viewers : page[v].status = plan /\ page[v].cards = row
      /\ \A n \in Notes : row[n] = "gone"
    BY NotesAreNodes DEF Init
<1>2. Taken /\ Unwritten
    BY <1>1 DEF Taken, Unwritten
<1>3. ASSUME NEW v \in Viewers PROVE \E k, h : Shows(v, k, h)
    <2> DEFINE h == [i \in 0..0 |-> State(v)]
    <2>1. h \in [0..Len(calls) -> States] /\ h[0] = State(v) /\ 0 \in 0..Len(calls)
        BY <1>1, StateTyped
    <2>2. OnFile(v, State(v))
        BY <1>1 DEF OnFile, State
    <2>3. 0 + 1..Len(calls) = {} /\ 1..0 = {}
        BY <1>1
    <2> HIDE DEF h
    <2>4. Shows(v, 0, h)
        BY <1>1, <2>1, <2>2, <2>3 DEF Shows
    <2>5. QED
        BY <2>4
<1>4. QED
    BY <1>2, <1>3 DEF QuietInv, ReviewType

LEMMA IdleKeepsQuiet == QuietInv /\ UNCHANGED vars => QuietInv'
<1> SUFFICES ASSUME QuietInv, UNCHANGED vars PROVE QuietInv'
    OBVIOUS
<1>1. UNCHANGED <<plan, row, page, open, calls, mishaps>>
    BY DEF vars
<1>2. \A v, c, s, t : Waits(v, c, s, t) => Waits(v, c, s, t)'
    <2>1. \A c : Derives(c)' = Derives(c)
        BY <1>1 DEF Derives, Written, LeavesNone
    <2>2. QED
        BY <1>1, <2>1 DEF Waits
<1>3. \A v, k, h : Shows(v, k, h) => Shows(v, k, h)'
    BY <1>1, <1>2 DEF Shows, OnFile, State
<1>4. QED
    BY <1>1, <1>3 DEF QuietInv, Taken, Unwritten, Calm, Sole

LEMMA QuietShows == ReviewType /\ QuietInv => QuietReviewAgrees
<1> SUFFICES ASSUME ReviewType, QuietInv, NEW v \in open, InFlight = {}, \A c \in DOMAIN calls : calls[c].by = v, Calm
             PROVE  (v = "board" \/ page[v].status = plan) /\ page[v].cards = row
    BY DEF QuietReviewAgrees, Calm
<1>1. DOMAIN calls = 1..Len(calls) /\ Len(calls) \in Nat
    BY DEF ReviewType
<1>2. PICK k, h : Shows(v, k, h)
    BY <1>1 DEF QuietInv, Sole
<1>3. \A c \in 1..Len(calls) : calls[c].stage = "done"
    BY <1>1 DEF InFlight
<1>4. k \in 0..Len(calls)
    BY <1>2 DEF Shows
<1>5. k = Len(calls)
    <2>1. SUFFICES ASSUME k # Len(calls) PROVE FALSE
        OBVIOUS
    <2>2. k + 1 \in k + 1..Len(calls) /\ k + 1 \in 1..Len(calls)
        <3>1. \A m, l \in Nat : l \in 0..m /\ l # m => l + 1 \in l + 1..m /\ l + 1 \in 1..m
            OBVIOUS
        <3>2. k \in Nat
            BY <1>1, <1>4
        <3>3. QED
            BY <1>1, <1>4, <2>1, <3>1, <3>2
    <2>3. calls[k + 1].stage \in {"sent", "loaded", "flushed", "refused"}
        BY <1>2, <2>2 DEF Shows, Waits
    <2>4. QED
        BY <1>3, <2>2, <2>3
<1>6. OnFile(v, State(v))
    BY <1>2, <1>5 DEF Shows
<1>7. QED
    BY <1>6 DEF OnFile, State

\* A page that is the only one to send requests shows what is on file when all are answered, one at a time with
\* refusals between, or overlapping and all accepted in their order, for any cards and any number of requests.
THEOREM ReviewQuietReviewAgrees == ReviewSpec => []QuietReviewAgrees
<1> DEFINE Inv == ReviewInv /\ (open # {} => QuietInv)
<1>1. ReviewInit => Inv
    <2>1. ReviewInit /\ open # {} => Init
        BY DEF ReviewInit
    <2>2. QED
        BY <2>1, ReviewInitInv, InitQuiet DEF ReviewInv
<1>2. Inv /\ [ReviewNext]_allVars => Inv'
    <2>1. SUFFICES ASSUME Inv, [ReviewNext]_allVars PROVE open' # {} => QuietInv'
        BY ReviewNextInv
    <2>2. CASE UNCHANGED allVars
        BY <2>1, <2>2, IdleKeepsQuiet DEF allVars, vars
    <2>3. CASE ReviewNext /\ open = {}
        BY <2>3, VersionsKeepClosed
    <2>4. CASE open # {} /\ Next
        BY <2>1, <2>4, StepKeepsQuiet DEF ReviewInv
    <2>5. QED
        BY <2>1, <2>2, <2>3, <2>4 DEF ReviewNext
<1>3. Inv => QuietReviewAgrees
    BY QuietShows DEF ReviewInv, QuietReviewAgrees
<1>4. QED
    BY <1>1, <1>2, <1>3, PTL DEF ReviewSpec

-----------------------------------------------------------------------------
(* The move that the traveler's first drag carries over to the fork.       *)

Copies == [status : NodeStatus, text : Nat, here : BOOLEAN]
AskStages == {"idle", "sent", "ok", "refused"}

AskRecords == [stage : AskStages, node : Nodes \cup {None}]
Asks == [AskKinds -> AskRecords]

\* What a card says is the number of a change that has been made.
TextsType ==
    /\ edits \in Nat
    /\ row \in Statuses
    /\ text \in [Nodes -> Nat] /\ \A n \in Nodes : text[n] <= edits
    /\ copy \in [ForkNodes -> Copies] /\ \A n \in ForkNodes : copy[n].text <= edits

\* A merge at work turns to cards of the fork.
MergeRecords(S) == [stage : S, todo : S, kept : S, view : S, retext : S, restatus : S, node : S, bad : S, all : S]

MergeType ==
    /\ \E S : merge \in MergeRecords(S)
    /\ merge.stage = "apply" =>
         /\ \A c \in merge.todo : c.node \in ForkNodes
         /\ merge.retext \subseteq Nodes /\ merge.restatus \subseteq Nodes

TripRecords(S) == [at : S, draftMine : S, forking : S, moved : S, was : S, openFork : S, approved : S]

TripType ==
    /\ asks \in Asks
    /\ \E S : trip \in TripRecords(S)
    /\ trip.moved \in Nodes \cup {None} /\ trip.was \in Nat /\ trip.was <= edits

\* A card is dragged on the official plan, by a page that knew of no open fork.
Dragging ==
    /\ trip.draftMine \/ trip.moved # None => ~trip.openFork
    /\ trip.moved # None => trip.at = "official"

Unsound == mishaps \cap {"refused", "lost", "again"}

\* While nothing was refused, lost or begun again, one thing is asked for at a time, and it is about the card that
\* was dragged; what a page did not know of is not there.
MoveInv ==
    /\ \A k \in AskKinds : asks[k].stage # "refused"
    /\ \A k, l \in AskKinds : Asked(k) /\ Asked(l) => k = l
    /\ \A k \in {"fork", "carry"} : Asked(k) => trip.moved # None /\ asks[k].node = trip.moved
    /\ asks["carry"].stage = "ok" => copy[trip.moved].text > trip.was
    /\ trip.at = "official" /\ ~trip.openFork /\ asks["fork"].stage # "ok" /\ ~Asked("carry") => fork # "open"

TravelInv == TripType /\ Dragging /\ (Unsound = {} => MoveInv)

VersionsInv == open = {} => TextsType /\ MergeType /\ TravelInv

LEMMA CopyTyped ==
    ASSUME NEW cards \in [ForkNodes -> Copies], NEW n \in ForkNodes, NEW e \in Nat
    PROVE  /\ [cards EXCEPT ![n].text = e] \in [ForkNodes -> Copies]
           /\ [cards EXCEPT ![n].text = e][n].text = e
           /\ \A m \in ForkNodes : m # n => [cards EXCEPT ![n].text = e][m] = cards[m]
           /\ [cards EXCEPT ![n].here = FALSE] \in [ForkNodes -> Copies]
           /\ \A m \in ForkNodes : [cards EXCEPT ![n].here = FALSE][m].text = cards[m].text
<1>1. cards[n] \in Copies
    OBVIOUS
<1>2. [cards[n] EXCEPT !.text = e] \in Copies /\ [cards[n] EXCEPT !.text = e].text = e
    BY <1>1 DEF Copies
<1>3. [cards[n] EXCEPT !.here = FALSE] \in Copies /\ [cards[n] EXCEPT !.here = FALSE].text = cards[n].text
    BY <1>1 DEF Copies
<1>4. [cards EXCEPT ![n].text = e] = [cards EXCEPT ![n] = [cards[n] EXCEPT !.text = e]]
    OBVIOUS
<1>5. [cards EXCEPT ![n].here = FALSE] = [cards EXCEPT ![n] = [cards[n] EXCEPT !.here = FALSE]]
    OBVIOUS
<1>6. \A x \in Copies : /\ [cards EXCEPT ![n] = x] \in [ForkNodes -> Copies] /\ [cards EXCEPT ![n] = x][n] = x
                        /\ \A m \in ForkNodes : m # n => [cards EXCEPT ![n] = x][m] = cards[m]
    OBVIOUS
<1>7. QED
    BY <1>2, <1>3, <1>4, <1>5, <1>6

LEMMA NodesInFork == Nodes \subseteq ForkNodes /\ Added \in ForkNodes /\ None \notin Nodes
BY CardsAssumption DEF ForkNodes, Nodes

\* The fork changes: a card takes the next text, goes or comes.
LEMMA EditsKeepTexts ==
    ASSUME TextsType, NEW n \in ForkNodes,
           EditCopy(n) \/ (edits' = edits + 1 /\ copy' = [copy EXCEPT ![n].here = FALSE])
             \/ (edits' = edits + 1 /\ copy' = [copy EXCEPT ![Added] = [status |-> "idea", text |-> edits + 1, here |-> TRUE]])
    PROVE  /\ edits' = edits + 1 /\ edits' \in Nat
           /\ copy' \in [ForkNodes -> Copies] /\ \A m \in ForkNodes : copy'[m].text <= edits'
           /\ EditCopy(n) => copy'[n].text = edits + 1
<1>1. edits' = edits + 1 /\ edits + 1 \in Nat /\ edits \in Nat /\ copy \in [ForkNodes -> Copies]
      /\ \A m \in ForkNodes : copy[m].text <= edits /\ copy[m].text \in Nat
    BY DEF EditCopy, TextsType, Copies
<1>2. CASE EditCopy(n)
    <2>1. copy' = [copy EXCEPT ![n].text = edits + 1]
        BY <1>2 DEF EditCopy
    <2>2. copy' \in [ForkNodes -> Copies] /\ copy'[n].text = edits + 1 /\ \A m \in ForkNodes : m # n => copy'[m] = copy[m]
        BY <1>1, <2>1, CopyTyped
    <2>3. QED
        BY <1>1, <2>2
<1>3. CASE copy' = [copy EXCEPT ![n].here = FALSE] /\ ~EditCopy(n)
    <2>1. copy' \in [ForkNodes -> Copies] /\ \A m \in ForkNodes : copy'[m].text = copy[m].text
        BY <1>1, <1>3, CopyTyped
    <2>2. QED
        BY <1>1, <1>3, <2>1
<1>4. CASE copy' = [copy EXCEPT ![Added] = [status |-> "idea", text |-> edits + 1, here |-> TRUE]] /\ ~EditCopy(n)
    <2> DEFINE x == [status |-> "idea", text |-> edits + 1, here |-> TRUE]
    <2>1. x \in Copies /\ x.text = edits + 1
        BY <1>1 DEF Copies, NodeStatus
    <2> HIDE DEF x
    <2>2. copy' = [copy EXCEPT ![Added] = x]
        BY <1>4 DEF x
    <2>3. copy' \in [ForkNodes -> Copies] /\ \A m \in ForkNodes : copy'[m] = x \/ copy'[m] = copy[m]
        BY <1>1, <2>1, <2>2, NodesInFork
    <2>4. \A m \in ForkNodes : copy'[m].text <= edits + 1
        BY <1>1, <2>1, <2>3
    <2>5. QED
        BY <1>1, <1>4, <2>3, <2>4
<1>5. QED
    BY <1>2, <1>3, <1>4

-----------------------------------------------------------------------------
(* What is asked for, and what the page knows.                             *)

LEMMA AskSet ==
    ASSUME asks \in Asks, NEW k \in AskKinds, NEW x \in AskRecords, NEW a, a = [asks EXCEPT ![k] = x]
    PROVE  a \in Asks /\ a[k] = x /\ \A l \in AskKinds : l # k => a[l] = asks[l]
BY DEF Asks

LEMMA AskRecord ==
    ASSUME NEW st \in AskStages, NEW n \in Nodes \cup {None}
    PROVE  LET x == [stage |-> st, node |-> n] IN x \in AskRecords /\ x.stage = st /\ x.node = n
BY DEF AskRecords

LEMMA AskRestage ==
    ASSUME NEW x \in AskRecords, NEW st \in AskStages
    PROVE  LET y == [x EXCEPT !.stage = st] IN y \in AskRecords /\ y.stage = st /\ y.node = x.node
BY DEF AskRecords

LEMMA AskStage ==
    ASSUME asks \in Asks, NEW k \in AskKinds, NEW st \in AskStages, asks' = [asks EXCEPT ![k].stage = st]
    PROVE  /\ asks' \in Asks /\ asks'[k].stage = st /\ asks'[k].node = asks[k].node
           /\ \A l \in AskKinds : l # k => asks'[l] = asks[l]
<1> DEFINE y == [asks[k] EXCEPT !.stage = st]
<1>1. asks[k] \in AskRecords
    BY DEF Asks
<1>2. y \in AskRecords /\ y.stage = st /\ y.node = asks[k].node
    BY <1>1, AskRestage
<1>3. asks' = [asks EXCEPT ![k] = y]
    OBVIOUS
<1> HIDE DEF y
<1>4. QED
    BY <1>2, <1>3 DEF Asks

LEMMA TripDrafts ==
    ASSUME NEW S, NEW t \in TripRecords(S), NEW b, NEW u, u = [t EXCEPT !.draftMine = b]
    PROVE  (\E T : u \in TripRecords(T)) /\ u.draftMine = b /\ u.at = t.at /\ u.moved = t.moved /\ u.was = t.was /\ u.openFork = t.openFork
<1> DEFINE T == S \cup {b}
<1>1. t \in TripRecords(T) /\ b \in T
    BY DEF TripRecords
<1> HIDE DEF T
<1>2. u \in TripRecords(T) /\ u.draftMine = b /\ u.at = t.at /\ u.moved = t.moved /\ u.was = t.was /\ u.openFork = t.openFork
    BY <1>1 DEF TripRecords
<1>3. QED
    BY <1>2

Dragged(t, b, n, e) == [t EXCEPT !.forking = b, !.moved = n, !.was = e]

LEMMA TripDrags ==
    ASSUME NEW S, NEW t \in TripRecords(S), NEW b, NEW n, NEW e, NEW u, u = Dragged(t, b, n, e)
    PROVE  (\E T : u \in TripRecords(T)) /\ u.draftMine = t.draftMine /\ u.at = t.at /\ u.moved = n /\ u.was = e /\ u.openFork = t.openFork
<1> DEFINE T == S \cup {b, n, e}
<1>1. t \in TripRecords(T) /\ b \in T /\ n \in T /\ e \in T
    BY DEF TripRecords
<1> HIDE DEF T
<1>2. u \in TripRecords(T) /\ u.draftMine = t.draftMine /\ u.at = t.at /\ u.moved = n /\ u.was = e /\ u.openFork = t.openFork
    BY <1>1 DEF Dragged, TripRecords
<1>3. QED
    BY <1>2

LEMMA TripForks ==
    ASSUME NEW S, NEW t \in TripRecords(S), NEW b, NEW u, u = [t EXCEPT !.forking = b]
    PROVE  (\E T : u \in TripRecords(T)) /\ u.draftMine = t.draftMine /\ u.at = t.at /\ u.moved = t.moved /\ u.was = t.was /\ u.openFork = t.openFork
<1> DEFINE T == S \cup {b}
<1>1. t \in TripRecords(T) /\ b \in T
    BY DEF TripRecords
<1> HIDE DEF T
<1>2. u \in TripRecords(T) /\ u.draftMine = t.draftMine /\ u.at = t.at /\ u.moved = t.moved /\ u.was = t.was /\ u.openFork = t.openFork
    BY <1>1 DEF TripRecords
<1>3. QED
    BY <1>2

LEMMA OpenedFields ==
    ASSUME NEW at, NEW state, NEW status, NEW u, u = Opened(at, state, status)
    PROVE  /\ (\E T : u \in TripRecords(T)) /\ u.at = at
           /\ ~u.draftMine /\ u.moved = None /\ u.was = 0 /\ (u.openFork <=> state = "open")
<1> DEFINE T == {at, FALSE, None, 0, state = "open", status = "approved"}
<1>1. u \in TripRecords(T)
    BY DEF TripRecords, Opened
<1>2. QED
    BY <1>1 DEF Opened

LEMMA MergeStage ==
    ASSUME NEW S, NEW m \in MergeRecords(S), NEW st, NEW u, u = [m EXCEPT !.stage = st]
    PROVE  (\E T : u \in MergeRecords(T)) /\ u.stage = st
<1> DEFINE T == S \cup {st}
<1>1. m \in MergeRecords(T) /\ st \in T
    BY DEF MergeRecords
<1> HIDE DEF T
<1>2. u \in MergeRecords(T) /\ u.stage = st
    BY <1>1 DEF MergeRecords
<1>3. QED
    BY <1>2

Sending(m, st, td, kp) == [m EXCEPT !.stage = st, !.todo = td, !.kept = kp]

LEMMA MergeSent ==
    ASSUME NEW S, NEW m \in MergeRecords(S), NEW st, NEW td, NEW kp, NEW u, u = Sending(m, st, td, kp)
    PROVE  (\E T : u \in MergeRecords(T)) /\ u.stage = st
<1> DEFINE T == S \cup {st, td, kp}
<1>1. m \in MergeRecords(T) /\ st \in T /\ td \in T /\ kp \in T
    BY DEF MergeRecords
<1> HIDE DEF T
<1>2. u \in MergeRecords(T) /\ u.stage = st
    BY <1>1 DEF Sending, MergeRecords
<1>3. QED
    BY <1>2

Deciding(m, td, bd) == [m EXCEPT !.todo = td, !.bad = bd]

LEMMA MergeDecides ==
    ASSUME NEW S, NEW m \in MergeRecords(S), NEW td, NEW bd, NEW u, u = Deciding(m, td, bd)
    PROVE  (\E T : u \in MergeRecords(T)) /\ u.todo = td /\ u.retext = m.retext /\ u.restatus = m.restatus /\ u.stage = m.stage
<1> DEFINE T == S \cup {td, bd}
<1>1. m \in MergeRecords(T) /\ td \in T /\ bd \in T
    BY DEF MergeRecords
<1> HIDE DEF T
<1>2. u \in MergeRecords(T) /\ u.todo = td /\ u.retext = m.retext /\ u.restatus = m.restatus /\ u.stage = m.stage
    BY <1>1 DEF Deciding, MergeRecords
<1>3. QED
    BY <1>2

LEMMA MergeTurns ==
    ASSUME NEW S, NEW m \in MergeRecords(S), NEW nd, NEW u, u = [m EXCEPT !.node = nd]
    PROVE  (\E T : u \in MergeRecords(T)) /\ u.todo = m.todo /\ u.retext = m.retext /\ u.restatus = m.restatus /\ u.stage = m.stage
<1> DEFINE T == S \cup {nd}
<1>1. m \in MergeRecords(T) /\ nd \in T
    BY DEF MergeRecords
<1> HIDE DEF T
<1>2. u \in MergeRecords(T) /\ u.todo = m.todo /\ u.retext = m.retext /\ u.restatus = m.restatus /\ u.stage = m.stage
    BY <1>1 DEF MergeRecords
<1>3. QED
    BY <1>2

Loading(m, st, vw, td, rt, rs, al) == [m EXCEPT !.stage = st, !.view = vw, !.todo = td, !.retext = rt, !.restatus = rs, !.all = al]

LEMMA MergeLoads ==
    ASSUME NEW S, NEW m \in MergeRecords(S), NEW st, NEW vw, NEW td, NEW rt, NEW rs, NEW al, NEW u, u = Loading(m, st, vw, td, rt, rs, al)
    PROVE  (\E T : u \in MergeRecords(T)) /\ u.stage = st /\ u.todo = td /\ u.retext = rt /\ u.restatus = rs
<1> DEFINE T == S \cup {st, vw, td, rt, rs, al}
<1>1. m \in MergeRecords(T) /\ st \in T /\ vw \in T /\ td \in T /\ rt \in T /\ rs \in T /\ al \in T
    BY DEF MergeRecords
<1> HIDE DEF T
<1>2. u \in MergeRecords(T) /\ u.stage = st /\ u.todo = td /\ u.retext = rt /\ u.restatus = rs
    BY <1>1 DEF Loading, MergeRecords
<1>3. QED
    BY <1>2

LEMMA DiffNodes == \A c \in diff_fork : c.node \in ForkNodes
BY DEF diff_fork, Change, LiveCopies, Live, ForkNodes

-----------------------------------------------------------------------------
(* What the steps of the versions leave typed.                             *)

Applies == \E c \in merge.todo : ApplyAdded(c) \/ ApplyRemoved(c) \/ ApplyBooked(c) \/ Demote(c) \/ ApplyChanged(c)

LEMMA MergeSteps ==
    ASSUME Traveler \/ Advisor \/ Service
    PROVE  UNCHANGED merge \/ reconcile \/ reconcileFork \/ Load \/ Finish \/ Break \/ Applies
BY DEF Traveler, Advisor, Service, selectOfficial, selectMine, forkAndMove, discardMine, EditMine, AnswerFork, AnswerCarry,
       AnswerDiscard, refresh, Leave, toggle, fork_itinerary, carryMove, abandon_fork, RefuseAsk, Progress, versions, Applies

LEMMA NoMergeTyped == \E S : NoMerge \in MergeRecords(S) /\ NoMerge.stage = "none"
<1>1. NoMerge \in MergeRecords({"none", {}, Empty, None, FALSE})
    BY DEF NoMerge, MergeRecords
<1>2. NoMerge.stage = "none"
    BY DEF NoMerge
<1>3. QED
    BY <1>1, <1>2

LEMMA StepsKeepMerge == ASSUME MergeType, Traveler \/ Advisor \/ Service PROVE MergeType'
<1>1. PICK S : merge \in MergeRecords(S)
    BY DEF MergeType
<1>2. CASE UNCHANGED merge
    BY <1>2 DEF MergeType
<1>3. CASE reconcile
    <2>1. PICK T : NoMerge \in MergeRecords(T)
        BY NoMergeTyped
    <2>2. PICK u : u = Sending(NoMerge, "sent", panel.diff, panel.kept)
        OBVIOUS
    <2>3. (\E U : u \in MergeRecords(U)) /\ u.stage = "sent"
        BY <2>1, <2>2, MergeSent
    <2>4. merge' = u
        BY <1>3, <2>2 DEF reconcile, Sending
    <2>5. QED
        BY <2>3, <2>4 DEF MergeType
<1>4. CASE reconcileFork
    BY <1>4, NoMergeTyped DEF reconcileFork, MergeType
<1>5. CASE Load
    <2> DEFINE ids == ChangeIds(merge.todo)
    <2>1. PICK td, rt, rs, al, u :
             /\ td = {c \in diff_fork : ChangeId(c) \in ids \ merge.kept}
             /\ rt = {n \in Nodes : text[n] # copy[n].text} /\ rs = {n \in Nodes : StatusDiffers(n)}
             /\ al = (ChangeIds(diff_fork) \subseteq ids)
             /\ u = Loading(merge, "apply", row, td, rt, rs, al)
        OBVIOUS
    <2>2. /\ \E T : u \in MergeRecords(T)
          /\ u.stage = "apply" /\ u.todo = td /\ u.retext = rt /\ u.restatus = rs
        <3>1. u = Loading(merge, "apply", row, td, rt, rs, al)
            BY <2>1
        <3>2. QED
            BY <1>1, <3>1, MergeLoads
    <2>3. merge' = u
        BY <1>5, <2>1 DEF Load, Loading
    <2>4. (\A c \in td : c.node \in ForkNodes) /\ rt \subseteq Nodes /\ rs \subseteq Nodes
        BY <2>1, DiffNodes
    <2> HIDE DEF ids
    <2>5. QED
        BY <2>2, <2>3, <2>4 DEF MergeType
<1>6. CASE Finish \/ Break
    <2>1. PICK st, u : st \in {"ok", "broken"} /\ u = [merge EXCEPT !.stage = st] /\ merge' = u
        BY <1>6 DEF Finish, Break
    <2>2. (\E T : u \in MergeRecords(T)) /\ u.stage = st
        BY <1>1, <2>1, MergeStage
    <2>3. QED
        BY <2>1, <2>2 DEF MergeType
<1>7. CASE Applies
    <2>1. PICK c \in merge.todo : ApplyAdded(c) \/ ApplyRemoved(c) \/ ApplyBooked(c) \/ Demote(c) \/ ApplyChanged(c)
        BY <1>7 DEF Applies
    <2>2. CASE Demote(c)
        <3>1. PICK u : u = [merge EXCEPT !.node = c.node] /\ merge' = u
            BY <2>2 DEF Demote
        <3>2. /\ \E T : u \in MergeRecords(T)
              /\ u.todo = merge.todo /\ u.retext = merge.retext /\ u.restatus = merge.restatus /\ u.stage = merge.stage
            BY <1>1, <3>1, MergeTurns
        <3>3. QED
            BY <3>1, <3>2 DEF MergeType
    <2>3. CASE ~Demote(c)
        <3>1. PICK b : merge' = Decided(c, b)
            <4>1. ApplyAdded(c) => merge' = Decided(c, FALSE)
                BY DEF ApplyAdded
            <4>2. ApplyRemoved(c) => merge' = Decided(c, row[c.node] \in Firmed)
                BY DEF ApplyRemoved
            <4>3. ApplyBooked(c) => merge' = Decided(c, TRUE)
                BY DEF ApplyBooked
            <4>4. ApplyChanged(c) => merge' = Decided(c, merge.node # c.node /\ row[c.node] \in Firmed)
                BY DEF ApplyChanged
            <4>5. QED
                BY <2>1, <2>3, <4>1, <4>2, <4>3, <4>4
        <3>2. PICK u, td, bd : td = merge.todo \ {c} /\ bd = (merge.bad \/ b) /\ u = Deciding(merge, td, bd)
            OBVIOUS
        <3>3. merge' = u
            BY <3>1, <3>2 DEF Decided, Deciding
        <3>4. /\ \E T : u \in MergeRecords(T)
              /\ u.todo = td /\ u.retext = merge.retext /\ u.restatus = merge.restatus /\ u.stage = merge.stage
            BY <1>1, <3>2, MergeDecides
        <3>5. QED
            BY <3>2, <3>3, <3>4 DEF MergeType
    <2>4. QED
        BY <2>2, <2>3
<1>8. QED
    BY <1>2, <1>3, <1>4, <1>5, <1>6, <1>7, MergeSteps

LEMMA TextSteps ==
    ASSUME Traveler \/ Advisor \/ Service
    PROVE  \/ UNCHANGED <<row, text, copy, edits>>
           \/ (\E n \in Nodes : Progress(n)) \/ Applies
           \/ fork_itinerary \/ carryMove \/ EditMine
BY DEF Traveler, Advisor, Service, selectOfficial, selectMine, forkAndMove, discardMine, AnswerFork, AnswerCarry,
       AnswerDiscard, refresh, Leave, toggle, reconcile, reconcileFork, abandon_fork, RefuseAsk, Load, Finish, Break,
       OnlyMerge, vars, Applies

LEMMA RowSet ==
    ASSUME NEW r \in Statuses, NEW n \in Nodes, NEW s \in NodeStatus, NEW q, q = [r EXCEPT ![n] = s]
    PROVE  q \in Statuses
BY DEF Statuses

LEMMA TextSet ==
    ASSUME TextsType, NEW n \in Nodes, NEW m \in ForkNodes, NEW q, q = [text EXCEPT ![n] = copy[m].text]
    PROVE  q \in [Nodes -> Nat] /\ \A l \in Nodes : q[l] <= edits
<1>1. copy[m].text \in Nat /\ copy[m].text <= edits
    BY DEF TextsType, Copies
<1>2. QED
    BY <1>1 DEF TextsType

\* A change applied to the plan takes what it says from the fork.
LEMMA AppliesTyped == ASSUME TextsType, MergeType, Applies PROVE TextsType'
<1>1. UNCHANGED <<copy, edits>>
    BY DEF Applies, ApplyAdded, ApplyRemoved, ApplyBooked, Demote, ApplyChanged, OnlyMerge
<1>2. PICK c \in merge.todo : ApplyAdded(c) \/ ApplyRemoved(c) \/ ApplyBooked(c) \/ Demote(c) \/ ApplyChanged(c)
    BY DEF Applies
<1>3. c.node \in ForkNodes /\ merge.retext \subseteq Nodes /\ merge.restatus \subseteq Nodes
    BY <1>2 DEF MergeType, ApplyAdded, ApplyRemoved, ApplyBooked, Demote, ApplyChanged, Turn
<1>4. row \in Statuses /\ copy \in [ForkNodes -> Copies] /\ copy[c.node].status \in NodeStatus
      /\ "gone" \in NodeStatus /\ "proposed" \in NodeStatus /\ text \in [Nodes -> Nat]
      /\ \A n \in Nodes : row[n] \in NodeStatus
    BY <1>3 DEF TextsType, Copies, NodeStatus, Statuses
<1>5. row' \in Statuses /\ text' \in [Nodes -> Nat] /\ (\A l \in Nodes : text'[l] <= edits)
    <2>1. CASE ApplyAdded(c)
        <3>1. PICK new \in Notes : /\ row' = [row EXCEPT ![new] = copy[c.node].status]
                                   /\ text' = [text EXCEPT ![new] = copy[c.node].text]
            BY <2>1 DEF ApplyAdded
        <3>2. new \in Nodes
            BY DEF Nodes
        <3>3. QED
            BY <1>3, <1>4, <3>1, <3>2, RowSet, TextSet
    <2>2. CASE ApplyRemoved(c)
        <3>1. row' = row \/ row' = [row EXCEPT ![c.node] = "gone"]
            BY <2>2 DEF ApplyRemoved
        <3>2. row' \in Statuses
            BY <1>4, <3>1 DEF Statuses
        <3>3. QED
            BY <2>2, <3>2 DEF ApplyRemoved, TextsType
    <2>3. CASE ApplyBooked(c)
        BY <1>4, <2>3 DEF ApplyBooked, TextsType
    <2>4. CASE Demote(c)
        <3>1. row' = [row EXCEPT ![c.node] = IF row[c.node] = "gone" THEN row[c.node] ELSE "proposed"]
            BY <2>4 DEF Demote
        <3>2. row' \in Statuses
            BY <1>4, <3>1 DEF Statuses
        <3>3. QED
            BY <2>4, <3>2 DEF Demote, TextsType
    <2>5. CASE ApplyChanged(c)
        <3>1. /\ row' = row \/ (c.node \in merge.restatus /\ row' = [row EXCEPT ![c.node] = copy[c.node].status])
              /\ text' = text \/ (c.node \in merge.retext /\ text' = [text EXCEPT ![c.node] = copy[c.node].text])
            BY <2>5 DEF ApplyChanged
        <3>2. row' \in Statuses
            BY <1>3, <1>4, <3>1, RowSet
        <3>3. text' \in [Nodes -> Nat] /\ (\A l \in Nodes : text'[l] <= edits)
            <4>1. CASE text' = text
                BY <4>1 DEF TextsType
            <4>2. CASE c.node \in merge.retext /\ text' = [text EXCEPT ![c.node] = copy[c.node].text]
                BY <1>3, <4>2, TextSet
            <4>3. QED
                BY <3>1, <4>1, <4>2
        <3>4. QED
            BY <3>2, <3>3
    <2>6. QED
        BY <1>2, <2>1, <2>2, <2>3, <2>4, <2>5
<1>6. QED
    BY <1>1, <1>5 DEF TextsType

LEMMA ForkTyped ==
    ASSUME TextsType, fork_itinerary
    PROVE  TextsType' /\ edits' = edits /\ row' = row
<1>1. /\ UNCHANGED <<row, text, edits>>
      /\ copy' = [n \in ForkNodes |->
                    IF n \in Nodes
                    THEN [status |-> ForkedStatus(row[n]), text |-> text[n], here |-> row[n] # "gone"]
                    ELSE NoCopy]
    BY DEF fork_itinerary, vars
<1>2. \A n \in Nodes : row[n] \in NodeStatus /\ text[n] \in Nat /\ text[n] <= edits /\ edits \in Nat
    BY DEF TextsType, Statuses
<1>3. NoCopy \in Copies /\ NoCopy.text = 0
    BY DEF NoCopy, Copies, NodeStatus
<1>4. ASSUME NEW n \in ForkNodes PROVE copy'[n] \in Copies /\ copy'[n].text <= edits
    <2>1. CASE n \in Nodes
        <3>1. ForkedStatus(row[n]) \in NodeStatus
            BY <1>2, <2>1 DEF ForkedStatus, NodeStatus
        <3>2. PICK b \in BOOLEAN : b = (row[n] # "gone")
            OBVIOUS
        <3>3. copy'[n] = [status |-> ForkedStatus(row[n]), text |-> text[n], here |-> b]
            BY <1>1, <2>1, <3>2
        <3>4. QED
            BY <1>2, <2>1, <3>1, <3>3 DEF Copies
    <2>2. CASE n \notin Nodes
        <3>1. copy'[n] = NoCopy
            BY <1>1, <2>2
        <3>2. edits \in Nat
            BY DEF TextsType
        <3>3. QED
            BY <1>3, <3>1, <3>2
    <2>3. QED
        BY <2>1, <2>2
<1>5. copy' \in [ForkNodes -> Copies]
    <2>1. copy' = [n \in ForkNodes |-> copy'[n]]
        BY <1>1
    <2>2. QED
        BY <1>4, <2>1
<1>6. QED
    BY <1>1, <1>4, <1>5 DEF TextsType

LEMMA EditTyped ==
    ASSUME TextsType, carryMove \/ EditMine, asks["carry"].node \in Nodes \cup {None}
    PROVE  TextsType' /\ edits' = edits + 1
<1>1. UNCHANGED <<row, text>>
    BY DEF carryMove, EditMine
<1>2. PICK n \in ForkNodes :
         EditCopy(n) \/ (edits' = edits + 1 /\ copy' = [copy EXCEPT ![n].here = FALSE])
         \/ (edits' = edits + 1 /\ copy' = [copy EXCEPT ![Added] = [status |-> "idea", text |-> edits + 1, here |-> TRUE]])
    BY NodesInFork DEF carryMove, EditMine, EditCopy, LiveCopies
<1>3. /\ edits' = edits + 1 /\ edits' \in Nat
      /\ copy' \in [ForkNodes -> Copies] /\ \A m \in ForkNodes : copy'[m].text <= edits'
    BY <1>2, EditsKeepTexts
<1>4. \A m \in Nodes : text[m] <= edits + 1
    BY DEF TextsType
<1>5. QED
    BY <1>1, <1>3, <1>4 DEF TextsType

LEMMA ProgressTyped == ASSUME TextsType, NEW n \in Nodes, Progress(n) PROVE TextsType' /\ UNCHANGED <<text, copy, edits>>
<1>1. PICK s \in {"proposed", "approved", "booked", "gone"} : row' = [row EXCEPT ![n] = s]
    <2>1. PICK step \in {<<"idea", "proposed">>, <<"proposed", "approved">>, <<"approved", "booked">>, <<"idea", "gone">>} :
             row' = [row EXCEPT ![n] = step[2]]
        BY Zenon DEF Progress
    <2>2. step[2] \in {"proposed", "approved", "booked", "gone"}
        OBVIOUS
    <2>3. QED
        BY <2>1, <2>2
<1>2. row' \in Statuses
    BY <1>1 DEF TextsType, Statuses, NodeStatus
<1>3. UNCHANGED <<text, copy, edits>>
    BY DEF Progress, versions
<1>4. QED
    BY <1>2, <1>3 DEF TextsType

LEMMA StepsKeepTexts ==
    ASSUME TextsType, MergeType, TripType, Traveler \/ Advisor \/ Service
    PROVE  TextsType' /\ edits <= edits'
<1>1. edits \in Nat /\ asks["carry"].node \in Nodes \cup {None}
    BY DEF TextsType, TripType, Asks, AskRecords, AskKinds
<1>2. CASE UNCHANGED <<row, text, copy, edits>>
    BY <1>1, <1>2 DEF TextsType
<1>3. CASE \E n \in Nodes : Progress(n)
    BY <1>1, <1>3, ProgressTyped
<1>4. CASE Applies
    <2>1. edits' = edits
        BY <1>4 DEF Applies, ApplyAdded, ApplyRemoved, ApplyBooked, Demote, ApplyChanged, OnlyMerge
    <2>2. QED
        BY <1>1, <1>4, <2>1, AppliesTyped
<1>5. CASE fork_itinerary
    BY <1>1, <1>5, ForkTyped
<1>6. CASE carryMove \/ EditMine
    BY <1>1, <1>6, EditTyped
<1>7. QED
    BY <1>2, <1>3, <1>4, <1>5, <1>6, TextSteps

-----------------------------------------------------------------------------
(* The way of a move to the fork.                                          *)

AskActs ==
    \/ selectOfficial \/ selectMine \/ \E n \in Nodes : forkAndMove(n)
    \/ discardMine \/ AnswerFork \/ AnswerCarry \/ AnswerDiscard
    \/ fork_itinerary \/ carryMove \/ abandon_fork
    \/ \E k \in AskKinds : RefuseAsk(k)

LEMMA TravelSteps ==
    ASSUME Traveler \/ Advisor \/ Service
    PROVE  \/ AskActs \/ EditMine
           \/ UNCHANGED <<asks, trip, copy, edits>> /\ fork' \in {fork, "reconciled"} /\ mishaps \subseteq mishaps'
BY DEF Traveler, Advisor, Service, AskActs, refresh, Leave, toggle, reconcile, reconcileFork, Progress, Load, Finish, Break,
       ApplyAdded, ApplyRemoved, ApplyBooked, Demote, ApplyChanged, OnlyMerge, vars, versions

LEMMA MishapsStay == ASSUME Traveler \/ Advisor \/ Service PROVE mishaps \subseteq mishaps'
<1>1. AskActs \/ EditMine => mishaps \subseteq mishaps'
    BY DEF AskActs, selectOfficial, selectMine, forkAndMove, discardMine, EditMine, AnswerFork, AnswerCarry, AnswerDiscard,
       fork_itinerary, carryMove, abandon_fork, RefuseAsk, vars
<1>2. QED
    BY <1>1, TravelSteps

\* The page is loaded again, at the official plan or at the fork.
LEMMA Loaded ==
    ASSUME NEW at, NEW u, u = Opened(at, fork, plan), trip' = u, edits' \in Nat
    PROVE  /\ \E S : trip' \in TripRecords(S)
           /\ trip'.moved = None /\ trip'.was \in Nat /\ trip'.was <= edits'
           /\ Dragging'
           /\ trip'.openFork <=> fork = "open"
           /\ trip'.at = at
<1>1. /\ (\E T : u \in TripRecords(T)) /\ u.at = at
      /\ ~u.draftMine /\ u.moved = None /\ u.was = 0 /\ (u.openFork <=> fork = "open")
    BY OpenedFields
<1>2. QED
    BY <1>1 DEF Dragging

LEMMA ReloadKeeps ==
    ASSUME NEW at, trip' = Opened(at, fork, plan), UNCHANGED <<fork, edits, mishaps>>, edits \in Nat, asks' \in Asks,
           Unsound = {} => /\ \A k \in AskKinds : asks'[k].stage # "refused"
                           /\ \A k, l \in AskKinds : Asked(k)' /\ Asked(l)' => k = l
                           /\ ~Asked("fork")' /\ ~Asked("carry")'
    PROVE  TravelInv'
<1>1. PICK u : u = Opened(at, fork, plan) /\ trip' = u
    OBVIOUS
<1>2. /\ \E S : trip' \in TripRecords(S)
      /\ trip'.moved = None /\ trip'.was \in Nat /\ trip'.was <= edits'
      /\ Dragging' /\ (trip'.openFork <=> fork = "open")
    BY <1>1, Loaded
<1>3. TripType'
    BY <1>2 DEF TripType
<1>4. Unsound' = {} => MoveInv'
    BY <1>2 DEF MoveInv, Unsound, Asked
<1>5. QED
    BY <1>2, <1>3, <1>4 DEF TravelInv

\* The page stays where it is, and no call changes.
LEMMA PreviewKeeps ==
    ASSUME TravelInv, NEW b, b \in BOOLEAN, trip' = [trip EXCEPT !.draftMine = b], b => ~trip.openFork,
           UNCHANGED <<asks, fork, copy, edits, mishaps>>
    PROVE  TravelInv'
<1>1. PICK u : u = [trip EXCEPT !.draftMine = b] /\ trip' = u
    OBVIOUS
<1>2. PICK S : trip \in TripRecords(S)
    BY DEF TravelInv, TripType
<1>3. (\E T : u \in TripRecords(T)) /\ u.draftMine = b /\ u.at = trip.at /\ u.moved = trip.moved /\ u.was = trip.was
      /\ u.openFork = trip.openFork
    BY <1>1, <1>2, TripDrafts
<1>4. TripType'
    BY <1>1, <1>3 DEF TravelInv, TripType
<1>5. Dragging'
    BY <1>1, <1>3 DEF TravelInv, Dragging
<1>6. Unsound' = {} => MoveInv'
    BY <1>1, <1>3 DEF TravelInv, MoveInv, Unsound, Asked
<1>7. QED
    BY <1>4, <1>5, <1>6 DEF TravelInv

LEMMA SelectKeeps == ASSUME TravelInv, edits \in Nat, selectOfficial \/ selectMine PROVE TravelInv'
<1>1. UNCHANGED <<asks, fork, copy, edits, mishaps>>
    BY DEF selectOfficial, selectMine, vars
<1>2. (\E at \in {"official", "mine"} : trip' = Opened(at, fork, plan) /\ trip.moved = None)
      \/ (\E b \in BOOLEAN : trip' = [trip EXCEPT !.draftMine = b] /\ (b => ~trip.openFork))
    BY DEF selectOfficial, selectMine, GoTo, TravelInv, Dragging
<1>3. CASE \E at \in {"official", "mine"} : trip' = Opened(at, fork, plan) /\ trip.moved = None
    <2>1. PICK at : trip' = Opened(at, fork, plan)
        BY <1>3
    <2>2. asks' \in Asks
        BY <1>1 DEF TravelInv, TripType
    <2>3. Unsound = {} => /\ \A k \in AskKinds : asks'[k].stage # "refused"
                          /\ \A k, l \in AskKinds : Asked(k)' /\ Asked(l)' => k = l
                          /\ ~Asked("fork")' /\ ~Asked("carry")'
        BY <1>1, <1>3 DEF TravelInv, MoveInv, Asked, AskKinds
    <2>4. QED
        BY <1>1, <2>1, <2>2, <2>3, ReloadKeeps
<1>4. CASE \E b \in BOOLEAN : trip' = [trip EXCEPT !.draftMine = b] /\ (b => ~trip.openFork)
    BY <1>1, <1>4, PreviewKeeps
<1>5. QED
    BY <1>2, <1>3, <1>4

LEMMA AskFields ==
    ASSUME asks \in Asks, NEW k \in AskKinds, NEW n \in Nodes \cup {None}, Ask(k, n)
    PROVE  /\ asks' \in Asks /\ asks'[k].stage = "sent" /\ asks'[k].node = n
           /\ \A l \in AskKinds : l # k => asks'[l] = asks[l]
<1>1. PICK x : x = [stage |-> "sent", node |-> n]
    OBVIOUS
<1>2. x \in AskRecords /\ x.stage = "sent" /\ x.node = n
    BY <1>1 DEF AskRecords, AskStages
<1>3. asks' = [asks EXCEPT ![k] = x]
    BY <1>1 DEF Ask
<1>4. QED
    BY <1>2, <1>3 DEF Asks

LEMMA ForgetFields ==
    ASSUME asks \in Asks, NEW k \in AskKinds, NEW a, a = Forget(k)
    PROVE  a \in Asks /\ a[k].stage = "idle" /\ \A l \in AskKinds : l # k => a[l] = asks[l]
<1>1. NoAsk \in AskRecords /\ NoAsk.stage = "idle"
    BY DEF AskRecords, AskStages, NoAsk
<1>2. a = [asks EXCEPT ![k] = NoAsk]
    BY DEF Forget
<1>3. QED
    BY <1>1, <1>2 DEF Asks

\* The first drag.
LEMMA DragKeeps == ASSUME TravelInv, TextsType, NEW n \in Nodes, forkAndMove(n) PROVE TravelInv'
<1>1. /\ Ask("fork", n) /\ Alone("carry") /\ UNCHANGED <<fork, copy, edits>>
      /\ trip' = [trip EXCEPT !.forking = TRUE, !.moved = n, !.was = text[n]]
      /\ trip.at = "official" /\ trip.draftMine
      /\ mishaps' = mishaps \cup (IF Asked("carry") THEN {"again"} ELSE {})
    BY DEF forkAndMove, selectIsDraftMine
<1>2. n # None /\ text[n] \in Nat /\ text[n] <= edits /\ "fork" \in AskKinds /\ "carry" \in AskKinds
    BY NodesInFork DEF TextsType, AskKinds
<1>3. /\ asks' \in Asks /\ asks'["fork"].stage = "sent" /\ asks'["fork"].node = n
      /\ \A l \in AskKinds : l # "fork" => asks'[l] = asks[l]
    <2>1. asks \in Asks
        BY DEF TravelInv, TripType
    <2>2. QED
        BY <1>1, <1>2, <2>1, AskFields
<1>4. PICK e, b, u : e = text[n] /\ b = TRUE /\ u = Dragged(trip, b, n, e) /\ trip' = u
    BY <1>1 DEF Dragged
<1>5. PICK S : trip \in TripRecords(S)
    BY DEF TravelInv, TripType
<1>6. (\E T : u \in TripRecords(T)) /\ u.draftMine = trip.draftMine /\ u.at = trip.at /\ u.moved = n /\ u.was = e
      /\ u.openFork = trip.openFork
    <2>1. u = Dragged(trip, b, n, e)
        BY <1>4
    <2>2. QED
        BY <1>5, <2>1, TripDrags
<1>7. TripType'
    BY <1>1, <1>2, <1>3, <1>4, <1>6 DEF TripType
<1>8. Dragging'
    BY <1>1, <1>4, <1>6 DEF TravelInv, Dragging
<1>9. ASSUME Unsound' = {} PROVE MoveInv'
    <2>1. Unsound = {} /\ ~Asked("carry")
        BY <1>1, <1>9 DEF Unsound
    <2>2. \A l \in AskKinds : l # "fork" => ~Asked(l) /\ ~Asked(l)'
        <3>1. \A l \in AskKinds : l # "carry" => ~Asked(l)
            BY <1>1 DEF Alone
        <3>2. QED
            BY <1>3, <2>1, <3>1 DEF Asked
    <2>3. Asked("fork")' /\ ~Asked("fork")
        BY <1>1, <1>2, <1>3 DEF Asked, Alone
    <2>4. ~trip.openFork
        BY <1>1 DEF TravelInv, Dragging
    <2>5. trip'.moved = n /\ trip'.openFork = trip.openFork /\ trip'.at = trip.at
        BY <1>4, <1>6
    <2>6. fork # "open"
        BY <1>1, <1>2, <2>1, <2>3, <2>4 DEF TravelInv, MoveInv, Asked
    <2>7. \A k \in AskKinds : asks'[k].stage # "refused"
        BY <1>3, <2>1, <2>2 DEF TravelInv, MoveInv, Asked
    <2>8. \A k, l \in AskKinds : Asked(k)' /\ Asked(l)' => k = l
        BY <2>2
    <2>9. \A k \in {"fork", "carry"} : Asked(k)' => trip'.moved # None /\ asks'[k].node = trip'.moved
        BY <1>2, <1>3, <2>2, <2>5
    <2>10. asks'["carry"].stage # "ok"
        BY <1>2, <2>2 DEF Asked
    <2>11. QED
        BY <1>1, <2>6, <2>7, <2>8, <2>9, <2>10 DEF MoveInv
<1>10. QED
    BY <1>7, <1>8, <1>9 DEF TravelInv

\* A call is served, the page being what it was.
LEMMA ServedKeeps ==
    ASSUME TravelInv, edits <= edits', edits \in Nat, edits' \in Nat, UNCHANGED trip, NEW k \in AskKinds,
           SentAsk(k), Served(k), mishaps \subseteq mishaps',
           Unsound = {} => /\ asks'["carry"].stage = "ok" => copy'[trip.moved].text > trip.was
                           /\ fork' = "open" => fork = "open" \/ k = "fork"
    PROVE  TravelInv'
<1>1. /\ asks' \in Asks /\ asks'[k].stage = "ok" /\ asks'[k].node = asks[k].node
      /\ \A l \in AskKinds : l # k => asks'[l] = asks[l]
    <2>1. asks \in Asks /\ "ok" \in AskStages
        BY DEF TravelInv, TripType, AskStages
    <2>2. QED
        BY <2>1, AskStage DEF Served
<1>2. TripType'
    BY <1>1 DEF TravelInv, TripType
<1>3. Dragging'
    BY DEF TravelInv, Dragging
<1>4. ASSUME Unsound' = {} PROVE MoveInv'
    <2>1. Unsound = {}
        BY <1>4 DEF Unsound
    <2>2. MoveInv
        BY <2>1 DEF TravelInv
    <2>3. \A l \in AskKinds : Asked(l)' <=> Asked(l)
        BY <1>1 DEF Asked, SentAsk
    <2>4. \A l \in AskKinds : asks'[l].node = asks[l].node /\ asks'[l].stage # "refused"
        BY <1>1, <2>2 DEF MoveInv
    <2>5. "fork" \in AskKinds /\ "carry" \in AskKinds
        BY DEF AskKinds
    <2>6. asks'["fork"].stage # "ok" => asks["fork"].stage # "ok" /\ k # "fork"
        BY <1>1, <2>5
    <2>7. \A l, m \in AskKinds : Asked(l)' /\ Asked(m)' => l = m
        BY <2>2, <2>3 DEF MoveInv
    <2>8. \A l \in {"fork", "carry"} : Asked(l)' => trip'.moved # None /\ asks'[l].node = trip'.moved
        BY <2>2, <2>3, <2>4, <2>5 DEF MoveInv
    <2>9. trip'.at = "official" /\ ~trip'.openFork /\ asks'["fork"].stage # "ok" /\ ~Asked("carry")' => fork' # "open"
        BY <2>1, <2>2, <2>3, <2>5, <2>6 DEF MoveInv
    <2>10. QED
        BY <2>1, <2>4, <2>7, <2>8, <2>9 DEF MoveInv
<1>5. QED
    BY <1>2, <1>3, <1>4 DEF TravelInv

LEMMA ForkServedKeeps == ASSUME TravelInv, TextsType, TextsType', fork_itinerary PROVE TravelInv'
<1>1. SentAsk("fork") /\ Served("fork") /\ UNCHANGED <<trip, mishaps, edits>>
    BY DEF fork_itinerary, vars
<1>2. edits \in Nat /\ "fork" \in AskKinds /\ "carry" \in AskKinds /\ asks \in Asks
    BY DEF TextsType, AskKinds, TravelInv, TripType
<1>3. ASSUME Unsound = {} PROVE asks'["carry"].stage # "ok"
    <2>1. Asked("fork")
        BY <1>1 DEF SentAsk, Asked
    <2>2. ~Asked("carry")
        BY <1>2, <1>3, <2>1 DEF TravelInv, MoveInv
    <2>3. asks'["carry"] = asks["carry"]
        BY <1>1, <1>2 DEF Served, Asks
    <2>4. QED
        BY <2>2, <2>3 DEF Asked
<1>4. QED
    BY <1>1, <1>2, <1>3, ServedKeeps

LEMMA CarryServedKeeps == ASSUME TravelInv, TextsType, TextsType', carryMove PROVE TravelInv'
<1>1. SentAsk("carry") /\ Served("carry") /\ EditCopy(asks["carry"].node) /\ UNCHANGED <<trip, fork>>
      /\ mishaps \subseteq mishaps'
    BY DEF carryMove
<1>2. edits \in Nat /\ "fork" \in AskKinds /\ "carry" \in AskKinds /\ asks["carry"].node \in ForkNodes
    BY <1>1 DEF TextsType, AskKinds, EditCopy, LiveCopies
<1>3. edits' = edits + 1 /\ copy'[asks["carry"].node].text = edits + 1
    BY <1>1, <1>2, EditsKeepTexts
<1>4. ASSUME Unsound = {} PROVE copy'[trip.moved].text > trip.was
    <2>1. Asked("carry")
        BY <1>1 DEF SentAsk, Asked
    <2>2. asks["carry"].node = trip.moved
        BY <1>2, <1>4, <2>1 DEF TravelInv, MoveInv
    <2>3. trip.was <= edits /\ trip.was \in Nat
        BY DEF TravelInv, TripType
    <2>4. QED
        BY <1>2, <1>3, <2>2, <2>3
<1>5. edits <= edits' /\ edits' \in Nat
    BY <1>2, <1>3
<1>6. QED
    BY <1>1, <1>2, <1>4, <1>5, ServedKeeps

LEMMA AbandonKeeps == ASSUME TravelInv, TextsType, abandon_fork PROVE TravelInv'
<1>1. SentAsk("discard") /\ Served("discard") /\ UNCHANGED <<trip, edits, copy>> /\ mishaps \subseteq mishaps'
      /\ fork' # "open"
    BY DEF abandon_fork
<1>2. edits \in Nat /\ "discard" \in AskKinds /\ "carry" \in AskKinds /\ asks \in Asks
    BY DEF TextsType, AskKinds, TravelInv, TripType
<1>3. ASSUME Unsound = {} PROVE asks'["carry"].stage # "ok"
    <2>1. Asked("discard")
        BY <1>1 DEF SentAsk, Asked
    <2>2. ~Asked("carry")
        BY <1>2, <1>3, <2>1 DEF TravelInv, MoveInv
    <2>3. asks'["carry"] = asks["carry"]
        BY <1>1, <1>2 DEF Served, Asks
    <2>4. QED
        BY <2>2, <2>3 DEF Asked
<1>4. QED
    BY <1>1, <1>2, <1>3, ServedKeeps

LEMMA RefuseKeeps == ASSUME TravelInv, edits \in Nat, NEW k \in AskKinds, RefuseAsk(k) PROVE TravelInv'
<1>1. UNCHANGED <<trip, edits>> /\ mishaps' \cap {"refused", "lost"} # {} /\ asks' = [asks EXCEPT ![k].stage = "refused"]
    BY DEF RefuseAsk
<1>2. asks \in Asks /\ "refused" \in AskStages
    BY DEF TravelInv, TripType, AskStages
<1>3. asks' \in Asks
    BY <1>1, <1>2, AskStage
<1>4. TripType' /\ Dragging'
    BY <1>1, <1>3 DEF TravelInv, TripType, Dragging
<1>5. Unsound' # {}
    BY <1>1 DEF Unsound
<1>6. QED
    BY <1>4, <1>5 DEF TravelInv

LEMMA DiscardKeeps == ASSUME TravelInv, discardMine PROVE TravelInv'
<1>1. /\ Ask("discard", None) /\ trip.at = "mine" /\ UNCHANGED <<trip, edits, copy, fork, mishaps>>
    BY DEF discardMine, vars
<1>2. /\ asks' \in Asks /\ asks'["discard"].stage = "sent"
      /\ \A l \in AskKinds : l # "discard" => asks'[l] = asks[l]
    <2>1. asks \in Asks /\ "discard" \in AskKinds
        BY DEF TravelInv, TripType, AskKinds
    <2>2. QED
        BY <1>1, <2>1, AskFields
<1>3. TripType' /\ Dragging'
    BY <1>1, <1>2 DEF TravelInv, TripType, Dragging
<1>4. ASSUME Unsound' = {} PROVE MoveInv'
    <2>1. MoveInv /\ trip.moved = None
        BY <1>1, <1>4 DEF TravelInv, Dragging, Unsound
    <2>2. ~Asked("fork") /\ ~Asked("carry")
        BY <2>1 DEF MoveInv
    <2>3. \A l \in AskKinds : l # "discard" => ~Asked(l)' /\ asks'[l].stage = "idle"
        BY <1>2, <2>2 DEF Asked, AskKinds
    <2>4. QED
        BY <1>1, <1>2, <2>3 DEF MoveInv, AskKinds
<1>5. QED
    BY <1>3, <1>4 DEF TravelInv

\* The traveler edits the fork, on its page: no drag of the official plan is under way.
LEMMA EditKeeps == ASSUME TravelInv, TextsType, TextsType', EditMine PROVE TravelInv'
<1>1. trip.at = "mine" /\ UNCHANGED <<trip, asks, fork>> /\ mishaps \subseteq mishaps' /\ edits' = edits + 1
    BY DEF EditMine, EditCopy
<1>2. edits <= edits' /\ edits \in Nat
    BY <1>1 DEF TextsType
<1>3. TripType' /\ Dragging'
    BY <1>1, <1>2 DEF TravelInv, TripType, Dragging, TextsType
<1>4. ASSUME Unsound' = {} PROVE MoveInv'
    <2>1. MoveInv /\ trip.moved = None
        BY <1>1, <1>4 DEF TravelInv, Dragging, Unsound
    <2>2. ~Asked("carry")
        BY <2>1 DEF MoveInv
    <2>3. QED
        BY <1>1, <2>1, <2>2 DEF MoveInv, Asked
<1>5. QED
    BY <1>3, <1>4 DEF TravelInv

LEMMA OthersKeep ==
    ASSUME TravelInv, UNCHANGED <<asks, trip, copy, edits>>, fork' \in {fork, "reconciled"}, mishaps \subseteq mishaps'
    PROVE  TravelInv'
<1>1. TripType' /\ Dragging'
    BY DEF TravelInv, TripType, Dragging
<1>2. Unsound' = {} => Unsound = {}
    BY DEF Unsound
<1>3. Unsound' = {} => MoveInv'
    BY <1>2 DEF TravelInv, MoveInv, Asked
<1>4. QED
    BY <1>1, <1>3 DEF TravelInv

\* In a sound behaviour an answer leaves no call behind it.
LEMMA LastForgotten ==
    ASSUME TravelInv, Unsound = {}, NEW k \in AskKinds, Asked(k), NEW a, a = Forget(k)
    PROVE  \A l \in AskKinds : a[l].stage = "idle"
<1>1. a[k].stage = "idle" /\ \A l \in AskKinds : l # k => a[l] = asks[l]
    BY ForgetFields DEF TravelInv, TripType
<1>2. \A l \in AskKinds : l # k => asks[l].stage = "idle"
    BY DEF TravelInv, MoveInv, Asked
<1>3. QED
    BY <1>1, <1>2

LEMMA LeaveKeeps ==
    ASSUME TravelInv, edits \in Nat, NEW k \in AskKinds, Answering(k), asks' = Forget(k),
           NEW at, trip' = Opened(at, fork, plan), UNCHANGED <<fork, edits, mishaps>>
    PROVE  TravelInv'
<1>1. PICK a : a = Forget(k) /\ asks' = a
    OBVIOUS
<1>2. asks' \in Asks
    BY <1>1, ForgetFields DEF TravelInv, TripType
<1>3. Asked(k)
    BY DEF Answering, Asked
<1>4. Unsound = {} => \A l \in AskKinds : asks'[l].stage = "idle"
    BY <1>1, <1>3, LastForgotten
<1>5. Unsound = {} => /\ \A l \in AskKinds : asks'[l].stage # "refused"
                      /\ \A l, m \in AskKinds : Asked(l)' /\ Asked(m)' => l = m
                      /\ ~Asked("fork")' /\ ~Asked("carry")'
    BY <1>4 DEF Asked, AskKinds
<1>6. QED
    BY <1>2, <1>5, ReloadKeeps

\* The page stays, whatever it takes down of the drag; that it was refused something is known.
LEMMA GiveUpKeeps ==
    ASSUME TravelInv, edits \in Nat, NEW k \in AskKinds, asks[k].stage = "refused", asks' = Forget(k),
           trip' = trip \/ trip' = [trip EXCEPT !.forking = FALSE, !.moved = None, !.was = 0],
           UNCHANGED <<edits, mishaps>>
    PROVE  TravelInv'
<1>1. PICK a : a = Forget(k) /\ asks' = a
    OBVIOUS
<1>2. asks' \in Asks
    BY <1>1, ForgetFields DEF TravelInv, TripType
<1>3. Unsound' # {}
    BY DEF TravelInv, MoveInv, Unsound
<1>4. CASE trip' = trip
    BY <1>2, <1>3, <1>4 DEF TravelInv, TripType, Dragging
<1>5. CASE trip' = [trip EXCEPT !.forking = FALSE, !.moved = None, !.was = 0]
    <2>1. PICK b, u : b = FALSE /\ u = Dragged(trip, b, None, 0) /\ trip' = u
        BY <1>5 DEF Dragged
    <2>2. PICK S : trip \in TripRecords(S)
        BY DEF TravelInv, TripType
    <2>3. (\E T : u \in TripRecords(T)) /\ u.draftMine = trip.draftMine /\ u.at = trip.at /\ u.moved = None /\ u.was = 0
          /\ u.openFork = trip.openFork
        <3>1. u = Dragged(trip, b, None, 0)
            BY <2>1
        <3>2. QED
            BY <2>2, <3>1, TripDrags
    <2>4. TripType'
        BY <1>2, <2>1, <2>3 DEF TripType
    <2>5. Dragging'
        BY <2>1, <2>3 DEF TravelInv, Dragging
    <2>6. QED
        BY <1>3, <2>4, <2>5 DEF TravelInv
<1>6. QED
    BY <1>4, <1>5

\* The fork is made, and the move is sent after it.
LEMMA FollowKeeps ==
    ASSUME TravelInv, edits \in Nat, AnswerFork, Fine("fork"), asks["fork"].node \in LiveCopies(copy)
    PROVE  TravelInv' /\ trip'.at = trip.at
<1> DEFINE n == asks["fork"].node
<1>1. /\ asks' = [Forget("fork") EXCEPT !["carry"] = [stage |-> "sent", node |-> n]]
      /\ trip' = [trip EXCEPT !.forking = FALSE] /\ UNCHANGED <<fork, copy, edits, mishaps>>
    BY DEF AnswerFork, vars
<1>2. "fork" \in AskKinds /\ "carry" \in AskKinds /\ asks \in Asks /\ n \in Nodes \cup {None}
    BY DEF AskKinds, TravelInv, TripType, Asks, AskRecords
<1>3. PICK a : a = Forget("fork")
    OBVIOUS
<1>4. a \in Asks /\ a["fork"].stage = "idle" /\ \A l \in AskKinds : l # "fork" => a[l] = asks[l]
    BY <1>2, <1>3, ForgetFields
<1>5. PICK x : x = [stage |-> "sent", node |-> n]
    OBVIOUS
<1>6. x \in AskRecords /\ x.stage = "sent" /\ x.node = n
    BY <1>2, <1>5 DEF AskRecords, AskStages
<1>7. asks' = [a EXCEPT !["carry"] = x]
    BY <1>1, <1>3, <1>5
<1>8. asks' \in Asks /\ asks'["carry"] = x /\ asks'["fork"] = a["fork"]
      /\ \A l \in AskKinds : l # "fork" /\ l # "carry" => asks'[l] = asks[l]
    BY <1>2, <1>4, <1>6, <1>7 DEF Asks
<1>9. PICK b, u : b = FALSE /\ u = [trip EXCEPT !.forking = b] /\ trip' = u
    BY <1>1
<1>10. PICK S : trip \in TripRecords(S)
    BY DEF TravelInv, TripType
<1>11. (\E T : u \in TripRecords(T)) /\ u.draftMine = trip.draftMine /\ u.at = trip.at /\ u.moved = trip.moved
       /\ u.was = trip.was /\ u.openFork = trip.openFork
    <2>1. u = [trip EXCEPT !.forking = b]
        BY <1>9
    <2>2. QED
        BY <1>10, <2>1, TripForks
<1>12. TripType'
    BY <1>1, <1>8, <1>9, <1>11 DEF TravelInv, TripType
<1>13. Dragging'
    BY <1>9, <1>11 DEF TravelInv, Dragging
<1>14. ASSUME Unsound' = {} PROVE MoveInv'
    <2>1. MoveInv /\ Asked("fork")
        BY <1>1, <1>14 DEF TravelInv, Unsound, Fine, Asked
    <2>2. \A l \in AskKinds : l # "fork" => ~Asked(l)
        BY <1>2, <2>1 DEF MoveInv
    <2>3. trip.moved # None /\ n = trip.moved
        BY <2>1 DEF MoveInv
    <2>4. asks'["carry"].stage = "sent" /\ asks'["carry"].node = n /\ asks'["fork"].stage = "idle"
        BY <1>4, <1>6, <1>8
    <2>5. \A l \in AskKinds : l # "carry" => asks'[l].stage = "idle"
        BY <1>8, <2>2, <2>4 DEF Asked
    <2> HIDE DEF n
    <2>6. trip'.moved = trip.moved
        BY <1>9, <1>11
    <2>7. QED
        BY <1>2, <2>3, <2>4, <2>5, <2>6 DEF MoveInv, Asked
<1>15. QED
    BY <1>9, <1>11, <1>12, <1>13, <1>14 DEF TravelInv

LEMMA AnswersKeep == ASSUME TravelInv, edits \in Nat, AnswerFork \/ AnswerCarry \/ AnswerDiscard PROVE TravelInv'
<1>1. UNCHANGED <<fork, edits, mishaps>> /\ "fork" \in AskKinds /\ "carry" \in AskKinds /\ "discard" \in AskKinds
    BY DEF AnswerFork, AnswerCarry, AnswerDiscard, vars, AskKinds
<1>2. CASE AnswerFork /\ Fine("fork") /\ asks["fork"].node \in LiveCopies(copy)
    BY <1>2, FollowKeeps
<1>3. CASE AnswerFork /\ Fine("fork") /\ asks["fork"].node \notin LiveCopies(copy)
    <2>1. Answering("fork") /\ asks' = Forget("fork") /\ trip' = Opened("mine", fork, plan)
        BY <1>3 DEF AnswerFork, forkItinerary
    <2>2. QED
        BY <1>1, <2>1, LeaveKeeps
<1>4. CASE AnswerFork /\ ~Fine("fork")
    <2>1. /\ asks["fork"].stage = "refused" /\ asks' = Forget("fork")
          /\ trip' = [trip EXCEPT !.forking = FALSE, !.moved = None, !.was = 0]
        BY <1>4 DEF AnswerFork, forkItinerary, Answering, Fine
    <2>2. QED
        BY <1>1, <2>1, GiveUpKeeps
<1>5. CASE AnswerCarry
    <2>1. Answering("carry") /\ asks' = Forget("carry") /\ trip' = Opened("mine", fork, plan)
        BY <1>5 DEF AnswerCarry
    <2>2. QED
        BY <1>1, <2>1, LeaveKeeps
<1>6. CASE AnswerDiscard /\ Fine("discard")
    <2>1. Answering("discard") /\ asks' = Forget("discard") /\ trip' = Opened("official", fork, plan)
        BY <1>6 DEF AnswerDiscard, abandonFork, GoTo
    <2>2. QED
        BY <1>1, <2>1, LeaveKeeps
<1>7. CASE AnswerDiscard /\ ~Fine("discard")
    <2>1. asks["discard"].stage = "refused" /\ asks' = Forget("discard") /\ trip' = trip
        BY <1>7 DEF AnswerDiscard, abandonFork, Answering, Fine
    <2>2. QED
        BY <1>1, <2>1, GiveUpKeeps
<1>8. QED
    BY <1>2, <1>3, <1>4, <1>5, <1>6, <1>7

LEMMA StepsKeepTravel ==
    ASSUME TravelInv, TextsType, TextsType', Traveler \/ Advisor \/ Service
    PROVE  TravelInv'
<1>1. edits \in Nat
    BY DEF TextsType
<1>2. CASE AskActs
    BY <1>1, <1>2, SelectKeeps, DragKeeps, DiscardKeeps, AnswersKeep, ForkServedKeeps, CarryServedKeeps, AbandonKeeps,
       RefuseKeeps DEF AskActs
<1>3. CASE EditMine
    BY <1>3, EditKeeps
<1>4. CASE UNCHANGED <<asks, trip, copy, edits>> /\ fork' \in {fork, "reconciled"} /\ mishaps \subseteq mishaps'
    BY <1>4, OthersKeep
<1>5. QED
    BY <1>2, <1>3, <1>4, TravelSteps

LEMMA VersionsInitInv == ReviewInit => VersionsInv
<1> SUFFICES ASSUME ReviewInit, open = {} PROVE TextsType /\ MergeType /\ TravelInv
    BY DEF VersionsInv
<1>1. row \in [Nodes -> {"idea", "approved", "gone"}] /\ mishaps = {} /\ IdleVersions
    <2>1. ~Init
        BY DEF Init
    <2>2. QED
        BY <2>1 DEF ReviewInit
<1>2. row \in Statuses
    BY <1>1 DEF Statuses, NodeStatus
<1>3. NoCopy \in Copies /\ NoCopy.text = 0
    BY DEF NoCopy, Copies, NodeStatus
<1>4. TextsType
    BY <1>1, <1>2, <1>3 DEF TextsType, IdleVersions
<1>5. MergeType
    BY <1>1, NoMergeTyped DEF MergeType, IdleVersions
<1>6. NoAsk \in AskRecords /\ NoAsk.stage = "idle"
    BY DEF AskRecords, AskStages, NoAsk
<1>7. asks \in Asks /\ \A k \in AskKinds : asks[k].stage = "idle"
    BY <1>1, <1>6 DEF Asks, IdleVersions
<1>8. PICK u : u = Opened("official", fork, plan) /\ trip = u
    BY <1>1 DEF IdleVersions
<1>9. /\ (\E T : u \in TripRecords(T)) /\ u.at = "official"
      /\ ~u.draftMine /\ u.moved = None /\ u.was = 0 /\ (u.openFork <=> fork = "open")
    BY <1>8, OpenedFields
<1>10. edits = 0
    BY <1>1 DEF IdleVersions
<1>11. TripType /\ Dragging
    BY <1>7, <1>8, <1>9, <1>10 DEF TripType, Dragging
<1>12. MoveInv
    BY <1>7, <1>8, <1>9 DEF MoveInv, Asked, AskKinds
<1>13. QED
    BY <1>4, <1>5, <1>11, <1>12 DEF TravelInv

LEMMA VersionsNextInv == ReviewInv /\ VersionsInv /\ [ReviewNext]_allVars => VersionsInv'
<1> SUFFICES ASSUME ReviewInv, VersionsInv, [ReviewNext]_allVars, open' = {} PROVE TextsType' /\ MergeType' /\ TravelInv'
    BY DEF VersionsInv
<1>1. CASE UNCHANGED allVars
    <2>1. UNCHANGED <<row, text, copy, edits, merge, asks, trip, fork, mishaps, open>>
        BY <1>1 DEF allVars, vars, versions
    <2>2. TextsType' /\ MergeType'
        BY <2>1 DEF VersionsInv, TextsType, MergeType
    <2>3. TravelInv'
        BY <2>1, OthersKeep DEF VersionsInv
    <2>4. QED
        BY <2>2, <2>3
<1>2. CASE open # {} /\ Next
    BY <1>2, ReviewKeepsType DEF ReviewInv
<1>3. CASE open = {} /\ (Traveler \/ Advisor \/ Service)
    <2>1. TextsType /\ MergeType /\ TravelInv
        BY <1>3 DEF VersionsInv
    <2>2. MergeType' /\ TextsType'
        BY <1>3, <2>1, StepsKeepMerge, StepsKeepTexts DEF TravelInv
    <2>3. QED
        BY <1>3, <2>1, <2>2, StepsKeepTravel
<1>4. QED
    BY <1>1, <1>2, <1>3 DEF ReviewNext

\* A page on the official plan with a drag under way leaves it with the answer to that drag.
LEMMA LeavesWithAnswer ==
    ASSUME TravelInv, TextsType, Traveler \/ Advisor \/ Service, trip.moved # None, trip'.at # trip.at
    PROVE  \/ AnswerCarry
           \/ AnswerFork /\ Fine("fork") /\ asks["fork"].node \notin LiveCopies(copy)
           \/ asks["fork"].stage = "refused"
           \/ AnswerDiscard
<1>1. PICK S : trip \in TripRecords(S)
    BY DEF TravelInv, TripType
<1>2. trip.at = "official" /\ ~trip.openFork
    BY DEF TravelInv, Dragging
<1>3. ~UNCHANGED trip
    OBVIOUS
<1>4. \/ selectOfficial \/ selectMine \/ (\E n \in Nodes : forkAndMove(n)) \/ AnswerFork \/ AnswerCarry \/ AnswerDiscard
    BY <1>3, TravelSteps DEF AskActs, discardMine, EditMine, fork_itinerary, carryMove, abandon_fork, RefuseAsk
<1>5. ~(selectOfficial \/ selectMine)
    <2>1. SUFFICES ASSUME selectOfficial \/ selectMine PROVE FALSE
        OBVIOUS
    <2>2. PICK b \in BOOLEAN : trip' = [trip EXCEPT !.draftMine = b]
        BY <1>2, <2>1 DEF selectOfficial, selectMine
    <2>3. PICK u : u = [trip EXCEPT !.draftMine = b] /\ trip' = u
        BY <2>2
    <2>4. u.at = trip.at
        BY <1>1, <2>3, TripDrafts
    <2>5. QED
        BY <2>3, <2>4
<1>6. ~\E n \in Nodes : forkAndMove(n)
    <2>1. SUFFICES ASSUME NEW n \in Nodes, forkAndMove(n) PROVE FALSE
        OBVIOUS
    <2>2. PICK e, b, u : e = text[n] /\ b = TRUE /\ u = Dragged(trip, b, n, e) /\ trip' = u
        BY <2>1 DEF forkAndMove, Dragged
    <2>3. u = Dragged(trip, b, n, e)
        BY <2>2
    <2>4. u.at = trip.at
        BY <1>1, <2>3, TripDrags
    <2>5. QED
        BY <2>2, <2>4
<1>7. ASSUME AnswerFork, Fine("fork"), asks["fork"].node \in LiveCopies(copy) PROVE FALSE
    <2>1. edits \in Nat
        BY DEF TextsType
    <2>2. QED
        BY <1>7, <2>1, FollowKeeps
<1>8. AnswerFork /\ ~Fine("fork") => asks["fork"].stage = "refused"
    BY DEF AnswerFork, forkItinerary, Answering, Fine
<1>9. QED
    BY <1>4, <1>5, <1>6, <1>7, <1>8

LEMMA ArrivesMoved ==
    ASSUME TravelInv, TextsType, Unsound = {}, Traveler \/ Advisor \/ Service,
           trip'.at = "mine", trip.at # "mine", trip.moved # None, copy[trip.moved].here
    PROVE  copy'[trip.moved].text > trip.was
<1>1. MoveInv /\ trip.moved \in ForkNodes /\ trip.at = "official"
      /\ "fork" \in AskKinds /\ "carry" \in AskKinds /\ "discard" \in AskKinds
    BY DEF TravelInv, TripType, Dragging, ForkNodes, AskKinds
<1>2. asks["fork"].stage # "refused" /\ asks["carry"].stage # "refused" /\ asks["discard"].stage # "refused"
    BY <1>1 DEF MoveInv
<1>3. ~(AnswerFork /\ Fine("fork") /\ asks["fork"].node \notin LiveCopies(copy))
    <2>1. Fine("fork") => asks["fork"].node = trip.moved
        BY <1>1 DEF MoveInv, Asked, Fine
    <2>2. trip.moved \in LiveCopies(copy)
        BY <1>1 DEF LiveCopies
    <2>3. QED
        BY <2>1, <2>2
<1>4. ~AnswerDiscard
    <2>1. SUFFICES ASSUME AnswerDiscard PROVE FALSE
        OBVIOUS
    <2>2. PICK u : u = Opened("official", fork, plan) /\ trip' = u
        BY <1>2, <2>1 DEF AnswerDiscard, abandonFork, Answering, Fine, GoTo
    <2>3. u.at = "official"
        BY <2>2, OpenedFields
    <2>4. QED
        BY <2>2, <2>3
<1>5. AnswerCarry
    BY <1>2, <1>3, <1>4, LeavesWithAnswer
<1>6. asks["carry"].stage = "ok" /\ copy' = copy
    BY <1>2, <1>5 DEF AnswerCarry, Answering
<1>7. QED
    BY <1>1, <1>6 DEF MoveInv

\* A fork that is made in a sound behaviour is made where the page knew of none, and there is none.
LEMMA NoSecondFork ==
    ASSUME TravelInv, Unsound = {}, Traveler \/ Advisor \/ Service
    PROVE  spare' = spare
<1>1. fork_itinerary \/ spare' = spare
    BY DEF Traveler, Advisor, Service, selectOfficial, selectMine, forkAndMove, discardMine, EditMine,
       AnswerFork, AnswerCarry, AnswerDiscard, refresh, Leave, reconcile, reconcileFork, toggle, carryMove,
       abandon_fork, RefuseAsk, Progress, Load, Finish, Break, ApplyAdded, ApplyRemoved, ApplyBooked, Demote, ApplyChanged,
       OnlyMerge, versions
<1>2. ASSUME fork_itinerary PROVE spare' = spare
    <2>1. SentAsk("fork") /\ (fork # "open" => spare' = spare)
        BY <1>2 DEF fork_itinerary
    <2>2. MoveInv /\ Asked("fork") /\ asks["fork"].stage # "ok" /\ "fork" \in AskKinds /\ "carry" \in AskKinds
        BY <2>1 DEF TravelInv, SentAsk, Asked, AskKinds
    <2>3. trip.moved # None /\ ~Asked("carry")
        BY <2>2 DEF MoveInv
    <2>4. trip.at = "official" /\ ~trip.openFork
        BY <2>3 DEF TravelInv, Dragging
    <2>5. fork # "open"
        BY <2>2, <2>3, <2>4 DEF MoveInv
    <2>6. QED
        BY <2>1, <2>5
<1>3. QED
    BY <1>1, <1>2

\* The page arrives at the fork with the card it dragged moved there, and makes no fork beside an open one, for any
\* cards and any number of edits, forks and merges, unless a call failed or was begun again while a move was carried.
THEOREM ReviewMoveCarried == ReviewSpec => MoveCarried
<1> DEFINE Carried ==
      mishaps \cap {"refused", "lost", "again"} = {} =>
        /\ trip'.at = "mine" /\ trip.at # "mine" /\ trip.moved # None /\ copy[trip.moved].here
             => copy'[trip.moved].text > trip.was
        /\ spare' = spare
<1>1. ReviewInit => ReviewInv /\ VersionsInv
    BY ReviewInitInv, VersionsInitInv
<1>2. ReviewInv /\ VersionsInv /\ [ReviewNext]_allVars => (ReviewInv /\ VersionsInv)'
    BY ReviewNextInv, VersionsNextInv
<1>3. VersionsInv /\ [ReviewNext]_allVars => [Carried]_allVars
    <2>1. SUFFICES ASSUME VersionsInv, ReviewNext, Unsound = {} PROVE Carried
        BY DEF Unsound
    <2>2. CASE open # {} /\ UNCHANGED versions
        <3>1. trip' = trip /\ spare' = spare
            BY <2>2 DEF versions
        <3>2. QED
            BY <3>1
    <2>3. CASE open = {} /\ (Traveler \/ Advisor \/ Service)
        BY <2>1, <2>3, ArrivesMoved, NoSecondFork DEF VersionsInv
    <2>4. QED
        BY <2>1, <2>2, <2>3 DEF ReviewNext
<1>4. QED
    BY <1>1, <1>2, <1>3, PTL DEF ReviewSpec, MoveCarried
=============================================================================
