------------------------------ MODULE Approval ------------------------------
(***************************************************************************)
(* The review of an itinerary: the advisor proposes the plan, the traveler *)
(* approves it card by card or as a whole, and the service derives the     *)
(* plan's approval from its cards.  Pages change at once and take a change *)
(* back when the answer is not ok: the advisor's and the traveler's with   *)
(* the nodes as they were before it, the mood board of a chat card by      *)
(* card.  update_node and delete_node read, write and commit in steps of   *)
(* their own, under the row lock of the card.                              *)
(***************************************************************************)
EXTENDS Naturals, Sequences, FiniteSets, SequencesExt

CONSTANTS
  Cards,      \* the itinerary's cards
  Notes,      \* cards not written yet: notes, which are created proposed, and copies
  MaxCalls,   \* bound: requests the pages send
  None        \* no card

ASSUME CardsAssumption == Cards \cap Notes = {} /\ None \notin Cards \cup Notes
ASSUME CallsAssumption == MaxCalls \in Nat

VARIABLES
  plan,       \* the itinerary's status
  row,        \* the status of each card, "gone" when deleted or not written
  page,       \* per viewer: the status shown, the cards shown, the buttons that wait
  open,       \* the viewers whose pages are open
  calls,      \* the requests sent so far
  mishaps     \* history: "overlap" (two requests at once), "refused", "lost" (answers),
              \* "apart" (served out of order), "late" (a card proposed while another
              \* request had already counted those that are left)

vars == <<plan, row, page, open, calls, mishaps>>

-----------------------------------------------------------------------------

Nodes == Cards \cup Notes
Viewers == {"advisor", "traveler", "board"}
NodeStatus == {"idea", "proposed", "approved", "booked", "discarded", "gone"}
PlanStatus == {"draft", "proposed", "approved"}
Buttons == {"propose", "reopen", "approve", "approveNode", "proposeCard"}

CallIds == 1..MaxCalls
Firmed == {"approved", "booked"}
Live(cards) == {n \in Nodes : cards[n] # "gone"}
With(cards, s) == {n \in Nodes : cards[n] = s}

Empty == [n \in Nodes |-> "gone"]

\* "Approve all" firms what is proposed and nothing else.
ApprovedAll(cards) == [n \in Nodes |-> IF cards[n] = "proposed" THEN "approved" ELSE cards[n]]

-----------------------------------------------------------------------------
(* Pages.                                                                  *)

InFlight == {c \in DOMAIN calls : calls[c].stage # "done"}

Shown(v) == page[v].cards

selectCanPropose(v) == v = "advisor" /\ page[v].status = "draft"
selectCanReopen(v) == v = "advisor" /\ page[v].status = "proposed"
selectCanApprove(v) ==
  \/ v = "advisor" /\ page[v].status # "approved"
  \/ v = "traveler" /\ page[v].status = "proposed"

Request(v, kind, n, to) ==
  [by |-> v, kind |-> kind, node |-> n, to |-> to, stage |-> "sent", derived |-> FALSE,
   was |-> page[v].status, snap |-> IF kind \in {"propose", "reopen", "note"} THEN Empty ELSE Shown(v)]

\* The request goes out, and the page shows its effect at once.
Send(v, kind, n, to, status, cards) ==
  /\ v \in open
  /\ Len(calls) < MaxCalls
  /\ kind \notin page[v].waiting
  /\ calls' = Append(calls, Request(v, kind, n, to))
  /\ page' = [page EXCEPT ![v] = [status |-> status, cards |-> cards,
                                  waiting |-> page[v].waiting \cup ({kind} \cap Buttons)]]
  /\ mishaps' = mishaps \cup (IF InFlight = {} THEN {} ELSE {"overlap"})
  /\ UNCHANGED <<plan, row, open>>

propose(v) ==
  /\ selectCanPropose(v)
  /\ Send(v, "propose", None, "idea", "proposed", Shown(v))

reopen(v) ==
  /\ selectCanReopen(v)
  /\ Send(v, "reopen", None, "idea", "draft", Shown(v))

\* The dashboard offers it to the traveler only.
approve(v) ==
  /\ v = "traveler" /\ selectCanApprove(v)
  /\ Send(v, "approve", None, "idea", "approved", ApprovedAll(Shown(v)))

\* The page derives the plan's approval as the service does.
approveNode(v, n) ==
  /\ selectCanApprove(v)
  /\ Shown(v)[n] = "proposed"
  /\ LET cards == [Shown(v) EXCEPT ![n] = "approved"]
         over == With(cards, "proposed") = {} /\ page[v].status = "proposed" IN
     Send(v, "approveNode", n, "approved", IF over THEN "approved" ELSE page[v].status, cards)

proposeCard(v, n) ==
  /\ selectCanPropose(v)
  /\ Shown(v)[n] = "idea"
  /\ Send(v, "proposeCard", n, "proposed", page[v].status, [Shown(v) EXCEPT ![n] = "proposed"])

\* Pin, keep or discard on the mood board, which hides what is discarded.
onCardAction(v, n, to) ==
  /\ v = "board" /\ Shown(v)[n] \notin {to, "gone", "discarded"}
  /\ to \in {"approved", "proposed", "discarded"}
  /\ Send(v, "card", n, to, page[v].status, [Shown(v) EXCEPT ![n] = to])

\* A firmed card has no Remove button; notes always have one.
removeNode(v, n) ==
  /\ v # "board" /\ n \in Live(Shown(v))
  /\ n \in Notes \/ Shown(v)[n] \notin Firmed
  /\ Send(v, "remove", n, "gone", page[v].status, [Shown(v) EXCEPT ![n] = "gone"])

addNote(v, n) ==
  /\ v # "board" /\ n \in Notes
  /\ \A c \in DOMAIN calls : calls[c].node # n
  /\ Send(v, "note", n, "proposed", page[v].status, [Shown(v) EXCEPT ![n] = "proposed"])

-----------------------------------------------------------------------------
(* The service.                                                            *)

Updates == {"approveNode", "proposeCard", "card"}

Reply(c, stage) ==
  /\ calls' = [calls EXCEPT ![c].stage = stage]
  /\ UNCHANGED <<page, open>>

At(c, stage, kinds) ==
  c \in DOMAIN calls /\ calls[c].stage = stage /\ calls[c].kind \in kinds

\* The row lock: a second writer of the card waits for the first one's commit.
Unlocked(n) == ~\E d \in DOMAIN calls : calls[d].stage = "flushed" /\ calls[d].node = n

OutOfOrder(c) ==
  IF \E d \in 1..c - 1 : calls[d].stage \in {"sent", "loaded", "flushed"} THEN {"apart"} ELSE {}

\* A card is proposed after another request has counted those that are.
Late(c, to) ==
  IF to = "proposed" /\ \E d \in DOMAIN calls \ {c} : calls[d].stage = "flushed" THEN {"late"} ELSE {}

\* A firmed card moves for an advisor only; a note is removed whatever its status.
LoadNode(c) ==
  /\ At(c, "sent", Updates \cup {"remove"})
  /\ LET call == calls[c] IN
       /\ row[call.node] \in Firmed =>
            IF call.kind = "remove" THEN call.node \in Notes ELSE call.by = "advisor"
       /\ Reply(c, "loaded")
  /\ mishaps' = mishaps \cup OutOfOrder(c)
  /\ UNCHANGED <<plan, row>>

Written(c) == [row EXCEPT ![calls[c].node] = IF @ = "gone" THEN @ ELSE calls[c].to]

\* Slip: what is left to be approved is not counted.
DerivesEarly(c) == plan = "proposed" /\ With(Written(c), "approved") # {}

\* Nothing is left to be approved, and something was.
LeavesNone(cards) ==
  plan = "proposed" /\ With(cards, "proposed") = {} /\ With(cards, "approved") # {}

Derives(c) == LeavesNone(Written(c))

\* The write and the count behind it see what is committed, and this transaction's own.
FlushNode(c) ==
  /\ At(c, "loaded", Updates)
  /\ Unlocked(calls[c].node)
  /\ calls' = [calls EXCEPT ![c].stage = "flushed", ![c].derived = Derives(c)]
  /\ UNCHANGED <<plan, row, page, open, mishaps>>

CommitNode(c) ==
  /\ At(c, "flushed", Updates)
  /\ row' = Written(c)
  /\ plan' = IF calls[c].derived /\ plan = "proposed" THEN "approved" ELSE plan
  /\ calls' = [calls EXCEPT ![c].stage = "ok"]
  /\ mishaps' = mishaps \cup Late(c, calls[c].to)
  /\ UNCHANGED <<page, open>>

ServeRemove(c) ==
  /\ At(c, "loaded", {"remove"})
  /\ Unlocked(calls[c].node)
  /\ row' = [row EXCEPT ![calls[c].node] = "gone"]
  /\ Reply(c, "ok")
  /\ UNCHANGED <<plan, mishaps>>

ServeNote(c) ==
  /\ At(c, "sent", {"note"})
  /\ row' = [row EXCEPT ![calls[c].node] = "proposed"]
  /\ mishaps' = mishaps \cup OutOfOrder(c) \cup Late(c, "proposed")
  /\ Reply(c, "ok")
  /\ UNCHANGED plan

\* One statement each decides and writes the plan's status.
propose_itinerary(c) ==
  /\ At(c, "sent", {"propose"})
  /\ plan = "draft"
  /\ plan' = "proposed"
  /\ mishaps' = mishaps \cup OutOfOrder(c)
  /\ Reply(c, "ok")
  /\ UNCHANGED row

reopen_itinerary(c) ==
  /\ At(c, "sent", {"reopen"})
  /\ plan = "proposed"
  /\ plan' = "draft"
  /\ mishaps' = mishaps \cup OutOfOrder(c)
  /\ Reply(c, "ok")
  /\ UNCHANGED row

\* The cascade waits for the cards that another transaction is writing.
approve_itinerary(c) ==
  /\ At(c, "sent", {"approve"})
  /\ plan \in {"draft", "proposed"}
  /\ \A n \in Nodes : Unlocked(n)
  /\ plan' = "approved"
  /\ row' = ApprovedAll(row)
  /\ mishaps' = mishaps \cup OutOfOrder(c)
  /\ Reply(c, "ok")

\* Refused by a status, the editor lock or an entitlement; nothing is written.
Refuse(c) ==
  /\ At(c, "sent", {calls[c].kind}) \/ At(c, "loaded", {calls[c].kind})
  /\ Reply(c, "refused")
  /\ mishaps' = mishaps \cup {"refused"}
  /\ UNCHANGED <<plan, row>>

Lose(c) ==
  /\ c \in DOMAIN calls /\ calls[c].stage = "ok"
  /\ Reply(c, "refused")
  /\ mishaps' = mishaps \cup {"refused", "lost"}
  /\ UNCHANGED <<plan, row>>

-----------------------------------------------------------------------------
(* Answers.                                                                *)

Answered(c, kinds) ==
  c \in DOMAIN calls /\ calls[c].kind \in kinds /\ calls[c].stage \in {"ok", "refused"}

proposeItinerary(c) == Answered(c, {"propose"})
reopenItinerary(c) == Answered(c, {"reopen"})
approveItinerary(c) == Answered(c, {"approve"})
updateNodeStatus(c, kinds) == Answered(c, kinds)

Ok(c) == calls[c].stage = "ok"

\* The answer is taken in: the status and the cards the page shows from now on.
Settle(c, status, cards) ==
  /\ page' = [page EXCEPT ![calls[c].by] =
                [status |-> status, cards |-> cards, waiting |-> @.waiting \ {calls[c].kind}]]
  /\ calls' = [calls EXCEPT ![c] = [@ EXCEPT !.stage = "done", !.snap = Empty, !.was = "draft",
                                             !.derived = FALSE, !.to = "idea"]]
  /\ UNCHANGED <<plan, row, open, mishaps>>

Before(c) == calls[c].was
Now(c) == page[calls[c].by].status
NowShown(c) == page[calls[c].by].cards

AnswerPlan(c) ==
  /\ proposeItinerary(c) \/ reopenItinerary(c)
  /\ Settle(c, IF Ok(c) THEN Now(c) ELSE Before(c), NowShown(c))

AnswerApprove(c) ==
  /\ approveItinerary(c)
  /\ IF Ok(c) THEN Settle(c, Now(c), NowShown(c)) ELSE Settle(c, Before(c), calls[c].snap)

\* Slip: only the cards are put back.
AnswerApproveNodeCards(c) ==
  /\ updateNodeStatus(c, {"approveNode"})
  /\ Settle(c, Now(c), IF Ok(c) THEN NowShown(c) ELSE calls[c].snap)

AnswerApproveNode(c) ==
  /\ updateNodeStatus(c, {"approveNode"})
  /\ IF Ok(c) THEN Settle(c, Now(c), NowShown(c)) ELSE Settle(c, Before(c), calls[c].snap)

AnswerProposeCard(c) ==
  /\ updateNodeStatus(c, {"proposeCard"})
  /\ Settle(c, Now(c), IF Ok(c) THEN NowShown(c) ELSE calls[c].snap)

AnswerCard(c) ==
  /\ updateNodeStatus(c, {"card"})
  /\ Settle(c, Now(c), IF Ok(c) THEN NowShown(c)
                       ELSE [NowShown(c) EXCEPT ![calls[c].node] = calls[c].snap[calls[c].node]])

AnswerRemove(c) ==
  /\ Answered(c, {"remove"})
  /\ Settle(c, Now(c), IF Ok(c) THEN NowShown(c) ELSE calls[c].snap)

AnswerNote(c) ==
  /\ Answered(c, {"note"})
  /\ Settle(c, Now(c), IF Ok(c) THEN NowShown(c) ELSE [NowShown(c) EXCEPT ![calls[c].node] = "gone"])

-----------------------------------------------------------------------------

PlanAction(v) == propose(v) \/ reopen(v) \/ approve(v)
CardAction(v, n) ==
  \/ approveNode(v, n) \/ proposeCard(v, n) \/ removeNode(v, n) \/ addNote(v, n)
  \/ \E to \in NodeStatus : onCardAction(v, n, to)

Serve(c) ==
  \/ LoadNode(c) \/ FlushNode(c) \/ CommitNode(c) \/ ServeRemove(c) \/ ServeNote(c)
  \/ propose_itinerary(c) \/ reopen_itinerary(c) \/ approve_itinerary(c)
  \/ Refuse(c) \/ Lose(c)

Answer(c) ==
  \/ AnswerPlan(c) \/ AnswerApprove(c) \/ AnswerApproveNode(c) \/ AnswerProposeCard(c)
  \/ AnswerCard(c) \/ AnswerRemove(c) \/ AnswerNote(c)

\* The pages are opened on what the service has; one stands beside the traveler's.
Init ==
  /\ plan \in {"draft", "proposed"}
  /\ row \in [Nodes -> {"idea", "proposed", "gone"}]
  /\ \A n \in Nodes : row[n] = "gone" <=> n \in Notes
  /\ page = [v \in Viewers |-> [status |-> plan, cards |-> row, waiting |-> {}]]
  /\ open \in {{"advisor", "traveler"}, {"board", "traveler"}}
  /\ calls = <<>>
  /\ mishaps = {}

Next ==
  \/ \E v \in Viewers : PlanAction(v) \/ \E n \in Nodes : CardAction(v, n)
  \/ \E c \in CallIds : Serve(c) \/ Answer(c)

Spec == Init /\ [][Next]_vars

-----------------------------------------------------------------------------
(* Properties.                                                             *)

\* An approved plan leaves nothing to be approved behind: whichever way it comes to be approved,
\* no card is still proposed, unless one was proposed after the cards had been counted.
NothingLeftProposed ==
  [][plan # "approved" /\ plan' = "approved" /\ "late" \notin mishaps' => With(row', "proposed") = {}]_vars

\* A page that is the only one to send requests shows what the service has when all are answered:
\* if they were made one at a time, refused ones included, or if they overlapped and were all
\* accepted in the order they were sent.
QuietReviewAgrees ==
  \A v \in open :
    /\ InFlight = {}
    /\ \A c \in DOMAIN calls : calls[c].by = v
    /\ mishaps \subseteq {"refused"} \/ mishaps \subseteq {"overlap", "late"}
    => /\ v = "board" \/ page[v].status = plan
       /\ page[v].cards = row

=============================================================================
