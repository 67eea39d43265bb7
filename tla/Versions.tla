------------------------------ MODULE Versions ------------------------------
(***************************************************************************)
(* The two versions of an itinerary.  The traveler's first drag on the     *)
(* official plan forks it and carries the move onto the fork; on the fork  *)
(* the traveler edits, or discards it (asking for a merge changes none of  *)
(* this and is left out).  The advisor's panel shows what differs, and     *)
(* reconciles what is ticked, one change after the other, into the plan    *)
(* under review.  What a card says is followed; where it stands among the  *)
(* others is not, and with it the changes that only move a card, which     *)
(* rewire edges and write no card.  A merge that an analysis blocks is     *)
(* refused before it begins, as one that breaks then.                      *)
(***************************************************************************)
EXTENDS Approval

CONSTANTS
  Added,      \* a card the traveler's version has on its own
  MaxEdits    \* bound: changes made to the fork, and forks made

ASSUME AddedAssumption == Added \notin Nodes \cup {None}
ASSUME EditsAssumption == MaxEdits \in Nat

VARIABLES
  text,       \* what each card of the plan says
  fork,       \* the newest fork: its fork_status, "none" before the first
  copy,       \* the fork's cards, under the card each was copied from
  spare,      \* older forks that are still open
  edits,      \* the number of changes made to the fork: the next text
  trip,       \* the traveler's page
  asks,       \* the traveler's requests: one at a time, but for a fork beside a move
  panel,      \* the advisor's panel
  merge       \* the reconcile request in the service

versions == <<text, fork, copy, spare, edits, trip, asks, panel, merge>>
allVars == <<vars, versions>>

review == <<page, open, calls>>

-----------------------------------------------------------------------------

ForkNodes == Nodes \cup {Added}
NoCopy == [status |-> "idea", text |-> 0, here |-> FALSE]

LiveCopies(cards) == {n \in ForkNodes : cards[n].here}

\* Booked cards are carried locked, approved ones become editable.
ForkedStatus(s) == IF s = "approved" THEN "proposed" ELSE s

-----------------------------------------------------------------------------
(* The traveler's page: "official", with a preview of an own version or    *)
(* without, and "mine", the fork.                                          *)

AskKinds == {"fork", "carry", "discard"}
NoAsk == [stage |-> "idle", node |-> None]

Asked(k) == asks[k].stage # "idle"
Alone(other) == \A k \in AskKinds \ {other} : ~Asked(k)
Ask(k, n) == asks' = [asks EXCEPT ![k] = [stage |-> "sent", node |-> n]]

\* The page as it is loaded: the newest fork and the plan's status are not looked at again.
Opened(at, state, status) ==
  [at |-> at, draftMine |-> FALSE, forking |-> FALSE, moved |-> None, was |-> 0,
   openFork |-> state = "open", approved |-> status = "approved"]

IdlePanel == [diff |-> {}, kept |-> {}, busy |-> FALSE, stale |-> TRUE]

selectIsDraftMine == trip.at = "official" /\ ~trip.approved /\ trip.draftMine

\* The page of the other version is loaded; what the old one had sent goes on in the service.
GoTo(at) == trip' = Opened(at, fork, plan)

\* Bound: the traveler stays on the page while a merge is under way.
selectOfficial ==
  /\ merge.stage = "none"
  /\ \/ trip.at = "mine" /\ GoTo("official")
     \/ trip.at = "official" /\ trip.draftMine /\ trip' = [trip EXCEPT !.draftMine = FALSE]
  /\ UNCHANGED <<vars, text, fork, copy, spare, edits, asks, panel, merge>>

selectMine ==
  /\ merge.stage = "none"
  /\ trip.at = "official" /\ ~trip.draftMine
  /\ IF trip.openFork THEN GoTo("mine") ELSE trip' = [trip EXCEPT !.draftMine = TRUE]
  /\ UNCHANGED <<vars, text, fork, copy, spare, edits, asks, panel, merge>>

\* The first drag: the card moves on the screen while the fork is made.  The flag is taken back
\* with the answer, although the move has yet to be carried over: a second drag forks again.
forkAndMove(n) ==
  /\ selectIsDraftMine /\ ~trip.forking
  /\ row[n] # "gone"
  /\ edits < MaxEdits
  /\ Alone("carry")
  /\ Ask("fork", n)
  /\ trip' = [trip EXCEPT !.forking = TRUE, !.moved = n, !.was = text[n]]
  /\ mishaps' = mishaps \cup (IF Asked("carry") THEN {"again"} ELSE {})
  /\ UNCHANGED <<plan, row, review, text, fork, copy, spare, edits, panel, merge>>

discardMine ==
  /\ trip.at = "mine" /\ Alone(None)
  /\ Ask("discard", None)
  /\ UNCHANGED <<vars, text, fork, copy, spare, edits, trip, panel, merge>>

-----------------------------------------------------------------------------
(* The service, for the traveler.                                          *)

Served(k) == asks' = [asks EXCEPT ![k].stage = "ok"]

SentAsk(k) == asks[k].stage = "sent"

\* The panel, or a merge, has looked at the versions and still counts on what it saw.
Relied == panel.diff # {} \/ merge.stage # "none"
Unnoticed == IF Relied THEN {"crossed"} ELSE {}

\* Every live card is copied, in one transaction; nothing looks for a fork that is open already.
fork_itinerary ==
  /\ SentAsk("fork")
  /\ ~panel.busy
  /\ Served("fork")
  /\ spare' = IF fork = "open" THEN spare + 1 ELSE spare
  /\ fork' = "open"
  /\ copy' = [n \in ForkNodes |->
                IF n \in Nodes
                THEN [status |-> ForkedStatus(row[n]), text |-> text[n], here |-> row[n] # "gone"]
                ELSE NoCopy]
  /\ panel' = IdlePanel
  /\ UNCHANGED <<vars, text, edits, trip, merge>>

\* A card of the fork takes the next text; a card that was booked when it was copied does not.
EditCopy(n) ==
  /\ edits < MaxEdits
  /\ n \in LiveCopies(copy) /\ copy[n].status \notin Firmed
  /\ edits' = edits + 1
  /\ copy' = [copy EXCEPT ![n].text = edits + 1]

carryMove ==
  /\ SentAsk("carry")
  /\ EditCopy(asks["carry"].node)
  /\ Served("carry")
  /\ mishaps' = mishaps \cup Unnoticed
  /\ UNCHANGED <<plan, row, review, text, fork, spare, trip, panel, merge>>

abandon_fork ==
  /\ SentAsk("discard")
  /\ fork' = "abandoned"
  /\ Served("discard")
  /\ mishaps' = mishaps \cup Unnoticed
  /\ UNCHANGED <<plan, row, review, text, copy, spare, edits, trip, panel, merge>>

\* Bound: one request of a behaviour fails, or its answer is lost, and none once the versions were changed
\* behind what the panel counts on; the traveler's only before the plan goes its way.
Smooth == mishaps \cap {"refused", "lost", "broken", "crossed"} = {}

RefuseAsk(k) ==
  /\ asks[k].stage \in {"sent", "ok"} /\ Smooth /\ "moved on" \notin mishaps
  /\ mishaps' = mishaps \cup (IF SentAsk(k) THEN {"refused"} ELSE {"lost"})
  /\ asks' = [asks EXCEPT ![k].stage = "refused"]
  /\ UNCHANGED <<plan, row, review, text, fork, copy, spare, edits, trip, panel, merge>>

\* The traveler's own edits of the fork (GraphStore has the page's part in them).
EditMine ==
  /\ trip.at = "mine"
  /\ \/ \E n \in ForkNodes : EditCopy(n)
     \/ \E n \in LiveCopies(copy) :
          /\ edits < MaxEdits /\ edits' = edits + 1
          /\ copy[n].status \notin Firmed
          /\ copy' = [copy EXCEPT ![n].here = FALSE]
     \/ /\ edits < MaxEdits /\ edits' = edits + 1
        /\ copy[Added] = NoCopy
        /\ copy' = [copy EXCEPT ![Added] = [status |-> "idea", text |-> edits + 1, here |-> TRUE]]
  /\ mishaps' = mishaps \cup Unnoticed
  /\ UNCHANGED <<plan, row, review, text, fork, spare, trip, asks, panel, merge>>

\* Meanwhile the plan goes its way: a card is proposed, approved, booked or removed.
Progress(n) ==
  /\ \E step \in {<<"idea", "proposed">>, <<"proposed", "approved">>, <<"approved", "booked">>,
                 <<"idea", "gone">>} :
       /\ row[n] = step[1]
       /\ row' = [row EXCEPT ![n] = step[2]]
       /\ plan' = IF step[2] # "gone" /\ LeavesNone(row') THEN "approved" ELSE plan
  /\ "moved on" \notin mishaps /\ Smooth
  /\ mishaps' = mishaps \cup {"moved on"} \cup Unnoticed
  /\ UNCHANGED <<review, versions>>

-----------------------------------------------------------------------------
(* Answers to the traveler's page.                                         *)

Answering(k) == asks[k].stage \in {"ok", "refused"}
Fine(k) == asks[k].stage = "ok"
Forget(k) == [asks EXCEPT ![k] = NoAsk]

forkItinerary == Answering("fork")
abandonFork == Answering("discard")

\* Slip: the page goes to the fork and leaves the move behind.
AnswerForkAlone ==
  /\ forkItinerary
  /\ asks' = Forget("fork")
  /\ trip' = IF Fine("fork") THEN Opened("mine", fork, plan)
             ELSE [trip EXCEPT !.forking = FALSE, !.moved = None, !.was = 0]
  /\ UNCHANGED <<vars, text, fork, copy, spare, edits, panel, merge>>

\* A fork that was made gets the move of its card, unless the card was not copied.
AnswerFork ==
  /\ forkItinerary
  /\ LET n == asks["fork"].node IN
       IF Fine("fork") /\ n \in LiveCopies(copy)
       THEN /\ asks' = [Forget("fork") EXCEPT !["carry"] = [stage |-> "sent", node |-> n]]
            /\ trip' = [trip EXCEPT !.forking = FALSE]
       ELSE /\ asks' = Forget("fork")
            /\ trip' = IF Fine("fork") THEN Opened("mine", fork, plan)
                       ELSE [trip EXCEPT !.forking = FALSE, !.moved = None, !.was = 0]
  /\ UNCHANGED <<vars, text, fork, copy, spare, edits, panel, merge>>

\* Carried or not, the page goes to the fork.
AnswerCarry ==
  /\ Answering("carry")
  /\ asks' = Forget("carry")
  /\ trip' = Opened("mine", fork, plan)
  /\ UNCHANGED <<vars, text, fork, copy, spare, edits, panel, merge>>

AnswerDiscard ==
  /\ abandonFork
  /\ asks' = Forget("discard")
  /\ IF Fine("discard") THEN GoTo("official") ELSE UNCHANGED trip
  /\ UNCHANGED <<vars, text, fork, copy, spare, edits, panel, merge>>

-----------------------------------------------------------------------------
(* What differs.  A change is known by the id of the fork's card, but for  *)
(* one that the fork no longer has.                                        *)

\* Approved in the plan and proposed in the fork is the fork's doing, not a change.
StatusDiffers(n) ==
  row[n] # copy[n].status /\ ~(row[n] = "approved" /\ copy[n].status = "proposed")

Change(n, kind) == [node |-> n, kind |-> kind]
ChangeId(c) == <<IF c.kind = "removed" THEN "plan" ELSE "fork", c.node>>
ChangeIds(changes) == {ChangeId(c) : c \in changes}

diff_fork ==
  {Change(n, "added") : n \in {m \in LiveCopies(copy) : m = Added \/ row[m] = "gone"}}
  \cup {Change(n, "removed") : n \in Live(row) \ LiveCopies(copy)}
  \cup {Change(n, "changed") :
          n \in {m \in LiveCopies(copy) \cap Live(row) : text[m] # copy[m].text \/ StatusDiffers(m)}}

-----------------------------------------------------------------------------
(* The advisor's panel.                                                    *)

\* The panel is loaded: what was unticked stays so, what is new is ticked.
refresh ==
  /\ fork # "none" /\ panel.stale /\ ~panel.busy
  /\ panel' = [panel EXCEPT !.diff = diff_fork, !.stale = FALSE,
                            !.kept = @ \cap ChangeIds(diff_fork)]
  /\ UNCHANGED <<vars, text, fork, copy, spare, edits, trip, asks, merge>>

Leave ==
  /\ panel.diff # {} /\ ~panel.busy /\ merge.stage = "none"
  /\ panel' = IdlePanel
  /\ UNCHANGED <<vars, text, fork, copy, spare, edits, trip, asks, merge>>

toggle(c) ==
  /\ c \in panel.diff /\ ~panel.busy
  /\ panel.kept = {}
  /\ panel' = [panel EXCEPT !.kept = {ChangeId(c)}]
  /\ UNCHANGED <<vars, text, fork, copy, spare, edits, trip, asks, merge>>

NoMerge == [stage |-> "none", todo |-> {}, kept |-> {}, view |-> Empty,
            retext |-> {}, restatus |-> {}, node |-> None, bad |-> FALSE, all |-> FALSE]

\* Bound: there is room for a copy of every card that is added, though it was added before.
Room == Cardinality({c \in panel.diff : c.kind = "added"}) <= Cardinality({n \in Notes : row[n] = "gone" /\ ~copy[n].here})

\* A decision for every change the panel shows.
reconcile ==
  /\ panel.diff # {} /\ ~panel.busy /\ merge.stage = "none" /\ Room
  /\ panel' = [panel EXCEPT !.busy = TRUE]
  /\ merge' = [NoMerge EXCEPT !.stage = "sent", !.todo = panel.diff, !.kept = panel.kept]
  /\ UNCHANGED <<vars, text, fork, copy, spare, edits, trip, asks>>

-----------------------------------------------------------------------------
(* The merge: the differences are taken afresh, and every accepted change  *)
(* is applied in commits of its own.                                       *)

OnlyMerge == UNCHANGED <<review, fork, copy, spare, edits, trip, asks, panel>>

\* The decisions go by id: a change is taken as it is now, and one that is gone is skipped.
Load ==
  /\ merge.stage = "sent"
  /\ LET ids == ChangeIds(merge.todo) IN
       merge' = [merge EXCEPT !.stage = "apply", !.view = row,
                   !.todo = {c \in diff_fork : ChangeId(c) \in ids \ merge.kept},
                   !.retext = {n \in Nodes : text[n] # copy[n].text},
                   !.restatus = {n \in Nodes : StatusDiffers(n)},
                   !.all = ChangeIds(diff_fork) \subseteq ids]
  /\ OnlyMerge /\ UNCHANGED <<plan, row, text, mishaps>>

Turn(c) ==
  /\ merge.stage = "apply" /\ c \in merge.todo
  /\ c.kind # "added" => \A d \in merge.todo : d.kind # "added"
  /\ c.kind = "changed" => \A d \in merge.todo : d.kind # "removed"

Decided(c, bad) == [merge EXCEPT !.todo = @ \ {c}, !.bad = @ \/ bad]

\* A card of the fork becomes one of the plan, which does not know where it came from: the next
\* difference finds it added still, and what became of it removed.
ApplyAdded(c) ==
  /\ Turn(c) /\ c.kind = "added"
  /\ \E new \in Notes :
       /\ row[new] = "gone" /\ ~copy[new].here
       /\ row' = [row EXCEPT ![new] = copy[c.node].status]
       /\ text' = [text EXCEPT ![new] = copy[c.node].text]
  /\ merge' = Decided(c, FALSE)
  /\ OnlyMerge /\ UNCHANGED <<plan, mishaps>>

ApplyRemoved(c) ==
  /\ Turn(c) /\ c.kind = "removed"
  /\ row' = IF row[c.node] \in Firmed THEN row ELSE [row EXCEPT ![c.node] = "gone"]
  /\ merge' = Decided(c, row[c.node] \in Firmed)
  /\ OnlyMerge /\ UNCHANGED <<plan, text, mishaps>>

\* What was booked when the merge began is refused.
ApplyBooked(c) ==
  /\ Turn(c) /\ c.kind = "changed" /\ merge.view[c.node] = "booked"
  /\ merge' = Decided(c, TRUE)
  /\ OnlyMerge /\ UNCHANGED <<plan, row, text, mishaps>>

\* What was approved when the merge began is demoted first, in a commit of its own; an advisor
\* may demote whatever the card is by now.
Demote(c) ==
  /\ Turn(c) /\ c.kind = "changed" /\ merge.view[c.node] = "approved"
  /\ merge.node # c.node
  /\ row' = [row EXCEPT ![c.node] = IF @ = "gone" THEN @ ELSE "proposed"]
  /\ merge' = [merge EXCEPT !.node = c.node]
  /\ OnlyMerge /\ UNCHANGED <<plan, text, mishaps>>

\* Then the fields that differed are written, unless the card has been firmed: of a card that was
\* demoted the session knows the status it gave it, and does not look again.
ApplyChanged(c) ==
  /\ Turn(c) /\ c.kind = "changed" /\ merge.view[c.node] # "booked"
  /\ merge.view[c.node] = "approved" => merge.node = c.node
  /\ LET n == c.node
         locked == merge.node # n /\ row[n] \in Firmed
         written == IF n \in merge.restatus /\ row[n] # "gone" THEN [row EXCEPT ![n] = copy[n].status] ELSE row IN
       /\ row' = IF locked THEN row ELSE written
       /\ text' = IF locked \/ n \notin merge.retext THEN text ELSE [text EXCEPT ![n] = copy[n].text]
       /\ plan' = IF ~locked /\ n \in merge.restatus /\ LeavesNone(written)
                  THEN "approved" ELSE plan
       /\ merge' = Decided(c, locked)
  /\ OnlyMerge /\ UNCHANGED mishaps

\* Slip: what was refused does not keep the fork open.
FinishAnyway ==
  /\ merge.stage = "apply" /\ merge.todo = {}
  /\ fork' = IF merge.all THEN "reconciled" ELSE fork
  /\ merge' = [merge EXCEPT !.stage = "ok"]
  /\ UNCHANGED <<vars, text, copy, spare, edits, trip, asks, panel>>

\* Everything decided and nothing refused: the fork is reconciled.  The request is answered anyway.
Finish ==
  /\ merge.stage = "apply" /\ merge.todo = {}
  /\ fork' = IF merge.all /\ ~merge.bad THEN "reconciled" ELSE fork
  /\ merge' = [merge EXCEPT !.stage = "ok"]
  /\ UNCHANGED <<vars, text, copy, spare, edits, trip, asks, panel>>

\* The request fails, or its answer does, between two commits.
Break ==
  /\ merge.stage \in {"sent", "apply", "ok"} /\ Smooth
  /\ mishaps' = mishaps \cup {"broken"}
  /\ merge' = [merge EXCEPT !.stage = "broken"]
  /\ UNCHANGED <<plan, row, review, text, fork, copy, spare, edits, trip, asks, panel>>

\* After a merge that was answered the differences are asked for again.
reconcileFork ==
  /\ merge.stage \in {"ok", "broken"}
  /\ panel' = [panel EXCEPT !.busy = FALSE, !.stale = merge.stage = "ok"]
  /\ merge' = NoMerge
  /\ UNCHANGED <<vars, text, fork, copy, spare, edits, trip, asks>>

-----------------------------------------------------------------------------

Traveler ==
  \/ selectOfficial \/ selectMine \/ \E n \in Nodes : forkAndMove(n)
  \/ discardMine \/ EditMine
  \/ AnswerFork \/ AnswerCarry \/ AnswerDiscard

Advisor == refresh \/ Leave \/ reconcile \/ reconcileFork \/ \E c \in panel.diff : toggle(c)

Service ==
  \/ fork_itinerary \/ carryMove \/ abandon_fork
  \/ \E k \in AskKinds : RefuseAsk(k)
  \/ \E n \in Nodes : Progress(n)
  \/ Load \/ Finish \/ Break
  \/ \E c \in merge.todo :
       ApplyAdded(c) \/ ApplyRemoved(c) \/ ApplyBooked(c) \/ Demote(c) \/ ApplyChanged(c)

IdleVersions ==
  /\ text = [n \in Nodes |-> 0]
  /\ fork = "none"
  /\ copy = [n \in ForkNodes |-> NoCopy]
  /\ spare = 0 /\ edits = 0
  /\ trip = Opened("official", fork, plan)
  /\ asks = [k \in AskKinds |-> NoAsk]
  /\ panel = IdlePanel
  /\ merge = NoMerge

\* Either the pages of a review are open, or the two versions are worked on.
ReviewInit ==
  /\ \/ Init
     \/ /\ plan = "proposed"
        /\ row \in [Nodes -> {"idea", "approved", "gone"}]
        /\ \A n \in Nodes : row[n] = "gone" <=> n \in Notes
        /\ page = [v \in Viewers |-> [status |-> plan, cards |-> row, waiting |-> {}]]
        /\ open = {} /\ calls = <<>> /\ mishaps = {}
  /\ IdleVersions

\* An older fork that is left open is not followed.
ReviewNext ==
  \/ open # {} /\ Next /\ UNCHANGED versions
  \/ open = {} /\ spare = 0 /\ (Traveler \/ Advisor \/ Service)

ReviewSpec == ReviewInit /\ [][ReviewNext]_allVars

-----------------------------------------------------------------------------
(* Properties.                                                             *)

\* The page that arrives at the fork finds the card moved there that was dragged on the official plan,
\* and no fork is made beside one that is open ("the lazy-fork model stops new duplicates being created",
\* routers/itineraries.py), unless something was refused or lost on the way, or the page was used on
\* while it carried the move over.
MoveCarried ==
  [][mishaps \cap {"refused", "lost", "again"} = {} =>
       /\ trip'.at = "mine" /\ trip.at # "mine" /\ trip.moved # None /\ copy[trip.moved].here
            => copy'[trip.moved].text > trip.was
       /\ spare' = spare]_allVars

Says(t) == Cardinality({n \in Live(row) : text[n] = t})
ForkSays(t) == Cardinality({n \in LiveCopies(copy) : copy[n].text = t})

\* When everything the advisor saw was accepted and the fork is reconciled, the plan says what the fork
\* says, card for card: nothing is left out, and nothing is in it twice, although a merge that broke off
\* and one that went before it have put the same card into the plan.  Unless the versions were changed
\* behind what the panel, or the merge, had looked at.
ReconciledSaysTheSame ==
  [][fork' = "reconciled" /\ fork # "reconciled"
       /\ merge.kept = {} /\ mishaps \cap {"crossed"} = {}
     => \A t \in 0..MaxEdits : Says(t) = ForkSays(t)]_allVars

=============================================================================
