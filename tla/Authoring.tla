------------------------------ MODULE Authoring ------------------------------
(***************************************************************************)
(* The advisor's authoring sections over the services they ask: Analyze    *)
(* (authoring/AnalyzeSection.tsx) on the runs of AnalyzeRuns, Search and   *)
(* Fill (SearchSection.tsx, FillSection.tsx) on the inventory, and the     *)
(* actions of itineraryGraphStore.tsx behind them.                         *)
(*                                                                         *)
(* The sections share one store.  Analyze is in a dialog of its own, so    *)
(* that its steps never meet those of the other two: section says which of *)
(* the two the advisor works in.                                           *)
(***************************************************************************)
EXTENDS AnalyzeRuns, Sequences

CONSTANTS
    Me,           \* the asker of AnalyzeRuns that is this page
    Items,        \* inventory items
    MaxPolls,     \* bounds the polls under way
    MaxClicks,    \* bounds the searches, fills and adds
    MaxMishaps    \* bounds the answers that are lost and the crashes

ASSUME AuthoringAssumption == Me \in Askers

VARIABLES
    section,    \* "analyze" or "find"
    editable,   \* selectEditable: the advisor holds the lock
    analysis,   \* analysisId, analyzeStatus, analyzePending and whose findings are shown
    open,       \* the Analyze dialog is open
    starting,   \* startAnalysis: [stage, id, status], the last two of its answer
    polls,      \* getAnalysis: set of [id, stage, status, findings]
    search,     \* inventoryResults, inventoryPending, inventoryError and the searches under way
    fill,       \* fillProposals, fillPending, fillGapWindow
    adding,     \* addingInventoryId
    adds,       \* createNodeFromInventory under way: sequence of [item, from, stage]
    clicks,     \* counts searches, fills and adds
    losses,     \* counts the answers lost
    tangled     \* history: what overlapped, so that the page may be out of step

panelVars == <<analysis, open, starting, polls>>
findVars == <<search, fill, adding, adds, clicks>>
serviceVars == vars
authoringVars == <<vars, section, editable, panelVars, findVars, losses, tangled>>

NotStarting == [stage |-> "none", id |-> None, status |-> "none"]
Idle == [id |-> None, status |-> "idle", pending |-> FALSE, findings |-> None]
Analyzing == analysis.status \in InFlightStatus

-----------------------------------------------------------------------------
(* Analyze.                                                                *)

\* The rows left within the bound; one of them is kept for a request of the page.
Free == {r \in Runs : status[r] = "none"}

\* The button is off while a run is starting or shown as in flight.
AnalyzeSection == section = "analyze" /\ open /\ ~analysis.pending /\ ~Analyzing /\ Free # {}

startAnalyze ==
    /\ AnalyzeSection
    /\ analysis' = [analysis EXCEPT !.status = "queued", !.pending = TRUE, !.findings = None]
    /\ starting' = [NotStarting EXCEPT !.stage = "sent"]
    /\ tangled' = tangled \cup (IF polls = {} THEN {} ELSE {"polled"})
    /\ UNCHANGED <<vars, section, editable, open, polls, findVars, losses>>

Created(r) == [stage |-> "answered", id |-> r, status |-> status'[r]]

\* The service's answer: a run in flight, a cached one, or a new row.
startAnalysis ==
    /\ starting.stage = "sent" /\ up
    /\ \/ StartLoad(Me) /\ UNCHANGED <<starting, tangled>>
       \/ \E r \in Runs : StartInsert(Me, r) /\ starting' = Created(r) /\ UNCHANGED tangled
       \/ /\ Me \notin asking
          /\ \E r \in Runs :
               /\ r \in InFlight \/ (InFlight = {} /\ status[r] = "completed")
               /\ starting' = [stage |-> "answered", id |-> r, status |-> status[r]]
               /\ tangled' = tangled \cup (IF status[r] = "completed" THEN {"cached"} ELSE {})
          /\ UNCHANGED vars
    /\ UNCHANGED <<section, editable, analysis, open, polls, findVars, losses>>

\* Slip: only the status is taken from the answer.
AdoptStatus(answer) == [analysis EXCEPT !.status = answer.status, !.pending = FALSE]

Adopt(answer) ==
    [analysis EXCEPT !.id = answer.id, !.status = answer.status, !.pending = FALSE]

AnswerStart ==
    /\ starting.stage = "answered"
    /\ analysis' = Adopt(starting)
    /\ starting' = NotStarting
    /\ tangled' = tangled \cup (IF polls = {} THEN {} ELSE {"polled"})
    /\ UNCHANGED <<vars, section, editable, open, polls, findVars, losses>>

\* The request fails, or its answer does not arrive; the row may be there all the same.
StartFails ==
    /\ starting # NotStarting /\ Me \notin asking
    /\ losses + crashes < MaxMishaps /\ losses' = losses + 1
    /\ analysis' = [analysis EXCEPT !.status = "failed", !.pending = FALSE]
    /\ starting' = NotStarting
    /\ UNCHANGED <<vars, section, editable, open, polls, findVars, tangled>>

\* The interval of the open section asks for the run the page knows, while the page shows it
\* in flight; an answer that is late does not stop it from asking again.
refreshAnalysis ==
    /\ section = "analyze" /\ open /\ Analyzing
    /\ analysis.id # None
    /\ Cardinality(polls) < MaxPolls
    /\ [id |-> analysis.id, stage |-> "sent", status |-> "none", findings |-> None] \notin polls
    /\ polls' = polls \cup {[id |-> analysis.id, stage |-> "sent", status |-> "none", findings |-> None]}
    /\ tangled' = tangled \cup (IF polls = {} /\ starting = NotStarting THEN {} ELSE {"polled"})
    /\ UNCHANGED <<vars, section, editable, analysis, open, starting, findVars, losses>>

Change(q, to) == (polls \ {q}) \cup to

getAnalysis(q) ==
    /\ q \in polls /\ q.stage = "sent" /\ up
    /\ polls' = Change(q, {[q EXCEPT !.stage = "answered", !.status = status[q.id],
                              !.findings = IF q.id \in findings THEN q.id ELSE None]})
    /\ UNCHANGED <<vars, section, editable, analysis, open, starting, findVars, losses, tangled>>

\* Slip: findings are kept back until the next answer.
AnswerPollStatus(q) ==
    /\ q \in polls /\ q.stage = "answered"
    /\ polls' = Change(q, {})
    /\ analysis' = [analysis EXCEPT !.status = q.status]
    /\ UNCHANGED <<vars, section, editable, open, starting, findVars, losses, tangled>>

\* The answer is shown, whichever run the page asks about by now.
AnswerPoll(q) ==
    /\ q \in polls /\ q.stage = "answered"
    /\ polls' = Change(q, {})
    /\ analysis' = [analysis EXCEPT !.status = q.status, !.findings = q.findings]
    /\ UNCHANGED <<vars, section, editable, open, starting, findVars, losses, tangled>>

PollFails(q) ==
    /\ q \in polls
    /\ losses + crashes < MaxMishaps /\ losses' = losses + 1
    /\ polls' = Change(q, {})
    /\ UNCHANGED <<vars, section, editable, analysis, open, starting, findVars, tangled>>

\* The dialog is closed and opened; closing it matters while it asks.
AuthoringModal ==
    /\ section = "analyze"
    /\ (Analyzing /\ analysis.id # None) \/ ~open
    /\ open' = ~open
    /\ UNCHANGED <<vars, section, editable, analysis, starting, polls, findVars, losses, tangled>>

-----------------------------------------------------------------------------
(* Search.                                                                 *)

Find == section = "find" /\ clicks < MaxClicks /\ clicks' = clicks + 1

\* The button waits for an answer, the Enter key does not.
runInventorySearch ==
    /\ Find
    /\ search' = [search EXCEPT !.asked = clicks + 1, !.pending = TRUE, !.error = FALSE,
                                !.under = @ \cup {clicks + 1}]
    /\ tangled' = tangled \cup (IF search.under = {} THEN {} ELSE {"searches"})
    /\ UNCHANGED <<vars, section, editable, panelVars, fill, adding, adds, losses>>

\* Each query has results of its own, named by it.
searchInventory(q, ok) ==
    /\ q \in search.under
    /\ ok \/ losses + crashes < MaxMishaps
    /\ losses' = IF ok THEN losses ELSE losses + 1
    /\ search' = [search EXCEPT !.under = @ \ {q}, !.pending = FALSE,
                                !.results = IF ok THEN q ELSE 0, !.error = @ \/ ~ok]
    /\ UNCHANGED <<vars, section, editable, panelVars, fill, adding, adds, clicks, tangled>>

-----------------------------------------------------------------------------
(* Fill.                                                                   *)

\* The button is off while the service looks for candidates.
FillSection == Find /\ ~fill.pending

\* One fill at a time; the candidates of the one before are taken away.
runFill ==
    /\ FillSection
    /\ fill' = [proposals |-> {}, pending |-> TRUE]
    /\ UNCHANGED <<vars, section, editable, panelVars, search, adding, adds, losses, tangled>>

fillGap(found) ==
    /\ fill.pending
    /\ found # {} \/ losses + crashes < MaxMishaps
    /\ losses' = IF found # {} THEN losses ELSE losses + 1
    /\ fill' = [proposals |-> found, pending |-> FALSE]
    /\ UNCHANGED <<vars, section, editable, panelVars, search, adding, adds, clicks, tangled>>

dismissFillProposal(item) ==
    /\ item \in fill.proposals
    /\ fill' = [fill EXCEPT !.proposals = @ \ {item}]
    /\ UNCHANGED <<vars, section, editable, panelVars, search, adding, adds, clicks, losses, tangled>>

-----------------------------------------------------------------------------
(* Adding an item.                                                         *)

\* Either button is off while its own item is being added.
Offered(item, from) ==
    /\ editable
    /\ adding # item
    /\ IF from = "search" THEN search.results # 0 ELSE item \in fill.proposals

\* addNodeFromInventory and acceptFillProposal; the store keeps one item as being added.
AddItem(item, from) ==
    /\ Find
    /\ Offered(item, from)
    /\ adding' = item
    /\ adds' = Append(adds, [item |-> item, from |-> from, stage |-> "sent"])
    /\ tangled' = tangled \cup (IF \E k \in DOMAIN adds : adds[k].item # item THEN {"adds"} ELSE {})
    /\ UNCHANGED <<vars, section, editable, panelVars, search, fill, losses>>

Without(k) == SubSeq(adds, 1, k - 1) \o SubSeq(adds, k + 1, Len(adds))

createNodeFromInventory(k) ==
    /\ adds[k].stage = "sent"
    /\ adds' = [adds EXCEPT ![k].stage = "made"]
    /\ UNCHANGED <<vars, section, editable, panelVars, search, fill, adding, clicks, losses, tangled>>

AnswerItem(k) ==
    /\ adds[k].stage = "made"
    /\ adds' = Without(k) /\ adding' = None
    /\ fill' = IF adds[k].from = "fill" THEN [fill EXCEPT !.proposals = @ \ {adds[k].item}] ELSE fill
    /\ UNCHANGED <<vars, section, editable, panelVars, search, clicks, losses, tangled>>

\* Refused, or lost before or after the service made the node.
ItemFails(k) ==
    /\ losses + crashes < MaxMishaps /\ losses' = losses + 1
    /\ adds' = Without(k) /\ adding' = None
    /\ UNCHANGED <<vars, section, editable, panelVars, search, fill, clicks, tangled>>

LockChanges ==
    /\ section = "find"
    /\ editable' = ~editable
    /\ UNCHANGED <<vars, section, panelVars, findVars, losses, tangled>>

-----------------------------------------------------------------------------
AuthoringInit ==
    /\ Init
    /\ section \in {"analyze", "find"}
    /\ editable = TRUE
    /\ analysis = Idle /\ open = (section = "analyze")
    /\ starting = NotStarting /\ polls = {}
    /\ search = [asked |-> 0, results |-> 0, pending |-> FALSE, error |-> FALSE, under |-> {}]
    /\ fill = [proposals |-> {}, pending |-> FALSE]
    /\ adding = None /\ adds = <<>>
    /\ clicks = 0 /\ losses = 0 /\ tangled = {}

\* What the service does on its own, and for other askers; a crash also loses the requests.
ServiceStep ==
    /\ section = "analyze"
    /\ \/ Serve /\ UNCHANGED <<starting, analysis, polls>>
       \/ /\ Cardinality(Free) > IF starting = NotStarting THEN 0 ELSE 1
          /\ \E a \in Askers \ {Me} : Ask(a)
          /\ UNCHANGED <<starting, analysis, polls>>
       \/ /\ losses + crashes < MaxMishaps
          /\ Crash
          /\ polls' = {}
          /\ IF starting.stage = "sent"
             THEN starting' = NotStarting /\ analysis' = [analysis EXCEPT !.status = "failed", !.pending = FALSE]
             ELSE UNCHANGED <<starting, analysis>>
    /\ UNCHANGED <<section, editable, open, findVars, losses, tangled>>

Poll == refreshAnalysis \/ \E q \in polls : getAnalysis(q) \/ AnswerPoll(q)

Analyze ==
    \/ startAnalyze \/ startAnalysis \/ AnswerStart \/ StartFails \/ AuthoringModal
    \/ Poll \/ \E q \in polls : PollFails(q)

Author ==
    \/ runInventorySearch \/ \E q \in search.under, ok \in BOOLEAN : searchInventory(q, ok)
    \/ runFill \/ \E found \in SUBSET Items : fillGap(found)
    \/ \E i \in Items : dismissFillProposal(i) \/ \E from \in {"search", "fill"} : AddItem(i, from)
    \/ \E k \in DOMAIN adds : createNodeFromInventory(k) \/ AnswerItem(k) \/ ItemFails(k)
    \/ LockChanges

AuthoringNext == ServiceStep \/ Analyze \/ Author

\* The service runs its tasks and is started again, requests are answered, and the interval of
\* an open section keeps asking.
AuthoringSpec ==
    /\ AuthoringInit /\ [][AuthoringNext]_authoringVars
    /\ WF_authoringVars(ServiceStep /\ (Boot \/ \E r \in Runs : TaskStep(r)))
    /\ WF_authoringVars(startAnalysis \/ AnswerStart)
    /\ WF_authoringVars(Poll)

-----------------------------------------------------------------------------
(* Properties. *)

\* With nothing on its way, a panel that says completed shows the findings of the run it asked
\* for; unless that run was served from the cache, which the panel does not ask for again, or a
\* poll was on its way when another run was started.
ShowsItsRun ==
    (polls = {} /\ starting = NotStarting /\ analysis.status = "completed" /\ tangled = {} /\ ~crossed) =>
        analysis.id # None /\ analysis.findings = analysis.id

\* An open panel does not say "Analyzing" for ever; unless its run was orphaned by a crash.
PanelSettles ==
    (Analyzing /\ open) ~> (~Analyzing \/ ~open \/ \E r \in Runs : Orphaned(r))

\* With no search under way the results are those of the last query, or none and an error.
ResultsOfLast ==
    (search.under = {} /\ "searches" \notin tangled) =>
        search.results = IF search.error THEN 0 ELSE search.asked

\* An item is not added a second time while it is being added; unless several items are at once:
\* the first answer gives back the button of the others.
OneAddPerItem ==
    "adds" \notin tangled =>
        \A j, k \in DOMAIN adds : adds[j].item = adds[k].item => j = k

\* What the sections show belongs to what they asked for last, and nothing is asked for twice: the
\* findings are those of the panel's own run, the results those of the last query, and an item that
\* is on its way to the board is not added again: on one page, and but for the overlaps that each part
\* names, a poll of an earlier run, a search or an addition beside another.
SectionsAgree == ShowsItsRun /\ ResultsOfLast /\ OneAddPerItem
=============================================================================
