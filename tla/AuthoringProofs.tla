---------------------------- MODULE AuthoringProofs ----------------------------
(***************************************************************************)
(* For any number of runs, askers, cancellers and crashes: two runs of an  *)
(* itinerary are never in flight, and a run that ended keeps its result,   *)
(* but for the two races the model calls `crossed`.  The page's requests   *)
(* are requests like the others, and what its sections show is what they   *)
(* asked for, but for the overlaps the model calls `tangled`.              *)
(***************************************************************************)
EXTENDS Authoring, SequenceTheorems, TLAPS

\* A task before its run begins has a queued row, and afterwards a running one.
TaskMatchesRow ==
    \A r \in Runs :
        /\ task[r] \in {"scheduled", "begin"} => status[r] = "queued"
        /\ task[r] \in {"refresh", "work", "fail", "stop"} => status[r] = "running"

\* One request at most is about to insert a row, and only while none is in flight.
AskersTakeTurns ==
    /\ \A a, b \in asking : a = b
    /\ asking # {} => InFlight = {}
    /\ \A r, s \in InFlight : r = s

\* A server that is down runs no task.
DownIsIdle == ~up => \A r \in Runs : task[r] = "none"

RunsInv == TypeOK /\ DownIsIdle /\ (~crossed => TaskMatchesRow /\ AskersTakeTurns)

-----------------------------------------------------------------------------
LEMMA InitRunsInv == Init => RunsInv
<1> SUFFICES ASSUME Init PROVE RunsInv
    OBVIOUS
<1>1. TypeOK
    <2>1. crashes \in 0..MaxCrashes
        BY AnalyzeAssumption DEF Init
    <2>2. QED
        BY <2>1 DEF Init, TypeOK, Stages
<1>2. DownIsIdle /\ TaskMatchesRow /\ AskersTakeTurns
    BY DEF Init, DownIsIdle, TaskMatchesRow, AskersTakeTurns, InFlight, InFlightStatus
<1>3. QED
    BY <1>1, <1>2 DEF RunsInv

\* A request that starts or cancels a run.
LEMMA RequestKeepsRunsInv ==
    ASSUME RunsInv,
           \/ \E a \in Askers : Ask(a)
           \/ \E c \in Cancellers : CancelWrite(c) \/ \E r \in Runs : CancelLoad(c, r)
    PROVE  RunsInv'
<1> USE DEF DownIsIdle
<1>1. ASSUME NEW a \in Askers, StartLoad(a) PROVE RunsInv'
    <2>1. TypeOK'
        BY <1>1 DEF StartLoad, RunsInv, TypeOK
    <2>2. ~crossed' => ~crossed /\ asking' = {a} /\ InFlight' = {}
        BY <1>1 DEF StartLoad, RunsInv, TypeOK, InFlight
    <2>3. QED
        BY <1>1, <2>1, <2>2 DEF StartLoad, RunsInv, TaskMatchesRow, AskersTakeTurns
<1>2. ASSUME NEW a \in Askers, NEW r \in Runs, StartInsert(a, r) PROVE RunsInv'
    <2>1. TypeOK'
        BY <1>2 DEF StartInsert, RunsInv, TypeOK, InFlightStatus, Stages
    <2>2. ~crossed => InFlight' = {r} /\ asking' = {}
        BY <1>2 DEF StartInsert, RunsInv, AskersTakeTurns, InFlight, InFlightStatus, TypeOK
    <2>3. ~crossed => TaskMatchesRow'
        BY <1>2 DEF StartInsert, RunsInv, TaskMatchesRow, TypeOK
    <2>4. QED
        BY <1>2, <2>1, <2>2, <2>3 DEF StartInsert, RunsInv, AskersTakeTurns
<1>3. ASSUME NEW c \in Cancellers, NEW r \in Runs, CancelLoad(c, r) PROVE RunsInv'
    BY <1>3 DEF CancelLoad, RunsInv, TypeOK, TaskMatchesRow, AskersTakeTurns, InFlight
<1>4. ASSUME NEW c \in Cancellers, CancelWrite(c) PROVE RunsInv'
    BY <1>4 DEF CancelWrite, RunsInv, TypeOK, Terminal
<1>5. QED
    BY <1>1, <1>2, <1>3, <1>4 DEF Ask

\* A step of the task of a run.
LEMMA TaskKeepsRunsInv ==
    ASSUME RunsInv, NEW r \in Runs, TaskStep(r)
    PROVE  RunsInv'
<1>1. crossed' = crossed /\ asking' = asking /\ up /\ up' = up
    BY DEF At, TaskStep, TaskLoad, TaskBegin, TaskRefresh, TaskComplete, TaskStop, TaskMark
<1>2. TypeOK'
    <2>1. CASE TaskLoad(r)
        BY <2>1 DEF TaskLoad, At, To, RunsInv, TypeOK, Stages
    <2>2. CASE TaskBegin(r)
        BY <2>2 DEF TaskBegin, At, To, RunsInv, TypeOK, Stages, InFlightStatus
    <2>3. CASE TaskRefresh(r)
        BY <2>3 DEF TaskRefresh, At, To, RunsInv, TypeOK, Stages
    <2>4. CASE TaskComplete(r)
        BY <2>4 DEF TaskComplete, At, To, RunsInv, TypeOK, Stages, Terminal
    <2>5. ASSUME NEW pc \in {"fail", "stop"}, TaskStop(r, pc) PROVE TypeOK'
        BY <2>5 DEF TaskStop, At, To, RunsInv, TypeOK, Stages
    <2>6. CASE TaskMark(r)
        BY <2>6 DEF TaskMark, At, To, RunsInv, TypeOK, Stages, Terminal
    <2>7. QED
        BY <2>1, <2>2, <2>3, <2>4, <2>5, <2>6 DEF TaskStep
<1>3. ~crossed => TaskMatchesRow' /\ InFlight' \subseteq InFlight
    <2>1. CASE TaskLoad(r)
        BY <2>1 DEF TaskLoad, At, To, RunsInv, TypeOK, TaskMatchesRow, InFlight
    <2>2. CASE TaskBegin(r)
        BY <2>2 DEF TaskBegin, At, To, RunsInv, TypeOK, TaskMatchesRow, InFlight, InFlightStatus
    <2>3. CASE TaskRefresh(r)
        BY <2>3 DEF TaskRefresh, At, To, RunsInv, TypeOK, TaskMatchesRow, InFlight
    <2>4. CASE TaskComplete(r)
        BY <2>4 DEF TaskComplete, At, To, RunsInv, TypeOK, TaskMatchesRow, InFlight, InFlightStatus
    <2>5. ASSUME NEW pc \in {"fail", "stop"}, TaskStop(r, pc)
          PROVE  ~crossed => TaskMatchesRow' /\ InFlight' \subseteq InFlight
        BY <2>5 DEF TaskStop, At, To, RunsInv, TypeOK, TaskMatchesRow, InFlight, Terminal
    <2>6. CASE TaskMark(r)
        BY <2>6 DEF TaskMark, At, To, RunsInv, TypeOK, TaskMatchesRow, InFlight, InFlightStatus
    <2>7. QED
        BY <2>1, <2>2, <2>3, <2>4, <2>5, <2>6 DEF TaskStep
<1>4. QED
    BY <1>1, <1>2, <1>3 DEF RunsInv, DownIsIdle, AskersTakeTurns

\* A crash ends every task and request; the sweep of the next boot only ends runs.
LEMMA ServerKeepsRunsInv == RunsInv /\ (Crash \/ Boot) => RunsInv'
<1>1. ASSUME RunsInv, Crash PROVE RunsInv'
    <2>1. TypeOK'
        <3>1. crashes' \in 0..MaxCrashes
            BY <1>1, AnalyzeAssumption DEF Crash, RunsInv, TypeOK
        <3>2. QED
            BY <1>1, <3>1 DEF Crash, RunsInv, TypeOK, Stages
    <2>2. /\ \A r \in Runs : task'[r] = "none"
          /\ asking' = {} /\ InFlight' = InFlight /\ crossed' = crossed
        BY <1>1 DEF Crash, InFlight
    <2>3. QED
        BY <1>1, <2>1, <2>2 DEF RunsInv, DownIsIdle, TaskMatchesRow, AskersTakeTurns
<1>2. ASSUME RunsInv, Boot PROVE RunsInv'
    <2>1. status' \in [Runs -> {"none"} \cup InFlightStatus \cup Terminal]
        BY <1>2 DEF Boot, RunsInv, TypeOK, Terminal
    <2>2. TypeOK' /\ up'
        BY <1>2, <2>1 DEF Boot, RunsInv, TypeOK
    <2>3. /\ \A r \in Runs : task'[r] = "none"
          /\ asking' = asking /\ InFlight' \subseteq InFlight /\ crossed' = crossed
        BY <1>2 DEF Boot, RunsInv, TypeOK, DownIsIdle, InFlight, InFlightStatus
    <2>4. QED
        BY <1>2, <2>2, <2>3 DEF RunsInv, DownIsIdle, TaskMatchesRow, AskersTakeTurns
<1>3. QED
    BY <1>1, <1>2

LEMMA SpecRunsInv == Spec => []RunsInv
<1>1. ASSUME RunsInv, UNCHANGED vars PROVE RunsInv'
    BY <1>1 DEF vars, RunsInv, DownIsIdle, TypeOK, TaskMatchesRow, AskersTakeTurns, InFlight
<1>2. RunsInv /\ [Next]_vars => RunsInv'
    BY <1>1, RequestKeepsRunsInv, TaskKeepsRunsInv, ServerKeepsRunsInv DEF Next, Serve
<1>3. QED
    BY <1>2, InitRunsInv, PTL DEF Spec

\* "At most one queued/running row exists at a time", whatever crashes and sweeps come between,
\* unless a cancel or two simultaneous starts crossed.
THEOREM AnalyzeOneInFlight == Spec => []OneInFlight
<1>1. RunsInv => OneInFlight
    BY DEF RunsInv, AskersTakeTurns, OneInFlight
<1>2. QED
    BY <1>1, SpecRunsInv, PTL

LEMMA StepKeepsTerminal ==
    ASSUME RunsInv, [Next]_vars, NEW r \in Runs, status[r] \in Terminal, ~crossed'
    PROVE  status'[r] = status[r]
<1> USE DEF RunsInv, TypeOK, Terminal
<1>1. CASE UNCHANGED vars
    BY <1>1 DEF vars
<1>2. ASSUME NEW a \in Askers, Ask(a) PROVE status'[r] = status[r]
    BY <1>2 DEF Ask, StartLoad, StartInsert
<1>3. ASSUME NEW c \in Cancellers, CancelWrite(c) \/ \E s \in Runs : CancelLoad(c, s)
      PROVE  status'[r] = status[r]
    BY <1>3 DEF CancelWrite, CancelLoad
<1>4. ASSUME NEW s \in Runs, TaskStep(s) PROVE status'[r] = status[r]
    <2>1. task[s] \in {"begin", "refresh", "work", "fail", "stop"} => status[s] \notin Terminal
        BY <1>4 DEF TaskStep, TaskLoad, TaskBegin, TaskRefresh, TaskComplete, TaskStop, TaskMark,
                    TaskMatchesRow
    <2>2. s # r => status'[r] = status[r]
        BY <1>4 DEF TaskStep, TaskLoad, TaskBegin, TaskRefresh, TaskComplete, TaskStop, TaskMark
    <2>3. task[r] \in {"none", "scheduled"} /\ s = r => status' = status
        BY <1>4 DEF TaskStep, TaskLoad, TaskBegin, TaskRefresh, TaskComplete, TaskStop, TaskMark, At
    <2>4. QED
        BY <2>1, <2>2, <2>3 DEF Stages
<1>5. CASE Crash \/ Boot
    BY <1>5 DEF Crash, Boot, Swept
<1>6. QED
    BY <1>1, <1>2, <1>3, <1>4, <1>5 DEF Next, Serve

\* "Terminal states are immutable": neither a task that goes on after its run ended, nor a sweep at
\* boot, ever changes the result of a run, unless a cancel or two simultaneous starts crossed.
THEOREM AnalyzeTerminalFinal == Spec => TerminalFinal
<1>1. RunsInv /\ [Next]_vars =>
          [\A r \in Runs : (status[r] \in Terminal /\ ~crossed') => status'[r] = status[r]]_vars
    BY StepKeepsTerminal
<1>2. QED
    BY <1>1, SpecRunsInv, PTL DEF Spec, TerminalFinal

-----------------------------------------------------------------------------
(* The page.                                                               *)

LEMMA PageStepIsService == [AuthoringNext]_authoringVars => [Next]_vars
<1> SUFFICES ASSUME [AuthoringNext]_authoringVars PROVE Next \/ UNCHANGED vars
    OBVIOUS
<1>1. CASE UNCHANGED authoringVars
    BY <1>1 DEF authoringVars
<1>2. CASE ServiceStep
    BY <1>2 DEF ServiceStep, Next
<1>3. CASE startAnalysis
    BY <1>3, AuthoringAssumption DEF startAnalysis, Next, Ask
<1>4. CASE Analyze /\ ~startAnalysis
    BY <1>4 DEF Analyze, startAnalyze, AnswerStart, StartFails, AuthoringModal, Poll, refreshAnalysis,
                getAnalysis, AnswerPoll, PollFails
<1>5. CASE Author
    BY <1>5 DEF Author, runInventorySearch, searchInventory, runFill, fillGap, dismissFillProposal, AddItem,
                createNodeFromInventory, AnswerItem, ItemFails, LockChanges
<1>6. QED
    BY <1>1, <1>2, <1>3, <1>4, <1>5 DEF AuthoringNext

\* What the page does to the runs, the routes do: the behaviours of the page and the service together
\* are behaviours of the runs, so that what is proved of them holds with the page.
THEOREM AuthoringIsAnalyzeRuns == AuthoringSpec => Spec
<1>1. AuthoringInit => Init
    BY DEF AuthoringInit
<1>2. QED
    BY <1>1, PageStepIsService, PTL DEF AuthoringSpec, Spec

RunStatus == {"none"} \cup InFlightStatus \cup Terminal
PanelStatus == {"idle"} \cup RunStatus

PanelTypeOK ==
    /\ analysis \in [id : Runs \cup {None}, status : PanelStatus, pending : BOOLEAN, findings : Runs \cup {None}]
    /\ starting \in [stage : {"none", "sent", "answered"}, id : Runs \cup {None}, status : RunStatus]
    /\ polls \subseteq [id : Runs, stage : {"sent", "answered"}, status : RunStatus, findings : Runs \cup {None}]

FindTypeOK ==
    /\ search \in [asked : Nat, results : Nat, pending : BOOLEAN, error : BOOLEAN, under : SUBSET Nat]
    /\ adds \in Seq([item : Items, from : {"search", "fill"}, stage : {"sent", "made"}])
    /\ clicks \in Nat

\* A run that completed has its findings.
FindingsSaved == \A r \in Runs : status[r] = "completed" => r \in findings

\* One poll at a time, and not while a run starts: it asks for the panel's run.
PollsOwnRun ==
    /\ \A p, q \in polls : p = q
    /\ polls # {} => starting.stage = "none"
    /\ \A q \in polls : q.id = analysis.id /\ (q.stage = "answered" /\ q.status = "completed" => q.findings = q.id)
    /\ starting.stage = "answered" => starting.id # None /\ starting.status \in InFlightStatus
    /\ starting.stage = "none" => starting = NotStarting
    /\ analysis.status = "completed" => analysis.id # None /\ analysis.findings = analysis.id

\* One search at a time, the last one asked.
SearchIsLast ==
    /\ search.under \subseteq {search.asked}
    /\ search.under # {} => ~search.error
    /\ search.under = {} => search.results = IF search.error THEN 0 ELSE search.asked

\* One item at a time, the one whose button is off.
AddIsLast == Len(adds) <= 1 /\ (adds # <<>> => adding = adds[1].item)

PanelInv == PanelTypeOK /\ (tangled = {} => PollsOwnRun)
FindInv ==
    /\ FindTypeOK
    /\ "searches" \notin tangled => SearchIsLast
    /\ "adds" \notin tangled => AddIsLast

PageInv == FindingsSaved /\ PanelInv /\ FindInv

LEMMA InitPageInv == AuthoringInit => PageInv
<1> SUFFICES ASSUME AuthoringInit PROVE PageInv
    OBVIOUS
<1>1. FindingsSaved
    BY DEF AuthoringInit, Init, FindingsSaved
<1>2. PanelInv
    BY DEF AuthoringInit, PanelInv, PanelTypeOK, PollsOwnRun, Idle, NotStarting, RunStatus, PanelStatus
<1>3. FindInv
    BY DEF AuthoringInit, FindInv, FindTypeOK, SearchIsLast, AddIsLast
<1>4. QED
    BY <1>1, <1>2, <1>3 DEF PageInv

LEMMA FindingsStaySaved == ASSUME RunsInv, FindingsSaved, [Next]_vars PROVE FindingsSaved'
<1> USE DEF RunsInv, TypeOK, FindingsSaved
<1>1. CASE UNCHANGED vars
    BY <1>1 DEF vars
<1>2. ASSUME NEW a \in Askers, Ask(a) PROVE FindingsSaved'
    BY <1>2 DEF Ask, StartLoad, StartInsert
<1>3. ASSUME NEW c \in Cancellers, CancelWrite(c) \/ \E s \in Runs : CancelLoad(c, s) PROVE FindingsSaved'
    BY <1>3 DEF CancelWrite, CancelLoad
<1>4. ASSUME NEW r \in Runs, TaskStep(r) PROVE FindingsSaved'
    <2>1. CASE TaskComplete(r)
        BY <2>1 DEF TaskComplete
    <2>2. CASE TaskMark(r)
        BY <2>2 DEF TaskMark
    <2>3. CASE TaskBegin(r)
        BY <2>3 DEF TaskBegin
    <2>4. CASE ~TaskComplete(r) /\ ~TaskMark(r) /\ ~TaskBegin(r)
        BY <1>4, <2>4 DEF TaskStep, TaskLoad, TaskRefresh, TaskStop
    <2> QED
        BY <2>1, <2>2, <2>3, <2>4
<1>5. CASE Crash \/ Boot
    BY <1>5 DEF Crash, Boot
<1>6. QED
    BY <1>1, <1>2, <1>3, <1>4, <1>5 DEF Next, Serve

\* The panel's start: the click, the service's answer, its arrival, its loss.
LEMMA StartKeepsPanel ==
    ASSUME RunsInv, PageInv, startAnalyze \/ startAnalysis \/ AnswerStart \/ StartFails
    PROVE  PanelInv'
<1> USE DEF PanelInv
<1>1. CASE startAnalyze
    <2>1. PanelTypeOK'
        BY <1>1 DEF startAnalyze, PageInv, PanelTypeOK, NotStarting, RunStatus, PanelStatus, InFlightStatus
    <2>2. /\ analysis'.status = "queued" /\ starting'.stage = "sent" /\ polls' = polls
          /\ tangled' = {} => tangled = {} /\ polls = {}
        BY <1>1 DEF startAnalyze, PageInv, PanelTypeOK, NotStarting
    <2> QED
        BY <2>1, <2>2 DEF PageInv, PollsOwnRun
<1>2. CASE startAnalysis
    <2>0. polls' = polls /\ analysis' = analysis /\ tangled \subseteq tangled' /\ starting.stage = "sent"
        BY <1>2 DEF startAnalysis
    <2>1. CASE starting' = starting
        BY <2>0, <2>1 DEF PageInv, PanelTypeOK, PollsOwnRun
    <2>2. ASSUME NEW r \in Runs, StartInsert(Me, r), starting' = Created(r) PROVE PanelInv'
        <3>1. starting' = [stage |-> "answered", id |-> r, status |-> "queued"]
            BY <2>2 DEF StartInsert, Created, RunsInv, TypeOK
        <3>2. PanelTypeOK'
            BY <2>0, <3>1 DEF PageInv, PanelTypeOK, RunStatus, InFlightStatus
        <3>3. tangled' = {} => PollsOwnRun'
            BY <2>0, <3>1, AnalyzeAssumption DEF PageInv, PollsOwnRun, InFlightStatus
        <3> QED
            BY <3>2, <3>3
    <2>3. ASSUME NEW r \in Runs, r \in InFlight \/ (InFlight = {} /\ status[r] = "completed"),
                 starting' = [stage |-> "answered", id |-> r, status |-> status[r]],
                 tangled' = tangled \cup (IF status[r] = "completed" THEN {"cached"} ELSE {})
          PROVE  PanelInv'
        <3>1. status[r] \in RunStatus
            BY DEF RunsInv, TypeOK, RunStatus
        <3>2. PanelTypeOK'
            BY <2>0, <2>3, <3>1 DEF PageInv, PanelTypeOK
        <3>3. tangled' = {} => status[r] \in InFlightStatus
            BY <2>3 DEF InFlight
        <3>4. tangled' = {} => PollsOwnRun'
            BY <2>0, <2>3, <3>3, AnalyzeAssumption DEF PageInv, PollsOwnRun
        <3> QED
            BY <3>2, <3>4
    <2> QED
        BY <1>2, <2>1, <2>2, <2>3 DEF startAnalysis
<1>3. CASE AnswerStart
    <2>1. PanelTypeOK'
        BY <1>3 DEF AnswerStart, Adopt, PageInv, PanelTypeOK, NotStarting, RunStatus, PanelStatus
    <2>2. /\ analysis'.status = starting.status /\ starting' = NotStarting /\ polls' = polls
          /\ tangled' = {} => tangled = {} /\ polls = {}
        BY <1>3 DEF AnswerStart, Adopt, PageInv, PanelTypeOK
    <2>3. tangled' = {} => PollsOwnRun'
        BY <1>3, <2>2 DEF AnswerStart, PageInv, PollsOwnRun, NotStarting, InFlightStatus
    <2> QED
        BY <2>1, <2>3
<1>4. CASE StartFails
    <2>1. PanelTypeOK'
        BY <1>4 DEF StartFails, PageInv, PanelTypeOK, NotStarting, RunStatus, PanelStatus, Terminal
    <2>2. analysis'.status = "failed" /\ starting' = NotStarting /\ polls' = polls /\ tangled' = tangled
        BY <1>4 DEF StartFails, PageInv, PanelTypeOK
    <2>3. tangled = {} => polls = {}
        BY <1>4 DEF StartFails, PageInv, PollsOwnRun
    <2> QED
        BY <2>1, <2>2, <2>3 DEF PageInv, PollsOwnRun, NotStarting
<1>5. QED
    BY <1>1, <1>2, <1>3, <1>4

\* The panel's polls.
LEMMA PollKeepsPanel ==
    ASSUME RunsInv, PageInv, Poll \/ \E q \in polls : PollFails(q)
    PROVE  PanelInv'
<1> USE DEF PanelInv
<1>1. CASE refreshAnalysis
    <2> DEFINE new == [id |-> analysis.id, stage |-> "sent", status |-> "none", findings |-> None]
    <2>1. polls' = polls \cup {new} /\ UNCHANGED <<analysis, starting>> /\ analysis.id # None
        BY <1>1 DEF refreshAnalysis
    <2>2. PanelTypeOK'
        BY <2>1 DEF PageInv, PanelTypeOK, RunStatus
    <2>3. tangled' = {} => tangled = {} /\ polls = {} /\ starting = NotStarting
        BY <1>1 DEF refreshAnalysis
    <2>4. tangled' = {} => PollsOwnRun'
        BY <2>1, <2>3 DEF PageInv, PollsOwnRun, NotStarting
    <2> QED
        BY <2>2, <2>4
<1>2. ASSUME NEW q \in polls, getAnalysis(q) PROVE PanelInv'
    <2> DEFINE found == IF q.id \in findings THEN q.id ELSE None
               new == [q EXCEPT !.stage = "answered", !.status = status[q.id], !.findings = found]
    <2>1. polls' = (polls \ {q}) \cup {new} /\ UNCHANGED <<analysis, starting, tangled>>
        BY <1>2 DEF getAnalysis, Change
    <2>2. q \in [id : Runs, stage : {"sent", "answered"}, status : RunStatus, findings : Runs \cup {None}]
        BY DEF PageInv, PanelTypeOK
    <2>3. status[q.id] \in RunStatus /\ (status[q.id] = "completed" => found = q.id) /\ found \in Runs \cup {None}
        BY <2>2 DEF RunsInv, TypeOK, RunStatus, PageInv, FindingsSaved
    <2> HIDE DEF found
    <2>4. /\ new \in [id : Runs, stage : {"sent", "answered"}, status : RunStatus, findings : Runs \cup {None}]
          /\ new.id = q.id /\ (new.status = "completed" => new.findings = new.id)
        BY <2>2, <2>3
    <2> HIDE DEF new
    <2>5. PanelTypeOK'
        BY <2>1, <2>4 DEF PageInv, PanelTypeOK
    <2>6. tangled' = {} => PollsOwnRun'
        BY <2>1, <2>4 DEF PageInv, PollsOwnRun
    <2> QED
        BY <2>5, <2>6
<1>3. ASSUME NEW q \in polls, AnswerPoll(q) PROVE PanelInv'
    <2>1. q \in [id : Runs, stage : {"sent", "answered"}, status : RunStatus, findings : Runs \cup {None}]
        BY DEF PageInv, PanelTypeOK
    <2>2. /\ polls' = polls \ {q} /\ UNCHANGED <<starting, tangled>>
          /\ analysis' = [analysis EXCEPT !.status = q.status, !.findings = q.findings]
        BY <1>3 DEF AnswerPoll, Change
    <2>3. PanelTypeOK'
        BY <2>1, <2>2 DEF PageInv, PanelTypeOK, PanelStatus
    <2>4. analysis'.id = analysis.id /\ analysis'.status = q.status /\ analysis'.findings = q.findings
        BY <2>2 DEF PageInv, PanelTypeOK
    <2>5. tangled' = {} => PollsOwnRun'
        BY <1>3, <2>1, <2>2, <2>4, AnalyzeAssumption DEF AnswerPoll, PageInv, PollsOwnRun
    <2> QED
        BY <2>3, <2>5
<1>4. ASSUME NEW q \in polls, PollFails(q) PROVE PanelInv'
    BY <1>4 DEF PollFails, Change, PageInv, PanelTypeOK, PollsOwnRun
<1>5. QED
    BY <1>1, <1>2, <1>3, <1>4 DEF Poll

\* The service's own steps; a crash takes the requests with it.
LEMMA ServiceKeepsPanel == ASSUME PageInv, ServiceStep PROVE PanelInv'
<1> USE DEF PanelInv
<1>1. CASE UNCHANGED <<starting, analysis, polls>>
    BY <1>1 DEF ServiceStep, PageInv, PanelTypeOK, PollsOwnRun
<1>2. CASE polls' = {} /\ UNCHANGED <<starting, analysis>>
    BY <1>2 DEF ServiceStep, PageInv, PanelTypeOK, PollsOwnRun
<1>3. CASE /\ polls' = {} /\ starting' = NotStarting
           /\ analysis' = [analysis EXCEPT !.status = "failed", !.pending = FALSE]
    <2>1. PanelTypeOK'
        BY <1>3 DEF PageInv, PanelTypeOK, NotStarting, RunStatus, PanelStatus, Terminal
    <2>2. analysis'.status = "failed"
        BY <1>3 DEF PageInv, PanelTypeOK
    <2> QED
        BY <1>3, <2>1, <2>2 DEF ServiceStep, PageInv, PollsOwnRun, NotStarting
<1>4. QED
    BY <1>1, <1>2, <1>3 DEF ServiceStep

-----------------------------------------------------------------------------
(* Searches, and the items that are added.                                 *)

LEMMA SearchKeepsFind ==
    ASSUME PageInv, runInventorySearch \/ \E q \in search.under, ok \in BOOLEAN : searchInventory(q, ok)
    PROVE  FindInv'
<1> USE DEF FindInv
<1>1. CASE runInventorySearch
    <2> DEFINE n == clicks + 1
    <2>0. n \in Nat /\ clicks' = n
        BY <1>1 DEF runInventorySearch, Find, PageInv, FindTypeOK
    <2>1. /\ search' = [search EXCEPT !.asked = n, !.pending = TRUE, !.error = FALSE, !.under = @ \cup {n}]
          /\ tangled' = tangled \cup (IF search.under = {} THEN {} ELSE {"searches"})
          /\ UNCHANGED <<adds, adding>>
        BY <1>1 DEF runInventorySearch
    <2> HIDE DEF n
    <2>2. search' \in [asked : Nat, results : Nat, pending : BOOLEAN, error : BOOLEAN, under : SUBSET Nat]
        BY <2>0, <2>1 DEF PageInv, FindTypeOK
    <2>3. search'.asked = n /\ search'.error = FALSE /\ search'.under = search.under \cup {n}
        BY <2>1 DEF PageInv, FindTypeOK
    <2>4. FindTypeOK'
        BY <2>0, <2>1, <2>2 DEF PageInv, FindTypeOK
    <2>5. "searches" \notin tangled' => SearchIsLast'
        BY <2>1, <2>3 DEF SearchIsLast
    <2>6. "adds" \notin tangled' => AddIsLast'
        BY <2>1 DEF PageInv, AddIsLast
    <2> QED
        BY <2>4, <2>5, <2>6
<1>2. ASSUME NEW q \in search.under, NEW ok \in BOOLEAN, searchInventory(q, ok) PROVE FindInv'
    <2> DEFINE found == IF ok THEN q ELSE 0
    <2>0. q \in Nat /\ found \in Nat
        BY DEF PageInv, FindTypeOK
    <2>1. /\ search' = [search EXCEPT !.under = @ \ {q}, !.pending = FALSE, !.results = found, !.error = @ \/ ~ok]
          /\ UNCHANGED <<adds, adding, clicks, tangled>>
        BY <1>2 DEF searchInventory
    <2>2. search' \in [asked : Nat, results : Nat, pending : BOOLEAN, error : BOOLEAN, under : SUBSET Nat]
        <3> HIDE DEF found
        <3> QED
            BY <2>0, <2>1 DEF PageInv, FindTypeOK
    <2>3. /\ search'.asked = search.asked /\ search'.under = search.under \ {q}
          /\ search'.results = found /\ search'.error = (search.error \/ ~ok)
        <3> HIDE DEF found
        <3> QED
            BY <2>1 DEF PageInv, FindTypeOK
    <2>4. FindTypeOK'
        BY <2>1, <2>2 DEF PageInv, FindTypeOK
    <2>5. "searches" \notin tangled' => SearchIsLast'
        <3> SUFFICES ASSUME "searches" \notin tangled PROVE SearchIsLast'
            BY <2>1
        <3>1. search.under = {q} /\ q = search.asked /\ search.error = FALSE
            BY DEF PageInv, SearchIsLast, FindTypeOK
        <3> QED
            BY <2>3, <3>1 DEF SearchIsLast
    <2>6. "adds" \notin tangled' => AddIsLast'
        BY <2>1 DEF PageInv, AddIsLast
    <2> QED
        BY <2>4, <2>5, <2>6
<1>3. QED
    BY <1>1, <1>2

LEMMA AddKeepsFind ==
    ASSUME PageInv,
           \/ \E i \in Items : \E from \in {"search", "fill"} : AddItem(i, from)
           \/ \E k \in DOMAIN adds : createNodeFromInventory(k) \/ AnswerItem(k) \/ ItemFails(k)
    PROVE  FindInv'
<1> USE DEF FindInv
<1> DEFINE Adds == [item : Items, from : {"search", "fill"}, stage : {"sent", "made"}]
<1>0. adds \in Seq(Adds) /\ clicks \in Nat
    BY DEF PageInv, FindTypeOK
<1> HIDE DEF Adds
<1>1. ASSUME NEW i \in Items, NEW from \in {"search", "fill"}, AddItem(i, from) PROVE FindInv'
    <2> DEFINE new == [item |-> i, from |-> from, stage |-> "sent"]
    <2>1. /\ adds' = Append(adds, new) /\ adding # i /\ adding' = i /\ search' = search /\ clicks' = clicks + 1
          /\ tangled' = tangled \cup (IF \E k \in DOMAIN adds : adds[k].item # i THEN {"adds"} ELSE {})
        BY <1>1 DEF AddItem, Find, Offered
    <2>2. new \in Adds /\ new.item = i
        BY DEF Adds
    <2> HIDE DEF new
    <2>3. FindTypeOK'
        <3>1. adds' \in Seq(Adds) /\ clicks' \in Nat
            BY <1>0, <2>1, <2>2
        <3> QED
            BY <2>1, <3>1 DEF PageInv, FindTypeOK, Adds
    <2>4. "adds" \notin tangled' => AddIsLast'
        <3> SUFFICES ASSUME "adds" \notin tangled' PROVE AddIsLast'
            OBVIOUS
        <3>1. AddIsLast /\ \A k \in DOMAIN adds : adds[k].item = i
            BY <2>1 DEF PageInv
        <3>2. adds = <<>>
            <4>1. adds # <<>> => 1 \in DOMAIN adds /\ adding = adds[1].item
                BY <1>0, <3>1 DEF AddIsLast
            <4> QED
                BY <2>1, <3>1, <4>1
        <3>3. adds' = <<new>>
            BY <2>1, <3>2
        <3> QED
            BY <2>1, <2>2, <3>3 DEF AddIsLast
    <2>5. "searches" \notin tangled' => SearchIsLast'
        BY <2>1 DEF PageInv, SearchIsLast
    <2> QED
        BY <2>3, <2>4, <2>5
<1>2. ASSUME NEW k \in DOMAIN adds, createNodeFromInventory(k) PROVE FindInv'
    <2>1. /\ adds' = [adds EXCEPT ![k].stage = "made"] /\ UNCHANGED <<search, adding, clicks, tangled>>
        BY <1>2 DEF createNodeFromInventory
    <2>2. \A j \in DOMAIN adds : adds[j] \in Adds
        BY <1>0
    <2>3. adds' \in Seq(Adds) /\ Len(adds') = Len(adds) /\ \A j \in DOMAIN adds : adds'[j].item = adds[j].item
        <3> DEFINE made == [adds[k] EXCEPT !.stage = "made"]
        <3>1. made \in Adds /\ made.item = adds[k].item
            BY <2>2 DEF Adds
        <3>2. adds' = [adds EXCEPT ![k] = made]
            BY <2>1
        <3> HIDE DEF made
        <3> QED
            BY <1>0, <3>1, <3>2
    <2>4. FindTypeOK'
        BY <2>1, <2>3 DEF PageInv, FindTypeOK, Adds
    <2>5. "adds" \notin tangled' => AddIsLast'
        <3>1. AddIsLast => AddIsLast'
            BY <1>0, <2>1, <2>3 DEF AddIsLast
        <3> QED
            BY <2>1, <3>1 DEF PageInv
    <2> QED
        BY <2>1, <2>4, <2>5 DEF PageInv, SearchIsLast
<1>3. ASSUME NEW k \in DOMAIN adds, adds' = Without(k), UNCHANGED <<search, clicks, tangled>> PROVE FindInv'
    <2>1. Len(adds) \in Nat /\ k \in 1..Len(adds) /\ \A j \in 1..Len(adds) : adds[j] \in Adds
        BY <1>0
    <2>2. Without(k) \in Seq(Adds)
        <3>1. SubSeq(adds, 1, k - 1) \in Seq(Adds) /\ SubSeq(adds, k + 1, Len(adds)) \in Seq(Adds)
            <4>1. /\ 1 \in Int /\ k - 1 \in Int /\ k + 1 \in Int /\ Len(adds) \in Int
                  /\ \A j \in 1..(k - 1) : adds[j] \in Adds
                  /\ \A j \in (k + 1)..Len(adds) : adds[j] \in Adds
                BY <2>1
            <4> QED
                BY ONLY <4>1, SubSeqProperties
        <3> QED
            BY <3>1, ConcatProperties DEF Without
    <2>3. Len(adds) <= 1 => Without(k) = <<>>
        <3> SUFFICES ASSUME Len(adds) <= 1 PROVE Without(k) = <<>>
            OBVIOUS
        <3>1. Len(adds) = 1 /\ k = 1
            BY <2>1
        <3>2. SubSeq(adds, 1, k - 1) = <<>> /\ SubSeq(adds, k + 1, Len(adds)) = <<>>
            BY <3>1, SubSeqEmpty
        <3> QED
            BY <3>2 DEF Without
    <2>4. FindTypeOK'
        BY <1>3, <2>2 DEF PageInv, FindTypeOK, Adds
    <2>5. "adds" \notin tangled' => AddIsLast'
        BY <1>3, <2>3 DEF PageInv, AddIsLast
    <2> QED
        BY <1>3, <2>4, <2>5 DEF PageInv, SearchIsLast
<1>4. QED
    BY <1>1, <1>2, <1>3 DEF AnswerItem, ItemFails

LEMMA NextPageInv == RunsInv /\ PageInv /\ [AuthoringNext]_authoringVars => PageInv'
<1> SUFFICES ASSUME RunsInv, PageInv, [AuthoringNext]_authoringVars PROVE PageInv'
    OBVIOUS
<1>1. FindingsSaved'
    BY PageStepIsService, FindingsStaySaved DEF PageInv
<1>2. UNCHANGED <<analysis, starting, polls>> /\ tangled \subseteq tangled' => PanelInv'
    BY DEF PageInv, PanelInv, PanelTypeOK, PollsOwnRun
<1>3. UNCHANGED <<search, adding, adds, clicks>> /\ tangled \subseteq tangled' => FindInv'
    BY DEF PageInv, FindInv, FindTypeOK, SearchIsLast, AddIsLast
<1>4. CASE UNCHANGED authoringVars
    BY <1>1, <1>2, <1>3, <1>4 DEF authoringVars, panelVars, findVars, PageInv
<1>5. CASE ServiceStep
    BY <1>1, <1>3, <1>5, ServiceKeepsPanel DEF ServiceStep, findVars, PageInv
<1>6. CASE Analyze
    <2>1. UNCHANGED findVars /\ tangled \subseteq tangled'
        BY <1>6 DEF Analyze, startAnalyze, startAnalysis, AnswerStart, StartFails, AuthoringModal, Poll,
                    refreshAnalysis, getAnalysis, AnswerPoll, PollFails
    <2>2. AuthoringModal => PanelInv'
        BY <1>2 DEF AuthoringModal
    <2> QED
        BY <1>1, <1>3, <1>6, <2>1, <2>2, StartKeepsPanel, PollKeepsPanel DEF Analyze, findVars, PageInv
<1>7. CASE Author
    <2>1. UNCHANGED panelVars /\ tangled \subseteq tangled'
        BY <1>7 DEF Author, runInventorySearch, searchInventory, runFill, fillGap, dismissFillProposal, AddItem,
                    createNodeFromInventory, AnswerItem, ItemFails, LockChanges
    <2>2. PanelInv'
        BY <1>2, <2>1 DEF panelVars
    <2>3. ASSUME runFill PROVE FindInv'
        <3>1. UNCHANGED <<search, adding, adds, tangled>> /\ clicks' = clicks + 1
            BY <2>3 DEF runFill, FillSection, Find
        <3> QED
            BY <3>1 DEF PageInv, FindInv, FindTypeOK, SearchIsLast, AddIsLast
    <2>4. ASSUME \/ LockChanges \/ \E found \in SUBSET Items : fillGap(found)
                 \/ \E i \in Items : dismissFillProposal(i)
          PROVE  FindInv'
        BY <1>3, <2>4 DEF LockChanges, fillGap, dismissFillProposal, findVars
    <2>5. FindInv'
        BY <1>7, <2>3, <2>4, SearchKeepsFind, AddKeepsFind DEF Author
    <2> QED
        BY <1>1, <2>2, <2>5 DEF PageInv
<1>8. QED
    BY <1>4, <1>5, <1>6, <1>7 DEF AuthoringNext

\* The findings a panel shows are those of its own run, the results on show are those of the last
\* query, and an item on its way to the board is not added again: on one page, in whatever order its
\* requests are answered or lost and the server stops, but for two starts that crossed, a poll of an
\* earlier run, and a search or an addition beside another.
THEOREM AuthoringSectionsAgree == AuthoringSpec => []SectionsAgree
<1>1. PageInv => SectionsAgree
    <2> SUFFICES ASSUME PageInv PROVE SectionsAgree
        OBVIOUS
    <2>1. ShowsItsRun
        BY DEF PageInv, PanelInv, PollsOwnRun, ShowsItsRun
    <2>2. ResultsOfLast
        BY DEF PageInv, FindInv, SearchIsLast, ResultsOfLast
    <2>3. OneAddPerItem
        <3>1. "adds" \notin tangled => \A j, k \in DOMAIN adds : j = k
            BY DEF PageInv, FindInv, FindTypeOK, AddIsLast
        <3> QED
            BY <3>1 DEF OneAddPerItem
    <2> QED
        BY <2>1, <2>2, <2>3 DEF SectionsAgree
<1>2. AuthoringSpec => []RunsInv
    BY AuthoringIsAnalyzeRuns, SpecRunsInv, PTL
<1>3. QED
    BY <1>1, <1>2, InitPageInv, NextPageInv, PTL DEF AuthoringSpec
=============================================================================
