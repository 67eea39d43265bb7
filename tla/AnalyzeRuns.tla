----------------------------- MODULE AnalyzeRuns -----------------------------
(***************************************************************************)
(* The analysis runs of one itinerary: services/analyze.py behind          *)
(* routers/analyze.py.  Requests start and cancel runs, a background task  *)
(* in the same process drives each run, and a sweep at boot fails the runs *)
(* an earlier process left behind.                                         *)
(*                                                                         *)
(* Every session reads a row, decides, and writes the row by its id later. *)
(* A task keeps the row it loaded in its session, so that what it "checks  *)
(* again" before completing is what it read when it began.                 *)
(***************************************************************************)
EXTENDS Naturals, FiniteSets

CONSTANTS
    Runs,        \* bounds the rows of analyses
    Askers,      \* requests that start a run
    Cancellers,  \* requests that cancel one
    MaxCrashes,  \* bounds the restarts of the server
    None

ASSUME AnalyzeAssumption == None \notin Runs /\ MaxCrashes \in Nat

VARIABLES
    status,     \* analyses.status, "none" before the row exists
    findings,   \* runs with rows in analysis_findings
    task,       \* per run: where its background task is
    seen,       \* per run: the status its working task has in its session
    asking,     \* the askers that found nothing in flight and will insert a row
    cancelling, \* per canceller: the row it found unfinished and will cancel
    crossed,    \* history: a row was cancelled, or two askers found nothing in flight
    up,         \* the server runs
    crashes

vars == <<status, findings, task, seen, asking, cancelling, crossed, up, crashes>>

InFlightStatus == {"queued", "running"}
Terminal == {"completed", "failed", "cancelled"}

InFlight == {r \in Runs : status[r] \in InFlightStatus}

-----------------------------------------------------------------------------
(* create_queued_analysis: no run in flight, none in the cache (or force_rerun). *)

\* Slip: a queued run is not counted.
StartUnlessRunning(a) ==
    /\ up /\ a \notin asking
    /\ \A r \in Runs : status[r] # "running"
    /\ asking' = asking \cup {a}
    /\ crossed' = (crossed \/ asking # {})
    /\ UNCHANGED <<status, findings, task, seen, cancelling, up, crashes>>

StartLoad(a) ==
    /\ up /\ a \notin asking
    /\ InFlight = {}
    /\ asking' = asking \cup {a}
    /\ crossed' = (crossed \/ asking # {})
    /\ UNCHANGED <<status, findings, task, seen, cancelling, up, crashes>>

StartInsert(a, r) ==
    /\ up /\ a \in asking
    /\ status[r] = "none"
    /\ status' = [status EXCEPT ![r] = "queued"]
    /\ task' = [task EXCEPT ![r] = "scheduled"]
    /\ asking' = asking \ {a}
    /\ UNCHANGED <<findings, seen, cancelling, crossed, up, crashes>>

\* cancel_analysis
CancelLoad(c, r) ==
    /\ up /\ cancelling[c] = None
    /\ r \in InFlight
    /\ cancelling' = [cancelling EXCEPT ![c] = r]
    /\ UNCHANGED <<status, findings, task, seen, asking, crossed, up, crashes>>

CancelWrite(c) ==
    /\ up /\ cancelling[c] # None
    /\ status' = [status EXCEPT ![cancelling[c]] = "cancelled"]
    /\ cancelling' = [cancelling EXCEPT ![c] = None]
    /\ crossed' = TRUE
    /\ UNCHANGED <<findings, task, seen, asking, up, crashes>>

-----------------------------------------------------------------------------
(* run_analysis *)

At(r, pc) == up /\ task[r] = pc
To(r, pc) == task' = [task EXCEPT ![r] = pc]

\* _begin_running: still queued?
TaskLoad(r) ==
    /\ At(r, "scheduled")
    /\ To(r, IF status[r] = "queued" THEN "begin" ELSE "none")
    /\ UNCHANGED <<status, findings, seen, asking, cancelling, crossed, up, crashes>>

TaskBegin(r) ==
    /\ At(r, "begin") /\ To(r, "refresh")
    /\ status' = [status EXCEPT ![r] = "running"]
    /\ UNCHANGED <<findings, seen, asking, cancelling, crossed, up, crashes>>

\* The refresh after the commit is the last time this session reads the row.
TaskRefresh(r) ==
    /\ At(r, "refresh") /\ To(r, "work")
    /\ seen' = [seen EXCEPT ![r] = status[r]]
    /\ UNCHANGED <<status, findings, asking, cancelling, crossed, up, crashes>>

\* _complete
TaskComplete(r) ==
    /\ At(r, "work") /\ To(r, "none")
    /\ IF seen[r] = "running"
       THEN /\ status' = [status EXCEPT ![r] = "completed"]
            /\ findings' = findings \cup {r}
       ELSE UNCHANGED <<status, findings>>
    /\ seen' = [seen EXCEPT ![r] = "none"]
    /\ UNCHANGED <<asking, cancelling, crossed, up, crashes>>

\* Slip: a failed runner leaves its row running.
TaskStopSilently(r, pc) ==
    /\ At(r, "work") /\ pc \in {"fail", "stop"}
    /\ To(r, "none")
    /\ UNCHANGED <<status, findings, seen, asking, cancelling, crossed, up, crashes>>

\* The runner raises, or is cancelled: roll back and read the row afresh.
TaskStop(r, pc) ==
    /\ At(r, "work") /\ pc \in {"fail", "stop"}
    /\ To(r, IF status[r] \in Terminal THEN "none" ELSE pc)
    /\ seen' = [seen EXCEPT ![r] = "none"]
    /\ UNCHANGED <<status, findings, asking, cancelling, crossed, up, crashes>>

\* _mark_failed, _mark_cancelled
TaskMark(r) ==
    /\ At(r, "fail") \/ At(r, "stop")
    /\ To(r, "none")
    /\ status' = [status EXCEPT ![r] = IF task[r] = "fail" THEN "failed" ELSE "cancelled"]
    /\ UNCHANGED <<findings, seen, asking, cancelling, crossed, up, crashes>>

-----------------------------------------------------------------------------
(* The server. *)

Crash ==
    /\ up /\ crashes < MaxCrashes
    /\ up' = FALSE /\ crashes' = crashes + 1
    /\ task' = [r \in Runs |-> "none"]
    /\ seen' = [r \in Runs |-> "none"]
    /\ asking' = {}
    /\ cancelling' = [c \in Cancellers |-> None]
    /\ UNCHANGED <<status, findings, crossed>>

\* Slip: every row counts as abandoned.
SweptAll == {r \in Runs : status[r] # "none"}

\* reap_orphaned_analyses: the running rows, of which those that began too lately are spared.
Swept == {r \in Runs : status[r] = "running"}

Boot ==
    /\ ~up /\ up' = TRUE
    /\ \E abandoned \in SUBSET Swept :
         status' = [r \in Runs |-> IF r \in abandoned THEN "failed" ELSE status[r]]
    /\ UNCHANGED <<findings, task, seen, asking, cancelling, crossed, crashes>>

-----------------------------------------------------------------------------
Init ==
    /\ status = [r \in Runs |-> "none"]
    /\ findings = {}
    /\ task = [r \in Runs |-> "none"]
    /\ seen = [r \in Runs |-> "none"]
    /\ asking = {}
    /\ cancelling = [c \in Cancellers |-> None]
    /\ crossed = FALSE
    /\ up = TRUE /\ crashes = 0

TaskStep(r) ==
    \/ TaskLoad(r) \/ TaskBegin(r) \/ TaskRefresh(r)
    \/ TaskComplete(r)
    \/ \E pc \in {"fail", "stop"} : TaskStop(r, pc)
    \/ TaskMark(r)

Ask(a) == StartLoad(a) \/ \E r \in Runs : StartInsert(a, r)

Serve ==
    \/ \E c \in Cancellers : CancelWrite(c) \/ \E r \in Runs : CancelLoad(c, r)
    \/ \E r \in Runs : TaskStep(r)
    \/ Boot

Next == Serve \/ Crash \/ \E a \in Askers : Ask(a)

Spec == Init /\ [][Next]_vars

\* The event loop runs its tasks, and a server that stopped is started again.
LiveSpec == Spec /\ WF_vars(Boot) /\ \A r \in Runs : WF_vars(TaskStep(r))

-----------------------------------------------------------------------------
(* Properties. *)

Stages == {"none", "scheduled", "begin", "refresh", "work", "fail", "stop"}

\* Every variable stays within the rows and request states the code can produce.
TypeOK ==
    /\ status \in [Runs -> {"none"} \cup InFlightStatus \cup Terminal]
    /\ findings \subseteq Runs
    /\ task \in [Runs -> Stages]
    /\ seen \in [Runs -> {"none"} \cup InFlightStatus \cup Terminal]
    /\ asking \subseteq Askers
    /\ cancelling \in [Cancellers -> Runs \cup {None}]
    /\ crossed \in BOOLEAN
    /\ up \in BOOLEAN
    /\ crashes \in 0..MaxCrashes

\* "at most one queued/running row exists at a time" (create_queued_analysis); unless a row
\* was cancelled under its task, or two requests looked before either had inserted its row.
OneInFlight == ~crossed => \A r, s \in InFlight : r = s

\* "terminal states are immutable" (_complete), across crashes and sweeps; a cancel may cross.
TerminalFinal ==
    [][\A r \in Runs : (status[r] \in Terminal /\ ~crossed') => status'[r] = status[r]]_vars

\* Again and again no run is in flight, so that the itinerary can be analyzed again; unless the
\* server stopped under one: nothing takes up a run whose task is gone and that a sweep spared.
Orphaned(r) == status[r] \in InFlightStatus /\ task[r] = "none" /\ crashes > 0
RunsEnd == []<>(\A r \in InFlight : Orphaned(r))
=============================================================================
