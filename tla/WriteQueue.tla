----------------------------- MODULE WriteQueue -----------------------------
(***************************************************************************)
(* The advisor's editing lock on an itinerary and the agent's writes that  *)
(* wait for it: acquire_lock, release_lock and _check_lock of              *)
(* services/itineraries.py, the release route of routers/itineraries.py,   *)
(* and the in-memory write queue of services/agent.py.                     *)
(*                                                                         *)
(* Requests and agent turns share one event loop: what a coroutine does    *)
(* between two awaits is one step, and a lock check is an await away from  *)
(* the append or the insert that relies on it.                             *)
(***************************************************************************)
EXTENDS Naturals, Sequences, Functions

CONSTANTS
    Advisors,    \* each releasing, or not, one request at a time
    Cards,       \* experiences the agent proposes, each in a turn of its own
    MaxCrashes,  \* bounds the restarts of the server
    None

VARIABLES
    lockedBy,  \* itineraries.locked_by
    queue,     \* _agent_write_queue of the itinerary
    drain,     \* per advisor: the release request being served
    turn,      \* per card: where _persist_proposed_card is
    nodes,     \* the cards added as nodes, in the order they were committed
    dropped,   \* history: cards whose write was refused and only logged
    lost,      \* history: cards a restart forgot
    crashes

vars == <<lockedBy, queue, drain, turn, nodes, dropped, lost, crashes>>

NoDrain == [pc |-> "idle", pending |-> <<>>]

\* _check_lock for a writer that is not an advisor.
Locked == lockedBy # None

-----------------------------------------------------------------------------
(* The advisors. *)

Acquire(a) ==
    /\ drain[a] = NoDrain
    /\ lockedBy \in {None, a}
    /\ lockedBy' = a
    /\ UNCHANGED <<queue, drain, turn, nodes, dropped, lost, crashes>>

\* release_lock clears the lock if it is the caller's; the route drains in either case.
Release(a) ==
    /\ drain[a] = NoDrain
    /\ lockedBy' = IF lockedBy = a THEN None ELSE lockedBy
    /\ drain' = [drain EXCEPT ![a].pc = "pop"]
    /\ UNCHANGED <<queue, turn, nodes, dropped, lost, crashes>>

\* Slip: the entries stay queued until they are replayed.
DrainPeek(a) ==
    /\ drain[a].pc = "pop"
    /\ drain' = [drain EXCEPT ![a] = IF queue = <<>> THEN NoDrain
                                     ELSE [pc |-> "replay", pending |-> queue]]
    /\ UNCHANGED <<lockedBy, queue, turn, nodes, dropped, lost, crashes>>

\* drain_queue takes the whole queue at once.
DrainPop(a) ==
    /\ drain[a].pc = "pop"
    /\ drain' = [drain EXCEPT ![a] = IF queue = <<>> THEN NoDrain
                                     ELSE [pc |-> "replay", pending |-> queue]]
    /\ queue' = <<>>
    /\ UNCHANGED <<lockedBy, turn, nodes, dropped, lost, crashes>>

\* After the head of the pending entries comes the next, or the end of the request.
NextEntry(a) ==
    drain' = [drain EXCEPT ![a] = IF Len(@.pending) = 1 THEN NoDrain
                                  ELSE [pc |-> "replay", pending |-> Tail(@.pending)]]

\* add_node begins with its own lock check.
Admitted(a) ==
    /\ drain[a].pc = "replay"
    /\ ~Locked
    /\ drain' = [drain EXCEPT ![a].pc = "add"]
    /\ UNCHANGED <<lockedBy, queue, turn, nodes, dropped, lost, crashes>>

\* Slip: a refused entry goes to the back and is tried again.
RefusedRetries(a) ==
    /\ drain[a].pc = "replay"
    /\ Locked
    /\ drain' = [drain EXCEPT ![a].pending = Append(Tail(@), Head(@))]
    /\ UNCHANGED <<lockedBy, queue, turn, nodes, dropped, lost, crashes>>

Refused(a) ==
    /\ drain[a].pc = "replay"
    /\ Locked
    /\ dropped' = dropped \cup {Head(drain[a].pending)}
    /\ NextEntry(a)
    /\ UNCHANGED <<lockedBy, queue, turn, nodes, lost, crashes>>

ReplayAdd(a) ==
    /\ drain[a].pc = "add"
    /\ nodes' = Append(nodes, Head(drain[a].pending))
    /\ NextEntry(a)
    /\ UNCHANGED <<lockedBy, queue, turn, dropped, lost, crashes>>

-----------------------------------------------------------------------------
(* The agent: _persist_proposed_card. *)

To(c, pc) == turn' = [turn EXCEPT ![c] = pc]

Propose(c) ==
    /\ turn[c] = "new"
    /\ To(c, IF Locked THEN "enqueue" ELSE "check")
    /\ UNCHANGED <<lockedBy, queue, drain, nodes, dropped, lost, crashes>>

Enqueue(c) ==
    /\ turn[c] = "enqueue" /\ To(c, "done")
    /\ queue' = Append(queue, c)
    /\ UNCHANGED <<lockedBy, drain, nodes, dropped, lost, crashes>>

\* add_node checks the lock again; a refusal now is logged and the card forgotten.
Check(c) ==
    /\ turn[c] = "check"
    /\ To(c, IF Locked THEN "done" ELSE "add")
    /\ dropped' = IF Locked THEN dropped \cup {c} ELSE dropped
    /\ UNCHANGED <<lockedBy, queue, drain, nodes, lost, crashes>>

Add(c) ==
    /\ turn[c] = "add" /\ To(c, "done")
    /\ nodes' = Append(nodes, c)
    /\ UNCHANGED <<lockedBy, queue, drain, dropped, lost, crashes>>

-----------------------------------------------------------------------------
(* A restart keeps the lock and the nodes, and forgets the queue and the turns. *)

Underway(c) == turn[c] \in {"enqueue", "check", "add"}

Waiting == Range(queue) \cup UNION {Range(drain[a].pending) : a \in Advisors}

Crash ==
    /\ crashes < MaxCrashes
    /\ crashes' = crashes + 1
    /\ lost' = lost \cup Waiting \cup {c \in Cards : Underway(c)}
    /\ queue' = <<>>
    /\ drain' = [a \in Advisors |-> NoDrain]
    /\ turn' = [c \in Cards |-> IF Underway(c) THEN "done" ELSE turn[c]]
    /\ UNCHANGED <<lockedBy, nodes, dropped>>

Init ==
    /\ lockedBy = None
    /\ queue = <<>>
    /\ drain = [a \in Advisors |-> NoDrain]
    /\ turn = [c \in Cards |-> "new"]
    /\ nodes = <<>>
    /\ dropped = {} /\ lost = {} /\ crashes = 0

Drain(a) == DrainPop(a) \/ Admitted(a) \/ Refused(a) \/ ReplayAdd(a)
Turn(c)  == Enqueue(c) \/ Check(c) \/ Add(c)

Next ==
    \/ \E a \in Advisors : Acquire(a) \/ Release(a) \/ Drain(a)
    \/ \E c \in Cards : Propose(c) \/ Turn(c)
    \/ Crash

Spec == Init /\ [][Next]_vars

\* The event loop runs every coroutine; nothing makes an advisor release the lock.
LiveSpec == Spec /\ (\A a \in Advisors : WF_vars(Drain(a))) /\ (\A c \in Cards : WF_vars(Turn(c)))

-----------------------------------------------------------------------------
(* Properties. *)

\* Every variable stays within the states the code can produce.
TypeOK ==
    /\ lockedBy \in Advisors \cup {None}
    /\ queue \in Seq(Cards) /\ nodes \in Seq(Cards)
    /\ \A a \in Advisors : /\ drain[a].pc \in {"idle", "pop", "replay", "add"}
                           /\ drain[a].pending \in Seq(Cards)
                           /\ drain[a].pc \in {"replay", "add"} => drain[a].pending # <<>>
    /\ turn \in [Cards -> {"new", "enqueue", "check", "add", "done"}]
    /\ dropped \subseteq Cards /\ lost \subseteq Cards
    /\ crashes \in 0..MaxCrashes

\* No card is lost and none is added twice, however many drains and turns overlap: a card becomes one
\* node at most, and once its turn is over it is a node, waits for its replay, or was refused or lost with
\* a log line.  One entry that fails never takes the rest of the queue with it.
EachCardOnce ==
    /\ \A i, j \in DOMAIN nodes : nodes[i] = nodes[j] => i = j
    /\ \A c \in Cards : turn[c] = "done" => c \in Range(nodes) \cup Waiting \cup dropped \cup lost

\* A release request is answered, whatever other advisors and turns do.
DrainsEnd == \A a \in Advisors : drain[a] # NoDrain ~> drain[a] = NoDrain
=============================================================================
