-------------------------- MODULE ConversationsProofs --------------------------
(***************************************************************************)
(* The three kinds of conversation, for any number of people, cards, turns *)
(* and failures.                                                           *)
(*                                                                         *)
(* A card of the agent becomes one node at most and is never forgotten     *)
(* without a trace: it is in one place at a time.  Whoever opens the       *)
(* people's conversation about a trip, and however often, they talk in one *)
(* thread.  And what the concierge's page shows is what the service keeps, *)
(* each answer after its question: the service files a turn in one session *)
(* and says of it what it files, and the page follows what it was told.    *)
(***************************************************************************)
EXTENDS MCConversations, AgentChat, TLAPS

\* A sequence that holds each card once.
Once(s) == \A i, j \in DOMAIN s : s[i] = s[j] => i = j

\* A release request is a record with these fields, and has entries only while it replays them.
DrainShape ==
    /\ drain = [a \in Advisors |-> [pc |-> drain[a].pc, pending |-> drain[a].pending]]
    /\ \A a \in Advisors : drain[a].pc \notin {"replay", "add"} => drain[a].pending = <<>>

Pending(a) == Range(drain[a].pending)

\* A card is with its turn, queued, in the hands of one drain, or a node.
OnePlace ==
    /\ Once(nodes) /\ Once(queue) /\ \A a \in Advisors : Once(drain[a].pending)
    /\ \A c \in Cards : turn[c] # "done" =>
          c \notin Range(nodes) /\ c \notin Range(queue) /\ \A a \in Advisors : c \notin Pending(a)
    /\ \A c \in Range(nodes) : c \notin Range(queue) /\ \A a \in Advisors : c \notin Pending(a)
    /\ \A c \in Range(queue) : \A a \in Advisors : c \notin Pending(a)
    /\ \A a, b \in Advisors : \A c \in Pending(a) : c \in Pending(b) => a = b

\* What became of a card whose turn is over.
CardKept == \A c \in Cards : turn[c] = "done" =>
            \/ c \in Range(nodes) \/ c \in Range(queue) \/ c \in dropped \/ c \in lost
            \/ \E a \in Advisors : c \in Pending(a)

QueueInv == Q!TypeOK /\ DrainShape /\ OnePlace /\ CardKept

-----------------------------------------------------------------------------
(* Sequences of cards. *)

LEMMA WaitingCards == Q!Waiting = Range(queue) \cup UNION {Pending(a) : a \in Advisors}
BY DEF Q!Waiting, Q!Range, Pending, Range

LEMMA EmptyRange == Range(<<>>) = {} /\ Once(<<>>)
BY DEF Range, Once

LEMMA AppendRange ==
    ASSUME NEW S, NEW s \in Seq(S), NEW c \in S
    PROVE  /\ Append(s, c) \in Seq(S)
           /\ Range(Append(s, c)) = Range(s) \cup {c}
           /\ Once(s) /\ c \notin Range(s) => Once(Append(s, c))
<1>1. /\ Append(s, c) \in Seq(S) /\ DOMAIN Append(s, c) = 1..(Len(s) + 1) /\ DOMAIN s = 1..Len(s)
      /\ Append(s, c)[Len(s) + 1] = c /\ \A i \in 1..Len(s) : Append(s, c)[i] = s[i]
    OBVIOUS
<1>2. Range(Append(s, c)) = Range(s) \cup {c}
    BY <1>1 DEF Range
<1>3. Once(s) /\ c \notin Range(s) => Once(Append(s, c))
    BY <1>1 DEF Range, Once
<1>4. QED
    BY <1>1, <1>2, <1>3

LEMMA HeadTail ==
    ASSUME NEW S, NEW s \in Seq(S), s # <<>>
    PROVE  /\ Head(s) \in S /\ Tail(s) \in Seq(S) /\ (Len(s) # 1 => Tail(s) # <<>>)
           /\ Range(s) = Range(Tail(s)) \cup {Head(s)}
           /\ Len(s) = 1 => Range(Tail(s)) = {}
           /\ Once(s) => Once(Tail(s)) /\ Head(s) \notin Range(Tail(s))
<1>1. /\ Len(s) \in Nat /\ Len(s) > 0 /\ DOMAIN s = 1..Len(s)
      /\ Head(s) \in S /\ Head(s) = s[1]
      /\ Tail(s) \in Seq(S) /\ DOMAIN Tail(s) = 1..(Len(s) - 1) /\ Len(Tail(s)) = Len(s) - 1
      /\ \A i \in 1..(Len(s) - 1) : Tail(s)[i] = s[i + 1]
    OBVIOUS
<1>2. Len(s) # 1 => Tail(s) # <<>>
    <2>1. Len(<<>>) = 0
        OBVIOUS
    <2>2. SUFFICES ASSUME Tail(s) = <<>> PROVE Len(s) = 1
        OBVIOUS
    <2>3. Len(Tail(s)) = 0
        BY <2>1, <2>2
    <2>4. Len(s) \in Nat /\ Len(Tail(s)) = Len(s) - 1
        BY <1>1
    <2>5. QED
        BY ONLY <2>3, <2>4, SMT
<1>3. Range(s) = Range(Tail(s)) \cup {Head(s)}
    <2>1. ASSUME NEW c \in Range(s) PROVE c \in Range(Tail(s)) \cup {Head(s)}
        <3>1. PICK i \in 1..Len(s) : s[i] = c
            BY <1>1 DEF Range
        <3>2. CASE i = 1
            BY <1>1, <3>1, <3>2
        <3>3. CASE i # 1
            <4>1. i - 1 \in 1..(Len(s) - 1) /\ Tail(s)[i - 1] = c
                BY <1>1, <3>1, <3>3
            <4>2. QED
                BY <1>1, <4>1 DEF Range
        <3>4. QED
            BY <3>2, <3>3
    <2>2. ASSUME NEW c \in Range(Tail(s)) \cup {Head(s)} PROVE c \in Range(s)
        BY <1>1 DEF Range
    <2>3. QED
        BY <2>1, <2>2
<1>4. Len(s) = 1 => Range(Tail(s)) = {}
    BY <1>1 DEF Range
<1>5. Once(s) => Once(Tail(s)) /\ Head(s) \notin Range(Tail(s))
    BY <1>1 DEF Once, Range
<1>6. QED
    BY <1>1, <1>2, <1>3, <1>4, <1>5

-----------------------------------------------------------------------------
(* Steps that move no card. *)

LEMMA InitQueueInv == Q!Init => QueueInv
<1> SUFFICES ASSUME Q!Init PROVE QueueInv
    OBVIOUS
<1>1. Q!TypeOK
    <2>1. <<>> \in Seq(Cards)
        OBVIOUS
    <2>2. 0 \in 0..MaxCrashes
        BY WriteQueueAssumption
    <2>3. \A a \in Advisors : drain[a].pc = "idle" /\ drain[a].pending = <<>>
        BY DEF Q!Init, Q!NoDrain
    <2>4. QED
        BY <2>1, <2>2, <2>3 DEF Q!Init, Q!TypeOK
<1>2. DrainShape
    BY DEF Q!Init, DrainShape, Q!NoDrain
<1>3. OnePlace
    BY EmptyRange DEF Q!Init, OnePlace, Pending, Q!NoDrain
<1>4. CardKept
    BY DEF Q!Init, CardKept
<1>5. QED
    BY <1>1, <1>2, <1>3, <1>4 DEF QueueInv

\* Where the cards are does not change; a turn that goes on is still no card's end.
LEMMA NoCardMoves ==
    ASSUME OnePlace, CardKept, UNCHANGED <<queue, nodes, lost>>, dropped \subseteq dropped',
           \A a \in Advisors : drain'[a].pending = drain[a].pending,
           \A c \in Cards : turn[c] = "done" => turn'[c] = "done",
           \A c \in Cards : turn'[c] = "done" => turn[c] = "done" \/ c \in dropped'
    PROVE  OnePlace' /\ CardKept'
<1>1. \A a \in Advisors : Pending(a)' = Pending(a)
    BY DEF Pending
<1>2. OnePlace'
    BY <1>1 DEF OnePlace
<1>3. CardKept'
    BY <1>1 DEF CardKept
<1>4. QED
    BY <1>2, <1>3

LEMMA AdvisorKeepsQueueInv ==
    ASSUME QueueInv, NEW a \in Advisors, Q!Acquire(a) \/ Q!Release(a) \/ Q!Admitted(a)
    PROVE  QueueInv'
<1>1. Q!TypeOK'
    BY DEF QueueInv, Q!TypeOK, DrainShape, Q!Acquire, Q!Release, Q!Admitted, Q!NoDrain
<1>2. DrainShape'
    <2>1. CASE UNCHANGED drain
        BY <2>1 DEF QueueInv, DrainShape
    <2>2. ASSUME NEW pc, drain' = [drain EXCEPT ![a].pc = pc],
                 pc \in {"replay", "add"} \/ drain[a].pending = <<>>
          PROVE  DrainShape'
        BY <2>2 DEF QueueInv, DrainShape
    <2>3. Q!Release(a) => drain[a].pending = <<>>
        BY DEF Q!Release, Q!NoDrain
    <2>4. QED
        BY <2>1, <2>2, <2>3 DEF Q!Acquire, Q!Release, Q!Admitted
<1>3. \A b \in Advisors : drain'[b].pending = drain[b].pending
    BY DEF QueueInv, DrainShape, Q!Acquire, Q!Release, Q!Admitted, Q!NoDrain
<1>4. UNCHANGED <<queue, nodes, lost, dropped, turn>>
    BY DEF Q!Acquire, Q!Release, Q!Admitted
<1>5. OnePlace' /\ CardKept'
    BY <1>3, <1>4, NoCardMoves DEF QueueInv
<1>6. QED
    BY <1>1, <1>2, <1>5 DEF QueueInv

LEMMA TurnKeepsQueueInv ==
    ASSUME QueueInv, NEW c \in Cards, Q!Propose(c) \/ Q!Check(c)
    PROVE  QueueInv'
<1>1. Q!TypeOK'
    BY DEF QueueInv, Q!TypeOK, Q!Propose, Q!Check, Q!To
<1>2. DrainShape'
    BY DEF QueueInv, DrainShape, Q!Propose, Q!Check, Q!To
<1>3. /\ UNCHANGED <<queue, nodes, lost, drain>> /\ dropped \subseteq dropped'
      /\ \A d \in Cards : turn[d] = "done" => turn'[d] = "done"
      /\ \A d \in Cards : turn'[d] = "done" => turn[d] = "done" \/ d \in dropped'
    BY DEF QueueInv, Q!TypeOK, Q!Propose, Q!Check, Q!To
<1>4. OnePlace' /\ CardKept'
    BY <1>3, NoCardMoves DEF QueueInv
<1>5. QED
    BY <1>1, <1>2, <1>4 DEF QueueInv

-----------------------------------------------------------------------------
(* Steps that move a card. *)

LEMMA EnqueueKeepsQueueInv ==
    ASSUME QueueInv, NEW c \in Cards, Q!Enqueue(c)
    PROVE  QueueInv'
<1>1. /\ turn[c] = "enqueue" /\ turn' = [turn EXCEPT ![c] = "done"] /\ queue' = Append(queue, c)
      /\ UNCHANGED <<lockedBy, drain, nodes, dropped, lost, crashes>>
    BY DEF Q!Enqueue, Q!To
<1>2. /\ queue' \in Seq(Cards) /\ Range(queue') = Range(queue) \cup {c} /\ Once(queue')
    BY <1>1, AppendRange DEF QueueInv, Q!TypeOK, OnePlace
<1>3. \A a \in Advisors : Pending(a)' = Pending(a)
    BY <1>1 DEF Pending
<1>4. \A d \in Cards : turn'[d] = IF d = c THEN "done" ELSE turn[d]
    BY <1>1 DEF QueueInv, Q!TypeOK
<1>5. Q!TypeOK' /\ DrainShape'
    BY <1>1, <1>2 DEF QueueInv, Q!TypeOK, DrainShape
<1>6. OnePlace'
    BY <1>1, <1>2, <1>3, <1>4 DEF QueueInv, OnePlace
<1>7. CardKept'
    BY <1>1, <1>2, <1>3, <1>4 DEF QueueInv, CardKept
<1>8. QED
    BY <1>5, <1>6, <1>7 DEF QueueInv

LEMMA AddKeepsQueueInv ==
    ASSUME QueueInv, NEW c \in Cards, Q!Add(c)
    PROVE  QueueInv'
<1>1. /\ turn[c] = "add" /\ turn' = [turn EXCEPT ![c] = "done"] /\ nodes' = Append(nodes, c)
      /\ UNCHANGED <<lockedBy, queue, drain, dropped, lost, crashes>>
    BY DEF Q!Add, Q!To
<1>2. /\ nodes' \in Seq(Cards) /\ Range(nodes') = Range(nodes) \cup {c} /\ Once(nodes')
    BY <1>1, AppendRange DEF QueueInv, Q!TypeOK, OnePlace
<1>3. \A a \in Advisors : Pending(a)' = Pending(a)
    BY <1>1 DEF Pending
<1>4. \A d \in Cards : turn'[d] = IF d = c THEN "done" ELSE turn[d]
    BY <1>1 DEF QueueInv, Q!TypeOK
<1>5. Q!TypeOK' /\ DrainShape'
    BY <1>1, <1>2 DEF QueueInv, Q!TypeOK, DrainShape
<1>6. OnePlace'
    BY <1>1, <1>2, <1>3, <1>4 DEF QueueInv, OnePlace
<1>7. CardKept'
    BY <1>1, <1>2, <1>3, <1>4 DEF QueueInv, CardKept
<1>8. QED
    BY <1>5, <1>6, <1>7 DEF QueueInv

\* The whole queue changes hands; a drain that pops has nothing in its own.
LEMMA DrainPopKeepsQueueInv ==
    ASSUME QueueInv, NEW a \in Advisors, Q!DrainPop(a)
    PROVE  QueueInv'
<1>1. /\ queue' = <<>> /\ UNCHANGED <<lockedBy, turn, nodes, dropped, lost, crashes>>
      /\ \A b \in Advisors : b # a => drain'[b] = drain[b]
      /\ drain[a].pending = <<>> /\ drain'[a].pending = queue
      /\ drain'[a].pc = IF queue = <<>> THEN "idle" ELSE "replay"
    BY DEF Q!DrainPop, QueueInv, DrainShape, Q!NoDrain
<1>2. DrainShape'
    BY DEF Q!DrainPop, QueueInv, DrainShape, Q!NoDrain
<1>3. Q!TypeOK'
    BY <1>1 DEF QueueInv, Q!TypeOK
<1>4. /\ Range(queue') = {} /\ Once(queue') /\ Pending(a) = {} /\ Pending(a)' = Range(queue)
      /\ \A b \in Advisors : b # a => Pending(b)' = Pending(b)
    BY <1>1, EmptyRange DEF Pending
<1>5. OnePlace'
    BY <1>1, <1>4 DEF QueueInv, OnePlace
<1>6. CardKept'
    BY <1>1, <1>4 DEF QueueInv, CardKept
<1>7. QED
    BY <1>2, <1>3, <1>5, <1>6 DEF QueueInv

\* The head of the entries leaves the drain's hands, to a log line or to a node.
LEMMA EntryEffect ==
    ASSUME QueueInv, NEW a \in Advisors, drain[a].pc \in {"replay", "add"}, Q!NextEntry(a)
    PROVE  /\ Head(drain[a].pending) \in Cards /\ Head(drain[a].pending) \in Pending(a)
           /\ DrainShape' /\ \A b \in Advisors : b # a => drain'[b] = drain[b]
           /\ drain'[a].pending \in Seq(Cards) /\ drain'[a].pc \in {"idle", "replay"}
           /\ drain'[a].pc = "replay" => drain'[a].pending # <<>>
           /\ Once(drain'[a].pending) /\ Pending(a)' = Pending(a) \ {Head(drain[a].pending)}
           /\ \A b \in Advisors : b # a => Pending(b)' = Pending(b)
<1> DEFINE s == drain[a].pending
<1>1. s \in Seq(Cards) /\ s # <<>> /\ Once(s)
    BY DEF QueueInv, Q!TypeOK, OnePlace
<1>2. /\ \A b \in Advisors : b # a => drain'[b] = drain[b]
      /\ drain'[a] = IF Len(s) = 1 THEN Q!NoDrain ELSE [pc |-> "replay", pending |-> Tail(s)]
    BY DEF Q!NextEntry, QueueInv, DrainShape
<1>3. DrainShape'
    BY DEF Q!NextEntry, QueueInv, DrainShape, Q!NoDrain
<1> HIDE DEF s
<1>4. /\ Head(s) \in Cards /\ Tail(s) \in Seq(Cards) /\ (Len(s) # 1 => Tail(s) # <<>>)
      /\ Range(s) = Range(Tail(s)) \cup {Head(s)} /\ (Len(s) = 1 => Range(Tail(s)) = {})
      /\ Once(Tail(s)) /\ Head(s) \notin Range(Tail(s))
    BY <1>1, HeadTail
<1>5. /\ drain'[a].pending \in Seq(Cards) /\ drain'[a].pc \in {"idle", "replay"}
      /\ drain'[a].pc = "replay" => drain'[a].pending # <<>>
      /\ Once(drain'[a].pending) /\ Range(drain'[a].pending) = Range(Tail(s))
    <2>1. CASE Len(s) = 1
        <3>1. drain'[a].pc = "idle" /\ drain'[a].pending = <<>>
            BY <1>2, <2>1 DEF Q!NoDrain
        <3>2. <<>> \in Seq(Cards)
            OBVIOUS
        <3>3. QED
            BY <1>4, <2>1, <3>1, <3>2, EmptyRange
    <2>2. CASE Len(s) # 1
        <3>1. drain'[a].pc = "replay" /\ drain'[a].pending = Tail(s)
            BY <1>2, <2>2
        <3>2. QED
            BY <1>4, <2>2, <3>1
    <2>3. QED
        BY <2>1, <2>2
<1>6. Pending(a) = Range(s) /\ Pending(a)' = Range(drain'[a].pending)
    BY DEF Pending, s
<1>7. \A b \in Advisors : b # a => Pending(b)' = Pending(b)
    BY <1>2 DEF Pending
<1>8. QED
    BY <1>2, <1>3, <1>4, <1>5, <1>6, <1>7 DEF s

LEMMA RefusedKeepsQueueInv ==
    ASSUME QueueInv, NEW a \in Advisors, Q!Refused(a)
    PROVE  QueueInv'
<1> DEFINE c == Head(drain[a].pending)
<1>1. /\ drain[a].pc = "replay" /\ dropped' = dropped \cup {c} /\ Q!NextEntry(a)
      /\ UNCHANGED <<lockedBy, queue, turn, nodes, lost, crashes>>
    BY DEF Q!Refused
<1>2. /\ c \in Cards /\ c \in Pending(a) /\ DrainShape'
      /\ \A b \in Advisors : b # a => drain'[b] = drain[b]
      /\ drain'[a].pending \in Seq(Cards) /\ drain'[a].pc \in {"idle", "replay"}
      /\ drain'[a].pc = "replay" => drain'[a].pending # <<>>
      /\ Once(drain'[a].pending) /\ Pending(a)' = Pending(a) \ {c}
      /\ \A b \in Advisors : b # a => Pending(b)' = Pending(b)
    BY <1>1, EntryEffect
<1> HIDE DEF c
<1>3. Q!TypeOK'
    BY <1>1, <1>2 DEF QueueInv, Q!TypeOK
<1>4. OnePlace'
    BY <1>1, <1>2 DEF QueueInv, OnePlace
<1>5. CardKept'
    BY <1>1, <1>2 DEF QueueInv, CardKept
<1>6. QED
    BY <1>2, <1>3, <1>4, <1>5 DEF QueueInv

LEMMA ReplayAddKeepsQueueInv ==
    ASSUME QueueInv, NEW a \in Advisors, Q!ReplayAdd(a)
    PROVE  QueueInv'
<1> DEFINE c == Head(drain[a].pending)
<1>1. /\ drain[a].pc = "add" /\ nodes' = Append(nodes, c) /\ Q!NextEntry(a)
      /\ UNCHANGED <<lockedBy, queue, turn, dropped, lost, crashes>>
    BY DEF Q!ReplayAdd
<1>2. /\ c \in Cards /\ c \in Pending(a) /\ DrainShape'
      /\ \A b \in Advisors : b # a => drain'[b] = drain[b]
      /\ drain'[a].pending \in Seq(Cards) /\ drain'[a].pc \in {"idle", "replay"}
      /\ drain'[a].pc = "replay" => drain'[a].pending # <<>>
      /\ Once(drain'[a].pending) /\ Pending(a)' = Pending(a) \ {c}
      /\ \A b \in Advisors : b # a => Pending(b)' = Pending(b)
    BY <1>1, EntryEffect
<1> HIDE DEF c
<1>3. c \notin Range(nodes)
    BY <1>2 DEF QueueInv, OnePlace
<1>4. nodes' \in Seq(Cards) /\ Range(nodes') = Range(nodes) \cup {c} /\ Once(nodes')
    BY <1>1, <1>2, <1>3, AppendRange DEF QueueInv, Q!TypeOK, OnePlace
<1>5. Q!TypeOK'
    BY <1>1, <1>2, <1>4 DEF QueueInv, Q!TypeOK
<1>6. OnePlace'
    BY <1>1, <1>2, <1>4 DEF QueueInv, OnePlace
<1>7. CardKept'
    BY <1>1, <1>2, <1>4 DEF QueueInv, CardKept
<1>8. QED
    BY <1>2, <1>5, <1>6, <1>7 DEF QueueInv

\* A restart forgets what waits and what is under way, and lost keeps track of both.
LEMMA CrashKeepsQueueInv ==
    ASSUME QueueInv, Q!Crash
    PROVE  QueueInv'
<1>1. /\ queue' = <<>> /\ UNCHANGED <<lockedBy, nodes, dropped>> /\ crashes < MaxCrashes
      /\ crashes' = crashes + 1 /\ drain' = [a \in Advisors |-> Q!NoDrain]
      /\ turn' = [c \in Cards |-> IF Q!Underway(c) THEN "done" ELSE turn[c]]
      /\ lost' = lost \cup Q!Waiting \cup {c \in Cards : Q!Underway(c)}
    BY DEF Q!Crash
<1>2. /\ \A a \in Advisors : /\ drain'[a].pc = "idle" /\ drain'[a].pending = <<>>
                              /\ drain'[a] = [pc |-> drain'[a].pc, pending |-> drain'[a].pending]
      /\ DOMAIN drain' = Advisors
    BY <1>1 DEF Q!NoDrain
<1>3. DrainShape'
    BY <1>1 DEF DrainShape, Q!NoDrain
<1>4. Q!Waiting \subseteq Cards
    BY WaitingCards DEF QueueInv, Q!TypeOK, Pending, Range
<1>5. Q!TypeOK'
    <2>1. <<>> \in Seq(Cards)
        OBVIOUS
    <2>2. lost' \subseteq Cards
        BY <1>1, <1>4 DEF QueueInv, Q!TypeOK
    <2>3. crashes' \in 0..MaxCrashes
        BY <1>1, WriteQueueAssumption DEF QueueInv, Q!TypeOK
    <2>4. turn' \in [Cards -> {"new", "enqueue", "check", "add", "done"}]
        BY <1>1 DEF QueueInv, Q!TypeOK
    <2>5. QED
        BY <1>1, <1>2, <2>1, <2>2, <2>3, <2>4 DEF QueueInv, Q!TypeOK
<1>6. /\ Range(queue') = {} /\ Once(queue')
      /\ \A a \in Advisors : Pending(a)' = {} /\ Once(drain'[a].pending)
    BY <1>1, <1>2, EmptyRange DEF Pending
<1>7. OnePlace'
    BY <1>1, <1>6 DEF QueueInv, OnePlace
<1>8. \A c \in Range(queue) : c \in lost'
    BY <1>1, WaitingCards
<1>9. \A a \in Advisors : \A c \in Pending(a) : c \in lost'
    BY <1>1, WaitingCards
<1>10. CardKept'
    <2>1. ASSUME NEW c \in Cards, turn'[c] = "done"
          PROVE  c \in Range(nodes') \/ c \in dropped' \/ c \in lost'
        BY <1>1, <1>8, <1>9, <2>1 DEF QueueInv, CardKept
    <2>2. QED
        BY <2>1 DEF CardKept
<1>11. QED
    BY <1>3, <1>5, <1>7, <1>10 DEF QueueInv

-----------------------------------------------------------------------------
LEMMA NextQueueInv == QueueInv /\ [Q!Next]_Q!vars => QueueInv'
<1> SUFFICES ASSUME QueueInv, [Q!Next]_Q!vars PROVE QueueInv'
    OBVIOUS
<1>1. CASE UNCHANGED Q!vars
    BY <1>1 DEF Q!vars, QueueInv, Q!TypeOK, DrainShape, OnePlace, CardKept, Pending
<1>2. ASSUME NEW a \in Advisors, Q!Acquire(a) \/ Q!Release(a) \/ Q!Drain(a) PROVE QueueInv'
    BY <1>2, AdvisorKeepsQueueInv, DrainPopKeepsQueueInv, RefusedKeepsQueueInv,
       ReplayAddKeepsQueueInv DEF Q!Drain
<1>3. ASSUME NEW c \in Cards, Q!Propose(c) \/ Q!Turn(c) PROVE QueueInv'
    BY <1>3, TurnKeepsQueueInv, EnqueueKeepsQueueInv, AddKeepsQueueInv DEF Q!Turn
<1>4. QED
    BY <1>1, <1>2, <1>3, CrashKeepsQueueInv DEF Q!Next

\* Every variable stays within the states the code can produce: a drain that replays has an entry to
\* replay, whoever else drains or queues meanwhile.
THEOREM WriteQueueTypeOK == Q!Spec => []Q!TypeOK
BY InitQueueInv, NextQueueInv, PTL DEF Q!Spec, QueueInv

\* Whatever drains, turns, refusals and restarts overlap, a card becomes one node at most, and once its
\* turn is over it is a node, waits for its replay, or was refused or lost with a log line.
THEOREM WriteQueueEachCardOnce == Q!Spec => []EachCardOnce
<1>1. QueueInv => EachCardOnce
    <2> SUFFICES ASSUME QueueInv PROVE EachCardOnce
        OBVIOUS
    <2>1. \A i, j \in DOMAIN nodes : nodes[i] = nodes[j] => i = j
        BY DEF QueueInv, OnePlace, Once
    <2>2. \A c \in Range(queue) : c \in Q!Waiting
        BY WaitingCards
    <2>3. \A a \in Advisors : \A c \in Pending(a) : c \in Q!Waiting
        BY WaitingCards
    <2>4. QED
        BY <2>1, <2>2, <2>3 DEF QueueInv, CardKept, EachCardOnce, Q!EachCardOnce, Q!Range, Range
<1>2. QED
    BY <1>1, InitQueueInv, NextQueueInv, PTL DEF Q!Spec

-----------------------------------------------------------------------------
(* The people's thread.                                                  *)

CallFields == {"viewer", "op", "stage", "id", "thread", "summoning", "count", "got"}

IsCall(c) == c = [f \in CallFields |-> c[f]]

\* The trip has one thread at most, and whoever has found or made one has that one.
ThreadInv ==
    /\ threads = <<>> \/ \E list : threads = <<list>>
    /\ feed \in [Viewers -> {0, 1}]
    /\ \A c \in posts : IsCall(c) /\ (c.op = "open" /\ c.stage = "ok" => c.thread = 1)

\* A message goes onto a thread.
LEMMA ThreadGrows ==
    ASSUME threads = <<>> \/ \E list : threads = <<list>>, NEW k, NEW list,
           threads' = [threads EXCEPT ![k] = list]
    PROVE  threads' = <<>> \/ \E l : threads' = <<l>>
<1>1. CASE threads = <<>>
    BY <1>1
<1>2. ASSUME NEW old, threads = <<old>> PROVE threads' = <<list>> \/ threads' = <<old>>
    BY <1>2
<1>3. QED
    BY <1>1, <1>2

\* A call that is under way becomes another, or new ones go out.
LEMMA CallsMove ==
    ASSUME ThreadInv, UNCHANGED <<threads, feed>>,
           \A d \in posts' : d \in posts \/ (IsCall(d) /\ d.op # "open")
    PROVE  ThreadInv'
BY DEF ThreadInv, IsCall, CallFields

LEMMA PersonKeepsThreadInv == ASSUME ThreadInv, NEW v \in Viewers, T!Person(v) PROVE ThreadInv'
<1>1. CASE T!mount(v)
    <2> DEFINE new == [T!Call EXCEPT !.viewer = v]
    <2>1. posts' = posts \cup {new} /\ UNCHANGED <<threads, feed>>
        BY <1>1 DEF T!mount, T!server
    <2>2. IsCall(new) /\ new.stage = "sent"
        BY DEF T!Call, IsCall, CallFields
    <2> HIDE DEF new
    <2> QED
        BY <2>1, <2>2 DEF ThreadInv, IsCall, CallFields
<1>2. CASE T!unmount(v)
    <2> DEFINE left(c) == IF c.viewer = v THEN [c EXCEPT !.op = "orphan"] ELSE c
    <2>1. /\ posts' = {left(c) : c \in {d \in posts : d.viewer # v \/ d.op = "orphan" \/ (d.op = "send" /\ d.stage = "sent")}}
          /\ threads' = threads /\ feed' = [feed EXCEPT ![v] = 0]
        BY <1>2 DEF T!unmount, T!server
    <2>2. \A c \in posts : IsCall(left(c)) /\ (left(c) = c \/ left(c).op = "orphan")
        BY DEF ThreadInv, IsCall, CallFields
    <2> HIDE DEF left
    <2>3. \A d \in posts' : d \in posts \/ (IsCall(d) /\ d.op = "orphan")
        BY <2>1, <2>2
    <2> QED
        BY <2>1, <2>3 DEF ThreadInv, IsCall, CallFields
<1>3. ASSUME NEW summoning \in BOOLEAN, T!send(v, summoning) PROVE ThreadInv'
    <2> DEFINE count == T!artemisCount(messages[v])
               new == [T!Call EXCEPT !.viewer = v, !.op = "send", !.thread = feed[v], !.id = sent + 1,
                                     !.summoning = summoning, !.count = count]
    <2>1. posts' = posts \cup {new} /\ UNCHANGED <<threads, feed>>
        BY <1>3 DEF T!send, T!server
    <2> HIDE DEF count
    <2>2. IsCall(new) /\ new.op = "send"
        BY DEF T!Call, IsCall, CallFields
    <2> HIDE DEF new
    <2> QED
        BY <2>1, <2>2, CallsMove
<1>4. QED
    BY <1>1, <1>2, <1>3 DEF T!Person

\* A thread is looked up, made by the first who found none, and written to.
LEMMA ServiceKeepsThreadInv == ASSUME ThreadInv, NEW c \in posts, T!Serve(c) PROVE ThreadInv'
<1>0. IsCall(c)
    BY DEF ThreadInv
<1>1. CASE T!LookUp(c)
    <2> DEFINE stage == IF threads = <<>> THEN "absent" ELSE "ok"
               new == [c EXCEPT !.stage = stage, !.thread = Len(threads)]
    <2>1. posts' = (posts \ {c}) \cup {new} /\ UNCHANGED <<threads, feed>>
        BY <1>1 DEF T!LookUp, T!Served, T!Replaces, T!server, T!page
    <2>2. stage = "ok" => Len(threads) = 1
        BY DEF ThreadInv
    <2> HIDE DEF stage
    <2>3. IsCall(new) /\ (new.stage = "ok" => new.thread = 1)
        BY <1>0, <2>2 DEF IsCall, CallFields
    <2> HIDE DEF new
    <2> QED
        BY <2>1, <2>3 DEF ThreadInv, IsCall, CallFields
<1>2. CASE T!open_or_create_human_thread(c)
    <2> DEFINE new == [c EXCEPT !.stage = "ok", !.thread = 1]
    <2>1. /\ posts' = (posts \ {c}) \cup {new} /\ feed' = feed
          /\ threads' = IF threads = <<>> THEN <<<<>>>> ELSE threads
        BY <1>2 DEF T!open_or_create_human_thread, T!Served, T!Replaces, T!page
    <2>2. IsCall(new) /\ new.thread = 1
        BY <1>0 DEF IsCall, CallFields
    <2> HIDE DEF new
    <2> QED
        BY <2>1, <2>2 DEF ThreadInv, IsCall, CallFields
<1>3. CASE T!send_message(c)
    <2> DEFINE list == Append(threads[c.thread], [id |-> c.id, by |-> c.viewer])
               new == [c EXCEPT !.stage = "ok"]
    <2>1. /\ threads' = [threads EXCEPT ![c.thread] = list] /\ feed' = feed
          /\ posts' \subseteq (posts \ {c}) \cup {new} /\ (c.op = "orphan" => posts' = posts \ {c})
          /\ c.op \in {"send", "orphan"}
        BY <1>3 DEF T!send_message, T!page
    <2> HIDE DEF list
    <2>2. IsCall(new) /\ new.op = c.op
        BY <1>0 DEF IsCall, CallFields
    <2> HIDE DEF new
    <2>3. threads' = <<>> \/ \E l : threads' = <<l>>
        BY <2>1, ThreadGrows DEF ThreadInv
    <2> QED
        BY <2>1, <2>2, <2>3 DEF ThreadInv, IsCall, CallFields
<1>4. QED
    BY <1>1, <1>2, <1>3 DEF T!Serve

LEMMA AnswerKeepsThreadInv == ASSUME ThreadInv, NEW c \in posts, T!Answer(c) \/ T!Fails(c) PROVE ThreadInv'
<1>1. CASE T!Opened(c)
    <2> DEFINE new == [c EXCEPT !.op = "load", !.stage = "sent"]
    <2>1. /\ posts' = (posts \ {c}) \cup {new} /\ threads' = threads
          /\ feed' = [feed EXCEPT ![c.viewer] = c.thread] /\ c.thread = 1
        BY <1>1 DEF T!Opened, T!Replaces, T!server, ThreadInv
    <2>2. IsCall(new) /\ new.op = "load"
        BY DEF ThreadInv, IsCall, CallFields
    <2> HIDE DEF new
    <2> QED
        BY <2>1, <2>2 DEF ThreadInv, IsCall, CallFields
<1>2. CASE T!Loaded(c) \/ T!Listed(c) \/ T!Sent(c) \/ T!Fails(c)
    <2>1. posts' = posts \ {c} /\ UNCHANGED <<threads, feed>>
        BY <1>2 DEF T!Loaded, T!Listed, T!Sent, T!Fails, T!server
    <2> QED
        BY <2>1, CallsMove
<1>3. QED
    BY <1>1, <1>2 DEF T!Answer

LEMMA RestKeepsThreadInv ==
    ASSUME ThreadInv,
           \/ \E v \in Viewers : T!pollAnswered(v) \/ T!poll(v) \/ T!TimeOut(v)
           \/ \E s \in summons : \E answers \in BOOLEAN : T!summon_artemis_in_thread(s, answers)
    PROVE  ThreadInv'
<1>1. ASSUME NEW v \in Viewers, T!pollAnswered(v) \/ T!TimeOut(v) PROVE ThreadInv'
    BY <1>1, CallsMove DEF T!pollAnswered, T!TimeOut, T!server
<1>2. ASSUME NEW v \in Viewers, T!poll(v) PROVE ThreadInv'
    <2> DEFINE list == T!list_messages(v)
               new == [T!Call EXCEPT !.viewer = v, !.op = "poll", !.stage = "ok", !.got = list]
    <2>1. posts' = posts \cup {new} /\ UNCHANGED <<threads, feed>>
        BY <1>2 DEF T!poll, T!server, T!page
    <2> HIDE DEF list
    <2>2. IsCall(new) /\ new.op = "poll"
        BY DEF T!Call, IsCall, CallFields
    <2> HIDE DEF new
    <2> QED
        BY <2>1, <2>2, CallsMove
<1>3. ASSUME NEW s \in summons, NEW answers \in BOOLEAN, T!summon_artemis_in_thread(s, answers) PROVE ThreadInv'
    <2> DEFINE list == Append(threads[s[1]], [id |-> s[2], by |-> "artemis"])
    <2>1. /\ threads' = threads \/ threads' = [threads EXCEPT ![s[1]] = list]
          /\ UNCHANGED <<feed, posts>>
        BY <1>3 DEF T!summon_artemis_in_thread, T!page
    <2> HIDE DEF list
    <2>2. threads' = <<>> \/ \E l : threads' = <<l>>
        BY <2>1, ThreadGrows DEF ThreadInv
    <2> QED
        BY <2>1, <2>2 DEF ThreadInv, IsCall, CallFields
<1>4. QED
    BY <1>1, <1>2, <1>3

LEMMA NextThreadInv == ThreadInv /\ [ConversationsNext]_all => ThreadInv'
<1> SUFFICES ASSUME ThreadInv, [ConversationsNext]_all PROVE ThreadInv'
    OBVIOUS
<1>1. CASE T!Next
    BY <1>1, PersonKeepsThreadInv, ServiceKeepsThreadInv, AnswerKeepsThreadInv, RestKeepsThreadInv DEF T!Next
<1>2. CASE UNCHANGED people
    BY <1>2 DEF people, ThreadInv, IsCall, CallFields
<1>3. QED
    BY <1>1, <1>2 DEF ConversationsNext, Agent, Talk, all

\* The pages of a trip talk in one thread, although each may have found none and made one, left and come
\* back: for any number of people, and whatever calls fail.
THEOREM ConversationsSameThread == ConversationsSpec => []SameThread
<1>1. ConversationsInit => ThreadInv
    BY DEF ConversationsInit, T!Init, ThreadInv
<1>2. ThreadInv => SameThread
    BY DEF ThreadInv, SameThread, T!SameThread
<1>3. QED
    BY <1>1, <1>2, NextThreadInv, PTL DEF ConversationsSpec

-----------------------------------------------------------------------------
(* The service's turns.                                                    *)

Roles == {"user", "assistant", "error"}
RowSet == [role : Roles, of : Nat]

Placed == {"running", "speaking", "answered", "failed"}
Served == Placed \cup {"none", "posted", "blank", "refused", "saved", "lost", "dropped"}
Asks == {"opening", "reading", "over", "away", "orphan"}
TurnSet == [at : Sessions \cup {None}, ask : Asks, serve : Served,
            place : Nat, frames : Seq({"delta", "done", "error"}), up : BOOLEAN]

ThreadFields == {"key", "active", "listing", "renewing", "archiving", "clicks"}

\* A message that was saved stays in its place until its answer is.
Standing(c) ==
  /\ turns[c].serve \in Placed \cup {"posted"} => turns[c].at \in 1..opened
  /\ turns[c].serve \in Placed => /\ turns[c].place \in DOMAIN rows[turns[c].at]
                                  /\ rows[turns[c].at][turns[c].place] = Row("user", c)

ServiceInv ==
  /\ opened \in 0..MaxSessions /\ live \in Seq(1..opened) /\ session \in (1..opened) \cup {None}
  /\ thread = [f \in ThreadFields |-> thread[f]] /\ thread.renewing \in (1..opened) \cup {None}
  /\ turns \in Seq(TurnSet) /\ \A c \in DOMAIN turns : Standing(c)
  /\ rows \in [Sessions -> Seq(RowSet)] /\ \A s \in Sessions : s > opened => rows[s] = <<>>
  /\ AnswersFollow

-----------------------------------------------------------------------------
(* What the page shows, while nothing parts it from the service.           *)

Apart == mishaps # {}

\* The turns the page shows, or will; of the others it only knows what a replay tells.
Mine == {c \in DOMAIN turns : turns[c].ask \in {"opening", "reading", "over"}}

\* Those the service has not finished.
Owed == UnderWay \cap Mine

\* The first touch is being closed in the middle of an answer.
Closing == dismissing /\ Stuck /\ Opening = {}

\* Only the concierge's column has a session list, and only the first touch is dismissed.
Columns ==
  /\ dismissing => surface = "prompt"
  /\ surface # "concierge" => /\ history = NoHistory
                              /\ ~thread.listing /\ thread.renewing = None /\ thread.archiving = None

BubbleSet == {b \in [role : Roles, of : Nat, says : SUBSET Nat] : b.says \subseteq {b.of}}

RowsOf(bubbles) == [i \in DOMAIN bubbles |-> Row(bubbles[i].role, bubbles[i].of)]

\* An answer on its way to the page, a good one or a failed one.
Good == {<<"delta", "done">>, <<"done">>}
Bad == {<<"delta", "error", "done">>, <<"error", "done">>}

Answered == {c \in Mine : turns[c].serve \in {"answered", "failed"}}
Posting == {c \in Mine : turns[c].serve = "posted"}
Ending == {c \in Reading : turns[c].frames \in Good \cup Bad}

AnswerRow(c) == Row(IF turns[c].serve = "failed" THEN "error" ELSE "assistant", c)
EndRow(c) == Row(IF turns[c].frames \in Bad THEN "error" ELSE "assistant", c)

With(rs, more) == IF more = {} THEN rs ELSE Append(rs, CHOOSE r \in more : TRUE)

\* The rows with the answer that is about to be saved, and with the message that is about to be.
AnswerRows == {AnswerRow(c) : c \in Answered}
PostedRows == {Row("user", c) : c \in Posting}
FiledAndSent == With(With(rows[session], AnswerRows), PostedRows)

\* The bubbles with the answer that is about to be shown.
EndRows == {EndRow(c) : c \in Ending}
Told == With(RowsOf(shown), EndRows)

\* The stream of the turn the page reads, as far as it has come.
Streams(c) ==
  /\ streaming = [of |-> c, says |-> streaming.says, kept |-> TRUE] /\ streaming.says \subseteq {c}
  /\ \/ turns[c].serve \in {"posted", "running"} /\ turns[c].frames = <<>>
     \/ turns[c].serve = "speaking" /\ turns[c].frames \in {<<>>, <<"delta">>}
     \/ turns[c].serve = "answered" /\ turns[c].frames \in Good
     \/ turns[c].serve = "failed" /\ turns[c].frames \in Bad
     \/ turns[c].serve = "saved" /\ turns[c].frames \in Good \cup Bad

\* A chat without a session shows the message that waits for one, or nothing.
Draft ==
  /\ Reading = {} /\ Owed = {} /\ history = NoHistory
  /\ \A c \in Opening : turns[c].frames = <<>>
  /\ surface # "rail" => \A c, d \in Opening : c = d
  /\ \/ shown = <<>> /\ streaming = Idle /\ (surface = "concierge" => Opening = {})
     \/ \E c \in Opening : surface = "concierge" /\ shown = <<Bubble("user", c, {c})>> /\ streaming = Writing(c)

\* One that has a session is about it.
Bound ==
  /\ Opening = {}
  /\ \A c \in Owed : turns[c].at = session
  /\ \A c \in Mine :
       /\ turns[c].serve \in {"posted", "running", "speaking"} => turns[c].ask = "reading"
       /\ turns[c].serve \in Placed => turns[c].place = Len(rows[session])
  /\ \A c, d \in Mine : turns[c].serve \in Placed /\ turns[d].serve \in Placed => c = d
  /\ \A c \in Reading : Streams(c)
  /\ Reading = {} => streaming = Idle
  /\ IF history = NoHistory THEN FiledAndSent = Told
     ELSE /\ Reading = {} /\ Owed = {} /\ shown = <<>>
          /\ history.stage = "asked" \/ history = [stage |-> "served", turns |-> Replayed(rows[session])]

PageFollows ==
  /\ shown \in Seq(BubbleSet)
  /\ \A c \in Mine : turns[c].up
  /\ IF session = None THEN Draft ELSE Bound

ChatInv == ServiceInv /\ Columns /\ (~Apart => PageFollows \/ Closing)


-----------------------------------------------------------------------------
(* Changes of a turn.                                                      *)

\* Of the turns one changes.
Only(c) ==
  /\ turns' \in Seq(TurnSet) /\ Len(turns') = Len(turns) /\ DOMAIN turns' = DOMAIN turns
  /\ \A d \in DOMAIN turns : d # c => turns'[d] = turns[d]

LEMMA TurnFields ==
  ASSUME turns \in Seq(TurnSet), NEW c \in DOMAIN turns
  PROVE  /\ turns[c] \in TurnSet /\ turns[c].at \in Sessions \cup {None} /\ turns[c].serve \in Served
         /\ turns[c].ask \in Asks /\ turns[c].place \in Nat
         /\ turns[c].frames \in Seq({"delta", "done", "error"}) /\ turns[c].up \in BOOLEAN
         /\ DOMAIN turns = 1..Len(turns) /\ c \in Nat \ {0}
<1>1. turns[c] \in TurnSet /\ DOMAIN turns = 1..Len(turns) /\ c \in Nat \ {0}
  OBVIOUS
<1>2. QED
  BY <1>1 DEF TurnSet

LEMMA TurnSetTo ==
  ASSUME turns \in Seq(TurnSet), NEW c \in DOMAIN turns, NEW r \in TurnSet, turns' = [turns EXCEPT ![c] = r]
  PROVE  Only(c) /\ turns'[c] = r
<1>1. turns \in [1..Len(turns) -> TurnSet] /\ DOMAIN turns = 1..Len(turns) /\ Len(turns) \in Nat
  OBVIOUS
<1> DEFINE us == [turns EXCEPT ![c] = r]
<1>2. us \in [1..Len(turns) -> TurnSet] /\ us[c] = r /\ \A d \in 1..Len(turns) : d # c => us[d] = turns[d]
  BY <1>1
<1>3. us \in Seq(TurnSet) /\ Len(us) = Len(turns) /\ DOMAIN us = DOMAIN turns
  BY <1>1, <1>2
<1> QED
  BY <1>1, <1>2, <1>3 DEF Only

LEMMA TurnServe ==
  ASSUME turns \in Seq(TurnSet), NEW c \in DOMAIN turns, NEW serve \in Served,
         turns' = [turns EXCEPT ![c].serve = serve]
  PROVE  /\ Only(c) /\ turns'[c].serve = serve
         /\ turns'[c].at = turns[c].at /\ turns'[c].ask = turns[c].ask /\ turns'[c].place = turns[c].place /\ turns'[c].frames = turns[c].frames /\ turns'[c].up = turns[c].up
<1>1. turns \in [1..Len(turns) -> TurnSet] /\ DOMAIN turns = 1..Len(turns) /\ Len(turns) \in Nat /\ turns[c] \in TurnSet
  OBVIOUS
<1> DEFINE r == [turns[c] EXCEPT !.serve = serve]
<1>2. r \in TurnSet /\ r.serve = serve
  BY <1>1 DEF TurnSet
<1>3. r.at = turns[c].at /\ r.ask = turns[c].ask /\ r.place = turns[c].place /\ r.frames = turns[c].frames /\ r.up = turns[c].up
  BY <1>1 DEF TurnSet
<1>4. turns' = [turns EXCEPT ![c] = r]
  BY <1>1
<1> HIDE DEF r
<1>5. QED
  BY <1>2, <1>3, <1>4, TurnSetTo

LEMMA TurnFrames ==
  ASSUME turns \in Seq(TurnSet), NEW c \in DOMAIN turns, NEW frames \in Seq({"delta", "done", "error"}),
         turns' = [turns EXCEPT ![c].frames = frames]
  PROVE  /\ Only(c) /\ turns'[c].frames = frames
         /\ turns'[c].at = turns[c].at /\ turns'[c].ask = turns[c].ask /\ turns'[c].serve = turns[c].serve /\ turns'[c].place = turns[c].place /\ turns'[c].up = turns[c].up
<1>1. turns \in [1..Len(turns) -> TurnSet] /\ DOMAIN turns = 1..Len(turns) /\ Len(turns) \in Nat /\ turns[c] \in TurnSet
  OBVIOUS
<1> DEFINE r == [turns[c] EXCEPT !.frames = frames]
<1>2. r \in TurnSet /\ r.frames = frames
  BY <1>1 DEF TurnSet
<1>3. r.at = turns[c].at /\ r.ask = turns[c].ask /\ r.serve = turns[c].serve /\ r.place = turns[c].place /\ r.up = turns[c].up
  BY <1>1 DEF TurnSet
<1>4. turns' = [turns EXCEPT ![c] = r]
  BY <1>1
<1> HIDE DEF r
<1>5. QED
  BY <1>2, <1>3, <1>4, TurnSetTo

LEMMA TurnPlaced ==
  ASSUME turns \in Seq(TurnSet), NEW c \in DOMAIN turns, NEW serve \in Served, NEW place \in Nat,
         turns' = [turns EXCEPT ![c].serve = serve, ![c].place = place]
  PROVE  /\ Only(c) /\ turns'[c].serve = serve /\ turns'[c].place = place
         /\ turns'[c].at = turns[c].at /\ turns'[c].ask = turns[c].ask /\ turns'[c].frames = turns[c].frames /\ turns'[c].up = turns[c].up
<1>1. turns \in [1..Len(turns) -> TurnSet] /\ DOMAIN turns = 1..Len(turns) /\ Len(turns) \in Nat /\ turns[c] \in TurnSet
  OBVIOUS
<1> DEFINE r == [turns[c] EXCEPT !.serve = serve, !.place = place]
<1>2. r \in TurnSet /\ r.serve = serve /\ r.place = place
  BY <1>1 DEF TurnSet
<1>3. r.at = turns[c].at /\ r.ask = turns[c].ask /\ r.frames = turns[c].frames /\ r.up = turns[c].up
  BY <1>1 DEF TurnSet
<1>4. turns' = [turns EXCEPT ![c] = r]
  BY <1>1
<1> HIDE DEF r
<1>5. QED
  BY <1>2, <1>3, <1>4, TurnSetTo

Emitted(c, frames, serve) == [turns EXCEPT ![c].frames = frames, ![c].serve = serve]

LEMMA TurnEmits ==
  ASSUME turns \in Seq(TurnSet), NEW c \in DOMAIN turns, NEW frames \in Seq({"delta", "done", "error"}), NEW serve \in Served,
         turns' = Emitted(c, frames, serve)
  PROVE  /\ Only(c) /\ turns'[c].frames = frames /\ turns'[c].serve = serve
         /\ turns'[c].at = turns[c].at /\ turns'[c].ask = turns[c].ask /\ turns'[c].place = turns[c].place /\ turns'[c].up = turns[c].up
<1>1. turns \in [1..Len(turns) -> TurnSet] /\ DOMAIN turns = 1..Len(turns) /\ Len(turns) \in Nat /\ turns[c] \in TurnSet
  OBVIOUS
<1> DEFINE r == [turns[c] EXCEPT !.frames = frames, !.serve = serve]
<1>2. r \in TurnSet /\ r.frames = frames /\ r.serve = serve
  BY <1>1 DEF TurnSet
<1>3. r.at = turns[c].at /\ r.ask = turns[c].ask /\ r.place = turns[c].place /\ r.up = turns[c].up
  BY <1>1 DEF TurnSet
<1>4. turns' = [turns EXCEPT ![c] = r]
  BY <1>1 DEF Emitted
<1> HIDE DEF r
<1>5. QED
  BY <1>2, <1>3, <1>4, TurnSetTo

LEMMA TurnOver ==
  ASSUME turns \in Seq(TurnSet), NEW c \in DOMAIN turns, NEW ask \in Asks, NEW frames \in Seq({"delta", "done", "error"}),
         turns' = [turns EXCEPT ![c].ask = ask, ![c].frames = frames]
  PROVE  /\ Only(c) /\ turns'[c].ask = ask /\ turns'[c].frames = frames
         /\ turns'[c].at = turns[c].at /\ turns'[c].serve = turns[c].serve /\ turns'[c].place = turns[c].place /\ turns'[c].up = turns[c].up
<1>1. turns \in [1..Len(turns) -> TurnSet] /\ DOMAIN turns = 1..Len(turns) /\ Len(turns) \in Nat /\ turns[c] \in TurnSet
  OBVIOUS
<1> DEFINE r == [turns[c] EXCEPT !.ask = ask, !.frames = frames]
<1>2. r \in TurnSet /\ r.ask = ask /\ r.frames = frames
  BY <1>1 DEF TurnSet
<1>3. r.at = turns[c].at /\ r.serve = turns[c].serve /\ r.place = turns[c].place /\ r.up = turns[c].up
  BY <1>1 DEF TurnSet
<1>4. turns' = [turns EXCEPT ![c] = r]
  BY <1>1
<1> HIDE DEF r
<1>5. QED
  BY <1>2, <1>3, <1>4, TurnSetTo

SentAs(c, at, ask, serve) == [turns EXCEPT ![c].at = at, ![c].ask = ask, ![c].serve = serve]

LEMMA TurnSent ==
  ASSUME turns \in Seq(TurnSet), NEW c \in DOMAIN turns, NEW at \in Sessions \cup {None}, NEW ask \in Asks, NEW serve \in Served,
         turns' = SentAs(c, at, ask, serve)
  PROVE  /\ Only(c) /\ turns'[c].at = at /\ turns'[c].ask = ask /\ turns'[c].serve = serve
         /\ turns'[c].place = turns[c].place /\ turns'[c].frames = turns[c].frames /\ turns'[c].up = turns[c].up
<1>1. turns \in [1..Len(turns) -> TurnSet] /\ DOMAIN turns = 1..Len(turns) /\ Len(turns) \in Nat /\ turns[c] \in TurnSet
  OBVIOUS
<1> DEFINE r == [turns[c] EXCEPT !.at = at, !.ask = ask, !.serve = serve]
<1>2. r \in TurnSet /\ r.at = at /\ r.ask = ask /\ r.serve = serve
  BY <1>1 DEF TurnSet
<1>3. r.place = turns[c].place /\ r.frames = turns[c].frames /\ r.up = turns[c].up
  BY <1>1 DEF TurnSet
<1>4. turns' = [turns EXCEPT ![c] = r]
  BY <1>1 DEF SentAs
<1> HIDE DEF r
<1>5. QED
  BY <1>2, <1>3, <1>4, TurnSetTo

OverDropped(c, ask, frames, serve) == [[turns EXCEPT ![c].ask = ask, ![c].frames = frames] EXCEPT ![c].serve = serve]

LEMMA TurnDropped ==
  ASSUME turns \in Seq(TurnSet), NEW c \in DOMAIN turns, NEW ask \in Asks, NEW frames \in Seq({"delta", "done", "error"}), NEW serve \in Served,
         turns' = OverDropped(c, ask, frames, serve)
  PROVE  /\ Only(c) /\ turns'[c].ask = ask /\ turns'[c].frames = frames /\ turns'[c].serve = serve
         /\ turns'[c].at = turns[c].at /\ turns'[c].place = turns[c].place /\ turns'[c].up = turns[c].up
<1>1. turns \in [1..Len(turns) -> TurnSet] /\ DOMAIN turns = 1..Len(turns) /\ Len(turns) \in Nat /\ turns[c] \in TurnSet
  OBVIOUS
<1> DEFINE r == [turns[c] EXCEPT !.ask = ask, !.frames = frames, !.serve = serve]
<1>2. r \in TurnSet /\ r.ask = ask /\ r.frames = frames /\ r.serve = serve
  BY <1>1 DEF TurnSet
<1>3. r.at = turns[c].at /\ r.place = turns[c].place /\ r.up = turns[c].up
  BY <1>1 DEF TurnSet
<1>4. turns' = [turns EXCEPT ![c] = r]
  BY <1>1 DEF OverDropped
<1> HIDE DEF r
<1>5. QED
  BY <1>2, <1>3, <1>4, TurnSetTo

LEMMA TurnCut ==
  ASSUME turns \in Seq(TurnSet), NEW c \in DOMAIN turns, NEW ask \in Asks, NEW frames \in Seq({"delta", "done", "error"}), NEW up \in BOOLEAN,
         turns' = [[turns EXCEPT ![c].ask = ask, ![c].frames = frames] EXCEPT ![c].up = up]
  PROVE  /\ Only(c) /\ turns'[c].ask = ask /\ turns'[c].frames = frames /\ turns'[c].up = up
         /\ turns'[c].at = turns[c].at /\ turns'[c].serve = turns[c].serve /\ turns'[c].place = turns[c].place
<1>1. turns \in [1..Len(turns) -> TurnSet] /\ DOMAIN turns = 1..Len(turns) /\ Len(turns) \in Nat /\ turns[c] \in TurnSet
  OBVIOUS
<1> DEFINE r == [turns[c] EXCEPT !.ask = ask, !.frames = frames, !.up = up]
<1>2. r \in TurnSet /\ r.ask = ask /\ r.frames = frames /\ r.up = up
  BY <1>1 DEF TurnSet
<1>3. r.at = turns[c].at /\ r.serve = turns[c].serve /\ r.place = turns[c].place
  BY <1>1 DEF TurnSet
<1>4. turns' = [turns EXCEPT ![c] = r]
  BY <1>1
<1> HIDE DEF r
<1>5. QED
  BY <1>2, <1>3, <1>4, TurnSetTo


-----------------------------------------------------------------------------
(* Rows and sessions grow.                                                 *)

Grows ==
  /\ rows' \in [Sessions -> Seq(RowSet)] /\ opened' \in 0..MaxSessions /\ opened <= opened'
  /\ \A s \in 1..opened : Len(rows[s]) <= Len(rows'[s]) /\ \A i \in DOMAIN rows[s] : rows'[s][i] = rows[s][i]
  /\ \A s \in Sessions : s > opened' => rows'[s] = <<>>

ThreadOK == thread = [f \in ThreadFields |-> thread[f]] /\ thread.renewing \in (1..opened) \cup {None}

LEMMA NothingGrows == ASSUME ServiceInv, UNCHANGED <<opened, rows>> PROVE Grows /\ AnswersFollow'
BY DEF ServiceInv, Grows, AnswersFollow

LEMMA StandingStays ==
  ASSUME ServiceInv, Grows, NEW d \in DOMAIN turns, turns'[d].at = turns[d].at, turns'[d].place = turns[d].place,
         \/ turns'[d].serve = turns[d].serve
         \/ turns'[d].serve \notin Placed \cup {"posted"}
         \/ turns'[d].serve \in Placed /\ turns[d].serve \in Placed
  PROVE  Standing(d)'
<1>1. Standing(d)
  BY DEF ServiceInv
<1>2. CASE turns[d].serve \in Placed
  <2>1. /\ turns[d].at \in 1..opened /\ turns[d].place \in DOMAIN rows[turns[d].at]
        /\ rows[turns[d].at][turns[d].place] = Row("user", d)
    BY <1>1, <1>2 DEF Standing
  <2>2. turns[d].at \in 1..opened' /\ turns[d].at \in Sessions
    BY <2>1, SessionsAssumption DEF ServiceInv, Grows, Sessions
  <2>3. rows[turns[d].at] \in Seq(RowSet) /\ rows'[turns[d].at] \in Seq(RowSet)
    BY <2>2 DEF ServiceInv, Grows
  <2>4. turns[d].place \in DOMAIN rows'[turns[d].at] /\ rows'[turns[d].at][turns[d].place] = Row("user", d)
    BY <2>1, <2>3 DEF Grows
  <2> QED
    BY <2>2, <2>4 DEF Standing
<1>3. CASE turns[d].serve = "posted"
  <2>1. turns[d].at \in 1..opened'
    BY <1>1, <1>3, SessionsAssumption DEF Standing, ServiceInv, Grows
  <2> QED
    BY <1>3, <2>1 DEF Standing, Placed
<1>4. CASE turns[d].serve \notin Placed \cup {"posted"}
  BY <1>4 DEF Standing
<1>5. QED
  BY <1>2, <1>3, <1>4

LEMMA ServiceStays ==
  ASSUME ServiceInv, Grows, AnswersFollow', live' \in Seq(1..opened'), session' \in (1..opened') \cup {None}, ThreadOK',
         turns' \in Seq(TurnSet),
         \A d \in DOMAIN turns' : (d \in DOMAIN turns /\ turns'[d] = turns[d]) \/ Standing(d)'
  PROVE  ServiceInv'
<1>1. \A d \in DOMAIN turns' : Standing(d)'
  BY StandingStays
<1>2. QED
  BY <1>1 DEF ServiceInv, Grows, ThreadOK

\* What stays as it is stays in order, with a new session beside it.
LEMMA SeqOfMore == ASSUME NEW S, NEW U, S \subseteq U, NEW s \in Seq(S) PROVE s \in Seq(U)
OBVIOUS

LEMMA OldStays ==
  ASSUME ServiceInv, Grows
  PROVE  /\ live \in Seq(1..opened') /\ session \in (1..opened') \cup {None}
         /\ thread = [f \in ThreadFields |-> thread[f]] /\ thread.renewing \in (1..opened') \cup {None}
         /\ turns \in Seq(TurnSet)
<1>1. 1..opened \subseteq 1..opened'
  BY SessionsAssumption DEF ServiceInv, Grows
<1>2. live \in Seq(1..opened')
  BY <1>1, SeqOfMore DEF ServiceInv
<1> QED
  BY <1>1, <1>2 DEF ServiceInv

LEMMA NewestOpen == ASSUME ServiceInv PROVE Newest \in (1..opened) \cup {None} /\ (live # <<>> => Newest \in 1..opened)
<1>1. live # <<>> => Last(live) \in 1..opened
  BY DEF ServiceInv, Last
<1>2. QED
  BY <1>1 DEF Newest

LEMMA OpenKeeps ==
  ASSUME ServiceInv, NEW new \in BOOLEAN, NEW seed \in BOOLEAN, NEW sid, sid = IF new THEN opened + 1 ELSE Newest,
         IF new THEN opened < MaxSessions ELSE live # <<>>, Open(sid, new, seed)
  PROVE  /\ Grows /\ AnswersFollow' /\ live' \in Seq(1..opened') /\ sid \in 1..opened'
         /\ new => rows'[sid] = IF seed THEN <<Row("assistant", 0)>> ELSE <<>>
         /\ ~new => UNCHANGED service
         /\ \A s \in 1..opened : rows'[s] = rows[s]
<1>1. opened \in Nat /\ MaxSessions \in Nat /\ opened <= MaxSessions
  BY SessionsAssumption DEF ServiceInv
<1>2. CASE ~new
  <2>1. UNCHANGED service
    BY <1>2, Zenon DEF Open
  <2>2. UNCHANGED <<opened, rows>> /\ live' = live /\ sid \in 1..opened
    BY <1>2, <2>1, NewestOpen DEF service
  <2> QED
    BY <1>2, <2>1, <2>2, NothingGrows DEF ServiceInv
<1>3. CASE new
  <2> DEFINE first == IF seed THEN <<Row("assistant", 0)>> ELSE <<>>
  <2>1. opened' = sid /\ sid = opened + 1 /\ live' = Append(live, sid) /\ rows' = [rows EXCEPT ![sid] = first]
    BY <1>3 DEF Open
  <2>2. first \in Seq(RowSet) /\ (Len(first) = 0 \/ Len(first) = 1) /\ (Len(first) = 1 => first[1] = Row("assistant", 0))
    <3>1. Row("assistant", 0) \in RowSet
      BY DEF RowSet, Roles, Row
    <3>2. <<Row("assistant", 0)>> \in Seq(RowSet) /\ Len(<<Row("assistant", 0)>>) = 1 /\ <<Row("assistant", 0)>>[1] = Row("assistant", 0)
      BY <3>1
    <3>3. <<>> \in Seq(RowSet) /\ Len(<<>>) = 0
      OBVIOUS
    <3>4. first = <<Row("assistant", 0)>> \/ first = <<>>
      OBVIOUS
    <3>5. CASE first = <<Row("assistant", 0)>>
      BY <3>2, <3>5, Zenon
    <3>6. CASE first = <<>>
      <4>1. first \in Seq(RowSet) /\ Len(first) = 0
        BY <3>3, <3>6, Zenon
      <4> HIDE DEF first
      <4> QED
        BY <4>1
    <3> QED
      BY <3>4, <3>5, <3>6
  <2>3. sid \in Sessions /\ rows \in [Sessions -> Seq(RowSet)]
    BY <1>1, <1>3, <2>1 DEF Sessions, ServiceInv
  <2> HIDE DEF first
  <2>4. /\ rows' \in [Sessions -> Seq(RowSet)] /\ rows'[sid] = first
        /\ \A s \in Sessions : s # sid => rows'[s] = rows[s]
    BY <2>1, <2>2, <2>3
  <2>5. live' \in Seq(1..opened')
    <3>1. live \in Seq(1..sid) /\ sid \in 1..sid
      BY <1>1, <2>1 DEF ServiceInv
    <3> QED
      BY <2>1, <3>1
  <2>6. \A s \in 1..opened : s \in Sessions /\ s # sid
    BY <1>1, <2>1 DEF Sessions
  <2>7. Grows
    BY <1>1, <2>1, <2>3, <2>4, <2>6 DEF Grows, ServiceInv, Sessions
  <2>8. AnswersFollow'
    <3> SUFFICES ASSUME NEW s \in Sessions, NEW i \in DOMAIN rows'[s], rows'[s][i].role # "user", rows'[s][i].of # 0
                 PROVE  i > 1 /\ rows'[s][i - 1] = Row("user", rows'[s][i].of)
      BY DEF AnswersFollow
    <3>1. CASE s # sid
      BY <2>4, <3>1 DEF ServiceInv, AnswersFollow
    <3>2. CASE s = sid
      BY <2>2, <2>4, <3>2 DEF Row
    <3> QED
      BY <3>1, <3>2
  <2>9. sid \in 1..opened'
    BY <1>1, <2>1
  <2> QED
    BY <1>3, <2>4, <2>5, <2>6, <2>7, <2>8, <2>9 DEF first
<1>4. QED
  BY <1>2, <1>3


-----------------------------------------------------------------------------
(* The service's invariant, step by step.                                  *)

\* One turn changes, whatever grows beside it.
LEMMA TurnGrows ==
  ASSUME ServiceInv, Grows, AnswersFollow', live' \in Seq(1..opened'), session' \in (1..opened') \cup {None}, ThreadOK',
         NEW c \in DOMAIN turns, Only(c), Standing(c)'
  PROVE  ServiceInv'
<1>1. turns' \in Seq(TurnSet) /\ \A d \in DOMAIN turns' : (d \in DOMAIN turns /\ turns'[d] = turns[d]) \/ Standing(d)'
  BY DEF Only
<1>2. QED
  BY <1>1, ServiceStays

LEMMA TurnKeepsService ==
  ASSUME ServiceInv, UNCHANGED service, session' = session, thread' = thread, NEW c \in DOMAIN turns, Only(c),
         turns'[c].at = turns[c].at, turns'[c].place = turns[c].place,
         \/ turns'[c].serve = turns[c].serve
         \/ turns'[c].serve \notin Placed \cup {"posted"}
         \/ turns'[c].serve \in Placed /\ turns[c].serve \in Placed
  PROVE  ServiceInv'
<1>1. live' = live /\ opened' = opened /\ rows' = rows
  BY DEF service
<1>2. Grows /\ AnswersFollow'
  BY <1>1, NothingGrows
<1>3. live' \in Seq(1..opened') /\ session' \in (1..opened') \cup {None} /\ ThreadOK'
  BY <1>1 DEF ServiceInv, ThreadOK
<1>4. Standing(c)'
  BY <1>2, StandingStays
<1>5. QED
  BY <1>2, <1>3, <1>4, TurnGrows

LEMMA AppendTurn ==
  ASSUME turns \in Seq(TurnSet), NEW t \in TurnSet, turns' = Append(turns, t)
  PROVE  /\ turns' \in Seq(TurnSet) /\ Len(turns') = NextTurn /\ NextTurn \in Nat \ {0} /\ NextTurn = Len(turns) + 1
         /\ DOMAIN turns' = DOMAIN turns \cup {NextTurn} /\ NextTurn \notin DOMAIN turns /\ turns'[NextTurn] = t
         /\ \A d \in DOMAIN turns : turns'[d] = turns[d]
BY DEF NextTurn

LEMMA TurnTyped ==
  ASSUME NEW at \in Sessions \cup {None}, NEW ask \in Asks, NEW serve \in Served
  PROVE  /\ Turn(at, ask, serve) \in TurnSet
         /\ Turn(at, ask, serve).at = at /\ Turn(at, ask, serve).ask = ask /\ Turn(at, ask, serve).serve = serve
         /\ Turn(at, ask, serve).up /\ Turn(at, ask, serve).frames = <<>>
<1>1. <<>> \in Seq({"delta", "done", "error"})
  OBVIOUS
<1>2. QED
  BY <1>1 DEF Turn, TurnSet

LEMMA SessionTyped == ASSUME ServiceInv PROVE session \in Sessions \cup {None} /\ 1..opened \subseteq Sessions
BY SessionsAssumption DEF ServiceInv, Sessions

LEMMA MoreTurns ==
  ASSUME ServiceInv, UNCHANGED <<session, thread, service>>, NEW t \in TurnSet, turns' = Append(turns, t),
         t.serve \in {"none", "blank"} \/ (t.serve = "posted" /\ t.at \in 1..opened)
  PROVE  ServiceInv'
<1>1. live' = live /\ opened' = opened /\ rows' = rows /\ session' = session /\ thread' = thread
  BY DEF service
<1>2. Grows /\ AnswersFollow'
  BY <1>1, NothingGrows
<1>3. live' \in Seq(1..opened') /\ session' \in (1..opened') \cup {None} /\ ThreadOK' /\ turns \in Seq(TurnSet)
  BY <1>1 DEF ServiceInv, ThreadOK
<1>4. PICK n : n = NextTurn
  OBVIOUS
<1>5. /\ turns' \in Seq(TurnSet) /\ DOMAIN turns' = DOMAIN turns \cup {n} /\ turns'[n] = t
      /\ \A d \in DOMAIN turns : turns'[d] = turns[d]
  BY <1>3, <1>4, AppendTurn
<1>6. Standing(n)'
  BY <1>1, <1>5 DEF Standing, Placed
<1>7. QED
  BY <1>2, <1>3, <1>5, <1>6, ServiceStays

LEMMA SubmitService == ASSUME ServiceInv, Submit PROVE ServiceInv'
<1>1. PICK t, also : /\ Add(t, also)
                     /\ \/ t = Turn(session, "reading", "posted") /\ session # None
                        \/ t = Turn(session, "reading", "blank")
                        \/ t = Turn(None, "opening", "none")
  BY Zenon DEF Submit, SendShell, SendPrompt, SendRail, SendConcierge, SendTurn, Bootstrap, SubmitPrompt, SubmitRail,
     SubmitDraft
<1>2. t \in TurnSet /\ (t.serve \in {"none", "blank"} \/ (t.serve = "posted" /\ t.at \in 1..opened))
  <2>1. CASE t = Turn(session, "reading", "posted") /\ session # None
    BY <1>1, <2>1, TurnTyped, SessionTyped DEF Served, ServiceInv, Asks
  <2>2. CASE t = Turn(session, "reading", "blank") \/ t = Turn(None, "opening", "none")
    BY <2>2, TurnTyped, SessionTyped DEF Served, Asks
  <2> QED
    BY <1>1, <2>1, <2>2
<1>3. QED
  BY <1>1, <1>2, MoreTurns DEF Add

LEMMA ElsewhereService == ASSUME ServiceInv, NEW sid, Elsewhere(sid) PROVE ServiceInv'
<1>1. UNCHANGED <<session, thread, service>> /\ turns' = Append(turns, Turn(sid, "away", "posted")) /\ sid \in Range(live)
  BY DEF Elsewhere, page
<1>2. sid \in 1..opened
  BY <1>1 DEF ServiceInv, Range
<1>3. Turn(sid, "away", "posted") \in TurnSet /\ Turn(sid, "away", "posted").serve = "posted" /\ Turn(sid, "away", "posted").at = sid
  BY <1>2, TurnTyped, SessionTyped DEF Served, Asks
<1>4. QED
  BY <1>1, <1>2, <1>3, MoreTurns

\* Leaving a chat changes nothing the service has, and leaves the page no turn of its own.
LEMMA LeftTurns ==
  ASSUME turns \in Seq(TurnSet)
  PROVE  /\ Left \in Seq(TurnSet) /\ DOMAIN Left = DOMAIN turns
         /\ \A d \in DOMAIN turns : /\ Left[d].at = turns[d].at /\ Left[d].serve = turns[d].serve
                                    /\ Left[d].place = turns[d].place
                                    /\ Left[d].ask \in {"away", "orphan"}
<1>1. DOMAIN turns = 1..Len(turns) /\ Len(turns) \in Nat /\ turns \in [1..Len(turns) -> TurnSet]
  OBVIOUS
<1>2. ASSUME NEW d \in DOMAIN turns
      PROVE  /\ Left[d] \in TurnSet /\ Left[d].at = turns[d].at /\ Left[d].serve = turns[d].serve
             /\ Left[d].place = turns[d].place /\ Left[d].ask \in {"away", "orphan"}
  <2>1. turns[d] \in TurnSet /\ <<>> \in Seq({"delta", "done", "error"})
    BY <1>1, <1>2
  <2>2. CASE turns[d].ask = "reading"
    <3>1. Left[d] = [turns[d] EXCEPT !.ask = "away", !.frames = <<>>, !.up = FALSE]
      BY <2>2 DEF Left
    <3> QED
      BY <2>1, <3>1 DEF TurnSet, Asks
  <2>3. CASE turns[d].ask = "opening"
    <3>1. Left[d] = [turns[d] EXCEPT !.ask = "orphan"]
      BY <2>3 DEF Left
    <3> QED
      BY <2>1, <3>1 DEF TurnSet, Asks
  <2>4. CASE turns[d].ask = "over"
    <3>1. Left[d] = [turns[d] EXCEPT !.ask = "away"]
      BY <2>4 DEF Left
    <3> QED
      BY <2>1, <3>1 DEF TurnSet, Asks
  <2>5. CASE turns[d].ask \in {"away", "orphan"}
    <3>1. Left[d] = turns[d]
      BY <2>5 DEF Left
    <3> QED
      BY <2>1, <2>5, <3>1
  <2> QED
    BY <2>1, <2>2, <2>3, <2>4, <2>5 DEF TurnSet, Asks
<1>3. DOMAIN Left = DOMAIN turns /\ Left = [d \in DOMAIN turns |-> Left[d]]
  BY Zenon DEF Left
<1> HIDE DEF Left
<1>4. Left \in [1..Len(turns) -> TurnSet]
  BY <1>1, <1>2, <1>3
<1>5. QED
  BY <1>1, <1>2, <1>3, <1>4

\* The stream that is read is aborted.
LEMMA AbortedTurns ==
  ASSUME turns \in Seq(TurnSet)
  PROVE  /\ Aborted \in Seq(TurnSet) /\ DOMAIN Aborted = DOMAIN turns
         /\ \A d \in DOMAIN turns : /\ Aborted[d].at = turns[d].at /\ Aborted[d].serve = turns[d].serve
                                    /\ Aborted[d].place = turns[d].place
                                    /\ Aborted[d].ask # "reading"
                                    /\ Aborted[d].ask = "opening" => turns[d].ask = "opening"
         /\ Reading = {} => Aborted = turns
<1>1. DOMAIN turns = 1..Len(turns) /\ Len(turns) \in Nat /\ turns \in [1..Len(turns) -> TurnSet]
  OBVIOUS
<1>2. ASSUME NEW d \in DOMAIN turns
      PROVE  /\ Aborted[d] \in TurnSet /\ Aborted[d].at = turns[d].at /\ Aborted[d].serve = turns[d].serve
             /\ Aborted[d].place = turns[d].place /\ Aborted[d].ask # "reading"
             /\ Aborted[d].ask = "opening" => turns[d].ask = "opening"
             /\ d \notin Reading => Aborted[d] = turns[d]
  <2>1. turns[d] \in TurnSet /\ <<>> \in Seq({"delta", "done", "error"})
    BY <1>1, <1>2
  <2>2. CASE turns[d].ask = "reading"
    <3>1. Aborted[d] = [turns[d] EXCEPT !.ask = "over", !.frames = <<>>, !.up = FALSE]
      BY <2>2 DEF Aborted
    <3>2. d \in Reading
      BY <2>2 DEF Reading
    <3> QED
      BY <2>1, <3>1, <3>2 DEF TurnSet, Asks
  <2>3. CASE turns[d].ask # "reading"
    <3>1. Aborted[d] = turns[d]
      BY <2>3 DEF Aborted
    <3> QED
      BY <2>1, <2>3, <3>1
  <2> QED
    BY <2>2, <2>3
<1>3. DOMAIN Aborted = DOMAIN turns /\ Aborted = [d \in DOMAIN turns |-> Aborted[d]]
  BY Zenon DEF Aborted
<1> HIDE DEF Aborted
<1>4. Aborted \in [1..Len(turns) -> TurnSet]
  BY <1>1, <1>2, <1>3
<1>5. Reading = {} => Aborted = turns
  BY <1>1, <1>2, <1>3
<1>6. QED
  BY <1>1, <1>2, <1>3, <1>4, <1>5

LEMMA LeavingService ==
  ASSUME ServiceInv, UNCHANGED <<opened, rows>>, live' \in Seq(1..opened), session' \in (1..opened) \cup {None}, ThreadOK',
         turns' = turns \/ turns' = Left \/ turns' = Aborted
  PROVE  ServiceInv'
<1>1. Grows /\ AnswersFollow'
  BY NothingGrows
<1>2. turns \in Seq(TurnSet)
  BY DEF ServiceInv
<1>3. turns' \in Seq(TurnSet) /\ \A d \in DOMAIN turns' : Standing(d)'
  <2>1. \A d \in DOMAIN turns : Standing(d)
    BY DEF ServiceInv
  <2>2. /\ turns' \in Seq(TurnSet) /\ DOMAIN turns' = DOMAIN turns
        /\ \A d \in DOMAIN turns : /\ turns'[d].at = turns[d].at /\ turns'[d].serve = turns[d].serve
                                   /\ turns'[d].place = turns[d].place
    BY <1>2, LeftTurns, AbortedTurns
  <2> QED
    BY <2>1, <2>2 DEF Standing
<1>4. QED
  BY <1>1, <1>3, ServiceStays


LEMMA EmitTurn ==
  ASSUME turns \in Seq(TurnSet), NEW c \in DOMAIN turns, NEW frames \in Seq({"delta", "done", "error"}),
         NEW serve \in Served, turns' = Emit(c, frames, serve)
  PROVE  /\ Only(c) /\ turns'[c].at = turns[c].at /\ turns'[c].ask = turns[c].ask /\ turns'[c].place = turns[c].place
         /\ turns'[c].up = turns[c].up /\ turns'[c].serve = serve
         /\ turns'[c].frames = IF c \in Reading THEN turns[c].frames \o frames ELSE turns[c].frames
<1> DEFINE flow == IF c \in Reading THEN turns[c].frames \o frames ELSE turns[c].frames
<1>1. turns[c] \in TurnSet /\ turns[c].frames \in Seq({"delta", "done", "error"})
  BY TurnFields
<1>2. flow \in Seq({"delta", "done", "error"})
  BY <1>1
<1>3. turns' = Emitted(c, flow, serve)
  BY Zenon DEF Emit, Emitted
<1> HIDE DEF flow
<1>4. /\ Only(c) /\ turns'[c].at = turns[c].at /\ turns'[c].ask = turns[c].ask /\ turns'[c].place = turns[c].place
      /\ turns'[c].up = turns[c].up /\ turns'[c].serve = serve /\ turns'[c].frames = flow
  BY <1>2, <1>3, TurnEmits, Zenon
<1>5. QED
  BY <1>4, Zenon DEF flow

LEMMA OverTurn ==
  ASSUME turns \in Seq(TurnSet), NEW c \in DOMAIN turns,
         turns' \in {Over(c), [Over(c) EXCEPT ![c].serve = "dropped"], [Over(c) EXCEPT ![c].up = FALSE]}
  PROVE  /\ Only(c) /\ turns'[c].at = turns[c].at /\ turns'[c].place = turns[c].place
         /\ turns'[c].ask = "over" /\ turns'[c].frames = <<>>
         /\ turns'[c].serve = turns[c].serve \/ turns'[c].serve = "dropped"
<1>1. /\ <<>> \in Seq({"delta", "done", "error"}) /\ "dropped" \in Served /\ FALSE \in BOOLEAN
      /\ "over" \in Asks
  BY DEF Served, Asks
<1>2. CASE turns' = Over(c)
  BY <1>1, <1>2, TurnOver, Zenon DEF Over, Asks
<1>3. CASE turns' = [Over(c) EXCEPT ![c].serve = "dropped"]
  <2>1. turns' = OverDropped(c, "over", <<>>, "dropped")
    BY <1>3, Zenon DEF Over, OverDropped
  <2> QED
    BY <1>1, <2>1, TurnDropped, Zenon DEF Asks
<1>4. CASE turns' = [Over(c) EXCEPT ![c].up = FALSE]
  <2>1. turns' = [[turns EXCEPT ![c].ask = "over", ![c].frames = <<>>] EXCEPT ![c].up = FALSE]
    BY <1>4, Zenon DEF Over
  <2>2. /\ Only(c) /\ turns'[c].ask = "over" /\ turns'[c].frames = <<>> /\ turns'[c].up = FALSE
        /\ turns'[c].at = turns[c].at /\ turns'[c].serve = turns[c].serve /\ turns'[c].place = turns[c].place
    BY <1>1, <2>1, TurnCut, ZenonT(40)
  <2> QED
    BY <2>2, Zenon
<1>5. QED
  BY <1>2, <1>3, <1>4

LEMMA OverSame ==
  ASSUME turns \in Seq(TurnSet), NEW c \in DOMAIN turns, turns' = Over(c)
  PROVE  turns'[c].serve = turns[c].serve /\ turns'[c].up = turns[c].up
<1>1. <<>> \in Seq({"delta", "done", "error"}) /\ "over" \in Asks
  BY DEF Asks
<1>2. QED
  BY <1>1, TurnOver, Zenon DEF Over


LEMMA ThreadKept ==
  ASSUME ServiceInv, Grows, thread' = thread \/ (\E a : thread' = [thread EXCEPT !.active = a])
  PROVE  ThreadOK' /\ thread'.renewing = thread.renewing /\ thread'.listing = thread.listing
         /\ thread'.archiving = thread.archiving
<1>1. /\ thread = [f \in ThreadFields |-> thread[f]] /\ thread.renewing \in (1..opened') \cup {None}
  BY OldStays
<1>2. CASE thread' = thread
  BY <1>1, <1>2 DEF ThreadOK
<1>3. ASSUME NEW a, thread' = [thread EXCEPT !.active = a]
      PROVE  ThreadOK' /\ thread'.renewing = thread.renewing /\ thread'.listing = thread.listing
             /\ thread'.archiving = thread.archiving
  BY <1>1, <1>3 DEF ThreadOK, ThreadFields
<1>4. QED
  BY <1>2, <1>3

LEMMA PostedTurn ==
  ASSUME ServiceInv, NEW c \in DOMAIN turns, NEW at \in Sessions \cup {None}, turns' = Posted(c, at)
  PROVE  /\ Only(c) /\ turns'[c].at = at /\ turns'[c].ask = "reading" /\ turns'[c].serve = "posted"
         /\ turns'[c].frames = turns[c].frames /\ turns'[c].up = turns[c].up /\ turns'[c].place = turns[c].place
<1>1. turns \in Seq(TurnSet) /\ "posted" \in Served /\ "reading" \in Asks
  BY DEF ServiceInv, Served, Asks
<1>2. turns' = SentAs(c, at, "reading", "posted")
  BY Zenon DEF Posted, SentAs
<1>3. QED
  <2>1. turns \in Seq(TurnSet) /\ "posted" \in Served
    BY <1>1
  <2>2. /\ Only(c) /\ turns'[c].at = at /\ turns'[c].ask = "reading" /\ turns'[c].serve = "posted"
        /\ turns'[c].place = turns[c].place /\ turns'[c].frames = turns[c].frames /\ turns'[c].up = turns[c].up
    BY <1>2, <2>1, TurnSent, Zenon DEF Asks
  <2> QED
    BY <2>2

LEMMA OpenedService == ASSUME ServiceInv, NEW c, Opened(c) PROVE ServiceInv'
<1>1. c \in DOMAIN turns /\ turns \in Seq(TurnSet)
  BY DEF Opened, Opening, ServiceInv
<1>2. PICK new, sid :
        /\ new \in BOOLEAN /\ sid = IF new THEN opened + 1 ELSE Newest
        /\ IF new THEN StartsNew(Cardinality(Opening) > 1) ELSE live # <<>>
        /\ Open(sid, new, surface = "prompt")
        /\ OpenedPrompt(c, sid) \/ OpenedRail(c, sid) \/ OpenedDraft(c, sid)
  BY Zenon DEF Opened
<1>3. (surface = "prompt") \in BOOLEAN /\ IF new THEN opened < MaxSessions ELSE live # <<>>
  BY <1>2, Zenon DEF StartsNew
<1>4. Grows /\ AnswersFollow' /\ live' \in Seq(1..opened') /\ sid \in 1..opened'
  BY <1>2, <1>3, OpenKeeps
<1>5. sid \in Sessions
  BY <1>4, SessionsAssumption DEF Grows, Sessions
<1>6. session' = sid /\ ThreadOK'
  <2>1. thread' = thread \/ (\E a : thread' = [thread EXCEPT !.active = a])
    BY <1>2, Zenon DEF OpenedPrompt, OpenedRail, OpenedDraft
  <2> QED
    BY <1>2, <1>4, <2>1, ThreadKept, Zenon DEF OpenedPrompt, OpenedRail, OpenedDraft
<1>7. CASE turns' = Over(c)
  <2>1. Standing(c)'
    BY <1>1, <1>4, <1>7, OverTurn, OverSame, StandingStays
  <2> QED
    BY <1>1, <1>4, <1>6, <1>7, <2>1, OverTurn, TurnGrows
<1>8. ASSUME NEW at \in 1..opened', turns' = Posted(c, at) PROVE ServiceInv'
  <2>1. at \in Sessions
    BY <1>4, <1>8, SessionsAssumption DEF Grows, Sessions
  <2>2. Only(c) /\ turns'[c].at = at /\ turns'[c].serve = "posted"
    BY <1>1, <1>8, <2>1, PostedTurn
  <2>3. Standing(c)'
    BY <2>2 DEF Standing, Placed
  <2> QED
    BY <1>1, <1>4, <1>6, <2>2, <2>3, TurnGrows
<1>9. turns' = Posted(c, sid) \/ turns' = Over(c) \/ (session # None /\ turns' = Posted(c, session))
  BY <1>2, Zenon DEF OpenedPrompt, OpenedRail, OpenedDraft
<1>10. session # None => session \in 1..opened'
  BY <1>4, OldStays
<1>11. QED
  BY <1>4, <1>7, <1>8, <1>9, <1>10

LEMMA OrphanService == ASSUME ServiceInv, NEW c, OpenedOrphan(c) PROVE ServiceInv'
<1>1. c \in DOMAIN turns /\ turns \in Seq(TurnSet) /\ session' = session
  BY DEF OpenedOrphan, ServiceInv
<1>2. PICK new, sid :
        /\ new \in BOOLEAN /\ sid = IF new THEN opened + 1 ELSE Newest
        /\ IF new THEN StartsNew(TRUE) ELSE live # <<>>
        /\ Open(sid, new, FALSE)
        /\ turns' = [turns EXCEPT ![c].at = sid, ![c].ask = "away", ![c].serve = "posted"]
        /\ \E a : thread' = [thread EXCEPT !.active = a]
  BY Zenon DEF OpenedOrphan
<1>3. IF new THEN opened < MaxSessions ELSE live # <<>>
  BY <1>2, Zenon DEF StartsNew
<1>4. Grows /\ AnswersFollow' /\ live' \in Seq(1..opened') /\ sid \in 1..opened'
  BY <1>2, <1>3, OpenKeeps
<1>5. sid \in Sessions /\ "posted" \in Served /\ "away" \in Asks
  BY <1>4, SessionsAssumption DEF Grows, Sessions, Served, Asks
<1>6. ThreadOK' /\ session' \in (1..opened') \cup {None}
  BY <1>1, <1>2, <1>4, ThreadKept, OldStays
<1>7. Only(c) /\ turns'[c].at = sid /\ turns'[c].serve = "posted"
  <2>1. sid \in Sessions \cup {None}
    BY <1>5
  <2>2. turns' = SentAs(c, sid, "away", "posted")
    BY <1>2, Zenon DEF SentAs
  <2> QED
    BY <1>1, <1>5, <2>1, <2>2, TurnSent, Zenon DEF Asks
<1>8. Standing(c)'
  BY <1>4, <1>7 DEF Standing, Placed
<1>9. QED
  BY <1>1, <1>4, <1>6, <1>7, <1>8, TurnGrows


LEMMA RowAppends ==
  ASSUME ServiceInv, NEW s \in 1..opened, NEW r \in RowSet, rows' = [rows EXCEPT ![s] = Append(rows[s], r)],
         UNCHANGED opened,
         r.role = "user" \/ (rows[s] # <<>> /\ rows[s][Len(rows[s])] = Row("user", r.of))
  PROVE  /\ Grows /\ AnswersFollow' /\ rows'[s] = Append(rows[s], r) /\ Len(rows'[s]) = Len(rows[s]) + 1
         /\ \A t \in Sessions : t # s => rows'[t] = rows[t]
<1>1. s \in Sessions /\ rows \in [Sessions -> Seq(RowSet)] /\ rows[s] \in Seq(RowSet) /\ opened \in 0..MaxSessions
  BY SessionsAssumption DEF ServiceInv, Sessions
<1> DEFINE more == Append(rows[s], r)
<1>2. /\ more \in Seq(RowSet) /\ Len(more) = Len(rows[s]) + 1 /\ more[Len(rows[s]) + 1] = r
      /\ \A i \in DOMAIN rows[s] : more[i] = rows[s][i]
  BY <1>1
<1> HIDE DEF more
<1>3. rows' \in [Sessions -> Seq(RowSet)] /\ rows'[s] = more /\ \A t \in Sessions : t # s => rows'[t] = rows[t]
  BY <1>1, <1>2 DEF more
<1>4. Grows
  <2>1. 1..opened \subseteq Sessions /\ \A t \in Sessions : t > opened => t # s /\ rows[t] = <<>>
    BY <1>1, SessionsAssumption DEF Sessions, ServiceInv
  <2>2. \A t \in 1..opened : Len(rows[t]) <= Len(rows'[t]) /\ \A i \in DOMAIN rows[t] : rows'[t][i] = rows[t][i]
    <3> SUFFICES ASSUME NEW t \in 1..opened
                 PROVE  Len(rows[t]) <= Len(rows'[t]) /\ \A i \in DOMAIN rows[t] : rows'[t][i] = rows[t][i]
      OBVIOUS
    <3>1. t \in Sessions /\ rows[t] \in Seq(RowSet)
      BY <1>1, <2>1
    <3> QED
      BY <1>2, <1>3, <3>1
  <2> QED
    BY <1>1, <1>3, <2>1, <2>2 DEF Grows
<1>5. AnswersFollow'
  <2> SUFFICES ASSUME NEW t \in Sessions, NEW i \in DOMAIN rows'[t], rows'[t][i].role # "user", rows'[t][i].of # 0
               PROVE  i > 1 /\ rows'[t][i - 1] = Row("user", rows'[t][i].of)
    BY DEF AnswersFollow
  <2>1. CASE t # s
    BY <1>3, <2>1 DEF ServiceInv, AnswersFollow
  <2>2. CASE t = s /\ i \in DOMAIN rows[s]
    <3>1. i > 1 /\ rows[s][i - 1] = Row("user", rows[s][i].of)
      BY <1>1, <1>2, <1>3, <2>2 DEF ServiceInv, AnswersFollow
    <3>2. i - 1 \in DOMAIN rows[s]
      BY <1>1, <2>2, <3>1
    <3> QED
      BY <1>2, <1>3, <2>2, <3>1, <3>2
  <2>3. CASE t = s /\ i \notin DOMAIN rows[s]
    <3>1. i = Len(rows[s]) + 1 /\ rows'[t][i] = r
      BY <1>1, <1>2, <1>3, <2>3
    <3>2. Len(rows[s]) \in DOMAIN rows[s] /\ rows[s][Len(rows[s])] = Row("user", r.of)
      BY <1>1, <3>1
    <3> QED
      BY <1>1, <1>2, <1>3, <2>3, <3>1, <3>2
  <2> QED
    BY <2>1, <2>2, <2>3
<1>6. QED
  BY <1>2, <1>3, <1>4, <1>5 DEF more

LEMMA RowTyped == ASSUME NEW c \in Nat, NEW role \in Roles PROVE Row(role, c) \in RowSet /\ Row(role, c).role = role /\ Row(role, c).of = c
BY DEF Row, RowSet

\* The steps that write a row, with what they make of it.
LEMMA TakenTurn ==
  ASSUME ServiceInv, NEW c \in DOMAIN turns, TakeTurn(c)
  PROVE  /\ Grows /\ AnswersFollow' /\ turns[c].at \in 1..opened
         /\ rows'[turns[c].at] = Append(rows[turns[c].at], Row("user", c))
         /\ \A t \in Sessions : t # turns[c].at => rows'[t] = rows[t]
         /\ Only(c) /\ turns'[c].at = turns[c].at /\ turns'[c].ask = turns[c].ask /\ turns'[c].frames = turns[c].frames
         /\ turns'[c].up = turns[c].up /\ turns'[c].serve = "running" /\ turns'[c].place = Len(rows[turns[c].at]) + 1
         /\ Len(rows'[turns[c].at]) = Len(rows[turns[c].at]) + 1
<1> DEFINE s == turns[c].at
<1>1. /\ turns[c].serve = "posted" /\ rows' = [rows EXCEPT ![s] = Append(rows[s], Row("user", c))] /\ opened' = opened
      /\ turns' = [turns EXCEPT ![c].serve = "running", ![c].place = Len(rows[s]) + 1]
  BY DEF TakeTurn
<1>2. s \in 1..opened /\ c \in Nat /\ turns \in Seq(TurnSet)
  BY <1>1, TurnFields DEF ServiceInv, Standing, Placed
<1>3. rows[s] \in Seq(RowSet)
  BY <1>2, SessionTyped DEF ServiceInv
<1> HIDE DEF s
<1>4. /\ Grows /\ AnswersFollow' /\ rows'[s] = Append(rows[s], Row("user", c)) /\ Len(rows'[s]) = Len(rows[s]) + 1
      /\ \A t \in Sessions : t # s => rows'[t] = rows[t]
  BY <1>1, <1>2, RowTyped, RowAppends DEF Roles
<1>5. /\ Only(c) /\ turns'[c].at = turns[c].at /\ turns'[c].ask = turns[c].ask /\ turns'[c].frames = turns[c].frames
      /\ turns'[c].up = turns[c].up /\ turns'[c].serve = "running" /\ turns'[c].place = Len(rows[s]) + 1
  <2>1. "running" \in Served /\ Len(rows[s]) + 1 \in Nat
    BY <1>3 DEF Served, Placed
  <2> QED
    BY <1>1, <1>2, <2>1, TurnPlaced
<1>6. QED
  BY <1>2, <1>4, <1>5 DEF s

LEMMA TakeService == ASSUME ServiceInv, NEW c \in DOMAIN turns, TakeTurn(c) PROVE ServiceInv'
<1>1. live' = live /\ session' = session /\ thread' = thread
  BY DEF TakeTurn, page
<1>2. Grows /\ AnswersFollow' /\ Only(c)
  BY TakenTurn
<1>3. live' \in Seq(1..opened') /\ session' \in (1..opened') \cup {None} /\ ThreadOK'
  BY <1>1, <1>2, OldStays, ThreadKept
<1>4. Standing(c)'
  <2> DEFINE s == turns[c].at
  <2>0. turns'[c].at = s /\ s \in 1..opened /\ turns'[c].serve = "running" /\ turns'[c].place = Len(rows[s]) + 1
    BY TakenTurn
  <2>5. rows'[s] = Append(rows[s], Row("user", c))
    BY TakenTurn
  <2>6. s \in 1..opened'
    BY <1>2, <2>0, SessionsAssumption DEF Grows, ServiceInv
  <2>1. /\ turns'[c].at = s /\ s \in 1..opened /\ s \in 1..opened' /\ turns'[c].serve = "running"
        /\ turns'[c].place = Len(rows[s]) + 1 /\ rows'[s] = Append(rows[s], Row("user", c))
    BY <2>0, <2>5, <2>6
  <2>2. rows[s] \in Seq(RowSet)
    BY <2>1, SessionTyped DEF ServiceInv
  <2> HIDE DEF s
  <2>3. turns'[c].place \in DOMAIN rows'[s] /\ rows'[s][turns'[c].place] = Row("user", c)
    <3>1. Row("user", c) \in RowSet
      BY TurnFields, RowTyped DEF Roles, ServiceInv
    <3> QED
      BY <2>1, <2>2, <3>1
  <2> QED
    BY <2>1, <2>3 DEF Standing
<1>5. QED
  BY <1>2, <1>3, <1>4, TurnGrows

LEMMA SavedTurn ==
  ASSUME ServiceInv, NEW c \in DOMAIN turns, SaveAnswer(c)
  PROVE  /\ Grows /\ AnswersFollow' /\ turns[c].at \in 1..opened /\ turns[c].serve \in {"answered", "failed"}
         /\ IF Len(rows[turns[c].at]) = turns[c].place
            THEN /\ rows'[turns[c].at] = Append(rows[turns[c].at], AnswerRow(c)) /\ turns'[c].serve = "saved"
                 /\ Len(rows'[turns[c].at]) = Len(rows[turns[c].at]) + 1
            ELSE rows' = rows /\ turns'[c].serve = "lost"
         /\ \A t \in Sessions : t # turns[c].at => rows'[t] = rows[t]
         /\ Only(c) /\ turns'[c].at = turns[c].at /\ turns'[c].ask = turns[c].ask /\ turns'[c].frames = turns[c].frames
         /\ turns'[c].up = turns[c].up /\ turns'[c].place = turns[c].place
<1> DEFINE s == turns[c].at
           free == Len(rows[s]) = turns[c].place
<1>1. /\ turns[c].serve \in {"answered", "failed"} /\ opened' = opened
      /\ rows' = IF free THEN [rows EXCEPT ![s] = Append(rows[s], AnswerRow(c))] ELSE rows
      /\ turns' = [turns EXCEPT ![c].serve = IF free THEN "saved" ELSE "lost"]
  BY DEF SaveAnswer, AnswerRow
<1>2. s \in 1..opened /\ c \in Nat /\ turns \in Seq(TurnSet) /\ Standing(c) /\ turns[c].serve \in Placed
  BY <1>1, TurnFields DEF ServiceInv, Standing, Placed
<1>3. turns[c].place \in DOMAIN rows[s] /\ rows[s][turns[c].place] = Row("user", c)
  BY <1>2 DEF Standing
<1>4. AnswerRow(c) \in RowSet /\ AnswerRow(c).of = c
  BY <1>2, RowTyped DEF AnswerRow, Roles
<1>5. PICK serve \in Served : serve = (IF free THEN "saved" ELSE "lost")
  BY DEF Served
<1>6. /\ Only(c) /\ turns'[c].serve = serve /\ turns'[c].at = turns[c].at /\ turns'[c].ask = turns[c].ask
      /\ turns'[c].frames = turns[c].frames /\ turns'[c].up = turns[c].up /\ turns'[c].place = turns[c].place
  <2>1. turns' = [turns EXCEPT ![c].serve = serve]
    BY <1>1, <1>5
  <2> QED
    BY <1>2, <2>1, TurnServe
<1> HIDE DEF s, free
<1>7. CASE free
  <2>1. rows' = [rows EXCEPT ![s] = Append(rows[s], AnswerRow(c))]
    BY <1>1, <1>7
  <2>2. rows[s] # <<>> /\ rows[s][Len(rows[s])] = Row("user", AnswerRow(c).of)
    BY <1>3, <1>4, <1>7 DEF free
  <2>3. /\ Grows /\ AnswersFollow' /\ rows'[s] = Append(rows[s], AnswerRow(c)) /\ Len(rows'[s]) = Len(rows[s]) + 1
        /\ \A t \in Sessions : t # s => rows'[t] = rows[t]
    BY <1>1, <1>2, <1>4, <2>1, <2>2, RowAppends
  <2> QED
    BY <1>1, <1>2, <1>5, <1>6, <1>7, <2>3 DEF s, free
<1>8. CASE ~free
  <2>1. rows' = rows /\ Grows /\ AnswersFollow'
    BY <1>1, <1>8, NothingGrows
  <2> QED
    BY <1>1, <1>2, <1>5, <1>6, <1>8, <2>1 DEF s, free
<1>9. QED
  BY <1>7, <1>8

LEMMA SaveService == ASSUME ServiceInv, NEW c \in DOMAIN turns, SaveAnswer(c) PROVE ServiceInv'
<1>1. live' = live /\ session' = session /\ thread' = thread
  BY DEF SaveAnswer, page
<1>2. Grows /\ AnswersFollow' /\ Only(c)
  BY SavedTurn
<1>3. live' \in Seq(1..opened') /\ session' \in (1..opened') \cup {None} /\ ThreadOK'
  BY <1>1, <1>2, OldStays, ThreadKept
<1>4. turns'[c].serve \in {"saved", "lost"}
  BY SavedTurn
<1>5. Standing(c)'
  BY <1>4 DEF Standing, Placed
<1>6. QED
  BY <1>2, <1>3, <1>5, TurnGrows


LEMMA EmitService ==
  ASSUME ServiceInv, NEW c \in DOMAIN turns, RefuseBlank(c) \/ Delta(c) \/ Finish(c) \/ GiveUp(c) PROVE ServiceInv'
<1>1. UNCHANGED service /\ session' = session /\ thread' = thread /\ turns \in Seq(TurnSet)
  BY Zenon DEF RefuseBlank, Delta, Finish, GiveUp, page, ServiceInv
<1>2. ASSUME NEW frames \in Seq({"delta", "done", "error"}), NEW serve \in Served, turns' = Emit(c, frames, serve),
             serve \notin Placed \cup {"posted"} \/ (serve \in Placed /\ turns[c].serve \in Placed)
      PROVE  ServiceInv'
  BY <1>1, <1>2, EmitTurn, TurnKeepsService
<1>3. /\ <<"error">> \in Seq({"delta", "done", "error"}) /\ <<"delta">> \in Seq({"delta", "done", "error"})
      /\ <<"done">> \in Seq({"delta", "done", "error"}) /\ <<"error", "done">> \in Seq({"delta", "done", "error"})
  OBVIOUS
<1>4. CASE RefuseBlank(c)
  BY <1>2, <1>3, <1>4 DEF RefuseBlank, Served, Placed
<1>5. CASE Delta(c)
  BY <1>2, <1>3, <1>5 DEF Delta, Served, Placed
<1>6. CASE Finish(c)
  BY <1>2, <1>3, <1>6 DEF Finish, Answering, Served, Placed
<1>7. CASE GiveUp(c)
  BY <1>2, <1>3, <1>7 DEF GiveUp, Answering, Served, Placed
<1>8. QED
  BY <1>4, <1>5, <1>6, <1>7

LEMMA OverService ==
  ASSUME ServiceInv, NEW c \in DOMAIN turns, UNCHANGED service, session' = session, thread' = thread,
         turns' \in {Over(c), [Over(c) EXCEPT ![c].serve = "dropped"], [Over(c) EXCEPT ![c].up = FALSE]}
  PROVE  ServiceInv'
<1>1. turns \in Seq(TurnSet) /\ "dropped" \notin Placed \cup {"posted"}
  BY DEF ServiceInv, Placed
<1>2. QED
  BY <1>1, OverTurn, TurnKeepsService

LEMMA ReadService == ASSUME ServiceInv, NEW c, Read(c) PROVE ServiceInv'
<1>1. UNCHANGED service /\ session' = session /\ thread' = thread /\ c \in DOMAIN turns /\ turns \in Seq(TurnSet)
  BY DEF Read, Reading, ServiceInv
<1>2. turns[c].frames # <<>> /\ (turns' = [turns EXCEPT ![c].frames = Tail(turns[c].frames)] \/ turns' = Over(c))
  BY DEF Read, appendDelta
<1>3. CASE turns' = [turns EXCEPT ![c].frames = Tail(turns[c].frames)]
  <2>1. Tail(turns[c].frames) \in Seq({"delta", "done", "error"})
    <3>1. turns[c].frames \in Seq({"delta", "done", "error"})
      BY <1>1, TurnFields
    <3> QED
      BY <1>2, <3>1
  <2>2. PICK frames \in Seq({"delta", "done", "error"}) : frames = Tail(turns[c].frames)
    BY <2>1
  <2> QED
    BY <1>1, <1>3, <2>2, TurnFrames, TurnKeepsService
<1>4. QED
  BY <1>1, <1>2, <1>3, OverService

LEMMA CancelledService == ASSUME ServiceInv, NEW c \in DOMAIN turns, Cancelled(c) PROVE ServiceInv'
<1>1. /\ UNCHANGED service /\ session' = session /\ thread' = thread /\ turns \in Seq(TurnSet)
      /\ turns' = [turns EXCEPT ![c].serve = "dropped"]
  BY DEF Cancelled, page, ServiceInv
<1>2. "dropped" \in Served /\ "dropped" \notin Placed \cup {"posted"}
  BY DEF Served, Placed
<1>3. QED
  BY <1>1, <1>2, TurnServe, TurnKeepsService

LEMMA BreakService == ASSUME ServiceInv, NEW c, Break(c) PROVE ServiceInv'
<1>1. c \in DOMAIN turns
  BY DEF Break
<1>2. CASE Cancelled(c)
  BY <1>1, <1>2, CancelledService
<1>3. CASE FetchFails(c) \/ Cut(c) \/ EndSilently(c)
  BY <1>1, <1>3, OverService, Zenon DEF FetchFails, Cut, EndSilently, page
<1>4. QED
  BY <1>2, <1>3 DEF Break

LEMMA NotOpenedService == ASSUME ServiceInv, NEW c, NotOpened(c) PROVE ServiceInv'
BY OverService, Zenon DEF NotOpened, Opening

LEMMA DismissService == ASSUME ServiceInv, Dismiss \/ DismissDone \/ DismissFailed PROVE ServiceInv'
<1>1. /\ UNCHANGED <<opened, rows, thread>> /\ (live' = live \/ live' = <<>>) /\ session' \in {session, None}
      /\ turns' = turns \/ turns' = Left \/ turns' = Aborted
  BY DEF Dismiss, DismissDone, DismissFailed, service
<1>2. live' \in Seq(1..opened)
  <2>1. <<>> \in Seq(1..opened)
    OBVIOUS
  <2> QED
    BY <1>1, <2>1 DEF ServiceInv
<1>3. session' \in (1..opened) \cup {None} /\ ThreadOK'
  BY <1>1, Zenon DEF ServiceInv, ThreadOK
<1>4. QED
  BY <1>1, <1>2, <1>3, LeavingService

\* The session list.
IsThread(t) == t = [f \in ThreadFields |-> t[f]]

LEMMA ThreadField ==
  ASSUME NEW t, IsThread(t), NEW f \in ThreadFields, NEW v
  PROVE  /\ IsThread([t EXCEPT ![f] = v]) /\ [t EXCEPT ![f] = v][f] = v
         /\ \A g \in ThreadFields : g # f => [t EXCEPT ![f] = v][g] = t[g]
BY DEF IsThread

LEMMA RemountService ==
  ASSUME ServiceInv, UNCHANGED service, NEW key, NEW sid \in (1..opened) \cup {None}, Remount(key, sid), ThreadOK'
  PROVE  ServiceInv'
<1>1. UNCHANGED <<opened, rows>> /\ live' \in Seq(1..opened)
  BY DEF service, ServiceInv
<1>2. session' \in (1..opened) \cup {None} /\ (turns' = turns \/ turns' = Left)
  BY DEF Remount, ServiceInv
<1>3. QED
  BY <1>1, <1>2, LeavingService

LEMMA SameChatService ==
  ASSUME ServiceInv, UNCHANGED <<session, turns, opened, rows>>, live' \in Seq(1..opened), ThreadOK' PROVE ServiceInv'
<1>1. session' \in (1..opened) \cup {None} /\ UNCHANGED <<opened, rows>> /\ turns' = turns
  BY DEF ServiceInv
<1>2. QED
  BY <1>1, LeavingService


LEMMA RemovedStays ==
  ASSUME NEW S, NEW s \in Seq(S), NEW i \in DOMAIN s PROVE RemoveAt(s, i) \in Seq(S)
<1>1. Len(s) \in Nat /\ i \in 1..Len(s) /\ s \in [1..Len(s) -> S]
  OBVIOUS
<1>2. ASSUME NEW m \in Int, NEW n \in Int, 1 <= m, n <= Len(s) PROVE SubSeq(s, m, n) \in Seq(S)
  BY <1>1, <1>2
<1>3. SubSeq(s, 1, i - 1) \in Seq(S) /\ SubSeq(s, i + 1, Len(s)) \in Seq(S)
  BY <1>1, <1>2
<1>4. QED
  BY <1>3 DEF RemoveAt

LEMMA ArchiveService == ASSUME ServiceInv, NEW sid, Archive(sid) PROVE ServiceInv'
<1>1. UNCHANGED <<session, turns, opened, rows>> /\ thread.archiving = None
  BY DEF Archive
<1>2. PICK i \in DOMAIN live : live' = RemoveAt(live, i)
  BY DEF Archive
<1>3. live' \in Seq(1..opened)
  BY <1>2, RemovedStays DEF ServiceInv
<1>4. ThreadOK'
  <2>1. PICK clicks, archiving : thread' = [thread EXCEPT !.clicks = clicks, !.archiving = archiving]
    BY DEF Archive
  <2>2. opened' = opened /\ thread = [f \in ThreadFields |-> thread[f]] /\ thread.renewing \in (1..opened) \cup {None}
    BY <1>1 DEF ServiceInv
  <2> QED
    BY <2>1, <2>2 DEF ThreadOK, ThreadFields
<1>5. QED
  BY <1>1, <1>3, <1>4, SameChatService

LEMMA StartNewService == ASSUME ServiceInv, StartNew PROVE ServiceInv'
<1>1. PICK sid : sid = opened + 1
  OBVIOUS
<1>2. UNCHANGED <<session, turns>> /\ Open(sid, TRUE, FALSE) /\ opened < MaxSessions
  BY <1>1 DEF StartNew
<1>3. Grows /\ AnswersFollow' /\ live' \in Seq(1..opened') /\ sid \in 1..opened'
  BY <1>1, <1>2, OpenKeeps
<1>4. session' \in (1..opened') \cup {None} /\ turns' \in Seq(TurnSet)
  BY <1>2, <1>3, OldStays
<1>5. ThreadOK'
  <2>1. PICK clicks : thread' = [thread EXCEPT !.renewing = sid, !.clicks = clicks]
    BY <1>1 DEF StartNew
  <2>2. thread = [f \in ThreadFields |-> thread[f]]
    BY DEF ServiceInv
  <2> QED
    BY <1>3, <2>1, <2>2 DEF ThreadOK, ThreadFields
<1>6. \A d \in DOMAIN turns' : d \in DOMAIN turns /\ turns'[d] = turns[d]
  BY <1>2
<1>7. QED
  BY <1>3, <1>4, <1>5, <1>6, ServiceStays

\* The list, as a step of it leaves it.
ListSteps ==
  \/ \E key, active : thread' = [thread EXCEPT !.key = key, !.active = active, !.listing = FALSE]
  \/ thread' = [thread EXCEPT !.listing = FALSE]
  \/ \E key, active, clicks : thread' = [thread EXCEPT !.key = key, !.active = active, !.clicks = clicks]
  \/ \E key, active : thread' = [thread EXCEPT !.key = key, !.active = active, !.renewing = None]
  \/ \E key, active : thread' = [thread EXCEPT !.archiving = None, !.key = key, !.active = active]
  \/ thread' = [thread EXCEPT !.archiving = None]

LEMMA ListStepOK == ASSUME ServiceInv, ListSteps, opened' = opened PROVE ThreadOK'
<1>1. thread = [f \in ThreadFields |-> thread[f]] /\ thread.renewing \in (1..opened) \cup {None}
  BY DEF ServiceInv
<1>2. ASSUME NEW key, NEW active, thread' = [thread EXCEPT !.key = key, !.active = active, !.listing = FALSE]
      PROVE  ThreadOK'
  BY <1>1, <1>2 DEF ThreadOK, ThreadFields
<1>3. CASE thread' = [thread EXCEPT !.listing = FALSE]
  BY <1>1, <1>3 DEF ThreadOK, ThreadFields
<1>4. ASSUME NEW key, NEW active, NEW clicks, thread' = [thread EXCEPT !.key = key, !.active = active, !.clicks = clicks]
      PROVE  ThreadOK'
  BY <1>1, <1>4 DEF ThreadOK, ThreadFields
<1>5. ASSUME NEW key, NEW active, thread' = [thread EXCEPT !.key = key, !.active = active, !.renewing = None]
      PROVE  ThreadOK'
  BY <1>1, <1>5 DEF ThreadOK, ThreadFields
<1>6. ASSUME NEW key, NEW active, thread' = [thread EXCEPT !.archiving = None, !.key = key, !.active = active]
      PROVE  ThreadOK'
  BY <1>1, <1>6 DEF ThreadOK, ThreadFields
<1>7. CASE thread' = [thread EXCEPT !.archiving = None]
  BY <1>1, <1>7 DEF ThreadOK, ThreadFields
<1>8. QED
  BY <1>2, <1>3, <1>4, <1>5, <1>6, <1>7, Zenon DEF ListSteps

\* Another chat comes up, or the one that is open stays.
Comes(key, sid) == Remount(key, sid) /\ UNCHANGED service
Keeps == UNCHANGED <<surface, session, shown, streaming, history, dismissing, turns, mishaps, service>>

LEMMA ListCases ==
  ASSUME ListArrives \/ StartedNew \/ Archived \/ (\E sid \in Sessions : resume(sid))
  PROVE  /\ ListSteps
         /\ \/ Keeps
            \/ live # <<>> /\ Comes(<<"on", Newest>>, Newest)
            \/ thread.renewing # None /\ Comes(<<"on", thread.renewing>>, thread.renewing)
            \/ \E key : Comes(key, None)
            \/ \E sid \in Sessions : sid \in Range(live) /\ Comes(<<"on", sid>>, sid)
<1>1. CASE ListArrives
  <2>1. CASE live # <<>> /\ thread' = [Resumed(Newest) EXCEPT !.listing = FALSE] /\ Remount(<<"on", Newest>>, Newest) /\ UNCHANGED service
    <3>1. thread' = [thread EXCEPT !.key = <<"on", Newest>>, !.active = Newest, !.listing = FALSE]
      BY <2>1 DEF Resumed
    <3> QED
      BY <2>1, <3>1, Zenon DEF ListSteps, Comes
  <2>2. CASE thread' = [thread EXCEPT !.listing = FALSE] /\ Keeps
    BY <2>2, Zenon DEF ListSteps
  <2> QED
    BY <1>1, <2>1, <2>2, Zenon DEF ListArrives, Keeps
<1>2. CASE StartedNew
  <2>1. /\ thread.renewing # None /\ Comes(<<"on", thread.renewing>>, thread.renewing)
        /\ thread' = [Resumed(thread.renewing) EXCEPT !.renewing = None]
    BY <1>2 DEF StartedNew, Comes
  <2>2. thread' = [thread EXCEPT !.key = <<"on", thread.renewing>>, !.active = thread.renewing, !.renewing = None]
    BY <2>1 DEF Resumed
  <2> QED
    BY <2>1, <2>2, Zenon DEF ListSteps
<1>3. CASE Archived
  <2> DEFINE done == [thread EXCEPT !.archiving = None]
  <2>1. CASE thread' = done /\ Keeps
    BY <2>1, Zenon DEF ListSteps
  <2>2. CASE live # <<>> /\ thread' = [done EXCEPT !.key = <<"on", Newest>>, !.active = Newest] /\ Comes(<<"on", Newest>>, Newest)
    <3>1. thread' = [thread EXCEPT !.archiving = None, !.key = <<"on", Newest>>, !.active = Newest]
      BY <2>2
    <3> QED
      BY <2>2, <3>1, Zenon DEF ListSteps
  <2>3. ASSUME NEW key, thread' = [done EXCEPT !.key = key, !.active = None], Comes(key, None)
        PROVE  ListSteps /\ \E k : Comes(k, None)
    <3>1. thread' = [thread EXCEPT !.archiving = None, !.key = key, !.active = None]
      BY <2>3
    <3> QED
      BY <2>3, <3>1, Zenon DEF ListSteps
  <2> HIDE DEF done
  <2>4. \/ thread' = done /\ Keeps
        \/ live # <<>> /\ thread' = [done EXCEPT !.key = <<"on", Newest>>, !.active = Newest] /\ Comes(<<"on", Newest>>, Newest)
        \/ \E key : thread' = [done EXCEPT !.key = key, !.active = None] /\ Comes(key, None)
    BY <1>3, Zenon DEF Archived, Keeps, Comes, done
  <2> QED
    BY <2>1, <2>2, <2>3, <2>4, Zenon
<1>4. ASSUME NEW sid \in Sessions, resume(sid)
      PROVE  ListSteps /\ sid \in Range(live) /\ Comes(<<"on", sid>>, sid)
  <2>1. PICK clicks : thread' = [Resumed(sid) EXCEPT !.clicks = clicks]
    BY <1>4 DEF resume, Resumed
  <2>2. thread' = [thread EXCEPT !.key = <<"on", sid>>, !.active = sid, !.clicks = clicks]
    BY <2>1 DEF Resumed
  <2>3. ListSteps
    BY <2>2, Zenon DEF ListSteps
  <2>4. sid \in Range(live) /\ Comes(<<"on", sid>>, sid)
    BY <1>4 DEF resume, Comes
  <2> QED
    BY <2>3, <2>4
<1>5. QED
  BY <1>1, <1>2, <1>3, <1>4, Zenon

LEMMA BrowseService == ASSUME ServiceInv, Browse PROVE ServiceInv'
<1>1. CASE StartNew
  BY <1>1, StartNewService
<1>2. ASSUME NEW sid, Archive(sid) PROVE ServiceInv'
  BY <1>2, ArchiveService
<1>3. CASE ListArrives \/ StartedNew \/ Archived \/ (\E sid \in Sessions : resume(sid))
  <2>1. ListSteps /\ \/ Keeps
                     \/ \E key : \E sid \in (1..opened) \cup {None} : Comes(key, sid)
    <3>1. thread.renewing \in (1..opened) \cup {None} /\ (live # <<>> => Newest \in 1..opened) /\ \A sid \in Range(live) : sid \in 1..opened
      BY NewestOpen DEF ServiceInv, Range
    <3> QED
      BY <1>3, <3>1, ListCases, Zenon
  <2>2. CASE Keeps
    <3>1. UNCHANGED <<session, turns, opened, rows>> /\ live' \in Seq(1..opened) /\ ThreadOK'
      BY <2>1, <2>2, ListStepOK DEF Keeps, service, ServiceInv
    <3> QED
      BY <3>1, SameChatService
  <2>3. ASSUME NEW key, NEW sid \in (1..opened) \cup {None}, Comes(key, sid) PROVE ServiceInv'
    <3>1. Remount(key, sid) /\ UNCHANGED service /\ ThreadOK'
      BY <2>1, <2>3, ListStepOK DEF Comes, service
    <3> QED
      BY <2>3, <3>1, RemountService
  <2> QED
    BY <2>1, <2>2, <2>3
<1>4. QED
  BY <1>1, <1>2, <1>3, Zenon DEF Browse

LEMMA SameService == ASSUME ServiceInv, UNCHANGED <<session, thread, turns, service>> PROVE ServiceInv'
<1>1. UNCHANGED <<session, turns, opened, rows>> /\ live' \in Seq(1..opened) /\ ThreadOK'
  BY DEF service, ServiceInv, ThreadOK
<1>2. QED
  BY <1>1, SameChatService

LEMMA ReplayService == ASSUME ServiceInv, Replay PROVE ServiceInv'
BY SameService DEF Replay, ServeHistory, HistoryArrives, HistoryFails

LEMMA ServiceStep == ASSUME ServiceInv, [Next]_vars PROVE ServiceInv'
<1>1. CASE Submit
  BY <1>1, SubmitService
<1>2. CASE Dismiss \/ DismissDone \/ DismissFailed
  BY <1>2, DismissService
<1>3. CASE Browse
  BY <1>3, BrowseService
<1>4. CASE Replay
  BY <1>4, ReplayService
<1>5. ASSUME NEW c, OpenOne(c) PROVE ServiceInv'
  BY <1>5, OpenedService, NotOpenedService, OrphanService DEF OpenOne
<1>6. ASSUME NEW c, Handle(c) PROVE ServiceInv'
  BY <1>6, TakeService, SaveService, EmitService DEF Handle
<1>7. ASSUME NEW c, Read(c) PROVE ServiceInv'
  BY <1>7, ReadService
<1>8. ASSUME NEW c, Break(c) PROVE ServiceInv'
  BY <1>8, BreakService
<1>9. ASSUME NEW sid, Elsewhere(sid) PROVE ServiceInv'
  BY <1>9, ElsewhereService
<1>10. CASE UNCHANGED vars
  BY <1>10, SameService DEF vars, page
<1>11. QED
  BY <1>1, <1>2, <1>3, <1>4, <1>5, <1>6, <1>7, <1>8, <1>9, <1>10, Zenon DEF Next


LEMMA ServiceInit == ASSUME Init PROVE ServiceInv
<1>1. MaxSessions \in Nat \ {0} /\ None \notin Nat
  BY SessionsAssumption
<1>2. /\ live = <<>> \/ live = <<1>>
      /\ opened = Len(live) /\ turns = <<>>
  BY Zenon DEF Init
<1>3. opened \in 0..MaxSessions /\ live \in Seq(1..opened) /\ (live = <<>> => opened = 0) /\ (live = <<1>> => opened = 1)
  <2>1. CASE live = <<>>
    BY <1>1, <1>2, <2>1
  <2>2. CASE live = <<1>>
    <3>1. opened = 1
      BY <1>2, <2>2
    <3>2. <<1>> \in Seq(1..1)
      OBVIOUS
    <3>3. <<1>> # <<>>
      OBVIOUS
    <3> QED
      BY <1>1, <2>2, <3>1, <3>2, <3>3
  <2> QED
    BY <1>2, <2>1, <2>2
<1>4. session \in (1..opened) \cup {None}
  <2>1. live # <<>> => Newest \in 1..opened
    BY <1>3 DEF Newest, Last
  <2>2. live = <<>> => Newest = None
    BY DEF Newest
  <2> QED
    BY <2>1, <2>2, Zenon DEF Init, SessionAtLoad
<1>5. thread = [f \in ThreadFields |-> thread[f]] /\ thread.renewing \in (1..opened) \cup {None}
  BY DEF Init, NoThread, ThreadFields
<1>6. turns \in Seq(TurnSet) /\ \A c \in DOMAIN turns : Standing(c)
  BY <1>2
<1>7. Row("assistant", 0) \in RowSet /\ <<Row("assistant", 0)>> \in Seq(RowSet) /\ <<>> \in Seq(RowSet)
  <2>1. Row("assistant", 0) \in RowSet
    BY RowTyped DEF Roles
  <2> QED
    BY <2>1
<1>8. \A s \in Sessions : rows[s] = <<>> \/ (s \in Range(live) /\ rows[s] = <<Row("assistant", 0)>>)
  BY Zenon DEF Init
<1>9. rows = [s \in Sessions |-> rows[s]]
  BY DEF Init
<1>10. \A s \in Range(live) : s \in 1..opened
  BY <1>3 DEF Range
<1>11. rows \in [Sessions -> Seq(RowSet)] /\ \A s \in Sessions : s > opened => rows[s] = <<>>
  <2>1. \A s \in Sessions : rows[s] \in Seq(RowSet)
    BY <1>7, <1>8, Zenon
  <2>2. \A s \in Sessions : s > opened => s \notin 1..opened
    BY <1>3 DEF Sessions
  <2>3. rows \in [Sessions -> Seq(RowSet)]
    BY <1>9, <2>1
  <2> QED
    BY <1>8, <1>10, <2>2, <2>3, Zenon
<1>12. AnswersFollow
  <2> SUFFICES ASSUME NEW s \in Sessions, NEW i \in DOMAIN rows[s], rows[s][i].role # "user", rows[s][i].of # 0
               PROVE  FALSE
    BY DEF AnswersFollow
  <2>1. rows[s] = <<Row("assistant", 0)>>
    BY <1>8
  <2>2. rows[s][i] = Row("assistant", 0)
    BY <2>1
  <2> QED
    BY <2>2 DEF Row
<1>13. QED
  BY <1>3, <1>4, <1>5, <1>6, <1>11, <1>12 DEF ServiceInv

\* A saved answer stands right behind its own question.
THEOREM AnswersFollowQuestions == Spec => []AnswersFollow
<1>1. Init => ServiceInv
  BY ServiceInit
<1>2. ServiceInv /\ [Next]_vars => ServiceInv'
  BY ServiceStep
<1>3. ServiceInv => AnswersFollow
  BY DEF ServiceInv
<1> QED
  BY <1>1, <1>2, <1>3, PTL DEF Spec


-----------------------------------------------------------------------------
(* What belongs to one surface only.                                       *)

LEMMA BrowseColumns == ASSUME Browse, Columns PROVE surface = "concierge" /\ UNCHANGED <<surface, dismissing>> /\ Columns'
<1>1. surface = "concierge"
  BY Zenon DEF Browse, Columns, ListArrives, StartNew, StartedNew, Archived, resume, Archive, Clicked
<1>2. surface' = surface /\ dismissing' = dismissing
  BY Zenon DEF Browse, ListArrives, StartNew, StartedNew, Archived, resume, Archive, Remount
<1>3. QED
  BY <1>1, <1>2 DEF Columns

LEMMA ColumnsStep == ASSUME ServiceInv, Columns, [Next]_vars PROVE Columns'
<1>1. ASSUME UNCHANGED <<surface, dismissing, history, thread>> PROVE Columns'
  BY <1>1 DEF Columns
<1>2. CASE Submit
  BY <1>1, <1>2, Zenon DEF Submit, SendShell, SendPrompt, SendRail, SendConcierge, SendTurn, Bootstrap, SubmitPrompt,
     SubmitRail, SubmitDraft, Add
<1>3. CASE Dismiss \/ DismissDone \/ DismissFailed
  <2>1. UNCHANGED <<history, thread>> /\ surface # "concierge" /\ (dismissing' => surface' = "prompt")
    BY <1>3 DEF Dismiss, DismissDone, DismissFailed, Columns
  <2> QED
    BY <2>1 DEF Columns
<1>4. CASE Browse
  BY <1>4, BrowseColumns
<1>5. CASE Replay
  <2>1. surface = "concierge" /\ surface' = surface /\ dismissing' = dismissing
    BY <1>5 DEF Replay, ServeHistory, HistoryArrives, HistoryFails, Columns, NoHistory
  <2> QED
    BY <2>1 DEF Columns
<1>6. ASSUME NEW c, OpenOne(c) PROVE Columns'
  <2>1. UNCHANGED <<surface, history, dismissing>>
    BY <1>6, Zenon DEF OpenOne, Opened, NotOpened, OpenedOrphan
  <2>2. thread' = thread \/ (\E a : thread' = [thread EXCEPT !.active = a])
    BY <1>6, Zenon DEF OpenOne, Opened, NotOpened, OpenedOrphan, OpenedPrompt, OpenedRail, OpenedDraft
  <2>3. ASSUME NEW a, thread' = [thread EXCEPT !.active = a] PROVE Columns'
    <3>1. thread = [f \in ThreadFields |-> thread[f]]
      BY DEF ServiceInv
    <3>2. thread'.listing = thread.listing /\ thread'.renewing = thread.renewing /\ thread'.archiving = thread.archiving
      BY <2>3, <3>1 DEF ThreadFields
    <3> QED
      BY <2>1, <3>2 DEF Columns
  <2> QED
    BY <1>1, <2>1, <2>2, <2>3
<1>7. ASSUME NEW c, Handle(c) \/ Read(c) \/ Break(c) PROVE Columns'
  BY <1>1, <1>7, Zenon DEF Handle, TakeTurn, RefuseBlank, Delta, Finish, GiveUp, SaveAnswer, Read, Break, FetchFails, Cut,
     EndSilently, Cancelled, page
<1>8. ASSUME NEW sid, Elsewhere(sid) PROVE Columns'
  BY <1>1, <1>8 DEF Elsewhere, page
<1>9. CASE UNCHANGED vars
  BY <1>1, <1>9 DEF vars, page
<1>10. QED
  BY <1>2, <1>3, <1>4, <1>5, <1>6, <1>7, <1>8, <1>9, Zenon DEF Next

LEMMA ColumnsInit == ASSUME Init PROVE Columns
<1>1. /\ history = NoHistory /\ dismissing = FALSE
      /\ thread.listing = (surface = "concierge") /\ thread.renewing = None /\ thread.archiving = None
  BY DEF Init, NoThread
<1>2. QED
  BY <1>1 DEF Columns


-----------------------------------------------------------------------------
(* What the page shows.                                                    *)

LEMMA WithNone == ASSUME NEW rs PROVE With(rs, {}) = rs
BY DEF With

LEMMA WithOne == ASSUME NEW rs, NEW r PROVE With(rs, {r}) = Append(rs, r)
<1>1. (CHOOSE q \in {r} : TRUE) = r
  OBVIOUS
<1>2. {r} # {}
  OBVIOUS
<1>3. QED
  BY <1>1, <1>2, Zenon DEF With

LEMMA AppendIs ==
  ASSUME NEW S, NEW rs \in Seq(S), NEW r \in S
  PROVE  Append(rs, r) = [i \in 1..(Len(rs) + 1) |-> IF i = Len(rs) + 1 THEN r ELSE rs[i]]
<1> DEFINE q == Append(rs, r)
<1>1. q \in Seq(S) /\ Len(q) = Len(rs) + 1 /\ Len(rs) \in Nat
  OBVIOUS
<1>2. q[Len(rs) + 1] = r /\ \A i \in 1..Len(rs) : q[i] = rs[i]
  OBVIOUS
<1> HIDE DEF q
<1>3. q \in [1..(Len(rs) + 1) -> S]
  BY <1>1
<1>4. q = [i \in 1..(Len(rs) + 1) |-> IF i = Len(rs) + 1 THEN r ELSE rs[i]]
  BY <1>1, <1>2, <1>3
<1>5. QED
  BY <1>4 DEF q

LEMMA RowsOfMore ==
  ASSUME NEW bs \in Seq(BubbleSet), NEW b \in BubbleSet
  PROVE  /\ Append(bs, b) \in Seq(BubbleSet) /\ bs \o <<b>> = Append(bs, b)
         /\ RowsOf(Append(bs, b)) = Append(RowsOf(bs), Row(b.role, b.of))
<1>1. Append(bs, b) \in Seq(BubbleSet) /\ bs \o <<b>> = Append(bs, b)
  OBVIOUS
<1>2. /\ Len(bs) \in Nat /\ DOMAIN bs = 1..Len(bs) /\ DOMAIN Append(bs, b) = 1..(Len(bs) + 1)
      /\ Append(bs, b)[Len(bs) + 1] = b /\ \A i \in 1..Len(bs) : Append(bs, b)[i] = bs[i]
  OBVIOUS
<1> DEFINE long == Append(bs, b)
           r == Row(b.role, b.of)
<1>3. RowsOf(bs) \in Seq(RowSet) /\ Len(RowsOf(bs)) = Len(bs) /\ r \in RowSet
  <2>1. \A i \in 1..Len(bs) : bs[i] \in BubbleSet
    BY <1>2
  <2>2. \A a \in BubbleSet : Row(a.role, a.of) \in RowSet
    BY DEF BubbleSet, Row, RowSet
  <2>3. RowsOf(bs) \in [1..Len(bs) -> RowSet]
    BY <1>2, <2>1, <2>2 DEF RowsOf
  <2> QED
    BY <1>2, <2>2, <2>3
<1>4. RowsOf(long) = [i \in 1..(Len(bs) + 1) |-> Row(long[i].role, long[i].of)]
  BY <1>2 DEF RowsOf
<1> HIDE DEF r, long
<1>5. Append(RowsOf(bs), r) = [i \in 1..(Len(bs) + 1) |-> IF i = Len(bs) + 1 THEN r ELSE RowsOf(bs)[i]]
  BY <1>2, <1>3, AppendIs
<1>6. \A i \in 1..(Len(bs) + 1) : Row(long[i].role, long[i].of) = IF i = Len(bs) + 1 THEN r ELSE RowsOf(bs)[i]
  <2> SUFFICES ASSUME NEW i \in 1..(Len(bs) + 1)
               PROVE  Row(long[i].role, long[i].of) = IF i = Len(bs) + 1 THEN r ELSE RowsOf(bs)[i]
    OBVIOUS
  <2>1. CASE i = Len(bs) + 1
    BY <1>2, <2>1 DEF long, r
  <2>2. CASE i # Len(bs) + 1
    <3>1. i \in 1..Len(bs)
      BY <1>2, <2>2
    <3>2. RowsOf(bs)[i] = Row(bs[i].role, bs[i].of)
      BY <1>2, <3>1 DEF RowsOf
    <3> QED
      BY <1>2, <2>2, <3>1, <3>2 DEF long
  <2> QED
    BY <2>1, <2>2
<1>7. RowsOf(long) = Append(RowsOf(bs), r)
  BY <1>4, <1>5, <1>6
<1>8. QED
  BY <1>1, <1>7 DEF long, r

LEMMA BubbleTyped ==
  ASSUME NEW role \in Roles, NEW c \in Nat, NEW says \in SUBSET {c}
  PROVE  /\ Bubble(role, c, says) \in BubbleSet /\ Bubble(role, c, says).role = role /\ Bubble(role, c, says).of = c
<1>1. says \in SUBSET Nat
  OBVIOUS
<1>2. QED
  BY <1>1 DEF Bubble, BubbleSet

\* A bubble goes under the others, and stands for one turn.
LEMMA ShowsMore ==
  ASSUME NEW bs \in Seq(BubbleSet), NEW role \in Roles, NEW c \in Nat, NEW says \in SUBSET {c}
  PROVE  /\ bs \o <<Bubble(role, c, says)>> = Append(bs, Bubble(role, c, says))
         /\ Append(bs, Bubble(role, c, says)) \in Seq(BubbleSet)
         /\ RowsOf(Append(bs, Bubble(role, c, says))) = Append(RowsOf(bs), Row(role, c))
<1> DEFINE b == Bubble(role, c, says)
<1>1. b \in BubbleSet /\ b.role = role /\ b.of = c
  BY BubbleTyped
<1> HIDE DEF b
<1>2. bs \o <<b>> = Append(bs, b) /\ Append(bs, b) \in Seq(BubbleSet) /\ RowsOf(Append(bs, b)) = Append(RowsOf(bs), Row(b.role, b.of))
  BY <1>1, RowsOfMore
<1>3. QED
  BY <1>1, <1>2 DEF b

LEMMA ReplayedRows ==
  ASSUME NEW rs \in Seq(RowSet) PROVE Replayed(rs) \in Seq(BubbleSet) /\ RowsOf(Replayed(rs)) = rs
<1>1. Len(rs) \in Nat /\ DOMAIN rs = 1..Len(rs) /\ \A i \in 1..Len(rs) : rs[i] \in RowSet
  OBVIOUS
<1> DEFINE bs == Replayed(rs)
           says(i) == IF rs[i].role = "error" THEN {} ELSE {rs[i].of}
<1>2. DOMAIN bs = 1..Len(rs) /\ bs = [i \in 1..Len(rs) |-> bs[i]] /\ \A i \in 1..Len(rs) : bs[i] = Bubble(rs[i].role, rs[i].of, says(i))
  BY <1>1 DEF Replayed
<1>3. \A i \in 1..Len(rs) : bs[i] \in BubbleSet /\ Row(bs[i].role, bs[i].of) = rs[i]
  <2> SUFFICES ASSUME NEW i \in 1..Len(rs) PROVE bs[i] \in BubbleSet /\ Row(bs[i].role, bs[i].of) = rs[i]
    OBVIOUS
  <2>1. rs[i].role \in Roles /\ rs[i].of \in Nat /\ Row(rs[i].role, rs[i].of) = rs[i] /\ says(i) \in SUBSET {rs[i].of}
    BY <1>1 DEF RowSet, Row
  <2> HIDE DEF bs, says
  <2>2. bs[i] \in BubbleSet /\ bs[i].role = rs[i].role /\ bs[i].of = rs[i].of
    BY <1>2, <2>1, BubbleTyped
  <2> QED
    BY <2>1, <2>2
<1> HIDE DEF bs
<1>4. bs \in [1..Len(rs) -> BubbleSet]
  BY <1>2, <1>3
<1>5. RowsOf(bs) = [i \in 1..Len(rs) |-> rs[i]]
  BY <1>2, <1>3 DEF RowsOf
<1>6. rs = [i \in 1..Len(rs) |-> rs[i]]
  BY <1>1
<1>7. QED
  BY <1>1, <1>4, <1>5, <1>6 DEF bs

\* What the other turns do does not touch the page, but for what they write to the session it shows.
LEMMA OwnTurns ==
  ASSUME Mine' = Mine, \A c \in Mine : turns'[c] = turns[c]
  PROVE  /\ Reading' = Reading /\ Opening' = Opening /\ Owed' = Owed
         /\ AnswerRows' = AnswerRows /\ PostedRows' = PostedRows /\ EndRows' = EndRows
<1>1. Reading' = Reading /\ Opening' = Opening /\ Owed' = Owed
  <2>1. Reading = {c \in Mine : turns[c].ask = "reading"} /\ Reading' = {c \in Mine' : turns'[c].ask = "reading"}
    BY DEF Reading, Mine
  <2>2. Opening = {c \in Mine : turns[c].ask = "opening"} /\ Opening' = {c \in Mine' : turns'[c].ask = "opening"}
    BY DEF Opening, Mine
  <2>3. /\ Owed = {c \in Mine : turns[c].serve \in {"posted", "running", "speaking", "answered", "failed"}}
        /\ Owed' = {c \in Mine' : turns'[c].serve \in {"posted", "running", "speaking", "answered", "failed"}}
    BY DEF Owed, UnderWay, Mine
  <2> QED
    BY <2>1, <2>2, <2>3
<1>2. Reading \subseteq Mine
  BY DEF Reading, Mine
<1>3. Answered' = Answered /\ Posting' = Posting /\ Ending' = Ending
  BY <1>1, <1>2 DEF Answered, Posting, Ending
<1>4. (\A d \in Answered : AnswerRow(d)' = AnswerRow(d)) /\ (\A d \in Ending : EndRow(d)' = EndRow(d))
  BY <1>2 DEF AnswerRow, EndRow, Answered, Ending
<1>5. AnswerRows' = AnswerRows /\ PostedRows' = PostedRows /\ EndRows' = EndRows
  BY <1>3, <1>4 DEF AnswerRows, PostedRows, EndRows
<1>6. QED
  BY <1>1, <1>5

samePage == UNCHANGED <<surface, session, shown, streaming, history>>

LEMMA OwnPage ==
  ASSUME PageFollows, samePage, Mine' = Mine, \A c \in Mine : turns'[c] = turns[c],
         session # None => rows'[session] = rows[session] \/ history.stage = "asked"
  PROVE  PageFollows'
<1>1. UNCHANGED <<surface, session, shown, streaming, history>>
  BY DEF samePage
<1>2. shown \in Seq(BubbleSet) /\ \A c \in Mine : turns[c].up
  BY DEF PageFollows
<1>3. /\ Reading' = Reading /\ Opening' = Opening /\ Owed' = Owed
      /\ AnswerRows' = AnswerRows /\ PostedRows' = PostedRows /\ EndRows' = EndRows
  BY OwnTurns
<1>4. Reading \subseteq Mine /\ Opening \subseteq Mine /\ Owed \subseteq Mine
  BY DEF Reading, Opening, Owed, Mine
<1>5. CASE session = None
  <2>1. Draft
    BY <1>5 DEF PageFollows
  <2>2. Draft'
    BY <1>1, <1>3, <1>4, <2>1 DEF Draft
  <2> QED
    BY <1>1, <1>2, <1>5, <2>2 DEF PageFollows
<1>6. CASE session # None
  <2>1. Bound /\ session' = session /\ (rows'[session] = rows[session] \/ history.stage = "asked")
    BY <1>1, <1>6 DEF PageFollows
  <2>2. \A c \in Reading : Streams(c)'
    BY <1>1, <1>4, <2>1 DEF Streams, Bound
  <2>3. \A c \in Owed' : turns'[c].at = session'
    BY <1>3, <1>4, <2>1 DEF Bound
  <2>4. \A c, d \in Mine' : turns'[c].serve \in Placed /\ turns'[d].serve \in Placed => c = d
    BY <2>1 DEF Bound
  <2>5. \A c \in Mine' : turns'[c].serve \in {"posted", "running", "speaking"} => turns'[c].ask = "reading"
    BY <2>1 DEF Bound
  <2>6. Reading' = {} => streaming' = Idle
    BY <1>1, <1>3, <2>1 DEF Bound
  <2>7. CASE rows'[session] = rows[session]
    <3>1. FiledAndSent' = FiledAndSent /\ Told' = Told
      BY <1>1, <1>3, <2>1, <2>7 DEF FiledAndSent, Told, RowsOf
    <3>2. \A c \in Mine' : turns'[c].serve \in Placed => turns'[c].place = Len(rows'[session'])
      BY <2>1, <2>7 DEF Bound
    <3>3. Bound'
      BY <1>1, <1>3, <2>1, <2>2, <2>3, <2>4, <2>5, <2>6, <2>7, <3>1, <3>2 DEF Bound
    <3> QED
      BY <1>1, <1>2, <1>6, <3>3 DEF PageFollows
  <2>8. CASE history.stage = "asked"
    <3>1. history # NoHistory
      BY <2>8 DEF NoHistory
    <3>2. Owed = {} /\ Reading = {} /\ shown = <<>>
      BY <2>1, <3>1 DEF Bound
    <3>3. \A c \in Mine : turns[c].serve \notin Placed
      BY <3>2 DEF Owed, UnderWay, Mine, Placed
    <3>4. Bound'
      BY <1>1, <1>3, <2>1, <2>2, <2>3, <2>4, <2>5, <2>6, <2>8, <3>1, <3>2, <3>3 DEF Bound
    <3> QED
      BY <1>1, <1>2, <1>6, <3>4 DEF PageFollows
  <2> QED
    BY <2>1, <2>7, <2>8
<1>7. QED
  BY <1>5, <1>6

LEMMA PageStays ==
  ASSUME PageFollows, UNCHANGED <<surface, session, shown, streaming, history, turns>>,
         session # None => rows'[session] = rows[session]
  PROVE  PageFollows'
<1>1. samePage /\ Mine' = Mine
  BY DEF samePage, Mine
<1>2. QED
  BY <1>1, OwnPage



\* An answer ends the way it began to, by its frames.
LEMMA Ends ==
  /\ <<>> \notin Good \cup Bad /\ <<"delta">> \notin Good \cup Bad /\ Good \cap Bad = {}
  /\ Good \cup Bad \subseteq Seq({"delta", "done", "error"})
<1>1. \A f \in Good : Len(f) \in {1, 2} /\ f[Len(f)] = "done" /\ (Len(f) = 2 => f[1] = "delta") /\ f \in Seq({"delta", "done", "error"})
  BY DEF Good
<1>2. \A f \in Bad : Len(f) \in {2, 3} /\ f[Len(f)] = "done" /\ (Len(f) = 2 => f[1] = "error") /\ f \in Seq({"delta", "done", "error"})
  <2>1. PICK e : e = <<"delta", "error", "done">>
    OBVIOUS
  <2>2. Len(e) = 3 /\ e[3] = "done" /\ e \in Seq({"delta", "done", "error"})
    BY <2>1
  <2>3. PICK g : g = <<"error", "done">>
    OBVIOUS
  <2>4. Len(g) = 2 /\ g[1] = "error" /\ g[2] = "done" /\ g \in Seq({"delta", "done", "error"})
    BY <2>3
  <2>5. Bad = {e, g}
    BY <2>1, <2>3 DEF Bad
  <2> QED
    BY <2>2, <2>4, <2>5
<1>3. Len(<<>>) = 0 /\ Len(<<"delta">>) = 1 /\ <<"delta">>[1] = "delta"
  OBVIOUS
<1>4. <<>> \notin Good \cup Bad
  BY <1>1, <1>2, <1>3
<1>5. <<"delta">> \notin Good \cup Bad
  <2>1. PICK f : f = <<"delta">>
    OBVIOUS
  <2>2. Len(f) = 1 /\ f[1] = "delta"
    BY <2>1
  <2>3. f \notin Good \cup Bad
    BY <1>1, <1>2, <2>2
  <2> QED
    BY <2>1, <2>3
<1>6. \A f : f \in Good => f \notin Bad
  BY <1>1, <1>2
<1>7. QED
  BY <1>1, <1>2, <1>4, <1>5, <1>6

\* One stream is read, and a message that is not answered is read.
LEMMA BoundTurns ==
  ASSUME PageFollows, session # None
  PROVE  /\ Bound /\ Opening = {} /\ shown \in Seq(BubbleSet)
         /\ (streaming = Idle => Reading = {})
         /\ \A c \in Reading : Streams(c) /\ Reading = {c}
         /\ \A c \in Mine : turns[c].serve \in {"posted", "running", "speaking"} => c \in Reading
         /\ Reading = {} => Posting = {} /\ Ending = {} /\ PostedRows = {} /\ EndRows = {}
<1>1. Bound /\ shown \in Seq(BubbleSet)
  BY DEF PageFollows
<1>2. \A c \in Reading : Streams(c) /\ Reading = {c}
  <2>1. \A c \in Reading : Streams(c)
    BY <1>1 DEF Bound
  <2>2. \A c \in Reading : streaming.of = c
    <3>1. \A c, w : [of |-> c, says |-> w, kept |-> TRUE].of = c
      OBVIOUS
    <3> QED
      BY <2>1, <3>1, Zenon DEF Streams
  <2> QED
    BY <2>1, <2>2
<1>3. streaming = Idle => Reading = {}
  <2>1. \A c \in Reading : streaming.kept = TRUE
    <3>1. \A c : [of |-> c, says |-> streaming.says, kept |-> TRUE].kept = TRUE
      OBVIOUS
    <3> QED
      BY <1>2, <3>1, Zenon DEF Streams
  <2>2. Idle.kept = FALSE
    BY DEF Idle
  <2> QED
    BY <2>1, <2>2, Zenon
<1>4. \A c \in Mine : turns[c].serve \in {"posted", "running", "speaking"} => c \in Reading
  BY <1>1 DEF Bound, Reading, Mine
<1>5. Reading = {} => Posting = {} /\ Ending = {}
  BY <1>4 DEF Posting, Ending, Mine
<1>6. (Posting = {} => PostedRows = {}) /\ (Ending = {} => EndRows = {})
  BY DEF PostedRows, EndRows
<1>7. QED
  BY <1>1, <1>2, <1>3, <1>4, <1>5, <1>6 DEF Bound

LEMMA SendPage == ASSUME ServiceInv, PageFollows, SendTurn, ~Apart' PROVE PageFollows'
<1>1. /\ history = NoHistory /\ history' = history /\ streaming = Idle /\ session # None /\ session' = session /\ rows' = rows
  BY DEF SendTurn, Add, Hasty, Apart, ComposerOn, service
<1>2. /\ Bound /\ Opening = {} /\ Reading = {} /\ shown \in Seq(BubbleSet) /\ PostedRows = {} /\ EndRows = {}
  BY <1>1, BoundTurns
<1>3. PICK n : n = NextTurn
  OBVIOUS
<1> DEFINE t == Turn(session, "reading", "posted")
<1>4. /\ t \in TurnSet /\ t.at = session /\ t.ask = "reading" /\ t.serve = "posted" /\ t.up /\ t.frames = <<>>
  BY TurnTyped, SessionTyped DEF Served, Asks
<1>5. turns' = Append(turns, t) /\ turns \in Seq(TurnSet)
  BY DEF SendTurn, Add, ServiceInv
<1> HIDE DEF t
<1>6. /\ n \in Nat \ {0} /\ Len(turns') = n /\ DOMAIN turns' = DOMAIN turns \cup {n} /\ n \notin DOMAIN turns
      /\ turns'[n] = t /\ \A d \in DOMAIN turns : turns'[d] = turns[d]
  BY <1>3, <1>4, <1>5, AppendTurn
<1>7. /\ shown' = Append(shown, Bubble("user", n, {n})) /\ shown' \in Seq(BubbleSet)
      /\ RowsOf(shown') = Append(RowsOf(shown), Row("user", n))
  <2>1. shown' = shown \o <<>> \o <<Bubble("user", n, {n})>>
    BY <1>3, Zenon DEF SendTurn, ShowQuestion
  <2>2. shown \o <<>> = shown
    BY <1>2
  <2>3. "user" \in Roles /\ {n} \in SUBSET {n} /\ n \in Nat
    BY <1>6 DEF Roles
  <2>4. /\ shown \o <<Bubble("user", n, {n})>> = Append(shown, Bubble("user", n, {n}))
        /\ Append(shown, Bubble("user", n, {n})) \in Seq(BubbleSet)
        /\ RowsOf(Append(shown, Bubble("user", n, {n}))) = Append(RowsOf(shown), Row("user", n))
    BY <1>2, <2>3, ShowsMore
  <2> QED
    BY <2>1, <2>2, <2>4, Zenon
<1>8. Reading' = {n} /\ Opening' = {} /\ Owed' = Owed \cup {n} /\ Mine' = Mine \cup {n} /\ n \notin Mine
  BY <1>2, <1>4, <1>6 DEF Reading, Opening, Owed, UnderWay, Mine
<1>9. AnswerRows' = AnswerRows /\ PostedRows' = {Row("user", n)} /\ EndRows' = {}
  <2>1. Answered' = Answered /\ n \notin Answered /\ \A d \in Answered : AnswerRow(d)' = AnswerRow(d)
    BY <1>4, <1>6 DEF Answered, AnswerRow, Mine
  <2>2. Posting' = {n}
    <3>1. \A d \in Mine : turns[d].serve # "posted"
      BY <1>1, <1>2, BoundTurns
    <3> QED
      BY <1>4, <1>6, <3>1 DEF Posting, Mine
  <2>3. Ending' = {}
    BY <1>4, <1>6, <1>8 DEF Ending, Good, Bad
  <2> QED
    BY <2>1, <2>2, <2>3 DEF AnswerRows, PostedRows, EndRows
<1>10. FiledAndSent' = Told'
  <2>1. With(rows[session], AnswerRows) = RowsOf(shown)
    BY <1>1, <1>2, WithNone DEF Bound, FiledAndSent, Told
  <2>2. FiledAndSent' = Append(With(rows[session], AnswerRows), Row("user", n))
    BY <1>1, <1>9, WithOne, Zenon DEF FiledAndSent
  <2>3. Told' = RowsOf(shown')
    BY <1>9, WithNone, Zenon DEF Told
  <2> QED
    BY <1>7, <2>1, <2>2, <2>3
<1>11. Streams(n)'
  <2>1. streaming' = Writing(n)
    BY <1>3 DEF SendTurn, ShowQuestion
  <2> QED
    BY <1>4, <1>6, <2>1 DEF Streams, Writing
<1>12. Bound'
  <2>1. \A d \in Owed' : turns'[d].at = session'
    BY <1>1, <1>2, <1>4, <1>6, <1>8 DEF Bound, Owed, UnderWay, Mine
  <2>2. \A d \in Mine' : /\ turns'[d].serve \in {"posted", "running", "speaking"} => turns'[d].ask = "reading"
                         /\ turns'[d].serve \in Placed => d \in Mine /\ turns'[d].place = Len(rows'[session'])
    <3>1. \A d \in Mine : turns'[d] = turns[d]
      BY <1>6 DEF Mine
    <3> QED
      BY <1>1, <1>2, <1>4, <1>6, <1>8, <3>1 DEF Bound, Placed
  <2>3. \A c, d \in Mine' : turns'[c].serve \in Placed /\ turns'[d].serve \in Placed => c = d
    BY <1>2, <1>6, <2>2 DEF Bound, Mine
  <2> QED
    BY <1>1, <1>8, <1>10, <1>11, <2>1, <2>2, <2>3 DEF Bound
<1>13. \A c \in Mine' : turns'[c].up
  BY <1>4, <1>6, <1>8 DEF PageFollows, Mine
<1>14. QED
  BY <1>1, <1>7, <1>12, <1>13 DEF PageFollows


LEMMA IdleWriting == \A c : Idle # Writing(c)
<1>1. Idle.kept = FALSE /\ \A c : Writing(c).kept = TRUE
  BY DEF Idle, Writing
<1>2. QED
  BY <1>1

LEMMA AskPage ==
  ASSUME ServiceInv, PageFollows, SubmitPrompt \/ SubmitRail \/ SubmitDraft, ~Apart' PROVE PageFollows'
<1>1. /\ session = None /\ session' = None /\ streaming = Idle /\ history' = history /\ surface' = surface
      /\ surface \in {"prompt", "rail", "concierge"} /\ (surface = "prompt" => Opening = {})
  BY DEF SubmitPrompt, SubmitRail, SubmitDraft, Add, ComposerOn
<1>2. Draft
  BY <1>1 DEF PageFollows
<1>3. /\ Reading = {} /\ Owed = {} /\ history = NoHistory /\ shown = <<>>
      /\ (surface = "concierge" => Opening = {}) /\ \A c \in Opening : turns[c].frames = <<>>
  BY <1>1, <1>2, IdleWriting, Zenon DEF Draft
<1>4. PICK n : n = NextTurn
  OBVIOUS
<1> DEFINE t == Turn(None, "opening", "none")
<1>5. /\ t \in TurnSet /\ t.ask = "opening" /\ t.serve = "none" /\ t.up /\ t.frames = <<>>
  BY TurnTyped DEF Served, Asks
<1>6. turns' = Append(turns, t) /\ turns \in Seq(TurnSet)
  BY DEF SubmitPrompt, SubmitRail, SubmitDraft, Add, ServiceInv
<1> HIDE DEF t
<1>7. /\ n \in Nat \ {0} /\ Len(turns') = n /\ DOMAIN turns' = DOMAIN turns \cup {n} /\ n \notin DOMAIN turns
      /\ turns'[n] = t /\ \A d \in DOMAIN turns : turns'[d] = turns[d]
  BY <1>4, <1>5, <1>6, AppendTurn
<1>8. Reading' = {} /\ Owed' = {} /\ Opening' = Opening \cup {n}
  BY <1>3, <1>5, <1>7 DEF Reading, Owed, UnderWay, Mine, Opening
<1>9. (\A c \in Opening' : turns'[c].frames = <<>>) /\ (surface' # "rail" => Opening' = {n})
  BY <1>1, <1>3, <1>5, <1>7, <1>8 DEF Opening
<1> USE DEF Mine
<1>10. CASE surface = "concierge"
  <2>1. shown' = shown \o <<>> \o <<Bubble("user", n, {n})>> /\ streaming' = Writing(n)
    BY <1>1, <1>4, <1>10, Zenon DEF SubmitPrompt, SubmitRail, SubmitDraft, ShowQuestion
  <2>2. shown' = <<Bubble("user", n, {n})>>
    BY <1>3, <2>1
  <2>3. Draft'
    BY <1>1, <1>3, <1>8, <1>9, <1>10, <2>1, <2>2 DEF Draft, Writing, Bubble
  <2>4. shown' \in Seq(BubbleSet)
    BY <1>7, <2>2, BubbleTyped DEF Roles
  <2> QED
    BY <1>1, <1>5, <1>7, <2>3, <2>4 DEF PageFollows
<1>11. CASE surface # "concierge"
  <2>1. shown' = shown /\ streaming' = streaming
    BY <1>11 DEF SubmitPrompt, SubmitRail, SubmitDraft
  <2>2. Draft'
    BY <1>1, <1>3, <1>8, <1>9, <1>11, <2>1 DEF Draft
  <2> QED
    BY <1>1, <1>5, <1>7, <2>1, <2>2 DEF PageFollows
<1>12. QED
  BY <1>10, <1>11

LEMMA SubmitPage == ASSUME ServiceInv, PageFollows, Submit, ~Apart' PROVE PageFollows'
<1>1. ~Bootstrap
  BY DEF Bootstrap, Add, Apart
<1>2. QED
  BY <1>1, SendPage, AskPage, Zenon DEF Submit, SendShell, SendPrompt, SendRail, SendConcierge

\* The first bubbles of a session: its message waits for the service, whose rows begin the same way.
LEMMA FirstMessage ==
  ASSUME ServiceInv, Draft, NEW c \in Opening, surface # "rail", NEW sid \in Sessions, turns' = Posted(c, sid),
         session' = sid, sid # None, history' = history, \A d \in Mine : turns[d].up,
         streaming' = Writing(c), shown' \in Seq(BubbleSet), RowsOf(shown') = Append(rows'[sid], Row("user", c))
  PROVE  PageFollows'
<1>1. /\ c \in DOMAIN turns /\ Reading = {} /\ Owed = {} /\ history = NoHistory /\ turns[c].frames = <<>> /\ c \in Mine
      /\ \A d \in Opening : d = c
  BY DEF Draft, Opening, Mine
<1>2. turns \in Seq(TurnSet)
  BY DEF ServiceInv
<1>3. /\ Only(c) /\ turns'[c].at = sid /\ turns'[c].ask = "reading" /\ turns'[c].serve = "posted"
      /\ turns'[c].frames = <<>> /\ turns'[c].up
  BY <1>1, PostedTurn
<1>4. Opening' = {} /\ Reading' = {c} /\ Owed' = {c} /\ Answered' = {} /\ Posting' = {c} /\ Ending' = {}
  <2>1. DOMAIN turns' = DOMAIN turns /\ \A d \in DOMAIN turns : d # c => turns'[d] = turns[d]
    BY <1>3 DEF Only
  <2>2. \A d \in DOMAIN turns : /\ turns[d].ask # "reading"
                               /\ (d \in Mine => turns[d].serve \notin {"posted", "running", "speaking", "answered", "failed"})
                               /\ d # c => turns[d].ask # "opening"
    BY <1>1 DEF Reading, Owed, UnderWay, Mine, Opening
  <2>3. Opening' = {} /\ Reading' = {c} /\ Mine' = Mine
    BY <1>1, <1>3, <2>1, <2>2 DEF Opening, Reading, Mine
  <2>4. Owed' = {c} /\ Answered' = {} /\ Posting' = {c}
    BY <1>1, <1>3, <2>1, <2>2 DEF Owed, UnderWay, Mine, Answered, Posting
  <2>5. Ending' = {}
    BY <1>3, <2>3, Ends DEF Ending
  <2> QED
    BY <2>3, <2>4, <2>5
<1>5. AnswerRows' = {} /\ PostedRows' = {Row("user", c)} /\ EndRows' = {}
  BY <1>4 DEF AnswerRows, PostedRows, EndRows
<1>6. FiledAndSent' = Told'
  <2>1. FiledAndSent' = Append(rows'[sid], Row("user", c))
    BY <1>5, WithNone, WithOne, Zenon DEF FiledAndSent
  <2>2. Told' = RowsOf(shown')
    BY <1>5, WithNone, Zenon DEF Told
  <2> QED
    BY <2>1, <2>2
<1>7. Streams(c)'
  BY <1>1, <1>3 DEF Streams, Only, Writing
<1>8. \A d \in Mine' : turns'[d].serve \notin Placed /\ (turns'[d].serve \in {"posted", "running", "speaking"} => d = c)
  BY <1>3, <1>4 DEF Owed, UnderWay, Mine, Placed
<1>9. Bound'
  BY <1>1, <1>3, <1>4, <1>6, <1>7, <1>8 DEF Bound
<1>10. \A d \in Mine' : turns'[d].up
  BY <1>1, <1>3 DEF Only, Mine
<1>11. QED
  BY <1>9, <1>10 DEF PageFollows

LEMMA OpenedPage == ASSUME ServiceInv, PageFollows, NEW c, Opened(c), ~Apart' PROVE PageFollows'
<1>1. c \in Opening /\ history' = history
  BY DEF Opened
<1>2. session = None /\ Draft
  BY <1>1 DEF PageFollows, Bound
<1>3. PICK new, sid :
        /\ new \in BOOLEAN /\ sid = IF new THEN opened + 1 ELSE Newest
        /\ IF new THEN StartsNew(Cardinality(Opening) > 1) ELSE live # <<>>
        /\ Open(sid, new, surface = "prompt")
        /\ OpenedPrompt(c, sid) \/ OpenedRail(c, sid) \/ OpenedDraft(c, sid)
  BY Zenon DEF Opened
<1>4. (surface = "prompt") \in BOOLEAN /\ IF new THEN opened < MaxSessions ELSE live # <<>>
  BY <1>3, Zenon DEF StartsNew
<1>5. Grows /\ sid \in 1..opened'
  BY <1>3, <1>4, OpenKeeps
<1>7. sid \in Sessions /\ sid # None
  BY <1>5, SessionsAssumption DEF Grows, Sessions
<1>8. \A d \in Mine : turns[d].up
  BY DEF PageFollows
<1>9. c \in Nat /\ "user" \in Roles /\ "assistant" \in Roles /\ {c} \in SUBSET {c}
  BY <1>1 DEF Opening, ServiceInv, Roles
<1>10. CASE OpenedPrompt(c, sid)
  <2>2. surface = "prompt" /\ shown = <<>>
    BY <1>2, <1>10 DEF OpenedPrompt, Draft
  <2>3. rows'[sid] = <<Row("assistant", 0)>>
    BY <1>10 DEF OpenedPrompt, Apart
  <2>4. shown' = shown \o <<Opener>> \o <<Bubble("user", c, {c})>> /\ streaming' = Writing(c) /\ session' = sid /\ turns' = Posted(c, sid)
    BY <1>10, Zenon DEF OpenedPrompt, ShowQuestion
  <2>5. Opener \in BubbleSet /\ Opener.role = "assistant" /\ Opener.of = 0
    <3>1. {0} \in SUBSET {0} /\ 0 \in Nat
      OBVIOUS
    <3> QED
      BY <1>9, <3>1, BubbleTyped, Zenon DEF Opener
  <2>6. <<Opener>> \in Seq(BubbleSet) /\ RowsOf(<<Opener>>) = <<Row("assistant", 0)>>
    <3>1. <<Opener>> \in Seq(BubbleSet) /\ DOMAIN <<Opener>> = {1} /\ <<Opener>>[1] = Opener
      BY <2>5
    <3>2. RowsOf(<<Opener>>) = [i \in {1} |-> Row("assistant", 0)]
      BY <2>5, <3>1 DEF RowsOf
    <3>3. \A r : [i \in {1} |-> r] = <<r>>
      OBVIOUS
    <3> QED
      BY <3>1, <3>2, <3>3, Zenon
  <2>7. shown' = <<Opener>> \o <<Bubble("user", c, {c})>>
    BY <2>2, <2>4, <2>6
  <2>8. shown' \in Seq(BubbleSet) /\ RowsOf(shown') = Append(<<Row("assistant", 0)>>, Row("user", c))
    BY <1>9, <2>6, <2>7, ShowsMore
  <2> QED
    BY <1>1, <1>2, <1>7, <1>8, <2>2, <2>3, <2>4, <2>8, FirstMessage
<1>11. CASE OpenedRail(c, sid)
  BY <1>2, <1>11 DEF OpenedRail, Apart
<1>12. CASE OpenedDraft(c, sid)
  <2>1. surface = "concierge" /\ session' = sid /\ turns' = Posted(c, sid) /\ shown' = shown /\ streaming' = streaming
    BY <1>12 DEF OpenedDraft
  <2>2. rows'[sid] = <<>>
    BY <1>12 DEF OpenedDraft, Apart
  <2>3. shown = <<Bubble("user", c, {c})>> /\ streaming = Writing(c)
    BY <1>1, <1>2, <2>1 DEF Draft
  <2>4. shown' \in Seq(BubbleSet) /\ RowsOf(shown') = Append(<<>>, Row("user", c))
    <3>1. <<>> \in Seq(BubbleSet) /\ RowsOf(<<>>) = <<>>
      BY DEF RowsOf
    <3>2. <<>> \o <<Bubble("user", c, {c})>> = <<Bubble("user", c, {c})>>
      OBVIOUS
    <3>3. /\ <<>> \o <<Bubble("user", c, {c})>> = Append(<<>>, Bubble("user", c, {c}))
          /\ Append(<<>>, Bubble("user", c, {c})) \in Seq(BubbleSet)
          /\ RowsOf(Append(<<>>, Bubble("user", c, {c}))) = Append(RowsOf(<<>>), Row("user", c))
      BY <1>9, <3>1, ShowsMore
    <3> QED
      BY <2>1, <2>3, <3>1, <3>2, <3>3, Zenon
  <2> QED
    BY <1>1, <1>2, <1>7, <1>8, <2>1, <2>2, <2>3, <2>4, FirstMessage
<1>13. QED
  BY <1>3, <1>10, <1>11, <1>12


-----------------------------------------------------------------------------
(* The service's side of what the page shows.                              *)

LEMMA OwedBound ==
  ASSUME PageFollows, NEW c \in Owed
  PROVE  /\ c \in DOMAIN turns /\ session # None /\ Bound /\ turns[c].at = session /\ history = NoHistory
         /\ FiledAndSent = Told
<1>1. c \in DOMAIN turns /\ session # None
  BY DEF Owed, Mine, PageFollows, Draft
<1>2. Bound
  BY <1>1 DEF PageFollows
<1>3. QED
  BY <1>1, <1>2 DEF Bound

\* A turn that is not answered yet is the one that is read, and nothing else is on its way to the page.
LEMMA Speaks ==
  ASSUME PageFollows, NEW c \in Mine, turns[c].serve \in {"posted", "running", "speaking"}
  PROVE  /\ c \in Owed /\ Reading = {c} /\ Opening = {} /\ Streams(c)
         /\ turns[c].frames = <<>> \/ (turns[c].serve = "speaking" /\ turns[c].frames = <<"delta">>)
         /\ Ending = {} /\ EndRows = {} /\ \A d \in Mine : turns[d].serve = "posted" => d = c
         /\ turns[c].serve # "posted" => \A d \in Mine : d # c => turns[d].serve \notin Placed
<1>1. c \in Owed
  BY DEF Owed, UnderWay, Mine
<1>2. session # None /\ Bound
  BY <1>1, OwedBound
<1>3. Reading = {c} /\ Streams(c) /\ Opening = {}
  BY <1>2, BoundTurns
<1>4. turns[c].frames = <<>> \/ (turns[c].serve = "speaking" /\ turns[c].frames = <<"delta">>)
  BY <1>3 DEF Streams
<1>5. Ending = {} /\ EndRows = {}
  BY <1>3, <1>4, Ends DEF Ending, EndRows
<1>6. \A d \in Mine : turns[d].serve = "posted" => d = c
  BY <1>2, <1>3, BoundTurns
<1>7. turns[c].serve # "posted" => \A d \in Mine : d # c => turns[d].serve \notin Placed
  BY <1>2 DEF Bound, Placed
<1>8. QED
  BY <1>1, <1>3, <1>4, <1>5, <1>6, <1>7

LEMMA SpokenPage ==
  ASSUME PageFollows, samePage, NEW c \in Mine, turns[c].serve \in {"posted", "running", "speaking"}, Only(c),
         turns'[c].at = turns[c].at, turns'[c].ask = turns[c].ask, turns'[c].up = turns[c].up,
         turns'[c].serve \in Placed, turns'[c].place = Len(rows'[session]),
         \A d \in Mine : d # c => turns[d].serve \notin Placed,
         Streams(c)', FiledAndSent' = Told'
  PROVE  PageFollows'
<1>1. /\ c \in Owed /\ Reading = {c} /\ Opening = {} /\ session # None /\ Bound /\ history = NoHistory
      /\ \A d \in Mine : turns[d].serve = "posted" => d = c
  BY Speaks, OwedBound
<1>2. DOMAIN turns' = DOMAIN turns /\ \A d \in DOMAIN turns : turns'[d].at = turns[d].at /\ turns'[d].ask = turns[d].ask /\ turns'[d].up = turns[d].up
  BY DEF Only
<1>3. Reading' = {c} /\ Opening' = {} /\ Mine' = Mine
  BY <1>1, <1>2 DEF Reading, Opening, Mine
<1>4. \A d \in Mine : d # c => turns'[d] = turns[d] /\ turns[d].serve \notin Placed \cup {"posted"}
  BY <1>1 DEF Only, Mine
<1>5. \A d \in Mine' : turns'[d].serve \in Placed \cup {"posted"} => d = c
  BY <1>3, <1>4
<1>6. Owed' \subseteq {c}
  BY <1>5 DEF Owed, UnderWay, Mine, Placed
<1>7. turns[c].at = session /\ turns[c].ask = "reading"
  BY <1>1 DEF Bound, Reading
<1>8. Bound'
  <2>1. session' = session /\ history' = history
    BY DEF samePage
  <2>2. \A d \in Owed' : turns'[d].at = session'
    BY <1>2, <1>6, <1>7, <2>1
  <2>3. \A d \in Mine' : /\ turns'[d].serve \in {"posted", "running", "speaking"} => turns'[d].ask = "reading"
                         /\ turns'[d].serve \in Placed => turns'[d].place = Len(rows'[session'])
    BY <1>2, <1>5, <1>7, <2>1 DEF Placed, Mine
  <2>4. \A d, e \in Mine' : turns'[d].serve \in Placed /\ turns'[e].serve \in Placed => d = e
    BY <1>5
  <2> QED
    BY <1>1, <1>3, <2>1, <2>2, <2>3, <2>4 DEF Bound
<1>9. \A d \in Mine' : turns'[d].up
  BY <1>2, <1>3 DEF PageFollows, Mine
<1>10. QED
  BY <1>1, <1>8, <1>9 DEF PageFollows, samePage

LEMMA TakePage == ASSUME ServiceInv, PageFollows, NEW c \in Mine, TakeTurn(c), ~Apart' PROVE PageFollows'
<1>1. turns[c].serve = "posted" /\ samePage
  BY DEF TakeTurn, page, samePage
<1>2. /\ c \in Owed /\ c \in DOMAIN turns /\ Reading = {c} /\ Streams(c) /\ turns[c].frames = <<>>
      /\ Ending = {} /\ EndRows = {}
      /\ \A d \in Mine : turns[d].serve = "posted" => d = c
  BY <1>1, Speaks, OwedBound
<1>3. turns[c].at = session /\ session # None /\ Bound /\ FiledAndSent = Told
  BY <1>2, OwedBound
<1>4. /\ Only(c) /\ turns'[c].at = turns[c].at /\ turns'[c].ask = turns[c].ask /\ turns'[c].frames = turns[c].frames
      /\ turns'[c].up = turns[c].up /\ turns'[c].serve = "running" /\ turns'[c].place = Len(rows[session]) + 1
      /\ rows'[session] = Append(rows[session], Row("user", c)) /\ Len(rows'[session]) = Len(rows[session]) + 1
  BY <1>2, <1>3, TakenTurn
<1>5. \A d \in Mine : d # c => turns[d].serve \notin Placed
  <2> SUFFICES ASSUME NEW d \in Mine, d # c, turns[d].serve \in Placed PROVE FALSE
    OBVIOUS
  <2>1. d \in Owed /\ d \in UnderWay /\ turns[d].serve # "posted" /\ turns[d].ask # "away"
    BY DEF Owed, UnderWay, Mine, Placed
  <2>2. turns[d].at = turns[c].at
    BY <1>3, <2>1 DEF Bound
  <2> QED
    BY <2>1, <2>2 DEF TakeTurn, Overtakes, Apart
<1>6. DOMAIN turns' = DOMAIN turns /\ \A d \in DOMAIN turns : d # c => turns'[d] = turns[d]
  BY <1>4 DEF Only
<1>7. Answered = {} /\ Posting = {c} /\ Answered' = {} /\ Posting' = {}
  BY <1>1, <1>2, <1>4, <1>5, <1>6 DEF Answered, Posting, Placed, Mine
<1>8. Ending' = {}
  BY <1>2, <1>4, <1>6, Ends DEF Ending, Reading
<1>9. FiledAndSent' = Told'
  <2>1. session' = session /\ shown' = shown
    BY <1>1 DEF samePage
  <2>2. /\ AnswerRows = {} /\ PostedRows = {Row("user", c)}
        /\ AnswerRows' = {} /\ PostedRows' = {} /\ EndRows' = {}
    BY <1>7, <1>8 DEF AnswerRows, PostedRows, EndRows
  <2>3. Append(rows[session], Row("user", c)) = RowsOf(shown)
    <3>1. Told = RowsOf(shown)
      BY <1>2, WithNone DEF Told
    <3>2. FiledAndSent = Append(rows[session], Row("user", c))
      BY <2>2, WithNone, WithOne DEF FiledAndSent
    <3> QED
      BY <1>3, <3>1, <3>2
  <2>4. FiledAndSent' = rows'[session]
    BY <2>1, <2>2, WithNone, Zenon DEF FiledAndSent
  <2>5. Told' = RowsOf(shown)
    BY <2>1, <2>2, WithNone, Zenon DEF Told
  <2> QED
    BY <1>4, <2>3, <2>4, <2>5
<1>10. Streams(c)'
  BY <1>1, <1>2, <1>4, <1>6 DEF Streams, samePage, Only
<1>11. turns'[c].place = Len(rows'[session]) /\ turns'[c].serve \in Placed
  BY <1>4 DEF Placed
<1>12. QED
  BY <1>1, <1>4, <1>5, <1>9, <1>10, <1>11, SpokenPage

LEMMA SameSeq ==
  ASSUME NEW S, NEW s \in Seq(S), NEW t \in Seq(S), Len(s) = Len(t), \A i \in 1..Len(s) : s[i] = t[i] PROVE s = t
<1>1. s \in [1..Len(s) -> S] /\ t \in [1..Len(s) -> S]
  OBVIOUS
<1>2. QED
  BY <1>1

LEMMA TwoSeqs ==
  ASSUME NEW S, NEW s \in Seq(S), NEW t \in Seq(S)
  PROVE  /\ s \o t \in Seq(S) /\ Len(s \o t) = Len(s) + Len(t)
         /\ \A i \in 1..(Len(s) + Len(t)) : (s \o t)[i] = IF i <= Len(s) THEN s[i] ELSE t[i - Len(s)]
OBVIOUS

LEMMA DeltaThen ==
  /\ <<"delta">> \o <<"done">> = <<"delta", "done">> /\ <<"delta">> \o <<"error", "done">> = <<"delta", "error", "done">>
  /\ <<"delta">> # <<>>
<1> DEFINE F == {"delta", "done", "error"}
<1>1. PICK p, q, r : p = <<"delta">> /\ q = <<"done">> /\ r = <<"error", "done">>
  BY Zenon
<1>2. /\ p \in Seq(F) /\ Len(p) = 1 /\ p[1] = "delta" /\ q \in Seq(F) /\ Len(q) = 1 /\ q[1] = "done"
  BY <1>1
<1>3. r \in Seq(F) /\ Len(r) = 2 /\ r[1] = "error" /\ r[2] = "done"
  BY <1>1
<1>4. p \o q = <<"delta", "done">>
  <2>1. PICK s : s = <<"delta", "done">>
    OBVIOUS
  <2>2. s \in Seq(F) /\ Len(s) = 2 /\ s[1] = "delta" /\ s[2] = "done"
    BY <2>1
  <2>3. p \o q \in Seq(F) /\ Len(p \o q) = 2 /\ (p \o q)[1] = "delta" /\ (p \o q)[2] = "done"
    BY <1>2, TwoSeqs
  <2>4. p \o q = s
    <3>1. \A i \in 1..2 : (p \o q)[i] = s[i]
      BY <2>2, <2>3
    <3> QED
      BY <2>2, <2>3, <3>1, SameSeq
  <2> QED
    BY <2>1, <2>4
<1>5. p \o r = <<"delta", "error", "done">>
  <2>1. PICK s : s = <<"delta", "error", "done">>
    OBVIOUS
  <2>2. s \in Seq(F) /\ Len(s) = 3 /\ s[1] = "delta" /\ s[2] = "error" /\ s[3] = "done"
    BY <2>1
  <2>3. p \o r \in Seq(F) /\ Len(p \o r) = 3 /\ (p \o r)[1] = "delta" /\ (p \o r)[2] = "error" /\ (p \o r)[3] = "done"
    BY <1>2, <1>3, TwoSeqs
  <2>4. p \o r = s
    <3>1. \A i \in 1..3 : (p \o r)[i] = s[i]
      BY <2>2, <2>3
    <3> QED
      BY <2>2, <2>3, <3>1, SameSeq
  <2> QED
    BY <2>1, <2>4
<1>6. p # <<>>
  BY <1>2
<1>7. QED
  BY <1>1, <1>4, <1>5, <1>6, Zenon

\* A piece of the answer, or the whole of it.
LEMMA EmitPage ==
  ASSUME ServiceInv, PageFollows, NEW c \in Mine, samePage, rows' = rows, turns[c].serve \in {"running", "speaking"},
         NEW frames \in Seq({"delta", "done", "error"}), NEW serve, turns' = Emit(c, frames, serve),
         \/ turns[c].frames = <<>> /\ frames = <<"delta">> /\ serve = "speaking"
         \/ frames = <<"done">> /\ serve = "answered"
         \/ frames = <<"error", "done">> /\ serve = "failed"
  PROVE  PageFollows'
<1>1. /\ c \in Owed /\ c \in DOMAIN turns /\ Reading = {c} /\ Streams(c)
      /\ turns[c].frames = <<>> \/ (turns[c].serve = "speaking" /\ turns[c].frames = <<"delta">>)
      /\ Ending = {} /\ EndRows = {} /\ \A d \in Mine : turns[d].serve # "posted"
      /\ \A d \in Mine : d # c => turns[d].serve \notin Placed
  BY Speaks, OwedBound
<1>2. turns[c].at = session /\ session # None /\ Bound /\ FiledAndSent = Told
  BY <1>1, OwedBound
<1>3. turns \in Seq(TurnSet) /\ serve \in Served /\ serve \in Placed
  BY DEF ServiceInv, Served, Placed
<1>4. /\ Only(c) /\ turns'[c].at = turns[c].at /\ turns'[c].ask = turns[c].ask /\ turns'[c].place = turns[c].place
      /\ turns'[c].up = turns[c].up /\ turns'[c].serve = serve /\ turns'[c].frames = turns[c].frames \o frames
  BY <1>1, <1>3, EmitTurn
<1>5. \/ serve = "speaking" /\ turns'[c].frames = <<"delta">>
      \/ serve = "answered" /\ turns'[c].frames \in Good
      \/ serve = "failed" /\ turns'[c].frames \in Bad
  <2>1. CASE turns[c].frames = <<>>
    <3>1. turns'[c].frames = frames
      BY <1>4, <2>1
    <3> QED
      BY <3>1 DEF Good, Bad
  <2>2. CASE turns[c].frames = <<"delta">>
    <3>1. /\ <<"delta">> \o <<"done">> = <<"delta", "done">> /\ <<"delta">> \o <<"error", "done">> = <<"delta", "error", "done">>
          /\ <<"delta">> # <<>>
      BY DeltaThen
    <3>2. turns'[c].frames = <<"delta">> \o frames
      BY <1>4, <2>2
    <3>3. CASE frames = <<"done">> /\ serve = "answered"
      BY <3>1, <3>2, <3>3, Zenon DEF Good
    <3>4. CASE frames = <<"error", "done">> /\ serve = "failed"
      BY <3>1, <3>2, <3>4, Zenon DEF Bad
    <3> QED
      BY <2>2, <3>1, <3>3, <3>4
  <2> QED
    BY <1>1, <2>1, <2>2
<1>6. DOMAIN turns' = DOMAIN turns /\ \A d \in DOMAIN turns : d # c => turns'[d] = turns[d]
  BY <1>4 DEF Only
<1>7. Streams(c)'
  BY <1>1, <1>4, <1>5 DEF Streams, samePage, Only
<1>8. rows[session] = RowsOf(shown)
  <2>1. Answered = {} /\ Posting = {}
    BY <1>1 DEF Answered, Posting, Placed, Mine
  <2>2. AnswerRows = {} /\ PostedRows = {}
    BY <2>1 DEF AnswerRows, PostedRows
  <2>3. Told = RowsOf(shown)
    BY <1>1, WithNone DEF Told
  <2>4. FiledAndSent = rows[session]
    BY <2>2, WithNone DEF FiledAndSent
  <2> QED
    BY <1>2, <2>3, <2>4
<1>9. Posting' = {} /\ PostedRows' = {} /\ Reading' = {c}
  <2>1. Posting' = {}
    BY <1>1, <1>3, <1>4, <1>6 DEF Posting, Placed, Mine
  <2>2. Reading' = {c}
    BY <1>1, <1>4, <1>6 DEF Reading
  <2> QED
    BY <2>1, <2>2 DEF PostedRows
<1>10. AnswerRows' = EndRows'
  <2>1. CASE serve = "speaking"
    <3>1. Answered' = {} /\ Ending' = {}
      BY <1>1, <1>4, <1>5, <1>6, <1>9, <2>1, Ends DEF Answered, Ending, Placed, Mine
    <3> QED
      BY <3>1 DEF AnswerRows, EndRows
  <2>2. CASE serve # "speaking"
    <3>1. Answered' = {c}
      BY <1>1, <1>4, <1>5, <1>6, <2>2 DEF Answered, Placed, Mine
    <3>2. Ending' = {c}
      BY <1>5, <1>9, <2>2 DEF Ending
    <3>3. AnswerRow(c)' = EndRow(c)'
      BY <1>4, <1>5, <2>2, Ends DEF AnswerRow, EndRow
    <3> QED
      BY <3>1, <3>2, <3>3 DEF AnswerRows, EndRows
  <2> QED
    BY <2>1, <2>2
<1>11. FiledAndSent' = Told'
  <2>1. session' = session /\ shown' = shown
    BY DEF samePage
  <2> QED
    BY <1>8, <1>9, <1>10, <2>1, WithNone, Zenon DEF FiledAndSent, Told
<1>12. turns'[c].place = Len(rows'[session])
  BY <1>2, <1>4 DEF Bound, Placed
<1>13. QED
  BY <1>1, <1>3, <1>4, <1>7, <1>11, <1>12, SpokenPage


LEMMA EmittingPage ==
  ASSUME ServiceInv, PageFollows, NEW c \in Mine, Delta(c) \/ Finish(c) \/ GiveUp(c) PROVE PageFollows'
<1>1. samePage /\ rows' = rows /\ turns[c].serve \in {"running", "speaking"}
  BY DEF Delta, Finish, GiveUp, Answering, page, service, samePage
<1>2. /\ <<"delta">> \in Seq({"delta", "done", "error"}) /\ <<"done">> \in Seq({"delta", "done", "error"})
      /\ <<"error", "done">> \in Seq({"delta", "done", "error"})
  OBVIOUS
<1>3. CASE Delta(c)
  <2>1. turns[c].serve = "running" /\ turns' = Emit(c, <<"delta">>, "speaking")
    BY <1>3 DEF Delta
  <2>2. turns[c].frames = <<>>
    BY <2>1, Speaks
  <2> QED
    BY <1>1, <1>2, <2>1, <2>2, EmitPage
<1>4. CASE Finish(c)
  <2>1. turns' = Emit(c, <<"done">>, "answered")
    BY <1>4 DEF Finish
  <2> QED
    BY <1>1, <1>2, <2>1, EmitPage
<1>5. CASE GiveUp(c)
  <2>1. turns' = Emit(c, <<"error", "done">>, "failed")
    BY <1>5 DEF GiveUp
  <2> QED
    BY <1>1, <1>2, <2>1, EmitPage
<1>6. QED
  BY <1>3, <1>4, <1>5

LEMMA SavePage == ASSUME ServiceInv, PageFollows, NEW c \in Mine, SaveAnswer(c) PROVE PageFollows'
<1>1. turns[c].serve \in {"answered", "failed"} /\ samePage
  BY DEF SaveAnswer, page, samePage
<1>2. c \in Owed /\ c \in DOMAIN turns /\ turns[c].serve \in Placed
  BY <1>1 DEF Owed, UnderWay, Mine, Placed
<1>3. session # None /\ Bound /\ turns[c].at = session /\ history = NoHistory /\ FiledAndSent = Told
  BY <1>2, OwedBound
<1>4. turns[c].place = Len(rows[session]) /\ \A d \in Mine : d # c => turns[d].serve \notin Placed
  BY <1>2, <1>3 DEF Bound
<1>5. rows'[session] = Append(rows[session], AnswerRow(c)) /\ turns'[c].serve = "saved"
  BY <1>2, <1>3, <1>4, SavedTurn
<1>6. /\ Only(c) /\ turns'[c].at = turns[c].at /\ turns'[c].ask = turns[c].ask /\ turns'[c].frames = turns[c].frames
      /\ turns'[c].up = turns[c].up
  BY <1>2, SavedTurn
<1>7. /\ DOMAIN turns' = DOMAIN turns /\ Len(turns') = Len(turns)
      /\ \A d \in DOMAIN turns : /\ turns'[d].at = turns[d].at /\ turns'[d].ask = turns[d].ask /\ turns'[d].frames = turns[d].frames
                                 /\ turns'[d].up = turns[d].up /\ (d # c => turns'[d].serve = turns[d].serve)
  BY <1>6 DEF Only
<1>8. Reading' = Reading /\ Opening' = {} /\ Ending' = Ending /\ Mine' = Mine /\ Mine \subseteq DOMAIN turns
  BY <1>3, <1>7 DEF Reading, Opening, Ending, Bound, Mine
<1>9. Answered = {c} /\ Answered' = {} /\ Posting' = Posting
  <2>1. Answered = {c}
    BY <1>1, <1>4 DEF Answered, Placed, Mine
  <2>2. Answered' = {}
    BY <1>5, <1>7, <2>1 DEF Answered, Mine
  <2>3. Posting' = Posting
    BY <1>1, <1>5, <1>7 DEF Posting, Mine
  <2> QED
    BY <2>1, <2>2, <2>3
<1>10. AnswerRows = {AnswerRow(c)} /\ AnswerRows' = {} /\ PostedRows' = PostedRows /\ EndRows' = EndRows
  <2>1. \A d \in Ending : EndRow(d)' = EndRow(d)
    BY <1>7 DEF EndRow, Ending, Reading
  <2> QED
    BY <1>8, <1>9, <2>1 DEF AnswerRows, PostedRows, EndRows
<1>11. FiledAndSent' = Told'
  <2>1. session' = session /\ shown' = shown
    BY <1>1 DEF samePage
  <2>2. FiledAndSent = With(rows'[session], PostedRows)
    BY <1>5, <1>10, WithOne DEF FiledAndSent
  <2>3. FiledAndSent' = With(rows'[session], PostedRows)
    BY <1>10, <2>1, WithNone DEF FiledAndSent
  <2>4. Told' = Told
    BY <1>10, <2>1 DEF Told, RowsOf
  <2> QED
    BY <1>3, <2>2, <2>3, <2>4
<1>12. \A d \in Reading' : Streams(d)'
  <2> SUFFICES ASSUME NEW d \in Reading PROVE Streams(d)'
    BY <1>8
  <2>1. Streams(d) /\ d \in DOMAIN turns
    BY <1>3 DEF Bound, Reading
  <2>2. CASE d # c
    BY <1>1, <1>7, <2>1, <2>2 DEF Streams, samePage
  <2>3. CASE d = c
    <3>1. turns[c].frames \in Good \cup Bad
      BY <1>1, <2>1, <2>3 DEF Streams
    <3> QED
      BY <1>1, <1>5, <1>7, <2>1, <2>3, <3>1 DEF Streams, samePage
  <2> QED
    BY <2>2, <2>3
<1>13. \A d \in Mine' : turns'[d].serve \notin Placed
  BY <1>4, <1>5, <1>7, <1>8 DEF Placed
<1>14. Owed' \subseteq Owed
  BY <1>5, <1>7 DEF Owed, UnderWay, Mine
<1>15. Bound'
  <2>1. session' = session /\ history' = history /\ streaming' = streaming
    BY <1>1 DEF samePage
  <2>2. \A d \in Owed' : turns'[d].at = session'
    BY <1>3, <1>7, <1>14, <2>1 DEF Bound, Owed, UnderWay, Mine
  <2>3. \A d \in Mine' : turns'[d].serve \in {"posted", "running", "speaking"} => turns'[d].ask = "reading"
    BY <1>3, <1>5, <1>7, <1>8 DEF Bound
  <2>4. Reading' = {} => streaming' = Idle
    BY <1>3, <1>8, <2>1 DEF Bound
  <2> QED
    BY <1>3, <1>8, <1>11, <1>12, <1>13, <2>1, <2>2, <2>3, <2>4 DEF Bound
<1>16. \A d \in Mine' : turns'[d].up
  BY <1>7, <1>8 DEF PageFollows
<1>17. QED
  BY <1>1, <1>3, <1>15, <1>16 DEF PageFollows, samePage

LEMMA RefusePage == ASSUME ServiceInv, PageFollows, NEW c \in Mine, RefuseBlank(c) PROVE PageFollows'
<1>1. turns[c].serve = "blank" /\ samePage /\ rows' = rows /\ turns' = Emit(c, <<"error">>, "refused")
  BY DEF RefuseBlank, page, service, samePage
<1>2. c \notin Reading
  <2>1. CASE session = None
    BY <2>1 DEF PageFollows, Draft
  <2>2. CASE session # None
    BY <1>1, <2>2 DEF PageFollows, Bound, Streams
  <2> QED
    BY <2>1, <2>2
<1>3. /\ turns \in Seq(TurnSet) /\ <<"error">> \in Seq({"delta", "done", "error"}) /\ "refused" \in Served
      /\ c \in DOMAIN turns
  BY DEF ServiceInv, Served, Mine
<1>4. /\ Only(c) /\ turns'[c].at = turns[c].at /\ turns'[c].ask = turns[c].ask /\ turns'[c].place = turns[c].place
      /\ turns'[c].up = turns[c].up /\ turns'[c].serve = "refused" /\ turns'[c].frames = turns[c].frames
  BY <1>1, <1>2, <1>3, EmitTurn
<1>5. /\ DOMAIN turns' = DOMAIN turns /\ Len(turns') = Len(turns)
      /\ \A d \in DOMAIN turns : /\ turns'[d].at = turns[d].at /\ turns'[d].ask = turns[d].ask /\ turns'[d].frames = turns[d].frames
                                 /\ turns'[d].up = turns[d].up /\ turns'[d].place = turns[d].place
                                 /\ turns'[d].serve = turns[d].serve \/ (turns[d].serve = "blank" /\ turns'[d].serve = "refused")
  BY <1>1, <1>4 DEF Only
<1>6. Reading' = Reading /\ Opening' = Opening /\ Ending' = Ending /\ Mine' = Mine /\ Mine \subseteq DOMAIN turns
  BY <1>5 DEF Reading, Opening, Ending, Mine
<1>7. Owed' = Owed /\ Answered' = Answered /\ Posting' = Posting
  BY <1>5 DEF Owed, UnderWay, Mine, Answered, Posting
<1>8. AnswerRows' = AnswerRows /\ PostedRows' = PostedRows /\ EndRows' = EndRows
  <2>1. (\A d \in Ending : EndRow(d)' = EndRow(d)) /\ (\A d \in Answered : AnswerRow(d)' = AnswerRow(d))
    BY <1>5 DEF EndRow, Ending, Reading, AnswerRow, Answered, Mine
  <2> QED
    BY <1>6, <1>7, <2>1 DEF AnswerRows, PostedRows, EndRows
<1>9. \A d \in Mine' : turns'[d].up
  BY <1>5, <1>6 DEF PageFollows
<1>10. CASE session = None
  <2>1. Draft
    BY <1>10 DEF PageFollows
  <2>2. \A d \in Opening' : turns'[d].frames = <<>>
    BY <1>1, <1>5, <1>6, <2>1 DEF Draft, Opening, samePage
  <2>3. Draft'
    BY <1>1, <1>6, <1>7, <2>1, <2>2 DEF Draft, samePage
  <2> QED
    BY <1>1, <1>9, <1>10, <2>3 DEF PageFollows, samePage
<1>11. CASE session # None
  <2>1. Bound /\ session' = session /\ shown' = shown /\ streaming' = streaming /\ history' = history
    BY <1>1, <1>11 DEF PageFollows, samePage
  <2>2. FiledAndSent' = FiledAndSent /\ Told' = Told
    BY <1>1, <1>8, <2>1 DEF FiledAndSent, Told, RowsOf
  <2>3. \A d \in Reading : Streams(d)'
    <3> SUFFICES ASSUME NEW d \in Reading PROVE Streams(d)'
      OBVIOUS
    <3>1. Streams(d) /\ d # c /\ turns'[d] = turns[d]
      BY <1>2, <1>4, <2>1 DEF Bound, Only, Reading
    <3> QED
      BY <1>5, <2>1, <3>1 DEF Streams
  <2>4. \A d \in Owed' : turns'[d].at = session'
    BY <1>5, <1>7, <2>1 DEF Bound, Owed, UnderWay, Mine
  <2>5. \A d \in Mine' : /\ turns'[d].serve \in {"posted", "running", "speaking"} => turns'[d].ask = "reading"
                         /\ turns'[d].serve \in Placed => turns[d].serve \in Placed /\ turns'[d].place = Len(rows'[session'])
    BY <1>1, <1>5, <1>6, <2>1 DEF Bound, Placed
  <2>6. \A d, e \in Mine' : turns'[d].serve \in Placed /\ turns'[e].serve \in Placed => d = e
    BY <1>5, <1>6, <2>1, <2>5 DEF Bound
  <2>7. Bound'
    BY <1>1, <1>6, <1>7, <2>1, <2>2, <2>3, <2>4, <2>5, <2>6 DEF Bound
  <2> QED
    BY <1>9, <1>11, <2>1, <2>7 DEF PageFollows
<1>12. QED
  BY <1>10, <1>11

\* A turn that the page does not show is handled: the session it does show keeps its rows, or its replay
\* is still to be read.
LEMMA OtherPage ==
  ASSUME ServiceInv, PageFollows, NEW c \in DOMAIN turns, c \notin Mine, samePage, Only(c), turns'[c].ask \notin {"opening", "reading", "over"},
         session # None => rows'[session] = rows[session] \/ history.stage = "asked"
  PROVE  PageFollows'
<1>1. Mine' = Mine /\ \A d \in Mine : turns'[d] = turns[d]
  BY DEF Mine, Only
<1>2. QED
  BY <1>1, OwnPage

LEMMA EmittedTurn ==
  ASSUME turns \in Seq(TurnSet), NEW c \in DOMAIN turns, RefuseBlank(c) \/ Delta(c) \/ Finish(c) \/ GiveUp(c)
  PROVE  Only(c) /\ turns'[c].ask = turns[c].ask
<1>1. PICK frames \in Seq({"delta", "done", "error"}), serve \in Served : turns' = Emit(c, frames, serve)
  <2>1. /\ <<"delta">> \in Seq({"delta", "done", "error"}) /\ <<"done">> \in Seq({"delta", "done", "error"})
        /\ <<"error", "done">> \in Seq({"delta", "done", "error"}) /\ <<"error">> \in Seq({"delta", "done", "error"})
        /\ {"refused", "speaking", "answered", "failed"} \subseteq Served
    BY DEF Served, Placed
  <2> QED
    BY <2>1, Zenon DEF RefuseBlank, Delta, Finish, GiveUp
<1>2. QED
  BY <1>1, EmitTurn

LEMMA OtherHandled == ASSUME ServiceInv, PageFollows, NEW c \in DOMAIN turns, c \notin Mine, Handle(c), ~Apart' PROVE PageFollows'
<1>1. turns \in Seq(TurnSet) /\ samePage /\ turns[c].ask \in {"away", "orphan"} /\ c \notin Reading
  <2>1. turns \in Seq(TurnSet)
    BY DEF ServiceInv
  <2>2. samePage
    BY Zenon DEF Handle, TakeTurn, RefuseBlank, Delta, Finish, GiveUp, SaveAnswer, page, samePage
  <2>3. turns[c].ask \in {"away", "orphan"}
    BY <2>1, TurnFields DEF Mine, Asks
  <2> QED
    BY <2>1, <2>2, <2>3 DEF Reading
<1>2. Only(c) /\ turns'[c].ask = turns[c].ask
  <2>1. CASE TakeTurn(c)
    BY <2>1, TakenTurn
  <2>2. CASE SaveAnswer(c)
    BY <2>2, SavedTurn
  <2>3. CASE RefuseBlank(c) \/ Delta(c) \/ Finish(c) \/ GiveUp(c)
    BY <1>1, <2>3, EmittedTurn
  <2> QED
    BY <2>1, <2>2, <2>3 DEF Handle
<1>3. session # None => rows'[session] = rows[session] \/ history.stage = "asked"
  <2> SUFFICES ASSUME session # None, history.stage # "asked" PROVE rows'[session] = rows[session]
    OBVIOUS
  <2>1. rows \in [Sessions -> Seq(RowSet)] /\ session \in Sessions
    BY SessionTyped DEF ServiceInv
  <2>2. CASE TakeTurn(c)
    <3>1. turns[c].serve = "posted" /\ rows' = [rows EXCEPT ![turns[c].at] = Append(@, Row("user", c))]
      BY <2>2 DEF TakeTurn
    <3>2. ~Unseen(c)
      BY <2>2 DEF TakeTurn, Apart
    <3>3. turns[c].at # session
      BY <1>1, <3>2 DEF Unseen
    <3> QED
      BY <2>1, <3>1, <3>3
  <2>3. CASE SaveAnswer(c)
    <3>2. CASE Len(rows[turns[c].at]) = turns[c].place
      <4>1. ~Unseen(c)
        BY <2>3, <3>2 DEF SaveAnswer, Apart
      <4>2. turns[c].at # session
        BY <1>1, <4>1 DEF Unseen
      <4>3. \E role : rows' = [rows EXCEPT ![turns[c].at] = Append(@, Row(role, c))]
        BY <2>3, <3>2, Zenon DEF SaveAnswer
      <4> QED
        BY <2>1, <4>2, <4>3
    <3>3. CASE Len(rows[turns[c].at]) # turns[c].place
      BY <2>3, <3>3 DEF SaveAnswer
    <3> QED
      BY <3>2, <3>3
  <2>4. CASE RefuseBlank(c) \/ Delta(c) \/ Finish(c) \/ GiveUp(c)
    BY <2>4 DEF RefuseBlank, Delta, Finish, GiveUp, service
  <2> QED
    BY <2>2, <2>3, <2>4 DEF Handle
<1>4. turns'[c].ask \notin {"opening", "reading", "over"}
  BY <1>1, <1>2
<1>5. QED
  BY <1>1, <1>2, <1>3, <1>4, OtherPage

LEMMA HandlePage == ASSUME ServiceInv, PageFollows, NEW c, Handle(c), ~Apart' PROVE PageFollows'
<1>1. c \in DOMAIN turns
  BY DEF Handle
<1>2. CASE c \in Mine
  BY <1>2, TakePage, EmittingPage, SavePage, RefusePage DEF Handle
<1>3. CASE c \notin Mine
  BY <1>1, <1>3, OtherHandled
<1>4. QED
  BY <1>2, <1>3

LEMMA BreakPage == ASSUME ServiceInv, PageFollows, NEW c, Break(c), ~Apart' PROVE PageFollows'
<1>1. c \in DOMAIN turns /\ turns \in Seq(TurnSet)
  BY DEF Break, ServiceInv
<1>2. Cancelled(c)
  BY <1>1 DEF Break, FetchFails, Cut, EndSilently, Apart
<1>3. c \notin Mine /\ samePage /\ rows' = rows
  BY <1>2 DEF Cancelled, PageFollows, page, service, samePage
<1>4. Only(c) /\ turns'[c].ask = turns[c].ask
  <2>1. turns' = [turns EXCEPT ![c].serve = "dropped"] /\ "dropped" \in Served
    BY <1>2 DEF Cancelled, Served
  <2> QED
    BY <1>1, <2>1, TurnServe
<1>5. turns'[c].ask \notin {"opening", "reading", "over"}
  BY <1>1, <1>3, <1>4 DEF Mine
<1>6. QED
  BY <1>1, <1>3, <1>4, <1>5, OtherPage


-----------------------------------------------------------------------------
(* The page reads the stream.                                              *)

\* What is left of an answer ends as the whole of it.
LEMMA EndsTail ==
  ASSUME NEW f \in Good \cup Bad \cup {<<"delta">>}, Head(f) = "delta"
  PROVE  /\ f # <<"delta">> => (Tail(f) \in Good <=> f \in Good) /\ (Tail(f) \in Bad <=> f \in Bad) /\ Tail(f) \in Good \cup Bad
         /\ f = <<"delta">> => Tail(f) = <<>>
<1>1. /\ Tail(<<"delta", "done">>) = <<"done">> /\ Tail(<<"delta", "error", "done">>) = <<"error", "done">>
      /\ Tail(<<"delta">>) = <<>> /\ Head(<<"done">>) = "done" /\ Head(<<"error", "done">>) = "error"
  OBVIOUS
<1>2. f \in {<<"delta", "done">>, <<"delta", "error", "done">>, <<"delta">>}
  BY <1>1 DEF Good, Bad
<1>3. CASE f = <<"delta", "done">>
  <2>1. f \in Good /\ Tail(f) \in Good
    BY <1>1, <1>3, Zenon DEF Good
  <2> QED
    BY <2>1, Ends, Zenon
<1>4. CASE f = <<"delta", "error", "done">>
  <2>1. f \in Bad /\ Tail(f) \in Bad
    BY <1>1, <1>4, Zenon DEF Bad
  <2> QED
    BY <2>1, Ends
<1>5. CASE f = <<"delta">>
  BY <1>1, <1>5, Zenon
<1>6. QED
  BY <1>2, <1>3, <1>4, <1>5, Zenon

LEMMA EndsHead ==
  ASSUME NEW f \in Good \cup Bad
  PROVE  /\ Head(f) = "done" => f \in Good
         /\ Head(f) # "delta" /\ Head(f) # "done" => f \in Bad
<1>1. /\ Head(<<"delta", "done">>) = "delta" /\ Head(<<"delta", "error", "done">>) = "delta"
      /\ Head(<<"done">>) = "done" /\ Head(<<"error", "done">>) = "error"
  OBVIOUS
<1>2. "error" # "done"
  OBVIOUS
<1>3. \A g \in Good : Head(g) \in {"delta", "done"}
  BY <1>1 DEF Good
<1>4. \A g \in Bad : Head(g) # "done"
  BY <1>1 DEF Bad
<1>5. QED
  BY <1>3, <1>4

\* The one that is read, and what only its frames change.
LEMMA ReadFacts ==
  ASSUME PageFollows, NEW c \in Reading
  PROVE  /\ c \in DOMAIN turns /\ c \in Mine /\ Reading = {c} /\ session # None /\ Bound /\ Streams(c) /\ history = NoHistory
         /\ FiledAndSent = Told /\ shown \in Seq(BubbleSet)
<1>1. c \in DOMAIN turns /\ c \in Mine /\ session # None
  BY DEF Reading, PageFollows, Draft, Mine
<1>2. Reading = {c} /\ Bound /\ Streams(c) /\ shown \in Seq(BubbleSet)
  BY <1>1, BoundTurns
<1>3. QED
  BY <1>1, <1>2 DEF Bound

\* The service's side stays as it is.
LEMMA FiledStays ==
  ASSUME NEW c \in DOMAIN turns, Only(c), turns'[c].at = turns[c].at, turns'[c].serve = turns[c].serve, turns'[c].place = turns[c].place,
         turns'[c].up = turns[c].up, UNCHANGED <<session, rows>>, c \in Mine, turns'[c].ask \in {"reading", "over"}
  PROVE  /\ Owed' = Owed /\ Mine' = Mine /\ Mine \subseteq DOMAIN turns /\ FiledAndSent' = FiledAndSent
         /\ DOMAIN turns' = DOMAIN turns /\ Len(turns') = Len(turns)
         /\ \A d \in DOMAIN turns : /\ turns'[d].at = turns[d].at /\ turns'[d].serve = turns[d].serve
                                    /\ turns'[d].place = turns[d].place /\ turns'[d].up = turns[d].up
<1>1. /\ DOMAIN turns' = DOMAIN turns /\ Len(turns') = Len(turns)
      /\ \A d \in DOMAIN turns : /\ turns'[d].at = turns[d].at /\ turns'[d].serve = turns[d].serve
                                 /\ turns'[d].place = turns[d].place /\ turns'[d].up = turns[d].up
  BY DEF Only
<1>2. Mine' = Mine /\ Mine \subseteq DOMAIN turns
  BY <1>1 DEF Mine, Only
<1>7. Owed' = Owed /\ Answered' = Answered /\ Posting' = Posting
  BY <1>1, <1>2 DEF Owed, UnderWay, Answered, Posting
<1>3. \A d \in Answered : AnswerRow(d)' = AnswerRow(d)
  BY <1>1, <1>2 DEF AnswerRow, Answered
<1>4. AnswerRows' = AnswerRows /\ PostedRows' = PostedRows
  BY <1>7, <1>3 DEF AnswerRows, PostedRows
<1>5. FiledAndSent' = FiledAndSent
  BY <1>4 DEF FiledAndSent
<1>6. QED
  BY <1>1, <1>2, <1>7, <1>5

LEMMA DeltaPage ==
  ASSUME ServiceInv, PageFollows, NEW c \in Reading, turns[c].frames # <<>>, Head(turns[c].frames) = "delta", appendDelta(c),
         UNCHANGED <<surface, session, history, rows>>
  PROVE  PageFollows'
<1>1. /\ c \in DOMAIN turns /\ c \in Mine /\ Reading = {c} /\ session # None /\ Bound /\ Streams(c) /\ history = NoHistory
      /\ FiledAndSent = Told /\ shown \in Seq(BubbleSet)
  BY ReadFacts
<1>2. turns \in Seq(TurnSet) /\ turns[c].frames \in Seq({"delta", "done", "error"})
  BY <1>1, TurnFields DEF ServiceInv
<1>3. PICK frames \in Seq({"delta", "done", "error"}) : frames = Tail(turns[c].frames)
  <2>1. Tail(turns[c].frames) \in Seq({"delta", "done", "error"})
    BY <1>2
  <2> QED
    BY <2>1
<1>4. turns' = [turns EXCEPT ![c].frames = frames]
  BY <1>3 DEF appendDelta
<1>5. /\ Only(c) /\ turns'[c].frames = frames /\ turns'[c].at = turns[c].at /\ turns'[c].ask = turns[c].ask
      /\ turns'[c].serve = turns[c].serve /\ turns'[c].place = turns[c].place /\ turns'[c].up = turns[c].up
  BY <1>1, <1>2, <1>4, TurnFrames
<1>6. /\ Owed' = Owed /\ Mine' = Mine /\ Mine \subseteq DOMAIN turns /\ FiledAndSent' = FiledAndSent
      /\ DOMAIN turns' = DOMAIN turns /\ Len(turns') = Len(turns)
      /\ \A d \in DOMAIN turns : /\ turns'[d].at = turns[d].at /\ turns'[d].serve = turns[d].serve
                                 /\ turns'[d].place = turns[d].place /\ turns'[d].up = turns[d].up
  <2>1. turns'[c].ask = "reading"
    BY <1>5 DEF Reading
  <2> QED
    BY <1>1, <1>5, <2>1, FiledStays
<1>7. \A d \in DOMAIN turns : turns'[d].ask = turns[d].ask /\ (d # c => turns'[d].frames = turns[d].frames)
  BY <1>5 DEF Only
<1>8. Reading' = {c} /\ Opening' = {}
  <2>1. Reading' = Reading /\ Opening' = Opening
    BY <1>6, <1>7 DEF Reading, Opening
  <2> QED
    BY <1>1, <2>1 DEF Bound
<1>9. turns[c].frames \in Good \cup Bad \cup {<<"delta">>}
  BY <1>1 DEF Streams
<1>10. /\ turns[c].frames # <<"delta">> => (frames \in Good <=> turns[c].frames \in Good) /\ (frames \in Bad <=> turns[c].frames \in Bad)
                                          /\ frames \in Good \cup Bad
       /\ turns[c].frames = <<"delta">> => frames = <<>>
  BY <1>3, <1>9, EndsTail
<1>11. streaming' = [of |-> c, says |-> streaming'.says, kept |-> TRUE] /\ streaming'.says \subseteq {c}
  <2>1. PICK says : streaming = [of |-> c, says |-> says, kept |-> TRUE] /\ says \subseteq {c}
    BY <1>1 DEF Streams
  <2>2. streaming.kept = TRUE /\ streaming.says = says /\ Idle.kept = FALSE
    BY <2>1 DEF Idle
  <2>3. streaming # Idle
    BY <2>2
  <2>4. streaming' = [streaming EXCEPT !.says = says \cup {c}]
    BY <2>2, <2>3 DEF appendDelta
  <2>5. streaming' = [of |-> c, says |-> says \cup {c}, kept |-> TRUE]
    BY <2>1, <2>4
  <2> QED
    BY <2>1, <2>5
<1>12. Streams(c)'
  <2>1. CASE turns[c].frames = <<"delta">>
    <3>1. turns[c].serve = "speaking"
      <4>1. turns[c].frames \notin Good \cup Bad
        BY <2>1, Ends
      <4> QED
        BY <1>1, <4>1, <2>1, Ends, DeltaThen, Zenon DEF Streams
    <3> QED
      BY <1>1, <1>5, <1>6, <1>10, <1>11, <2>1, <3>1 DEF Streams
  <2>2. CASE turns[c].frames # <<"delta">>
    <3>1. /\ turns[c].serve \in {"answered", "failed", "saved"} /\ (turns[c].serve = "answered" => turns[c].frames \in Good)
          /\ (turns[c].serve = "failed" => turns[c].frames \in Bad)
      BY <1>1, <2>2 DEF Streams
    <3> QED
      BY <1>1, <1>5, <1>6, <1>10, <1>11, <2>2, <3>1 DEF Streams
  <2> QED
    BY <2>1, <2>2
<1>13. EndRows' = EndRows
  <2>1. CASE turns[c].frames = <<"delta">>
    <3>1. Ending = {} /\ Ending' = {}
      BY <1>1, <1>5, <1>8, <1>10, <2>1, Ends DEF Ending
    <3> QED
      BY <3>1 DEF EndRows
  <2>2. CASE turns[c].frames # <<"delta">>
    <3>1. Ending = {c} /\ Ending' = {c}
      BY <1>1, <1>5, <1>8, <1>9, <1>10, <2>2 DEF Ending
    <3>2. EndRow(c)' = EndRow(c)
      BY <1>5, <1>10, <2>2 DEF EndRow
    <3> QED
      BY <3>1, <3>2 DEF EndRows
  <2> QED
    BY <2>1, <2>2
<1>14. Told' = Told /\ shown' = shown
  BY <1>13 DEF Told, RowsOf, appendDelta
<1>15. Bound'
  <2>1. \A d \in Owed' : turns'[d].at = session'
    BY <1>1, <1>6 DEF Bound, Owed, UnderWay, Mine
  <2>2. \A d \in Mine' : /\ turns'[d].serve \in {"posted", "running", "speaking"} => turns'[d].ask = "reading"
                         /\ turns'[d].serve \in Placed => turns'[d].place = Len(rows'[session'])
    BY <1>1, <1>6, <1>7 DEF Bound
  <2>3. \A d, e \in Mine' : turns'[d].serve \in Placed /\ turns'[e].serve \in Placed => d = e
    BY <1>1, <1>6 DEF Bound
  <2> QED
    BY <1>1, <1>6, <1>8, <1>12, <1>14, <2>1, <2>2, <2>3 DEF Bound
<1>16. \A d \in Mine' : turns'[d].up
  BY <1>6, <1>7 DEF PageFollows
<1>17. QED
  BY <1>1, <1>14, <1>15, <1>16 DEF PageFollows


\* The answer is shown, and the composer is back.
LEMMA ShownAnswer ==
  ASSUME ServiceInv, PageFollows, NEW c \in Reading, turns' = Over(c), streaming' = Idle, UNCHANGED <<surface, session, history, rows>>,
         turns[c].frames \in Good \cup Bad,
         NEW says \in SUBSET {c}, shown' = Append(shown, Bubble(IF turns[c].frames \in Bad THEN "error" ELSE "assistant", c, says))
  PROVE  PageFollows'
<1>1. /\ c \in DOMAIN turns /\ c \in Mine /\ Reading = {c} /\ session # None /\ Bound /\ Streams(c) /\ history = NoHistory
      /\ FiledAndSent = Told /\ shown \in Seq(BubbleSet)
  BY ReadFacts
<1>2. turns \in Seq(TurnSet) /\ c \in Nat
  BY <1>1, TurnFields DEF ServiceInv
<1>3. /\ Only(c) /\ turns'[c].frames = <<>> /\ turns'[c].at = turns[c].at /\ turns'[c].ask = "over"
      /\ turns'[c].serve = turns[c].serve /\ turns'[c].place = turns[c].place /\ turns'[c].up = turns[c].up
  BY <1>1, <1>2, OverTurn, OverSame
<1>4. /\ Owed' = Owed /\ Mine' = Mine /\ Mine \subseteq DOMAIN turns /\ FiledAndSent' = FiledAndSent
      /\ DOMAIN turns' = DOMAIN turns /\ Len(turns') = Len(turns)
      /\ \A d \in DOMAIN turns : /\ turns'[d].at = turns[d].at /\ turns'[d].serve = turns[d].serve
                                 /\ turns'[d].place = turns[d].place /\ turns'[d].up = turns[d].up
  BY <1>1, <1>3, FiledStays
<1>5. \A d \in DOMAIN turns : d # c => turns'[d].ask = turns[d].ask
  BY <1>3 DEF Only
<1>6. Reading' = {} /\ Opening' = {} /\ Ending' = {} /\ EndRows' = {}
  <2>1. Reading' = {} /\ Opening' = {}
    <3>1. Opening = {}
      BY <1>1 DEF Bound
    <3>2. \A d \in DOMAIN turns : turns'[d].ask # "reading" /\ turns'[d].ask # "opening"
      BY <1>1, <1>3, <1>5, <3>1 DEF Reading, Opening
    <3> QED
      BY <1>4, <3>2 DEF Reading, Opening
  <2> QED
    BY <2>1 DEF Ending, EndRows
<1>7. shown' \in Seq(BubbleSet) /\ RowsOf(shown') = Append(RowsOf(shown), EndRow(c))
  <2>1. PICK role \in Roles : role = (IF turns[c].frames \in Bad THEN "error" ELSE "assistant")
    BY DEF Roles
  <2>2. shown' = Append(shown, Bubble(role, c, says)) /\ EndRow(c) = Row(role, c)
    BY <2>1, Zenon DEF EndRow
  <2> QED
    BY <1>1, <1>2, <2>2, ShowsMore
<1>8. Told' = Told
  <2>1. Ending = {c}
    BY <1>1 DEF Ending
  <2>2. EndRows = {EndRow(c)}
    BY <2>1 DEF EndRows
  <2>3. Told = Append(RowsOf(shown), EndRow(c))
    BY <2>2, WithOne DEF Told
  <2>4. Told' = RowsOf(shown')
    BY <1>6, WithNone DEF Told
  <2> QED
    BY <1>7, <2>3, <2>4
<1>9. turns[c].serve \in {"answered", "failed", "saved"}
  BY <1>1, Ends DEF Streams
<1>10. Bound'
  <2>1. \A d \in Owed' : turns'[d].at = session'
    BY <1>1, <1>4 DEF Bound, Owed, UnderWay, Mine
  <2>2. \A d \in Mine' : /\ turns'[d].serve \in {"posted", "running", "speaking"} => turns'[d].ask = "reading"
                         /\ turns'[d].serve \in Placed => turns'[d].place = Len(rows'[session'])
    BY <1>1, <1>4, <1>5, <1>9 DEF Bound
  <2>3. \A d, e \in Mine' : turns'[d].serve \in Placed /\ turns'[e].serve \in Placed => d = e
    BY <1>1, <1>4 DEF Bound
  <2> QED
    BY <1>1, <1>4, <1>6, <1>8, <2>1, <2>2, <2>3 DEF Bound
<1>11. \A d \in Mine' : turns'[d].up
  BY <1>3, <1>4, <1>5 DEF PageFollows
<1>12. QED
  BY <1>1, <1>7, <1>10, <1>11 DEF PageFollows

LEMMA ReadPage == ASSUME ServiceInv, PageFollows, NEW c, Read(c) PROVE PageFollows'
<1>1. c \in Reading /\ turns[c].frames # <<>> /\ UNCHANGED <<surface, session, history, rows>>
  BY DEF Read, service
<1>2. /\ session # None /\ Streams(c) /\ shown \in Seq(BubbleSet) /\ c \in Nat
  BY <1>1, ReadFacts, TurnFields DEF ServiceInv
<1>3. CASE Head(turns[c].frames) = "delta"
  BY <1>1, <1>3, DeltaPage DEF Read, NextFrame
<1>4. CASE Head(turns[c].frames) # "delta"
  <2>1. Head(<<"delta">>) = "delta"
    OBVIOUS
  <2>2. turns[c].frames \in Good \cup Bad
    BY <1>1, <1>2, <1>4, <2>1, Zenon DEF Streams
  <2>3. (Head(turns[c].frames) = "done" => turns[c].frames \in Good) /\ (Head(turns[c].frames) # "done" => turns[c].frames \in Bad)
    BY <1>4, <2>2, EndsHead
  <2>4. PICK says : streaming = [of |-> c, says |-> says, kept |-> TRUE] /\ says \in SUBSET {c}
    BY <1>2 DEF Streams
  <2>5. streaming.kept = TRUE /\ streaming.of = c /\ streaming.says = says /\ Idle.kept = FALSE
    BY <2>4 DEF Idle
  <2>6. streaming # Idle
    BY <2>5
  <2>7. turns' = Over(c) /\ streaming' = Idle
    BY <1>4, Zenon DEF Read, NextFrame, Finished, Errored
  <2>8. ASSUME NEW role \in Roles, NEW words \in SUBSET {c} PROVE shown \o Kept(Bubble(role, c, words)) = Append(shown, Bubble(role, c, words))
    BY <1>2, <2>5, <2>8, ShowsMore DEF Kept
  <2>9. CASE Head(turns[c].frames) = "done"
    <3>1. turns[c].frames \in Good /\ turns[c].frames \notin Bad
      BY <2>3, <2>9, Ends
    <3>2. shown' = Append(shown, Bubble("assistant", c, says))
      <4>1. Finished
        BY <2>9 DEF Read, NextFrame
      <4>2. IF surface = "concierge" THEN shown' = shown \o Kept(Bubble("assistant", c, says))
                                     ELSE shown' = Append(shown, Bubble("assistant", c, says))
        BY <2>5, <2>6, <4>1, Zenon DEF Finished, onDone, finishStream
      <4>3. "assistant" \in Roles
        BY DEF Roles
      <4> QED
        BY <2>4, <2>8, <4>2, <4>3
    <3>3. shown' = Append(shown, Bubble(IF turns[c].frames \in Bad THEN "error" ELSE "assistant", c, says))
      BY <3>1, <3>2, Zenon
    <3> QED
      BY <1>1, <2>2, <2>4, <2>7, <3>3, ShownAnswer
  <2>10. CASE Head(turns[c].frames) # "done"
    <3>1. turns[c].frames \in Bad /\ {} \in SUBSET {c} /\ "error" \in Roles
      BY <2>3, <2>10 DEF Roles
    <3>2. shown' = Append(shown, Bubble("error", c, {}))
      <4>1. Errored(c)
        BY <1>4, <2>10 DEF Read, NextFrame
      <4>2. IF surface = "concierge" THEN shown' = shown \o Kept(Bubble("error", c, {})) ELSE shown' = Append(shown, Bubble("error", c, {}))
        BY <4>1, Zenon DEF Errored, onError, errorStream
      <4> QED
        BY <2>8, <3>1, <4>2
    <3>3. shown' = Append(shown, Bubble(IF turns[c].frames \in Bad THEN "error" ELSE "assistant", c, {}))
      BY <3>1, <3>2, Zenon
    <3> QED
      BY <1>1, <2>2, <2>7, <3>1, <3>3, ShownAnswer
  <2> QED
    BY <2>9, <2>10
<1>5. QED
  BY <1>3, <1>4


-----------------------------------------------------------------------------
(* Leaving a chat, and coming to another.                                  *)

\* A chat that was just come to has no turn of its own, and its history is still to be asked for.
LEMMA EmptyChat ==
  ASSUME ServiceInv, turns' = Left, shown' = <<>>, streaming' = Idle,
         \/ session' = None /\ history' = NoHistory
         \/ session' # None /\ history'.stage = "asked"
  PROVE  PageFollows'
<1>1. Mine' = {}
  BY LeftTurns DEF ServiceInv, Mine
<1>2. Reading' = {} /\ Opening' = {} /\ Owed' = {}
  BY <1>1 DEF Reading, Opening, Owed, Mine
<1>3. shown' \in Seq(BubbleSet)
  OBVIOUS
<1>4. CASE session' = None /\ history' = NoHistory
  <2>1. Draft'
    BY <1>2, <1>4 DEF Draft
  <2> QED
    BY <1>1, <1>3, <1>4, <2>1 DEF PageFollows
<1>5. CASE session' # None /\ history'.stage = "asked"
  <2>1. history' # NoHistory
    BY <1>5 DEF NoHistory
  <2>2. Bound'
    BY <1>1, <1>2, <1>5, <2>1 DEF Bound
  <2> QED
    BY <1>1, <1>3, <1>5, <2>2 DEF PageFollows
<1>6. QED
  BY <1>4, <1>5

LEMMA ClosedPage == ASSUME ServiceInv, Columns, DismissDone PROVE PageFollows'
<1>1. turns' = Left /\ shown' = <<>> /\ streaming' = Idle /\ session' = None /\ history' = NoHistory
  BY DEF DismissDone, Columns
<1>2. QED
  BY <1>1, EmptyChat

LEMMA DismissPage ==
  ASSUME ServiceInv, Columns, PageFollows, Dismiss \/ DismissDone \/ DismissFailed, ~Apart'
  PROVE  PageFollows' \/ Closing'
<1>1. CASE Dismiss
  <2>1. /\ turns' = Aborted /\ Opening = {} /\ dismissing' = TRUE /\ turns \in Seq(TurnSet)
        /\ UNCHANGED <<surface, session, shown, streaming, history, rows>>
    BY <1>1 DEF Dismiss, ServiceInv, service
  <2>2. CASE Reading = {}
    <3>1. turns' = turns
      BY <2>1, <2>2, AbortedTurns
    <3> QED
      BY <2>1, <3>1, PageStays
  <2>3. CASE Reading # {}
    <3>1. session # None
      BY <2>3 DEF PageFollows, Draft
    <3>2. streaming # Idle
      BY <2>3, <3>1, BoundTurns
    <3>3. Reading' = {} /\ Opening' = {}
      BY <2>1, AbortedTurns DEF Reading, Opening
    <3> QED
      BY <2>1, <3>2, <3>3 DEF Closing, Stuck
  <2> QED
    BY <2>2, <2>3
<1>2. CASE DismissDone
  BY <1>2, ClosedPage
<1>3. CASE DismissFailed
  BY <1>3, PageStays DEF DismissFailed, service
<1>4. QED
  BY <1>1, <1>2, <1>3

LEMMA RemountPage ==
  ASSUME ServiceInv, PageFollows, NEW key, NEW sid, Remount(key, sid), UNCHANGED service PROVE PageFollows'
<1>1. CASE thread.key = key
  BY <1>1, PageStays DEF Remount, service
<1>2. CASE thread.key # key
  <2>1. turns' = Left
    BY <1>2 DEF Remount
  <2>2. session' = sid /\ shown' = <<>> /\ streaming' = Idle
        /\ history' = [NoHistory EXCEPT !.stage = IF sid = None THEN "none" ELSE "asked"]
    BY <1>2 DEF Remount
  <2>3. CASE sid = None
    <3>1. history' = NoHistory
      BY <2>2, <2>3 DEF NoHistory
    <3> QED
      BY <2>1, <2>2, <2>3, <3>1, EmptyChat
  <2>4. CASE sid # None
    <3>1. history'.stage = "asked"
      BY <2>2, <2>4 DEF NoHistory
    <3> QED
      BY <2>1, <2>2, <2>4, <3>1, EmptyChat
  <2> QED
    BY <2>3, <2>4
<1>3. QED
  BY <1>1, <1>2

LEMMA BrowsePage == ASSUME ServiceInv, PageFollows, Browse PROVE PageFollows'
<1>1. CASE StartNew
  <2>1. PICK sid : sid = opened + 1
    OBVIOUS
  <2>2. Open(sid, TRUE, FALSE) /\ opened < MaxSessions
    BY <1>1, <2>1 DEF StartNew
  <2>3. \A s \in 1..opened : rows'[s] = rows[s]
    BY <2>1, <2>2, OpenKeeps
  <2>4. session # None => rows'[session] = rows[session]
    BY <2>3 DEF ServiceInv
  <2> QED
    BY <1>1, <2>4, PageStays DEF StartNew
<1>2. ASSUME NEW sid, Archive(sid) PROVE PageFollows'
  BY <1>2, PageStays DEF Archive
<1>3. CASE ListArrives \/ StartedNew \/ Archived \/ (\E sid \in Sessions : resume(sid))
  <2>1. Keeps \/ \E key, sid : Comes(key, sid)
    BY <1>3, ListCases, Zenon
  <2>2. CASE Keeps
    BY <2>2, PageStays DEF Keeps, service
  <2>3. ASSUME NEW key, NEW sid, Comes(key, sid) PROVE PageFollows'
    BY <2>3, RemountPage DEF Comes
  <2> QED
    BY <2>1, <2>2, <2>3
<1>4. QED
  BY <1>1, <1>2, <1>3, Zenon DEF Browse

LEMMA ReplayPage == ASSUME ServiceInv, PageFollows, Replay, ~Apart' PROVE PageFollows'
<1>2. history # NoHistory /\ UNCHANGED <<surface, session, turns, rows>>
  BY DEF Replay, HistoryFails, ServeHistory, HistoryArrives, NoHistory, service
<1>3. session # None /\ Bound
  BY <1>2 DEF PageFollows, Draft
<1>4. /\ Reading = {} /\ Owed = {} /\ Opening = {} /\ shown = <<>>
      /\ history.stage = "asked" \/ history = [stage |-> "served", turns |-> Replayed(rows[session])]
  BY <1>2, <1>3 DEF Bound
<1>5. Reading' = {} /\ Owed' = {} /\ Opening' = {} /\ Mine' = Mine
  BY <1>2, <1>4 DEF Reading, Owed, UnderWay, Opening, Mine
<1>6. \A c \in Mine' : turns'[c].up
  BY <1>2, <1>5 DEF PageFollows
<1>7. \A c \in Mine' : turns'[c].serve \notin Placed \cup {"posted"}
  BY <1>5 DEF Owed, UnderWay, Mine, Placed
<1>8. streaming = Idle
  BY <1>3, <1>4 DEF Bound
<1>9. CASE ServeHistory
  <2>1. history' = [stage |-> "served", turns |-> Replayed(rows'[session'])] /\ shown' = shown /\ streaming' = Idle
    BY <1>2, <1>8, <1>9 DEF ServeHistory
  <2>2. history' # NoHistory
    BY <2>1 DEF NoHistory
  <2>3. \A c \in Owed' : turns'[c].at = session'
    BY <1>5
  <2>4. Bound'
    BY <1>4, <1>5, <1>7, <2>1, <2>2, <2>3 DEF Bound, Placed
  <2> QED
    BY <1>2, <1>3, <1>6, <2>1, <2>4 DEF PageFollows
<1>10. CASE HistoryArrives
  <2>1. rows[session] \in Seq(RowSet)
    BY <1>3, SessionTyped DEF ServiceInv
  <2>2. history.turns = Replayed(rows[session])
    BY <1>4, <1>10 DEF HistoryArrives
  <2>3. shown' = Replayed(rows[session]) /\ streaming' = Idle /\ history' = NoHistory
    BY <1>8, <1>10, <2>2 DEF HistoryArrives
  <2>4. shown' \in Seq(BubbleSet) /\ RowsOf(shown') = rows[session]
    BY <2>1, <2>3, ReplayedRows
  <2>5. Answered' = {} /\ Posting' = {} /\ Ending' = {}
    BY <1>5, <1>7 DEF Answered, Posting, Ending, Placed, Mine
  <2>6. AnswerRows' = {} /\ PostedRows' = {} /\ EndRows' = {}
    BY <2>5 DEF AnswerRows, PostedRows, EndRows
  <2>7. FiledAndSent' = rows[session]
    BY <1>2, <2>6, WithNone DEF FiledAndSent
  <2>8. Told' = rows[session]
    BY <2>4, <2>6, WithNone DEF Told
  <2>9. Bound'
    BY <1>5, <1>7, <2>3, <2>7, <2>8 DEF Bound, Placed
  <2> QED
    BY <1>2, <1>3, <1>6, <2>4, <2>9 DEF PageFollows
<1>11. CASE HistoryFails
  <2>1. rows[session] = <<>> /\ history' = NoHistory /\ shown' = <<>> /\ streaming' = Idle
    BY <1>4, <1>8, <1>11 DEF HistoryFails, Apart
  <2>2. Answered' = {} /\ Posting' = {} /\ Ending' = {}
    BY <1>5, <1>7 DEF Answered, Posting, Ending, Placed
  <2>3. AnswerRows' = {} /\ PostedRows' = {} /\ EndRows' = {}
    BY <2>2 DEF AnswerRows, PostedRows, EndRows
  <2>4. FiledAndSent' = <<>>
    BY <1>2, <2>1, <2>3, WithNone DEF FiledAndSent
  <2>5. Told' = <<>>
    <3>1. RowsOf(shown') = <<>>
      BY <2>1 DEF RowsOf
    <3> QED
      BY <2>3, <3>1, WithNone DEF Told
  <2>6. Bound'
    BY <1>5, <1>7, <2>1, <2>4, <2>5 DEF Bound, Placed
  <2>7. shown' \in Seq(BubbleSet)
    BY <2>1
  <2> QED
    BY <1>2, <1>3, <1>6, <2>6, <2>7 DEF PageFollows
<1>12. QED
  BY <1>9, <1>10, <1>11 DEF Replay

\* The first touch keeps the message it could not send.
LEMMA NotOpenedPage == ASSUME ServiceInv, PageFollows, NEW c, NotOpened(c), ~Apart' PROVE PageFollows'
<1>1. /\ c \in Opening /\ turns' = Over(c) /\ surface = "prompt"
      /\ UNCHANGED <<surface, session, shown, streaming, history, rows>>
  BY DEF NotOpened, Apart, service
<1>2. session = None /\ Draft
  BY <1>1 DEF PageFollows, Bound
<1>3. c \in DOMAIN turns /\ turns \in Seq(TurnSet) /\ c \in Mine
  BY <1>1 DEF Opening, ServiceInv, Mine
<1>4. /\ Only(c) /\ turns'[c].frames = <<>> /\ turns'[c].ask = "over" /\ turns'[c].serve = turns[c].serve /\ turns'[c].up = turns[c].up
  BY <1>1, <1>3, OverTurn, OverSame
<1>5. Mine' = Mine /\ \A d \in Mine : d # c => turns'[d] = turns[d]
  BY <1>3, <1>4 DEF Mine, Only
<1>6. Reading' = {} /\ Opening' \subseteq Opening /\ Owed' = {} /\ c \notin Opening'
  <2>1. DOMAIN turns' = DOMAIN turns /\ \A d \in DOMAIN turns : d # c => turns'[d] = turns[d]
    BY <1>4 DEF Only
  <2>2. Reading' = {} /\ Opening' \subseteq Opening /\ c \notin Opening'
    BY <1>2, <1>4, <2>1 DEF Draft, Reading, Opening
  <2>3. Owed' = {}
    BY <1>2, <1>4, <1>5, <2>1 DEF Draft, Owed, UnderWay
  <2> QED
    BY <2>2, <2>3
<1>7. Draft'
  <2>1. \A d \in Opening' : turns'[d].frames = <<>>
    BY <1>2, <1>4, <1>6 DEF Draft, Only, Opening
  <2>2. shown = <<>> /\ streaming = Idle
    BY <1>1, <1>2 DEF Draft
  <2> QED
    BY <1>1, <1>2, <1>6, <2>1, <2>2 DEF Draft
<1>8. \A d \in Mine' : turns'[d].up
  BY <1>3, <1>4, <1>5 DEF PageFollows
<1>9. QED
  BY <1>1, <1>2, <1>7, <1>8 DEF PageFollows

LEMMA OrphanPage == ASSUME ServiceInv, PageFollows, NEW c, OpenedOrphan(c) PROVE PageFollows'
<1>1. c \in DOMAIN turns /\ turns[c].ask = "orphan" /\ samePage /\ turns \in Seq(TurnSet)
  BY DEF OpenedOrphan, samePage, ServiceInv
<1>2. PICK new, sid :
        /\ new \in BOOLEAN /\ sid = IF new THEN opened + 1 ELSE Newest
        /\ IF new THEN StartsNew(TRUE) ELSE live # <<>>
        /\ Open(sid, new, FALSE)
        /\ turns' = SentAs(c, sid, "away", "posted")
  BY Zenon DEF OpenedOrphan, SentAs
<1>3. IF new THEN opened < MaxSessions ELSE live # <<>>
  BY <1>2, Zenon DEF StartsNew
<1>4. sid \in 1..opened' /\ Grows /\ \A s \in 1..opened : rows'[s] = rows[s]
  BY <1>2, <1>3, OpenKeeps
<1>5. sid \in Sessions \cup {None}
  BY <1>4, SessionsAssumption DEF Grows, Sessions
<1>6. Only(c) /\ turns'[c].ask = "away"
  BY <1>1, <1>2, <1>5, TurnSent DEF Asks, Served
<1>7. session # None => rows'[session] = rows[session]
  BY <1>4 DEF ServiceInv
<1>8. c \notin Mine
  BY <1>1 DEF Mine
<1>9. QED
  BY <1>1, <1>6, <1>7, <1>8, OtherPage

LEMMA OpenOnePage == ASSUME ServiceInv, PageFollows, NEW c, OpenOne(c), ~Apart' PROVE PageFollows'
BY NotOpenedPage, OrphanPage, OpenedPage DEF OpenOne

LEMMA ElsewherePage == ASSUME ServiceInv, PageFollows, NEW sid, Elsewhere(sid) PROVE PageFollows'
<1>1. /\ turns' = Append(turns, Turn(sid, "away", "posted")) /\ turns \in Seq(TurnSet) /\ sid \in Range(live)
      /\ samePage /\ rows' = rows
  BY DEF Elsewhere, ServiceInv, page, service, samePage
<1>2. sid \in 1..opened
  BY <1>1 DEF ServiceInv, Range
<1>3. Turn(sid, "away", "posted") \in TurnSet /\ Turn(sid, "away", "posted").ask = "away"
  BY <1>2, TurnTyped, SessionTyped DEF Served, Asks
<1>4. PICK n : n = NextTurn
  OBVIOUS
<1>5. /\ DOMAIN turns' = DOMAIN turns \cup {n} /\ n \notin DOMAIN turns /\ turns'[n].ask = "away"
      /\ \A d \in DOMAIN turns : turns'[d] = turns[d]
  BY <1>1, <1>3, <1>4, AppendTurn
<1>6. Mine' = Mine /\ \A d \in Mine : turns'[d] = turns[d]
  BY <1>5 DEF Mine
<1>7. QED
  BY <1>1, <1>6, OwnPage

\* A mishap is not forgotten.
LEMMA StaysApart == ASSUME [Next]_vars, ~Apart' PROVE ~Apart
<1>1. mishaps \subseteq mishaps'
  <2>1. CASE UNCHANGED vars
    BY <2>1 DEF vars
  <2>2. CASE Submit
    BY <2>2, Zenon DEF Submit, SendShell, SendPrompt, SendRail, SendConcierge, SendTurn, Bootstrap, SubmitPrompt, SubmitRail,
       SubmitDraft, Add
  <2>3. CASE Dismiss \/ DismissDone \/ DismissFailed \/ Browse \/ Replay
    <3>1. ASSUME NEW more, mishaps' = mishaps \cup more PROVE mishaps \subseteq mishaps'
      BY <3>1
    <3> QED
      BY <2>3, <3>1, Zenon DEF Dismiss, DismissDone, DismissFailed, Browse, ListArrives, StartNew, StartedNew, Archived, resume,
         Archive, Remount, Replay, ServeHistory, HistoryArrives, HistoryFails
  <2>4. ASSUME NEW c, OpenOne(c) \/ Read(c) PROVE mishaps \subseteq mishaps'
    BY <2>4, Zenon DEF OpenOne, Opened, NotOpened, OpenedOrphan, OpenedPrompt, OpenedRail, OpenedDraft, Read
  <2>5. ASSUME NEW c, Handle(c) \/ Break(c) PROVE mishaps \subseteq mishaps'
    BY <2>5, Zenon DEF Handle, TakeTurn, RefuseBlank, Delta, Finish, GiveUp, SaveAnswer, Break, FetchFails, Cut, EndSilently,
       Cancelled
  <2>6. ASSUME NEW sid, Elsewhere(sid) PROVE mishaps \subseteq mishaps'
    BY <2>6 DEF Elsewhere
  <2> QED
    BY <2>1, <2>2, <2>3, <2>4, <2>5, <2>6, Zenon DEF Next
<1>2. QED
  BY <1>1 DEF Apart

LEMMA PageStep == ASSUME ServiceInv, Columns, PageFollows, [Next]_vars, ~Apart' PROVE PageFollows' \/ Closing'
<1>1. CASE Submit
  BY <1>1, SubmitPage
<1>2. CASE Dismiss \/ DismissDone \/ DismissFailed
  BY <1>2, DismissPage
<1>3. CASE Browse
  BY <1>3, BrowsePage
<1>4. CASE Replay
  BY <1>4, ReplayPage
<1>5. ASSUME NEW c, OpenOne(c) PROVE PageFollows'
  BY <1>5, OpenOnePage
<1>6. ASSUME NEW c, Handle(c) PROVE PageFollows'
  BY <1>6, HandlePage
<1>7. ASSUME NEW c, Read(c) PROVE PageFollows'
  BY <1>7, ReadPage
<1>8. ASSUME NEW c, Break(c) PROVE PageFollows'
  BY <1>8, BreakPage
<1>9. ASSUME NEW sid, Elsewhere(sid) PROVE PageFollows'
  BY <1>9, ElsewherePage
<1>10. CASE UNCHANGED vars
  BY <1>10, PageStays DEF vars, page, service
<1>11. QED
  BY <1>1, <1>2, <1>3, <1>4, <1>5, <1>6, <1>7, <1>8, <1>9, <1>10, Zenon DEF Next

\* While the first touch is being closed the composer is off, and nothing is read.
LEMMA ClosingStep == ASSUME ServiceInv, Columns, Closing, [Next]_vars, ~Apart' PROVE PageFollows' \/ Closing'
<1>1. /\ dismissing /\ Stuck /\ Opening = {} /\ Reading = {} /\ streaming # Idle /\ surface = "prompt"
      /\ history = NoHistory /\ turns \in Seq(TurnSet)
  BY DEF Closing, Stuck, Columns, ServiceInv
<1>2. ASSUME UNCHANGED <<streaming, dismissing>>,
             \A d \in DOMAIN turns' : turns'[d].ask \in {"opening", "reading"} => d \in DOMAIN turns /\ turns[d].ask = turns'[d].ask
      PROVE  Closing'
  <2>1. Reading' = {} /\ Opening' = {}
    BY <1>1, <1>2 DEF Reading, Opening
  <2> QED
    BY <1>1, <1>2, <2>1 DEF Closing, Stuck
<1>3. CASE Submit
  BY <1>1, <1>3 DEF Submit, SendShell, SendPrompt, SendRail, SendConcierge, SendTurn, Bootstrap, SubmitPrompt,
     SubmitRail, SubmitDraft, ComposerOn
<1>4. CASE Dismiss
  BY <1>1, <1>4 DEF Dismiss
<1>5. CASE DismissDone
  BY <1>5, ClosedPage
<1>6. CASE DismissFailed
  BY <1>1, <1>6 DEF DismissFailed, Apart
<1>7. CASE Browse
  BY <1>1, <1>7, BrowseColumns
<1>8. CASE Replay
  BY <1>1, <1>8 DEF Replay, ServeHistory, HistoryArrives, HistoryFails, NoHistory
<1>9. ASSUME NEW c, OpenOne(c) PROVE Closing'
  <2>1. OpenedOrphan(c)
    BY <1>1, <1>9 DEF OpenOne, Opened, NotOpened
  <2>2. PICK sid : turns' = [turns EXCEPT ![c].at = sid, ![c].ask = "away", ![c].serve = "posted"]
    BY <2>1, Zenon DEF OpenedOrphan
  <2>3. \A d \in DOMAIN turns' : turns'[d].ask \in {"opening", "reading"} => d \in DOMAIN turns /\ turns[d].ask = turns'[d].ask
    <3>1. c \in DOMAIN turns /\ turns[c] \in TurnSet /\ DOMAIN turns' = DOMAIN turns
      BY <1>1, <2>1, <2>2 DEF OpenedOrphan
    <3>2. turns'[c].ask = "away"
      BY <2>2, <3>1 DEF TurnSet
    <3>3. \A d \in DOMAIN turns : d # c => turns'[d] = turns[d]
      BY <2>2, <3>1
    <3> QED
      BY <3>1, <3>2, <3>3
  <2> QED
    BY <1>2, <2>1, <2>3 DEF OpenedOrphan
<1>10. ASSUME NEW c, Handle(c) \/ (c \in DOMAIN turns /\ Cancelled(c)) PROVE Closing'
  <2>1. UNCHANGED <<streaming, dismissing>> /\ c \in DOMAIN turns
    BY <1>10, Zenon DEF Handle, TakeTurn, RefuseBlank, Delta, Finish, GiveUp, SaveAnswer, Cancelled, page
  <2>2. DOMAIN turns' = DOMAIN turns /\ \A d \in DOMAIN turns : turns'[d].ask = turns[d].ask
    <3>1. CASE TakeTurn(c)
      BY <1>1, <2>1, <3>1, TakenTurn DEF Only
    <3>2. CASE SaveAnswer(c)
      BY <1>1, <2>1, <3>2, SavedTurn DEF Only
    <3>3. CASE Cancelled(c)
      <4>1. turns' = [turns EXCEPT ![c].serve = "dropped"] /\ "dropped" \in Served
        BY <3>3 DEF Cancelled, Served
      <4> QED
        BY <1>1, <2>1, <4>1, TurnServe DEF Only
    <3>4. CASE RefuseBlank(c) \/ Delta(c) \/ Finish(c) \/ GiveUp(c)
      BY <1>1, <2>1, <3>4, EmittedTurn DEF Only
    <3> QED
      BY <1>10, <3>1, <3>2, <3>3, <3>4 DEF Handle
  <2> QED
    BY <1>2, <2>1, <2>2
<1>11. ASSUME NEW c, Read(c) \/ FetchFails(c) \/ Cut(c) \/ EndSilently(c) PROVE Closing'
  BY <1>1, <1>11 DEF Read, FetchFails, Cut, EndSilently
<1>12. ASSUME NEW sid, Elsewhere(sid) PROVE Closing'
  <2>1. UNCHANGED <<streaming, dismissing>> /\ turns' = Append(turns, Turn(sid, "away", "posted"))
    BY <1>12 DEF Elsewhere, page
  <2>2. \A d \in DOMAIN turns' : turns'[d].ask \in {"opening", "reading"} => d \in DOMAIN turns /\ turns[d].ask = turns'[d].ask
    BY <1>1, <2>1 DEF Turn
  <2> QED
    BY <1>2, <2>1, <2>2
<1>13. CASE UNCHANGED vars
  BY <1>2, <1>13 DEF vars, page
<1>14. QED
  BY <1>3, <1>4, <1>5, <1>6, <1>7, <1>8, <1>9, <1>10, <1>11, <1>12, <1>13, Zenon DEF Next, Break

LEMMA ChatStep == ASSUME ChatInv, [Next]_vars PROVE ChatInv'
BY ServiceStep, ColumnsStep, StaysApart, PageStep, ClosingStep DEF ChatInv

LEMMA ChatInit == ASSUME Init PROVE ChatInv
<1>1. ServiceInv /\ Columns
  BY ServiceInit, ColumnsInit
<1>2. streaming = Idle /\ history = NoHistory /\ turns = <<>> /\ shown = TurnsAtLoad
  BY DEF Init
<1>3. /\ Reading = {} /\ Opening = {} /\ Owed = {} /\ AnswerRows = {} /\ PostedRows = {} /\ EndRows = {}
      /\ DOMAIN turns = {} /\ Mine = {}
  BY <1>2 DEF Reading, Opening, Owed, UnderWay, Mine, AnswerRows, PostedRows, EndRows, Answered, Posting, Ending
<1>4. CASE session = None
  <2>1. shown = <<>>
    BY <1>2, <1>4 DEF TurnsAtLoad
  <2>2. Draft
    BY <1>2, <1>3, <2>1 DEF Draft
  <2> QED
    BY <1>1, <1>3, <1>4, <2>1, <2>2 DEF ChatInv, PageFollows
<1>5. CASE session # None
  <2>1. rows[session] \in Seq(RowSet) /\ shown = Replayed(rows[session])
    BY <1>1, <1>2, <1>5, SessionTyped DEF TurnsAtLoad, ServiceInv
  <2>2. shown \in Seq(BubbleSet) /\ RowsOf(shown) = rows[session]
    BY <2>1, ReplayedRows
  <2>3. FiledAndSent = rows[session]
    BY <1>3, WithNone DEF FiledAndSent
  <2>4. Told = rows[session]
    BY <1>3, <2>2, WithNone DEF Told
  <2>5. Bound
    BY <1>2, <1>3, <2>3, <2>4 DEF Bound
  <2> QED
    BY <1>1, <1>3, <1>5, <2>2, <2>5 DEF ChatInv, PageFollows
<1>6. QED
  BY <1>4, <1>5

LEMMA ChatAgrees == ASSUME ChatInv PROVE TranscriptAgrees
<1> SUFFICES ASSUME Quiet, ~Apart, session # None
             PROVE  /\ Len(shown) = Len(rows[session])
                    /\ \A i \in DOMAIN shown : /\ Row(shown[i].role, shown[i].of) = rows[session][i]
                                               /\ shown[i].says \subseteq {shown[i].of}
  BY DEF TranscriptAgrees, Apart
<1>1. Bound /\ shown \in Seq(BubbleSet) /\ ServiceInv
  BY DEF ChatInv, PageFollows, Closing, Quiet
<1>2. Answered = {} /\ Posting = {} /\ Ending = {}
  BY DEF Quiet, Answered, Posting, Ending, Owed, UnderWay, Mine
<1>3. AnswerRows = {} /\ PostedRows = {} /\ EndRows = {}
  BY <1>2 DEF AnswerRows, PostedRows, EndRows
<1>4. rows[session] = RowsOf(shown)
  <2>1. FiledAndSent = Told
    BY <1>1 DEF Bound, Quiet
  <2>2. FiledAndSent = rows[session]
    BY <1>3, WithNone DEF FiledAndSent
  <2>3. Told = RowsOf(shown)
    BY <1>3, WithNone DEF Told
  <2> QED
    BY <2>1, <2>2, <2>3
<1>5. rows[session] \in Seq(RowSet)
  BY <1>1, SessionTyped DEF ServiceInv
<1>6. DOMAIN rows[session] = DOMAIN shown /\ \A i \in DOMAIN shown : rows[session][i] = Row(shown[i].role, shown[i].of)
  BY <1>4 DEF RowsOf
<1>7. Len(shown) = Len(rows[session])
  BY <1>1, <1>5, <1>6
<1>8. \A i \in DOMAIN shown : shown[i].says \subseteq {shown[i].of}
  BY <1>1 DEF BubbleSet
<1>9. QED
  BY <1>6, <1>7, <1>8

\* When nothing is on its way, the page of a chat shows the turns the service keeps, in their order and each with
\* the words of its own answer: for any turns, sessions and clicks, but for the behaviours the property lists.
THEOREM TranscriptsAgree == Spec => []TranscriptAgrees
<1>1. Init => ChatInv
  BY ChatInit
<1>2. ChatInv /\ [Next]_vars => ChatInv'
  BY ChatStep
<1>3. ChatInv => TranscriptAgrees
  BY ChatAgrees
<1> QED
  BY <1>1, <1>2, <1>3, PTL DEF Spec

=============================================================================
