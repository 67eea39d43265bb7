-------------------------- MODULE MCConversations --------------------------
(***************************************************************************)
(* Two conversations that share no state, on small instances: a behaviour  *)
(* is one of the people with each other, on the trip's thread, or one of   *)
(* the advisors with the agent, whose cards wait for the editor lock.      *)
(***************************************************************************)
EXTENDS Naturals

CONSTANTS
  Advisors, Cards, MaxCrashes, Nobody,    \* the write queue's
  Viewers, MaxMessages, Watched, MaxLate  \* the thread's

\* What the proofs about the write queue rest on.
ASSUME WriteQueueAssumption == Nobody \notin Advisors /\ MaxCrashes \in Nat

VARIABLES
  who,   \* "people" or "agent"
  lockedBy, queue, drain, turn, nodes, dropped, lost, crashes,
  threads, summons, feed, status, messages, sending, awaiting, since, timer, posts, sent, mishap

Q == INSTANCE WriteQueue WITH None <- Nobody
T == INSTANCE HumanThread WITH thread <- feed

agent == <<lockedBy, queue, drain, turn, nodes, dropped, lost, crashes>>
people == <<threads, summons, feed, status, messages, sending, awaiting, since, timer, posts, sent, mishap>>
all == <<who, agent, people>>

Talk(A) == who = "people" /\ A /\ UNCHANGED <<who, agent>>
Agent(A) == who = "agent" /\ A /\ UNCHANGED <<who, people>>

ConversationsInit == who \in {"people", "agent"} /\ Q!Init /\ T!Init

ConversationsNext == Agent(Q!Next) \/ Talk(T!Next)

ConversationsSpec ==
  /\ ConversationsInit /\ [][ConversationsNext]_all
  \* The fairness of WriteQueue and of HumanThread.
  /\ \A a \in Advisors : WF_all(Agent(Q!Drain(a)))
  /\ \A c \in Cards : WF_all(Agent(Q!Turn(c)))
  /\ \A v \in Viewers :
       WF_all(Talk(T!Works(v))) /\ WF_all(Talk(T!pollAnswered(v))) /\ WF_all(Talk(T!TimeOut(v)))
  /\ WF_all(Talk(\E s \in summons : T!summon_artemis_in_thread(s, TRUE) \/ T!summon_artemis_in_thread(s, FALSE)))

\* What becomes of the agent's cards, and that a release ends, named by what they say in WriteQueue.
EachCardOnce == Q!EachCardOnce
DrainsEnd == Q!DrainsEnd

\* The thread's properties, named by what they say in HumanThread.
SameThread == T!SameThread
Converges == T!Converges
=============================================================================
