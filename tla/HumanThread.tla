---------------------------- MODULE HumanThread ----------------------------
(***************************************************************************)
(* The people's conversation about a trip: its page, open at the advisor's *)
(* and at the traveler's, and the service under it.  A page opens the      *)
(* thread, making it if there is none, and then polls; it shows what it    *)
(* has sent at once.  A message that mentions Artemis is answered in the   *)
(* background, or not at all, and the page shows that it waits.            *)
(***************************************************************************)
EXTENDS Naturals, Sequences, FiniteSets, SequencesExt

CONSTANTS
  Viewers,      \* who has the page open
  MaxMessages,  \* bound: the messages the people send
  Watched,      \* bound: the page that meets with a failure, is left, mentions Artemis, or is polled late
  MaxLate       \* bound: its late polls under way

VARIABLES
  threads,    \* the threads of this trip, each with its messages
  summons,    \* the messages that Artemis is about to answer, with their thread
  thread,     \* per viewer: the page's thread, 0 for none yet
  status,     \* per viewer: "closed", "loading", "ready" or "error"
  messages,   \* per viewer: what the page shows
  sending,    \* per viewer: whether its message is under way
  awaiting,   \* per viewer: whether it shows that Artemis composes
  since,      \* per viewer: the replies there were when it began to wait
  timer,      \* per viewer: whether the safety timeout is armed
  posts,      \* the calls under way
  sent,       \* history: the messages the people have sent
  mishap      \* history: whether a call has failed or a page was left

page == <<thread, status, messages, sending, awaiting, since, timer>>
server == <<threads, summons>>
vars == <<server, page, posts, sent, mishap>>

-----------------------------------------------------------------------------

Call == [viewer |-> CHOOSE v \in Viewers : TRUE, op |-> "open", stage |-> "sent", id |-> 0, thread |-> 0,
         summoning |-> FALSE, count |-> 0, got |-> <<>>]

artemisCount(list) == Len(SelectSeq(list, LAMBDA m : m.by = "artemis"))

Replaces(c, d) == posts' = (posts \ {c}) \cup {d}

\* The page mounts when the channel is chosen, and opens the thread once.
mount(v) ==
  /\ status[v] = "closed"
  /\ status' = [status EXCEPT ![v] = "loading"]
  /\ posts' = posts \cup {[Call EXCEPT !.viewer = v]}
  /\ UNCHANGED <<server, thread, messages, sending, awaiting, since, timer, sent, mishap>>

\* With another channel it goes, and all it knew; a message under way is still served.  Bound: once,
\* unless a call fails.
unmount(v) ==
  /\ status[v] # "closed" /\ v = Watched /\ ~mishap
  /\ mishap' = TRUE
  /\ status' = [status EXCEPT ![v] = "closed"]
  /\ thread' = [thread EXCEPT ![v] = 0]
  /\ messages' = [messages EXCEPT ![v] = <<>>]
  /\ sending' = [sending EXCEPT ![v] = FALSE]
  /\ awaiting' = [awaiting EXCEPT ![v] = FALSE]
  /\ since' = [since EXCEPT ![v] = 0]
  /\ timer' = [timer EXCEPT ![v] = FALSE]
  /\ posts' = {IF c.viewer = v THEN [c EXCEPT !.op = "orphan"] ELSE c :
                 c \in {d \in posts : d.viewer # v \/ d.op = "orphan" \/ (d.op = "send" /\ d.stage = "sent")}}
  /\ UNCHANGED <<server, sent>>

\* One message at a time; the replies are counted at the click.
send(v, summoning) ==
  /\ summoning => v = Watched
  /\ thread[v] # 0 /\ status[v] # "error" /\ ~sending[v] /\ sent < MaxMessages
  /\ sent' = sent + 1
  /\ sending' = [sending EXCEPT ![v] = TRUE]
  /\ posts' = posts \cup {[Call EXCEPT !.viewer = v, !.op = "send", !.thread = thread[v], !.id = sent + 1,
                             !.summoning = summoning, !.count = artemisCount(messages[v])]}
  /\ UNCHANGED <<server, thread, status, messages, awaiting, since, timer, mishap>>

-----------------------------------------------------------------------------
(* The service.                                                            *)

Served(c, d) == Replaces(c, d) /\ UNCHANGED <<page, sent, mishap>>

\* Looks for the thread of the trip.
LookUp(c) ==
  /\ c.op = "open" /\ c.stage = "sent"
  /\ Served(c, [c EXCEPT !.stage = IF threads = <<>> THEN "absent" ELSE "ok", !.thread = Len(threads)])
  /\ UNCHANGED server

\* Slip: without the unique index, who found none makes one.
InsertUnindexed(c) ==
  /\ c.op = "open" /\ c.stage = "absent"
  /\ threads' = Append(threads, <<>>)
  /\ Served(c, [c EXCEPT !.stage = "ok", !.thread = Len(threads')])
  /\ UNCHANGED summons

\* One thread per scope, by a unique index: who comes second takes the winner's.
open_or_create_human_thread(c) ==
  /\ c.op = "open" /\ c.stage = "absent"
  /\ threads' = IF threads = <<>> THEN <<<<>>>> ELSE threads
  /\ Served(c, [c EXCEPT !.stage = "ok", !.thread = 1])
  /\ UNCHANGED summons

list_messages(v) == threads[thread[v]]

\* The message is there with the answer, and Artemis is summoned behind it.
send_message(c) ==
  /\ c.op \in {"send", "orphan"} /\ c.stage = "sent"
  /\ threads' = [threads EXCEPT ![c.thread] = Append(@, [id |-> c.id, by |-> c.viewer])]
  /\ summons' = IF c.summoning THEN summons \cup {<<c.thread, c.id>>} ELSE summons
  /\ posts' = (posts \ {c}) \cup (IF c.op = "orphan" THEN {} ELSE {[c EXCEPT !.stage = "ok"]})
  /\ UNCHANGED <<page, sent, mishap>>

\* Artemis answers in the thread, or the message stands alone.
summon_artemis_in_thread(s, answers) ==
  /\ s \in summons
  /\ summons' = summons \ {s}
  /\ threads' = IF answers THEN [threads EXCEPT ![s[1]] = Append(@, [id |-> s[2], by |-> "artemis"])] ELSE threads
  /\ UNCHANGED <<page, posts, sent, mishap>>

-----------------------------------------------------------------------------
(* The answers.                                                            *)

\* The thread is known: polls begin, and the history is read.
Opened(c) ==
  /\ c.op = "open" /\ c.stage = "ok"
  /\ thread' = [thread EXCEPT ![c.viewer] = c.thread]
  /\ Replaces(c, [c EXCEPT !.op = "load", !.stage = "sent"])
  /\ UNCHANGED <<server, status, messages, sending, awaiting, since, timer, sent, mishap>>

\* Slip: what was read is added to what is shown.
ShowMerged(v, list) ==
  /\ messages' = [messages EXCEPT ![v] = @ \o SelectSeq(list, LAMBDA m : m \notin ToSet(messages[v]))]
  /\ UNCHANGED <<awaiting, since, timer>>

\* The hint goes with a reply the page had not shown when it began to wait.
Show(v, list) ==
  /\ messages' = [messages EXCEPT ![v] = list]
  /\ IF awaiting[v] /\ artemisCount(list) > since[v]
     THEN /\ awaiting' = [awaiting EXCEPT ![v] = FALSE]
          /\ since' = [since EXCEPT ![v] = 0]
          /\ timer' = [timer EXCEPT ![v] = FALSE]
     ELSE UNCHANGED <<awaiting, since, timer>>

\* The history is read and shown; a poll answered first is replaced.
Loaded(c) ==
  /\ c.op = "load"
  /\ Show(c.viewer, list_messages(c.viewer))
  /\ status' = [status EXCEPT ![c.viewer] = "ready"]
  /\ posts' = posts \ {c}
  /\ UNCHANGED <<server, thread, sending, sent, mishap>>

\* What was read is shown instead of what was there, whichever was read first.
Listed(c) ==
  /\ c.op = "poll"
  /\ Show(c.viewer, c.got)
  /\ posts' = posts \ {c}
  /\ UNCHANGED <<server, thread, status, sending, sent, mishap>>

\* A new timeout takes the place of the one before.
Waits(v, count) ==
  /\ awaiting' = [awaiting EXCEPT ![v] = TRUE]
  /\ since' = [since EXCEPT ![v] = count]
  /\ timer' = [timer EXCEPT ![v] = TRUE]

\* The sent message is appended to what is shown, polled already or not.  A summons waits for a reply
\* beyond those counted at the click: one that has come since ends the hint at once.
Sent(c) ==
  LET list == Append(messages[c.viewer], [id |-> c.id, by |-> c.viewer]) IN
  /\ c.op = "send" /\ c.stage = "ok"
  /\ sending' = [sending EXCEPT ![c.viewer] = FALSE]
  /\ posts' = posts \ {c}
  /\ IF c.summoning /\ artemisCount(list) <= c.count
     THEN messages' = [messages EXCEPT ![c.viewer] = list] /\ Waits(c.viewer, c.count)
     ELSE Show(c.viewer, list)
  /\ UNCHANGED <<server, thread, status, sent, mishap>>

TimeOut(v) ==
  /\ timer[v]
  /\ timer' = [timer EXCEPT ![v] = FALSE]
  /\ awaiting' = [awaiting EXCEPT ![v] = FALSE]
  /\ since' = [since EXCEPT ![v] = 0]
  /\ UNCHANGED <<server, thread, status, messages, sending, posts, sent, mishap>>

\* A call that fails, or whose answer is lost; a poll that fails does nothing.  Bound: once, unless a page
\* is left.  A page that cannot open its thread says so and does not try again.
Fails(c) ==
  /\ ~mishap /\ c.viewer = Watched /\ c.op \in {"open", "load", "send"}
  /\ mishap' = TRUE
  /\ posts' = posts \ {c}
  /\ status' = [status EXCEPT ![c.viewer] = IF c.op = "open" THEN "error" ELSE IF c.op = "load" THEN "ready" ELSE @]
  /\ sending' = [sending EXCEPT ![c.viewer] = @ /\ c.op # "send"]
  /\ UNCHANGED <<server, thread, messages, awaiting, since, timer, sent>>

\* Every few seconds, whether the last poll has come back or not.  Most are answered before anything else happens;
pollAnswered(v) ==
  /\ thread[v] # 0
  /\ Show(v, list_messages(v))
  /\ UNCHANGED <<server, thread, status, sending, posts, sent, mishap>>

\* and one, with what the thread has by now, is answered later than others that are asked after it.
poll(v) ==
  /\ v = Watched /\ thread[v] # 0 /\ Cardinality({c \in posts : c.op = "poll"}) < MaxLate
  /\ posts' = posts \cup {[Call EXCEPT !.viewer = v, !.op = "poll", !.stage = "ok", !.got = list_messages(v)]}
  /\ UNCHANGED <<server, page, sent, mishap>>

-----------------------------------------------------------------------------

Init ==
  /\ threads = <<>> /\ summons = {} /\ posts = {} /\ sent = 0 /\ mishap = FALSE
  /\ thread = [v \in Viewers |-> 0]
  /\ status = [v \in Viewers |-> "closed"]
  /\ messages = [v \in Viewers |-> <<>>]
  /\ sending = [v \in Viewers |-> FALSE]
  /\ awaiting = [v \in Viewers |-> FALSE]
  /\ since = [v \in Viewers |-> 0]
  /\ timer = [v \in Viewers |-> FALSE]

Person(v) == mount(v) \/ unmount(v) \/ send(v, TRUE) \/ send(v, FALSE)

Serve(c) == LookUp(c) \/ open_or_create_human_thread(c) \/ send_message(c)
Answer(c) == Opened(c) \/ Loaded(c) \/ Listed(c) \/ Sent(c)

Next ==
  \/ \E v \in Viewers : Person(v) \/ pollAnswered(v) \/ poll(v) \/ TimeOut(v)
  \/ \E c \in posts : Serve(c) \/ Answer(c) \/ Fails(c)
  \/ \E s \in summons : summon_artemis_in_thread(s, TRUE) \/ summon_artemis_in_thread(s, FALSE)

Spec == Init /\ [][Next]_vars

\* Calls are served and answered, polls go on, the timeout runs out, and a summons comes to an end.
Works(v) == \E c \in posts : c.viewer = v /\ (Serve(c) \/ Answer(c))

Fairness ==
  /\ \A v \in Viewers : WF_vars(Works(v)) /\ WF_vars(pollAnswered(v)) /\ WF_vars(TimeOut(v))
  /\ WF_vars(\E s \in summons : summon_artemis_in_thread(s, TRUE) \/ summon_artemis_in_thread(s, FALSE))

LiveSpec == Spec /\ Fairness

-----------------------------------------------------------------------------
(* Properties.                                                             *)

\* The two pages of a trip talk in one thread, although both may find none and make one.
SameThread ==
  \A v, w \in Viewers : thread[v] # 0 /\ thread[w] # 0 => thread[v] = thread[w]

\* Every page that has its thread shows the thread's messages in the end, each once and in their order,
\* whatever was appended, polled twice or read late in between; and no page waits for Artemis for ever,
\* answered or not, summoned again or not.
Converges ==
  /\ <>[](\A v \in Viewers : thread[v] # 0 => messages[v] = threads[thread[v]])
  /\ \A v \in Viewers : []<>(~awaiting[v])

=============================================================================
