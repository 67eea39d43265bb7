------------------------------ MODULE AgentChat ------------------------------
(***************************************************************************)
(* A conversation with the concierge: the web surfaces that show it, the   *)
(* stream of one turn, and the turns the service keeps.  A page opens a    *)
(* session when it needs one, shows the message at once, reads the answer  *)
(* frame by frame and offers the composer again when the stream says it is *)
(* over.  The service saves the message first and the answer last, after   *)
(* the page has been told that the turn is done.                           *)
(*                                                                         *)
(* Surfaces: "shell" the chat page, "prompt" the first touch on basecamp,  *)
(* "rail" basecamp's column, "concierge" the itinerary's session list.     *)
(***************************************************************************)
EXTENDS Naturals, Sequences, FiniteSets, SequencesExt

CONSTANTS
  Surfaces,     \* the pages that may be open
  MaxTurns,     \* bound: messages sent
  MaxSessions,  \* bound: sessions opened
  MaxClicks,    \* bound: clicks in the session list
  None          \* no session

AllSurfaces == {"shell", "prompt", "rail", "concierge"}

ASSUME SurfacesAssumption == Surfaces \subseteq AllSurfaces
ASSUME TurnsAssumption == MaxTurns \in Nat
ASSUME SessionsAssumption == MaxSessions \in Nat \ {0} /\ MaxClicks \in Nat /\ None \notin Nat

VARIABLES
  surface,    \* which page is open
  session,    \* the session the page sends to, None before it has one
  shown,      \* the bubbles on the page
  streaming,  \* the answer being written, or Idle
  history,    \* the replay of a resumed session: NoHistory, or asked for, or on its way
  dismissing, \* the first touch is being closed
  thread,     \* the session list of the concierge column
  turns,      \* the messages sent: where the page and the service are with each
  live,       \* the service's open sessions, oldest first
  opened,     \* how many sessions were opened
  rows,       \* the turns the service keeps, by session
  mishaps     \* history: "unended" (a stream ended without a last frame, or was aborted by a close
              \* that then failed), "apart" (where page and service part, at the steps that say so)

page == <<surface, session, shown, streaming, history, dismissing, thread>>
service == <<live, opened, rows>>
vars == <<page, turns, service, mishaps>>

TurnIds == 1..MaxTurns
Sessions == 1..MaxSessions

Idle == [of |-> 0, says |-> {}, kept |-> FALSE]
Writing(c) == [of |-> c, says |-> {}, kept |-> TRUE]
Bubble(role, c, says) == [role |-> role, of |-> c, says |-> says]
Row(role, c) == [role |-> role, of |-> c]

\* The bubbles that stand for the turns of a session.
Replayed(rs) ==
  [i \in DOMAIN rs |-> Bubble(rs[i].role, rs[i].of, IF rs[i].role = "error" THEN {} ELSE {rs[i].of})]

Opener == Bubble("assistant", 0, {0})

NoHistory == [stage |-> "none", turns |-> <<>>]

-----------------------------------------------------------------------------
(* Sending.                                                                *)

NextTurn == Len(turns) + 1

\* ask: where the page is with the turn, "away" when it does not show it; serve: where the service is.
Turn(at, ask, serve) ==
  [at |-> at, ask |-> ask, serve |-> serve, place |-> 0, frames |-> <<>>, up |-> TRUE]

Opening == {c \in DOMAIN turns : turns[c].ask = "opening"}
Reading == {c \in DOMAIN turns : turns[c].ask = "reading"}
UnderWay == {c \in DOMAIN turns : turns[c].serve \in {"posted", "running", "speaking", "answered", "failed"}}

Add(turn, also) ==
  /\ NextTurn <= MaxTurns
  /\ turns' = Append(turns, turn)
  /\ mishaps' = mishaps \cup also
  /\ UNCHANGED <<surface, session, history, dismissing, thread, service>>

ShowQuestion(c, before) ==
  /\ shown' = shown \o before \o <<Bubble("user", c, {c})>>
  /\ streaming' = Writing(c)

\* The composer is off while an answer is being written.
ComposerOn == streaming = Idle

\* Sent before the replay of a resumed session has arrived, which will replace the question.
Hasty == IF history = NoHistory THEN {} ELSE {"apart"}

\* Every surface sends at once when it has a session: the chat page after its opening turn,
\* the conversation the first touch turned into, the rail, and the concierge's form.
SendTurn ==
  /\ ComposerOn
  /\ session # None
  /\ ShowQuestion(NextTurn, <<>>)
  /\ Add(Turn(session, "reading", "posted"), Hasty)

SendShell == surface = "shell" /\ (turns # <<>> \/ shown # <<>>) /\ SendTurn
SendPrompt == surface = "prompt" /\ SendTurn
SendRail == surface = "rail" /\ SendTurn
SendConcierge == surface = "concierge" /\ SendTurn

\* The chat page opens an empty session with a blank message, which it does not show, and shows
\* the refusal of, which is not saved.
Bootstrap ==
  /\ surface = "shell"
  /\ turns = <<>> /\ shown = <<>>
  /\ ComposerOn
  /\ streaming' = Writing(NextTurn)
  /\ Add(Turn(session, "reading", "blank"), {"apart"})
  /\ UNCHANGED shown

\* The first message on basecamp opens the session; a second submit waits for it.
SubmitPrompt ==
  /\ surface = "prompt"
  /\ session = None /\ Opening = {} /\ ComposerOn
  /\ Add(Turn(None, "opening", "none"), {})
  /\ UNCHANGED <<shown, streaming>>

\* The rail opens a missing session too, with the composer still on.
SubmitRail ==
  /\ surface = "rail"
  /\ session = None /\ ComposerOn
  /\ Add(Turn(None, "opening", "none"), {})
  /\ UNCHANGED <<shown, streaming>>

\* The concierge shows the message before it has a session.
SubmitDraft ==
  /\ surface = "concierge"
  /\ session = None /\ ComposerOn
  /\ ShowQuestion(NextTurn, <<>>)
  /\ Add(Turn(None, "opening", "none"), {})

-----------------------------------------------------------------------------
(* Opening a session.                                                      *)

Newest == IF live = <<>> THEN None ELSE Last(live)

\* open_or_reuse_session takes the newest live session, or starts one: also when the one that
\* is live now was not there yet when the request looked.
StartsNew(racing) == opened < MaxSessions /\ (live = <<>> \/ racing)

Open(sid, new, seed) ==
  /\ IF new
     THEN /\ live' = Append(live, sid)
          /\ opened' = sid
          /\ rows' = [rows EXCEPT ![sid] = IF seed THEN <<Row("assistant", 0)>> ELSE <<>>]
     ELSE UNCHANGED service

\* The page learns its session and sends the message that waited for it.
Posted(c, at) == [turns EXCEPT ![c].at = at, ![c].ask = "reading", ![c].serve = "posted"]
Over(c) == [turns EXCEPT ![c].ask = "over", ![c].frames = <<>>]

\* The first touch shows the opener of a new session, whatever more a session taken over holds.
OpenedPrompt(c, sid) ==
  /\ surface = "prompt"
  /\ session' = sid
  /\ ShowQuestion(c, <<Opener>>)
  /\ turns' = Posted(c, sid)
  /\ mishaps' = mishaps \cup (IF rows'[sid] = <<Row("assistant", 0)>> THEN {} ELSE {"apart"})
  /\ UNCHANGED thread

\* The stream still has the session of the last rendering: none for the first message,
\* which therefore fails on the page without having been sent.
OpenedRail(c, sid) ==
  /\ surface = "rail"
  /\ session' = sid
  /\ IF session = None
     THEN /\ shown' = shown \o <<Bubble("user", c, {c}), Bubble("error", c, {})>>
          /\ streaming' = Idle
          /\ turns' = Over(c)
          /\ mishaps' = mishaps \cup {"apart"}
     ELSE /\ ShowQuestion(c, <<>>)
          /\ turns' = Posted(c, session)
          /\ UNCHANGED mishaps
  /\ UNCHANGED thread

\* Nor does the concierge show what a session taken over holds.
OpenedDraft(c, sid) ==
  /\ surface = "concierge"
  /\ session' = sid
  /\ thread' = [thread EXCEPT !.active = IF @ = None THEN sid ELSE @]
  /\ turns' = Posted(c, sid)
  /\ mishaps' = mishaps \cup (IF rows'[sid] = <<>> THEN {} ELSE {"apart"})
  /\ UNCHANGED <<shown, streaming>>

Opened(c) ==
  /\ c \in Opening
  /\ \E new \in BOOLEAN :
       LET sid == IF new THEN opened + 1 ELSE Newest IN
       /\ IF new THEN StartsNew(Cardinality(Opening) > 1) ELSE live # <<>>
       /\ Open(sid, new, surface = "prompt")
       /\ OpenedPrompt(c, sid) \/ OpenedRail(c, sid) \/ OpenedDraft(c, sid)
  /\ UNCHANGED <<surface, history, dismissing>>

\* The prompt keeps the draft and says so; the rail and the concierge show an error.
NotOpened(c) ==
  /\ c \in Opening
  /\ turns' = Over(c)
  /\ IF surface = "prompt" THEN UNCHANGED <<shown, streaming, mishaps>>
     ELSE /\ shown' = Append(shown, Bubble("error", c, {}))
          /\ streaming' = Idle
          /\ mishaps' = mishaps \cup {"apart"}
  /\ UNCHANGED <<surface, session, history, dismissing, thread, service>>

\* A chat that was left while it waited for its session still sends the message.
OpenedOrphan(c) ==
  /\ c \in DOMAIN turns /\ turns[c].ask = "orphan"
  /\ \E new \in BOOLEAN :
       LET sid == IF new THEN opened + 1 ELSE Newest IN
       /\ IF new THEN StartsNew(TRUE) ELSE live # <<>>
       /\ Open(sid, new, FALSE)
       /\ turns' = [turns EXCEPT ![c].at = sid, ![c].ask = "away", ![c].serve = "posted"]
       /\ thread' = [thread EXCEPT !.active = IF @ = None /\ surface = "concierge" THEN sid ELSE @]
  /\ UNCHANGED <<surface, session, shown, streaming, history, dismissing, mishaps>>

-----------------------------------------------------------------------------
(* The service's side of a turn (stream_turn).                             *)

Emit(c, frames, serve) ==
  [turns EXCEPT ![c].frames = IF c \in Reading THEN @ \o frames ELSE @, ![c].serve = serve]

\* A row of a turn the page does not show, in the session it does; a replay still to be read has it.
Unseen(c) == turns[c].ask \notin {"reading", "over"} /\ turns[c].at = session /\ history.stage # "asked"

\* The page's message comes before the answer to its last one is saved, which will find its place taken.
Overtakes(c) ==
  \E d \in UnderWay : /\ turns[d].serve # "posted" /\ turns[d].ask # "away"
                      /\ turns[d].at = turns[c].at

\* The message is saved at the next place, under the lock of the session.
TakeTurn(c) ==
  /\ turns[c].serve = "posted"
  /\ LET at == turns[c].at IN
       /\ rows' = [rows EXCEPT ![at] = Append(@, Row("user", c))]
       /\ turns' = [turns EXCEPT ![c].serve = "running", ![c].place = Len(rows[at]) + 1]
  /\ mishaps' = mishaps \cup (IF Unseen(c) \/ Overtakes(c) THEN {"apart"} ELSE {})
  /\ UNCHANGED <<page, live, opened>>

\* The runtime's answer; one piece of text stands for all of it.
Answering(c) == turns[c].serve \in {"running", "speaking"}

\* A blank message is refused with the fallback frame, and not saved.
RefuseBlank(c) ==
  /\ turns[c].serve = "blank"
  /\ turns' = Emit(c, <<"error">>, "refused")
  /\ UNCHANGED <<page, service, mishaps>>

Delta(c) ==
  /\ turns[c].serve = "running"
  /\ turns' = Emit(c, <<"delta">>, "speaking")
  /\ UNCHANGED <<page, service, mishaps>>

Finish(c) ==
  /\ Answering(c)
  /\ turns' = Emit(c, <<"done">>, "answered")
  /\ UNCHANGED <<page, service, mishaps>>

\* The runtime failed, after its retries or in the middle of the answer.
GiveUp(c) ==
  /\ Answering(c)
  /\ turns' = Emit(c, <<"error", "done">>, "failed")
  /\ UNCHANGED <<page, service, mishaps>>

\* Slip: the answer takes the next place there is.
SaveAnswerAnywhere(c) ==
  /\ turns[c].serve \in {"answered", "failed"}
  /\ rows' = [rows EXCEPT ![turns[c].at] =
               Append(@, Row(IF turns[c].serve = "failed" THEN "error" ELSE "assistant", c))]
  /\ turns' = [turns EXCEPT ![c].serve = "saved"]
  /\ UNCHANGED <<page, live, opened, mishaps>>

\* Slip: a failed answer is not saved.
SaveAnswerGiven(c) ==
  /\ turns[c].serve \in {"answered", "failed"}
  /\ LET given == turns[c].serve = "answered" /\ Len(rows[turns[c].at]) = turns[c].place IN
       /\ rows' = IF given THEN [rows EXCEPT ![turns[c].at] = Append(@, Row("assistant", c))] ELSE rows
       /\ turns' = [turns EXCEPT ![c].serve = IF given THEN "saved" ELSE "lost"]
  /\ UNCHANGED <<page, live, opened, mishaps>>

\* The answer is saved right after its question, unless that place is taken by now.
SaveAnswer(c) ==
  /\ turns[c].serve \in {"answered", "failed"}
  /\ LET at == turns[c].at
         free == Len(rows[at]) = turns[c].place
         role == IF turns[c].serve = "failed" THEN "error" ELSE "assistant" IN
       /\ rows' = IF free THEN [rows EXCEPT ![at] = Append(@, Row(role, c))] ELSE rows
       /\ turns' = [turns EXCEPT ![c].serve = IF free THEN "saved" ELSE "lost"]
       /\ mishaps' = mishaps \cup (IF free /\ Unseen(c) THEN {"apart"} ELSE {})
  /\ UNCHANGED <<page, live, opened>>

\* A handler whose reader is gone is cancelled where it stands.
Cancelled(c) ==
  /\ ~turns[c].up
  /\ turns[c].serve \in {"posted", "blank", "running", "speaking", "answered", "failed"}
  /\ turns' = [turns EXCEPT ![c].serve = "dropped"]
  /\ UNCHANGED <<page, service, mishaps>>

\* Another page on the same session.
Elsewhere(sid) ==
  /\ NextTurn <= MaxTurns
  /\ sid \in Range(live)
  /\ turns' = Append(turns, Turn(sid, "away", "posted"))
  /\ UNCHANGED <<page, service, mishaps>>

-----------------------------------------------------------------------------
(* Reading the stream.                                                     *)

Kept(bubble) == IF streaming.kept THEN <<bubble>> ELSE <<>>

\* A piece of text goes to whatever answer is being written.
appendDelta(c) ==
  /\ streaming' = IF streaming = Idle THEN Idle ELSE [streaming EXCEPT !.says = @ \cup {c}]
  /\ turns' = [turns EXCEPT ![c].frames = Tail(@)]
  /\ UNCHANGED shown

\* The end of the answer, in the stores and in the concierge, whose answer may have been
\* replaced by a replay.
finishStream == shown' = Append(shown, Bubble("assistant", streaming.of, streaming.says))
onDone == shown' = shown \o Kept(Bubble("assistant", streaming.of, streaming.says))

\* Slip: the composer is not given back when a replay took the answer's bubble.
FinishedKept ==
  /\ IF streaming = Idle THEN UNCHANGED shown
     ELSE IF surface = "concierge" THEN onDone ELSE finishStream
  /\ streaming' = IF streaming.kept THEN Idle ELSE streaming

Finished ==
  /\ IF streaming = Idle THEN UNCHANGED shown
     ELSE IF surface = "concierge" THEN onDone ELSE finishStream
  /\ streaming' = Idle

errorStream(c) == shown' = Append(shown, Bubble("error", c, {}))
onError(c) == shown' = shown \o Kept(Bubble("error", c, {}))

Errored(c) ==
  /\ IF surface = "concierge" THEN onError(c) ELSE errorStream(c)
  /\ streaming' = Idle

NextFrame(c) == Head(turns[c].frames)

Read(c) ==
  /\ c \in Reading
  /\ turns[c].frames # <<>>
  /\ CASE NextFrame(c) = "delta" -> appendDelta(c)
       [] NextFrame(c) = "done" -> Finished /\ turns' = Over(c)
       [] OTHER -> Errored(c) /\ turns' = Over(c)
  /\ UNCHANGED <<surface, session, history, dismissing, thread, service, mishaps>>

\* The request is not accepted, or never arrives: the page shows an error.
FetchFails(c) ==
  /\ c \in Reading
  /\ turns[c].serve = "posted"
  /\ Errored(c)
  /\ turns' = [Over(c) EXCEPT ![c].serve = "dropped"]
  /\ mishaps' = mishaps \cup {"apart"}
  /\ UNCHANGED <<surface, session, history, dismissing, thread, service>>

\* The connection breaks: the page shows an error.
Cut(c) ==
  /\ c \in Reading
  /\ Errored(c)
  /\ turns' = [Over(c) EXCEPT ![c].up = FALSE]
  /\ mishaps' = mishaps \cup {"apart"}
  /\ UNCHANGED <<surface, session, history, dismissing, thread, service>>

\* The stream ends as if complete, but without a last frame: no callback is made.
EndSilently(c) ==
  /\ c \in Reading
  /\ turns[c].serve \in {"running", "speaking", "answered", "failed"}
  /\ turns' = [Over(c) EXCEPT ![c].up = FALSE]
  /\ mishaps' = mishaps \cup {"unended"}
  /\ UNCHANGED <<page, service>>

-----------------------------------------------------------------------------
(* Leaving a chat.                                                         *)

\* Unmounting aborts the stream that is read; a message that waits for its session goes on.
Left ==
  [c \in DOMAIN turns |->
     CASE turns[c].ask = "reading" -> [turns[c] EXCEPT !.ask = "away", !.frames = <<>>, !.up = FALSE]
       [] turns[c].ask = "opening" -> [turns[c] EXCEPT !.ask = "orphan"]
       [] turns[c].ask = "over"    -> [turns[c] EXCEPT !.ask = "away"]
       [] OTHER -> turns[c]]

\* The stream that is read is aborted on a page that stays.
Aborted ==
  [c \in DOMAIN turns |->
     IF turns[c].ask = "reading" THEN [turns[c] EXCEPT !.ask = "over", !.frames = <<>>, !.up = FALSE]
                                 ELSE turns[c]]

\* Closing the first touch aborts the stream before it asks the service.
Dismiss ==
  /\ surface = "prompt"
  /\ ~dismissing
  /\ Opening = {}
  /\ dismissing' = TRUE
  /\ turns' = Aborted
  /\ UNCHANGED <<surface, session, shown, streaming, history, thread, service, mishaps>>

\* The service ends every live session of the client; basecamp comes back with the rail.
DismissDone ==
  /\ dismissing
  /\ surface' = "rail" /\ session' = None
  /\ shown' = <<>> /\ streaming' = Idle
  /\ dismissing' = FALSE
  /\ live' = <<>>
  /\ turns' = Left
  /\ UNCHANGED <<history, thread, opened, rows, mishaps>>

\* An answer of which nobody reads the stream any more.
Stuck == streaming # Idle /\ Reading = {}

DismissFailed ==
  /\ dismissing
  /\ dismissing' = FALSE
  /\ mishaps' = mishaps \cup (IF Stuck THEN {"unended"} ELSE {})
  /\ UNCHANGED <<surface, session, shown, streaming, history, thread, turns, service>>

-----------------------------------------------------------------------------
(* The session list of the concierge column (SessionThread).               *)

\* The chat is keyed by the session it is bound to; another key is another chat.
Remount(key, sid) ==
  /\ IF thread.key = key THEN UNCHANGED <<session, shown, streaming, history, turns>>
     ELSE /\ session' = sid
          /\ shown' = <<>> /\ streaming' = Idle
          /\ history' = [NoHistory EXCEPT !.stage = IF sid = None THEN "none" ELSE "asked"]
          /\ turns' = Left
  /\ UNCHANGED <<surface, dismissing, mishaps>>

\* A click in the list; the bound counts them.
Clicked ==
  /\ surface = "concierge"
  /\ thread.clicks < MaxClicks

Resumed(sid) == [thread EXCEPT !.key = <<"on", sid>>, !.active = sid]

\* The list asked for on mounting arrives: the newest session is resumed, whatever the user did
\* meanwhile.
ListArrives ==
  /\ thread.listing
  /\ \/ /\ live # <<>>
        /\ thread' = [Resumed(Newest) EXCEPT !.listing = FALSE]
        /\ Remount(<<"on", Newest>>, Newest)
     \/ /\ thread' = [thread EXCEPT !.listing = FALSE]
        /\ UNCHANGED <<surface, session, shown, streaming, history, dismissing, turns, mishaps>>
  /\ UNCHANGED service

resume(sid) ==
  /\ Clicked
  /\ sid \in Range(live)
  /\ thread' = [Resumed(sid) EXCEPT !.clicks = @ + 1]
  /\ Remount(<<"on", sid>>, sid)
  /\ UNCHANGED service

\* startNew waits for the new session and for the list, then switches to it.
StartNew ==
  /\ Clicked
  /\ thread.renewing = None /\ opened < MaxSessions
  /\ Open(opened + 1, TRUE, FALSE)
  /\ thread' = [thread EXCEPT !.renewing = opened + 1, !.clicks = @ + 1]
  /\ UNCHANGED <<surface, session, shown, streaming, history, dismissing, turns, mishaps>>

StartedNew ==
  /\ thread.renewing # None
  /\ LET sid == thread.renewing IN
       /\ thread' = [Resumed(sid) EXCEPT !.renewing = None]
       /\ Remount(<<"on", sid>>, sid)
  /\ UNCHANGED service

\* archive remembers whether the session was the active one when it was clicked.
Archive(sid) ==
  /\ Clicked
  /\ thread.archiving = None
  /\ \E i \in DOMAIN live : live[i] = sid /\ live' = RemoveAt(live, i)
  /\ thread' = [thread EXCEPT !.clicks = @ + 1,
                                !.archiving = [id |-> sid, switch |-> thread.active = sid]]
  /\ UNCHANGED <<surface, session, shown, streaming, history, dismissing, turns, opened, rows, mishaps>>

Archived ==
  /\ thread.archiving # None
  /\ LET done == [thread EXCEPT !.archiving = None] IN
       IF ~thread.archiving.switch
       THEN /\ thread' = done
            /\ UNCHANGED <<surface, session, shown, streaming, history, dismissing, turns, mishaps>>
       ELSE IF live # <<>>
       THEN /\ thread' = [done EXCEPT !.key = <<"on", Newest>>, !.active = Newest]
            /\ Remount(<<"on", Newest>>, Newest)
       ELSE /\ thread' = [done EXCEPT !.key = <<"draft", thread.archiving.id>>, !.active = None]
            /\ Remount(<<"draft", thread.archiving.id>>, None)
  /\ UNCHANGED service

\* The replay of a resumed session replaces what the chat shows.
ServeHistory ==
  /\ history.stage = "asked"
  /\ history' = [stage |-> "served", turns |-> Replayed(rows[session])]
  /\ UNCHANGED <<surface, session, shown, streaming, dismissing, thread, turns, service, mishaps>>

HistoryArrives ==
  /\ history.stage = "served"
  /\ shown' = history.turns
  /\ streaming' = IF streaming = Idle THEN Idle ELSE [streaming EXCEPT !.kept = FALSE]
  /\ history' = NoHistory
  /\ UNCHANGED <<surface, session, dismissing, thread, turns, service, mishaps>>

HistoryFails ==
  /\ history # NoHistory
  /\ history' = NoHistory
  /\ mishaps' = mishaps \cup (IF rows[session] = <<>> THEN {} ELSE {"apart"})
  /\ UNCHANGED <<surface, session, shown, streaming, dismissing, thread, turns, service>>

-----------------------------------------------------------------------------

NoThread == [key |-> <<"draft", None>>, active |-> None, listing |-> FALSE, renewing |-> None,
             archiving |-> None, clicks |-> 0]

\* The chat page and the rail come with the session the service found, and with its turns.
SessionAtLoad == IF surface \in {"shell", "rail"} THEN Newest ELSE None
TurnsAtLoad == IF session = None THEN <<>> ELSE Replayed(rows[session])

Init ==
  /\ surface \in Surfaces
  /\ live \in IF surface = "shell" THEN {<<1>>} ELSE {<<>>, <<1>>}
  /\ opened = Len(live)
  /\ session = SessionAtLoad
  /\ rows \in {[s \in Sessions |-> <<>>], 
                 [s \in Sessions |-> IF s \in Range(live) THEN <<Row("assistant", 0)>> ELSE <<>>]}
  /\ thread = [NoThread EXCEPT !.listing = surface = "concierge"]
  /\ shown = TurnsAtLoad
  /\ streaming = Idle /\ history = NoHistory /\ dismissing = FALSE
  /\ turns = <<>> /\ mishaps = {}

Submit ==
  \/ SendShell \/ SendPrompt \/ SendRail \/ SendConcierge
  \/ Bootstrap \/ SubmitPrompt \/ SubmitRail \/ SubmitDraft

OpenOne(c) == Opened(c) \/ NotOpened(c) \/ OpenedOrphan(c)

Handle(c) ==
  /\ c \in DOMAIN turns
  /\ TakeTurn(c) \/ RefuseBlank(c) \/ Delta(c) \/ Finish(c) \/ GiveUp(c) \/ SaveAnswer(c)

Break(c) == c \in DOMAIN turns /\ (FetchFails(c) \/ Cut(c) \/ EndSilently(c) \/ Cancelled(c))

Browse ==
  \/ ListArrives \/ StartNew \/ StartedNew \/ Archived
  \/ \E sid \in Sessions : resume(sid) \/ Archive(sid)

Replay == ServeHistory \/ HistoryArrives \/ HistoryFails

Next ==
  \/ Submit \/ Dismiss \/ DismissDone \/ DismissFailed \/ Browse \/ Replay
  \/ \E c \in TurnIds : OpenOne(c) \/ Handle(c) \/ Read(c) \/ Break(c)
  \/ \E sid \in Sessions : Elsewhere(sid)

\* Requests are answered, handlers run to their end and streams are read; the user owes nothing.
Fairness ==
  /\ \A c \in TurnIds : WF_vars(OpenOne(c)) /\ WF_vars(Handle(c)) /\ WF_vars(Read(c))
  /\ WF_vars(DismissDone \/ DismissFailed)

Spec == Init /\ [][Next]_vars /\ Fairness

-----------------------------------------------------------------------------
(* Properties.                                                             *)

\* A saved answer stands right behind its own question, whoever else writes to the session.
AnswersFollow ==
  \A s \in Sessions : \A i \in DOMAIN rows[s] :
    (rows[s][i].role # "user" /\ rows[s][i].of # 0) =>
      i > 1 /\ rows[s][i - 1] = Row("user", rows[s][i].of)

\* Nothing is on its way for the chat that is open.
Quiet ==
  /\ Reading = {} /\ Opening = {} /\ history = NoHistory /\ ~dismissing
  /\ \A c \in UnderWay : turns[c].ask = "away"

\* When nothing is on its way the page shows the turns the service keeps, in their order and each
\* with the words of its own answer, failed answers included: also after sessions were left and
\* resumed, and while other pages and chats left before write to other sessions.  Excepted, from
\* then on, are
\*  - a page whose stream was cut, not accepted, or ended without a last frame or by a failed close;
\*  - a message sent before the answer to the last was saved, whose answer is then lost;
\*  - a chat page opened on an empty session, with its blank message;
\*  - a rail or a concierge that could not open a session, and a rail's first message;
\*  - a session with turns taken over by a first message that found it;
\*  - a replay that failed, or that came after the next message was sent;
\*  - a row written to the shown session by another page, or for a chat left before.
TranscriptAgrees ==
  (Quiet /\ mishaps = {} /\ session # None) =>
    /\ Len(shown) = Len(rows[session])
    /\ \A i \in DOMAIN shown : /\ Row(shown[i].role, shown[i].of) = rows[session][i]
                               /\ shown[i].says \subseteq {shown[i].of}

\* Every answer that begins ends, and the composer comes back; unless a stream ended without its
\* last frame or was aborted by a close that then failed.
ComposerReturns ==
  streaming # Idle ~> (streaming = Idle \/ "unended" \in mishaps)

=============================================================================
