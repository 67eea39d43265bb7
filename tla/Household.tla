----------------------------- MODULE Household -----------------------------
(***************************************************************************)
(* What is on file for a client: the travelers of the household, the       *)
(* documents in the vault, the contacts and the facts; and who of the      *)
(* household is on a trip.  Records are edited on two pages, the           *)
(* traveler's and the advisor's.  An edit is a server action: a page sends *)
(* them one after the other, and an accepted one comes back with the page  *)
(* rendered afresh.  A behaviour is about records of one kind.             *)
(***************************************************************************)
EXTENDS Naturals, Sequences, FiniteSets, SequencesExt

CONSTANTS
  MaxRows,    \* bound: the records that are ever created
  MaxClicks   \* bound: the clicks that make a call

Pages == {"traveler", "advisor"}
Panels == {"desk", "laptop"}    \* the advisor's Party tab of one trip, open twice

VARIABLES
  rows,      \* the records: kind, the click that wrote them last, and their flags
  stored,    \* the documents whose bytes are in the bucket
  trip,      \* the members on the trip's party, a member once per row
  shown,     \* per page: the records it was last rendered with
  forms,     \* per page: the open forms, 0 being the one that adds
  queue,     \* per page: its server actions, the first one under way
  uploads,   \* per page: the document whose file is on its way to the bucket, 0 for none
  panel,     \* per Party tab: whom it shows on the trip, whom it offers, whether it waits
  asks,      \* the calls of the Party tabs
  clicks,    \* history: the page of every click
  mishaps    \* history: "both" pages in use, "overlap" of their calls or of a tab's, two "forms" open; a call
             \* that "failed" on its way, an answer "lost", an upload left "partway", a list "unread"

vars == <<rows, stored, trip, shown, forms, queue, uploads, panel, asks, clicks, mishaps>>
browser == <<shown, forms>>
tabs == <<panel, asks>>

-----------------------------------------------------------------------------
(* The records.                                                            *)

Ids == 1..MaxRows
NoRow == [kind |-> "none", text |-> 0, primary |-> FALSE, gone |-> FALSE, uploaded |-> FALSE]
Kind == rows[1].kind
Tiers == {"dossier", "profile", "osint"}    \* the tiers of facts

\* What a list holds: archived, redacted and deleted records are left out.
Listed(table) == {i \in Ids : table[i].kind # "none" /\ ~table[i].gone}
View(table) == {[id |-> i, row |-> table[i]] : i \in Listed(table)}
Primaries(table) == {i \in Listed(table) : table[i].primary}

Free == {i \in Ids : rows[i].kind = "none"}
NextId == CHOOSE i \in Free : \A j \in Free : i <= j

-----------------------------------------------------------------------------
(* The pages.                                                              *)

NoCall == [op |-> "none", id |-> 0, doc |-> 0, text |-> 0, primary |-> FALSE, ticked |-> FALSE,
           stage |-> "sent", loaded |-> NoRow, others |-> {}, seen |-> {}]

Sees(p) == p = "advisor" \/ Kind \in {"member", "document"}
Waits(p, i) == (\E k \in DOMAIN queue[p] : queue[p][k].id = i) \/ (i = 0 /\ uploads[p] # 0)
Open(p, i) == \E f \in forms[p] : f.id = i

\* Bound: one failure in a behaviour.
Smooth == mishaps \cap {"failed", "lost", "partway", "unread"} = {}

\* Bound: two clicks overlap, a later one finds all answered; the pages and the tabs are not used in the
\* same behaviour.
Later == Len(clicks) >= 2 => Smooth /\ uploads = [p \in Pages |-> 0] /\ queue = [p \in Pages |-> <<>>] /\ asks = {}

\* Bound: room for what is being created.
Creating == Cardinality({p \in Pages : \E k \in DOMAIN queue[p] : queue[p][k].op \in {"create", "init"} /\ queue[p][k].stage \notin {"ok", "rendered"}})

Clicks(p, call) ==
  /\ Len(clicks) < MaxClicks /\ ToSet(clicks) \subseteq Pages /\ Later
  /\ call.op \in {"create", "init"} => Cardinality(Free) > Creating
  /\ clicks' = Append(clicks, p)
  /\ queue' = [queue EXCEPT ![p] = Append(@, [call EXCEPT !.text = Len(clicks) + 1])]
  /\ mishaps' = mishaps
       \cup (IF \E k \in DOMAIN clicks : clicks[k] \in Pages \ {p} THEN {"both"} ELSE {})
       \cup (IF \E q \in Pages \ {p} : queue[q] # <<>> THEN {"overlap"} ELSE {})
  /\ UNCHANGED <<rows, stored, trip, shown, uploads, tabs>>

\* Slip: the box of every form starts out empty.
fromMemberBlank(p, i) == [id |-> i, primary |-> FALSE]

\* A form is filled from the record as the page shows it.
fromMember(p, i) == [id |-> i, primary |-> \E v \in shown[p] : v.id = i /\ v.row.primary]

\* Bound: the forms that can still be submitted.
Idle == Cardinality({x \in Pages \X UNION Range(forms) : x[2] \in forms[x[1]] /\ ~Waits(x[1], x[2].id)})

openForm(p, i) ==
  /\ Sees(p) /\ ~Open(p, i) /\ ~Waits(p, i)
  /\ i = 0 \/ \E v \in shown[p] : v.id = i
  /\ Idle + Len(clicks) < MaxClicks /\ ToSet(clicks) \subseteq Pages
  /\ forms' = [forms EXCEPT ![p] = @ \cup {fromMember(p, i)}]
  /\ mishaps' = mishaps \cup (IF forms[p] = {} THEN {} ELSE {"forms"})
  /\ UNCHANGED <<rows, stored, trip, shown, queue, uploads, tabs, clicks>>

\* A submitted form sends every field it has, the box included, ticked over or as it was found, and stays
\* until the answer; a document's first sends what it is.
submit(p, f, ticked) ==
  /\ f \in forms[p] /\ ~Waits(p, f.id)
  /\ ticked => Kind = "member"
  /\ Clicks(p, [NoCall EXCEPT !.op = IF f.id # 0 THEN "update" ELSE IF Kind = "document" THEN "init" ELSE "create",
                  !.id = f.id, !.primary = f.primary # ticked, !.ticked = ticked])
  /\ UNCHANGED forms

onCancel(p, f) ==
  /\ f \in forms[p] /\ ~Waits(p, f.id)
  /\ forms' = [forms EXCEPT ![p] = @ \ {f}]
  /\ UNCHANGED <<rows, stored, trip, shown, queue, uploads, tabs, clicks, mishaps>>

\* Remove, delete or redact, from the row of a record that is not being edited.
onArchive(p, i) ==
  /\ ~Open(p, i) /\ ~Waits(p, i)
  /\ \E v \in shown[p] : v.id = i
  /\ Clicks(p, [NoCall EXCEPT !.op = "remove", !.id = i])
  /\ UNCHANGED forms

-----------------------------------------------------------------------------
(* The service, on the first action of a page.                             *)

Now(p) == queue[p][1]
At(p, op, stage) == queue[p] # <<>> /\ Now(p).op = op /\ Now(p).stage = stage

Stage(p, call) == queue' = [queue EXCEPT ![p][1] = call]
Step(p, call) == Stage(p, call) /\ UNCHANGED <<rows, stored, trip, browser, uploads, tabs, clicks, mishaps>>

Commits(p, table) ==
  /\ rows' = table
  /\ Stage(p, [Now(p) EXCEPT !.stage = "ok", !.loaded = NoRow, !.others = {}])
  /\ UNCHANGED <<stored, trip, browser, uploads, tabs, clicks, mishaps>>

Insert(p) == [rows EXCEPT ![NextId] = [NoRow EXCEPT !.kind = Kind, !.text = Now(p).text, !.primary = Now(p).primary]]

\* The members that hold the primary slot; they lose it with the commit.
_demote_other_primaries(p) ==
  /\ Step(p, [Now(p) EXCEPT !.stage = "demoted", !.others = Primaries(rows) \ {Now(p).id}])

Demoted(p, table) == [i \in Ids |-> IF i \in Now(p).others THEN [table[i] EXCEPT !.primary = FALSE] ELSE table[i]]

\* One active primary per client, kept by a partial unique index: the request that comes second fails.
Commit(p, table) ==
  IF Cardinality(Primaries(table)) <= 1 THEN Commits(p, table)
  ELSE Step(p, [Now(p) EXCEPT !.stage = "conflict"])

create_party_member(p) ==
  /\ Kind = "member" /\ Free # {}
  /\ \/ At(p, "create", "sent") /\ Now(p).primary /\ _demote_other_primaries(p)
     \/ At(p, "create", "sent") /\ ~Now(p).primary /\ Commit(p, Insert(p))
     \/ At(p, "create", "demoted") /\ Commit(p, Demoted(p, Insert(p)))

\* The member is loaded, archived or not, and only what differs from what was loaded is written.
Written(p) ==
  LET id == Now(p).id
      primary == IF Now(p).primary = Now(p).loaded.primary THEN rows[id].primary ELSE Now(p).primary
  IN  [rows EXCEPT ![id] = [@ EXCEPT !.text = Now(p).text, !.primary = primary]]

update_party_member(p) ==
  /\ Kind = "member"
  /\ \/ At(p, "update", "sent") /\ Step(p, [Now(p) EXCEPT !.stage = "loaded", !.loaded = rows[Now(p).id]])
     \/ At(p, "update", "loaded") /\ Now(p).primary /\ _demote_other_primaries(p)
     \/ At(p, "update", "loaded") /\ ~Now(p).primary /\ Commit(p, Written(p))
     \/ At(p, "update", "demoted") /\ Commit(p, Demoted(p, Written(p)))

\* An archived member gives the slot up; archiving again changes nothing.
archive_party_member(p) ==
  /\ Kind = "member" /\ At(p, "remove", "sent")
  /\ Commits(p, IF rows[Now(p).id].gone THEN rows
                ELSE [rows EXCEPT ![Now(p).id].gone = TRUE, ![Now(p).id].primary = FALSE])

\* The row comes first, without its bytes; the page is not rendered for it.
create_document(p) ==
  /\ At(p, "init", "sent") /\ Free # {}
  /\ rows' = Insert(p)
  /\ Stage(p, [Now(p) EXCEPT !.stage = "ok", !.doc = NextId])
  /\ UNCHANGED <<stored, trip, browser, uploads, tabs, clicks, mishaps>>

\* Nothing is asked of the bucket.
mark_uploaded(p) == At(p, "complete", "sent") /\ Commits(p, [rows EXCEPT ![Now(p).doc].uploaded = TRUE])

update_document(p) ==
  Kind = "document" /\ At(p, "update", "sent") /\ Commits(p, [rows EXCEPT ![Now(p).id].text = Now(p).text])

archive_document(p) ==
  Kind = "document" /\ At(p, "remove", "sent") /\ Commits(p, [rows EXCEPT ![Now(p).id].gone = TRUE])

\* A contact is deleted for good.
create_client_contact(p) == Kind = "contact" /\ At(p, "create", "sent") /\ Free # {} /\ Commits(p, Insert(p))

update_client_contact(p) ==
  /\ Kind = "contact" /\ At(p, "update", "sent") /\ ~rows[Now(p).id].gone
  /\ Commits(p, [rows EXCEPT ![Now(p).id].text = Now(p).text])

delete_client_contact(p) ==
  /\ Kind = "contact" /\ At(p, "remove", "sent") /\ ~rows[Now(p).id].gone
  /\ Commits(p, [rows EXCEPT ![Now(p).id].gone = TRUE])

\* A fact is redacted once; it can be edited after that.
create_fact(p) == Kind \in Tiers /\ At(p, "create", "sent") /\ Free # {} /\ Commits(p, Insert(p))
update_fact(p) == Kind \in Tiers /\ At(p, "update", "sent") /\ Commits(p, [rows EXCEPT ![Now(p).id].text = Now(p).text])

redact_fact(p) ==
  /\ Kind \in Tiers /\ At(p, "remove", "sent") /\ ~rows[Now(p).id].gone
  /\ Commits(p, [rows EXCEPT ![Now(p).id].gone = TRUE])

-----------------------------------------------------------------------------
(* The answers.                                                            *)

\* Slip: the page stays as it was.
RenderNothing(p) == Step(p, [Now(p) EXCEPT !.stage = "rendered", !.seen = shown[p]])

\* The page is rendered in the answer of an accepted action; a list that cannot be read is empty.
Rerender(p) ==
  \/ Step(p, [Now(p) EXCEPT !.stage = "rendered", !.seen = View(rows)])
  \/ /\ Smooth
     /\ Stage(p, [Now(p) EXCEPT !.stage = "rendered"])
     /\ mishaps' = mishaps \cup {"unread"}
     /\ UNCHANGED <<rows, stored, trip, browser, uploads, tabs, clicks>>

revalidatePath(p) == queue[p] # <<>> /\ Now(p).stage = "ok" /\ Now(p).op # "init" /\ Rerender(p)

\* The form that was submitted closes or starts anew, and the forms of records that are gone go too.
Rendered(p) ==
  /\ queue[p] # <<>> /\ Now(p).stage = "rendered"
  /\ shown' = [shown EXCEPT ![p] = Now(p).seen]
  /\ forms' = [forms EXCEPT ![p] =
       {f \in @ : f.id # Now(p).id /\ (f.id = 0 \/ \E v \in Now(p).seen : v.id = f.id)}]
  /\ queue' = [queue EXCEPT ![p] = Tail(@)]
  /\ UNCHANGED <<rows, stored, trip, uploads, tabs, clicks, mishaps>>

\* What the service refuses: a contact that is deleted, a fact that is redacted already.
Refuses(call) ==
  /\ call.stage = "sent" /\ call.id # 0 /\ rows[call.id].gone
  /\ Kind = "contact" \/ (Kind \in Tiers /\ call.op = "remove")

Answered(p) ==
  /\ queue' = [queue EXCEPT ![p] = Tail(@)]
  /\ UNCHANGED <<rows, stored, trip, browser, uploads, tabs, clicks>>

\* A refused action leaves page and form, and so does one that fails on its way or whose answer is lost.
Refused(p) == queue[p] # <<>> /\ (Now(p).stage = "conflict" \/ Refuses(Now(p))) /\ Answered(p) /\ UNCHANGED mishaps

NetworkError(p) ==
  /\ queue[p] # <<>> /\ Smooth
  /\ \/ Now(p).stage = "sent" /\ mishaps' = mishaps \cup {IF Now(p).op = "complete" THEN "partway" ELSE "failed"}
     \/ Now(p).stage = "ok" /\ mishaps' = mishaps \cup {"lost"}
  /\ Answered(p)

\* The document is on file: the browser sends its bytes to the bucket itself.
put(p) ==
  /\ At(p, "init", "ok")
  /\ uploads' = [uploads EXCEPT ![p] = Now(p).doc]
  /\ queue' = [queue EXCEPT ![p] = Tail(@)]
  /\ UNCHANGED <<rows, stored, trip, browser, tabs, clicks, mishaps>>

\* The upload is over, and it is confirmed or its error is shown.
Uploaded(p, bytes, confirm) ==
  /\ uploads[p] # 0
  /\ stored' = IF bytes THEN stored \cup {uploads[p]} ELSE stored
  /\ uploads' = [uploads EXCEPT ![p] = 0]
  /\ queue' = IF confirm
              THEN [queue EXCEPT ![p] = Append(@, [NoCall EXCEPT !.op = "complete", !.doc = uploads[p]])]
              ELSE queue
  /\ mishaps' = mishaps \cup (IF bytes THEN {} ELSE {"partway"})
                        \cup (IF confirm /\ \E q \in Pages \ {p} : queue[q] # <<>> THEN {"overlap"} ELSE {})
  /\ UNCHANGED <<rows, trip, browser, tabs, clicks>>

\* Slip: the bucket's answer is not looked at.
PutUnchecked(p) == Uploaded(p, TRUE, TRUE) \/ (Smooth /\ Uploaded(p, FALSE, TRUE))

PutAnswered(p) == Uploaded(p, TRUE, TRUE) \/ (Smooth /\ Uploaded(p, FALSE, FALSE))

-----------------------------------------------------------------------------
(* Who is on the trip.                                                     *)

\* Bound: the tabs' clicks are counted with the pages'.
Ask(t, call) ==
  /\ asks' = asks \cup {call}
  /\ mishaps' = mishaps \cup (IF asks = {} THEN {} ELSE {"overlap"})
  /\ UNCHANGED <<rows, stored, trip, browser, queue, uploads>>

NoAsk == [tab |-> "desk", op |-> "refresh", member |-> 0, stage |-> "sent", trip |-> <<>>, roster |-> {}]

\* The two lists are read when the tab opens, and again with a new access token.
refresh(t) ==
  /\ Kind = "member" /\ Len(clicks) < MaxClicks /\ ToSet(clicks) \subseteq Panels /\ Later
  /\ ~\E a \in asks : a.tab = t /\ a.op = "refresh"
  /\ clicks' = Append(clicks, t)
  /\ UNCHANGED panel
  /\ Ask(t, [NoAsk EXCEPT !.tab = t])

Change(t, op, m) ==
  /\ ~panel[t].pending /\ Len(clicks) < MaxClicks /\ ToSet(clicks) \subseteq Panels /\ Later
  /\ clicks' = Append(clicks, t)
  /\ panel' = [panel EXCEPT ![t].pending = TRUE]
  /\ Ask(t, [NoAsk EXCEPT !.tab = t, !.op = op, !.member = m])

attach(t, m) == m \in panel[t].roster \ ToSet(panel[t].onTrip) /\ Change(t, "attach", m)
detach(t, m) == m \in ToSet(panel[t].onTrip) /\ Change(t, "detach", m)

Answers(a, list) ==
  /\ trip' = list
  /\ asks' = (asks \ {a}) \cup {[a EXCEPT !.stage = "ok", !.trip = list]}
  /\ UNCHANGED <<rows, stored, browser, queue, uploads, panel, clicks, mishaps>>

\* Looks for the member on the trip, and puts it there if it was not found; nothing in the database
\* keeps it from being there twice.
attach_member_to_itinerary(a) ==
  \/ /\ a.op = "attach" /\ a.stage = "sent" /\ a.member \in ToSet(trip)
     /\ Answers(a, trip)
  \/ /\ a.op = "attach" /\ a.stage = "sent" /\ a.member \notin ToSet(trip)
     /\ asks' = (asks \ {a}) \cup {[a EXCEPT !.stage = "absent"]}
     /\ UNCHANGED <<rows, stored, trip, browser, queue, uploads, panel, clicks, mishaps>>
  \/ a.op = "attach" /\ a.stage = "absent" /\ Answers(a, Append(trip, a.member))

\* Every row of the member goes.
detach_member_from_itinerary(a) ==
  /\ a.op = "detach" /\ a.stage = "sent"
  /\ Answers(a, SelectSeq(trip, LAMBDA m : m # a.member))

list_itinerary_party(a) ==
  /\ a.op = "refresh" /\ a.stage = "sent"
  /\ asks' = (asks \ {a}) \cup {[a EXCEPT !.stage = "ok", !.trip = trip, !.roster = Listed(rows)]}
  /\ UNCHANGED <<rows, stored, trip, browser, queue, uploads, panel, clicks, mishaps>>

\* The list of the answer is shown; a call that fails only gives the buttons back.
Adopt(a) ==
  /\ a.stage = "ok"
  /\ panel' = [panel EXCEPT ![a.tab].onTrip = a.trip,
                            ![a.tab].roster = IF a.op = "refresh" THEN a.roster ELSE @,
                            ![a.tab].pending = @ /\ a.op = "refresh"]
  /\ asks' = asks \ {a}
  /\ UNCHANGED <<rows, stored, trip, browser, queue, uploads, clicks, mishaps>>

LoseAsk(a) ==
  /\ Smooth
  /\ panel' = [panel EXCEPT ![a.tab].pending = @ /\ a.op = "refresh"]
  /\ asks' = asks \ {a}
  /\ mishaps' = mishaps \cup {IF a.stage = "ok" THEN "lost" ELSE "failed"}
  /\ UNCHANGED <<rows, stored, trip, browser, queue, uploads, clicks>>

-----------------------------------------------------------------------------

(* The surfaces: what each offers, and what its actions and calls come to. *)

Row(p) == \E i \in Ids : openForm(p, i) \/ onArchive(p, i)
Forms(p, ids, ticks) == \E f \in forms[p] : f.id \in ids /\ (onCancel(p, f) \/ \E ticked \in ticks : submit(p, f, ticked))
Adds(p) == openForm(p, 0) \/ Forms(p, {0}, {FALSE})
Edits(p) == Row(p) \/ Forms(p, Ids, {FALSE})

\* The household: the traveler's page and the advisor's section, with one form.
PartyManager(p) == p = "traveler" /\ Kind = "member" /\ openForm(p, 0)
MemberRow(p) == p = "traveler" /\ Kind = "member" /\ Row(p)
ClientPartySection(p) == p = "advisor" /\ Kind = "member" /\ (openForm(p, 0) \/ Row(p))
PartyMemberForm(p) == Kind = "member" /\ Forms(p, Ids \cup {0}, BOOLEAN)
PartyActions(p) == p = "traveler" /\ Kind = "member" /\ (revalidatePath(p) \/ Refused(p))
MyPartyCalls(p) == p = "traveler" /\ Kind = "member" /\ NetworkError(p)
ClientPartyActions(p) == p = "advisor" /\ Kind = "member" /\ (revalidatePath(p) \/ Refused(p))
ClientPartyCalls(p) == p = "advisor" /\ Kind = "member" /\ NetworkError(p)

\* The vault, on both pages.
DocumentUploadForm(p) == Kind = "document" /\ (Adds(p) \/ put(p) \/ PutAnswered(p))
DocumentRow(p) == Kind = "document" /\ Row(p)
DocumentMetaForm(p) == Kind = "document" /\ Forms(p, Ids, {FALSE})
VaultActions(p) == p = "traveler" /\ Kind = "document" /\ revalidatePath(p)
MyDocumentCalls(p) == p = "traveler" /\ Kind = "document" /\ NetworkError(p)
ClientDocumentActions(p) == p = "advisor" /\ Kind = "document" /\ revalidatePath(p)
ClientDocumentCalls(p) == p = "advisor" /\ Kind = "document" /\ NetworkError(p)

\* Contacts and facts, which only the advisor sees.
AddContactForm(p) == Kind = "contact" /\ Adds(p)
ContactRow(p) == Kind = "contact" /\ Edits(p)
ClientContactActions(p) == Kind = "contact" /\ (revalidatePath(p) \/ Refused(p))
ClientContactCalls(p) == Kind = "contact" /\ NetworkError(p)

AddDossierFactForm(p) == Kind = "dossier" /\ Adds(p)
AddProfileFactForm(p) == Kind = "profile" /\ Adds(p)
AddOsintFactForm(p) == Kind = "osint" /\ Adds(p)
FactRow(p) == Kind \in Tiers /\ Edits(p)
ClientFactActions(p) == Kind \in Tiers /\ (revalidatePath(p) \/ Refused(p))
DossierFactCalls(p) == Kind = "dossier" /\ NetworkError(p)
ProfileFactCalls(p) == Kind = "profile" /\ NetworkError(p)
OsintFactCalls(p) == Kind = "osint" /\ NetworkError(p)

Click(p) ==
  \/ PartyManager(p) \/ MemberRow(p) \/ ClientPartySection(p) \/ PartyMemberForm(p)
  \/ DocumentUploadForm(p) \/ DocumentRow(p) \/ DocumentMetaForm(p)
  \/ AddContactForm(p) \/ ContactRow(p)
  \/ AddDossierFactForm(p) \/ AddProfileFactForm(p) \/ AddOsintFactForm(p) \/ FactRow(p)

Serve(p) ==
  \/ create_party_member(p) \/ update_party_member(p) \/ archive_party_member(p)
  \/ create_document(p) \/ mark_uploaded(p) \/ update_document(p) \/ archive_document(p)
  \/ create_client_contact(p) \/ update_client_contact(p) \/ delete_client_contact(p)
  \/ create_fact(p) \/ update_fact(p) \/ redact_fact(p)

Answer(p) ==
  \/ Rendered(p)
  \/ PartyActions(p) \/ ClientPartyActions(p) \/ VaultActions(p) \/ ClientDocumentActions(p)
  \/ ClientContactActions(p) \/ ClientFactActions(p)
  \/ MyPartyCalls(p) \/ ClientPartyCalls(p) \/ MyDocumentCalls(p) \/ ClientDocumentCalls(p)
  \/ ClientContactCalls(p) \/ DossierFactCalls(p) \/ ProfileFactCalls(p) \/ OsintFactCalls(p)

PartyPanel(t) == refresh(t) \/ \E m \in Ids : attach(t, m) \/ detach(t, m)

Trip(a) ==
  \/ attach_member_to_itinerary(a) \/ detach_member_from_itinerary(a) \/ list_itinerary_party(a)
  \/ Adopt(a) \/ LoseAsk(a)

\* A record of one kind, or two members of whom one may be primary.
Init ==
  /\ \E kind \in {"member", "document", "contact"} \cup Tiers, primary \in BOOLEAN :
       /\ primary => kind = "member"
       /\ rows = [i \in Ids |-> IF i = 1 \/ (i = 2 /\ kind = "member")
                                THEN [NoRow EXCEPT !.kind = kind, !.primary = primary /\ i = 1, !.uploaded = kind = "document"]
                                ELSE NoRow]
  /\ stored = IF Kind = "document" THEN Listed(rows) ELSE {}
  /\ trip = <<>>
  /\ shown = [p \in Pages |-> IF Sees(p) THEN View(rows) ELSE {}]
  /\ forms = [p \in Pages |-> {}]
  /\ queue = [p \in Pages |-> <<>>]
  /\ uploads = [p \in Pages |-> 0]
  /\ panel = [t \in Panels |-> [onTrip |-> <<>>, roster |-> IF Kind = "member" THEN Listed(rows) ELSE {}, pending |-> FALSE]]
  /\ asks = {} /\ clicks = <<>> /\ mishaps = {}

Next ==
  \/ \E p \in Pages : Click(p) \/ Serve(p) \/ Answer(p)
  \/ \E t \in Panels : PartyPanel(t)
  \/ \E a \in asks : Trip(a)

Spec == Init /\ [][Next]_vars

-----------------------------------------------------------------------------
(* Properties.                                                             *)

\* Who is primary only moves on purpose: on a page that is used alone, one form at a time, the primary
\* changes with a form whose box was ticked or unticked, or with its holder's removal, and never because
\* a form carries a box that is out of date.
PrimaryMovesOnPurpose ==
  [][mishaps = {} /\ Primaries(rows') # Primaries(rows) =>
       \E p \in Pages : queue[p] # <<>> /\ (Now(p).ticked \/ Now(p).op = "remove")]_vars

\* A document that is marked as uploaded has its bytes in the bucket, although the service is only told so.
UploadedHasBytes == \A i \in Ids : rows[i].uploaded => i \in stored

\* A page that is used alone shows what is on file once its actions are answered, and so does a Party tab,
\* although calls are refused or fail on their way.  Not so once an answer was lost, an upload stopped half
\* way, a list could not be read, which shows as an empty one, or a tab had two calls of its own under way.
QuietHouseholdAgrees ==
  mishaps \subseteq {"forms", "failed"} =>
    /\ \A p \in Pages : ToSet(clicks) = {p} /\ queue[p] = <<>> /\ uploads[p] = 0 => shown[p] = View(rows)
    /\ \A t \in Panels : ToSet(clicks) = {t} /\ asks = {} => panel[t].onTrip = trip

=============================================================================
