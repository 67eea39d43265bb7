------------------------------ MODULE Clients ------------------------------
(***************************************************************************)
(* How a client comes in: an advisor's new-client form writes the row and  *)
(* has the invitation sent, or writes it silently and invites later from   *)
(* the roster; the client signs in and lands in a home.  A row and its     *)
(* invitation are two systems' doing, and emails are unique per advisor    *)
(* only.  A sign-in looks for the client that is linked to the account,    *)
(* then for one of its email, then links it: other requests come between.  *)
(* The auth service is external: an account per email, confirmed by its    *)
(* first sign-in.                                                          *)
(***************************************************************************)
EXTENDS Naturals, FiniteSets

CONSTANTS
  Advisors,     \* who has clients
  Emails,       \* the clients' addresses
  Devices,      \* where a client may sign in
  MaxRequests   \* bound: the creations and invitations asked for

VARIABLES
  clients,   \* the clients there are, each an advisor's and with an email
  invited,   \* those with invited_at set
  linked,    \* those with auth_user_id set: to the account of their email
  account,   \* per email: "none", "invited" or "confirmed" with the auth service
  emailed,   \* history: the clients an invitation was sent for
  visits,    \* per device: the sign-in under way, and what it has found
  homes,     \* history: per email, the clients its sign-ins landed in
  crossed,   \* history: the emails linked to a client while a sign-in looked for another
  roster,    \* per advisor: the clients the page lists, each with the access status it shows
  requests,  \* what the pages have asked for and not heard of yet
  made       \* history: how many requests were made

rows == <<clients, invited, linked>>
auth == <<account, emailed>>
signIns == <<visits, homes, crossed>>
vars == <<rows, auth, signIns, roster, requests, made>>

Clients == Advisors \X Emails
Owned(a) == {c \in clients : c[1] = a}
Of(e) == {c \in clients : c[2] = e}

_access_status(c) ==
  CASE c \in linked -> "active"
    [] c \in invited \ linked -> "pending"
    [] OTHER -> "uninvited"

-----------------------------------------------------------------------------
(* The advisor's pages.                                                    *)

listClients(a) == {<<c, _access_status(c)>> : c \in Owned(a)}

\* The command center or the list of clients is opened; a read that fails leaves an empty roster.
ClientsPage(a, answered) ==
  /\ roster' = [roster EXCEPT ![a] = IF answered THEN listClients(a) ELSE {}]
  /\ UNCHANGED <<rows, auth, signIns, requests, made>>

Ask(a, e, op, notify) ==
  /\ made < MaxRequests
  /\ made' = made + 1
  /\ requests' = requests \cup {[id |-> made, client |-> <<a, e>>, op |-> op, notify |-> notify, stage |-> "sent"]}
  /\ UNCHANGED <<rows, auth, signIns, roster>>

\* The form is sent from any of the advisor's pages; a second one may have it open too.
DossierForm(a, e, notify) == Ask(a, e, "create", notify)

\* A row of the roster, with its pill.
ClientsTable(a, e, pill) == <<<<a, e>>, pill>> \in roster[a]

\* The roster offers an invitation, or a nudge, to whoever it does not show as active, one at a time.
InviteActions(a, e) ==
  /\ \E pill \in {"uninvited", "pending"} : ClientsTable(a, e, pill)
  /\ ~\E r \in requests : r.client = <<a, e>> /\ r.op = "resend"
  /\ Ask(a, e, "resend", TRUE)

\* The answer: a success renders the roster anew, a refusal leaves the page as it was.
Answers(r, ok) ==
  /\ requests' = requests \ {r}
  /\ roster' = IF ok THEN [roster EXCEPT ![r.client[1]] = listClients(r.client[1])'] ELSE roster

\* The service stops, or the answer is lost, wherever the request has got to.
Lost(r) == requests' = requests \ {r} /\ UNCHANGED <<rows, auth, signIns, roster, made>>

-----------------------------------------------------------------------------
(* The service.                                                            *)

Moves(r, stage) == requests' = (requests \ {r}) \cup {[r EXCEPT !.stage = stage]} /\ UNCHANGED roster

\* The row is flushed against the unique index, behind a flush of the same row that is not committed yet.
\* Without an invitation to send it is committed.
create_client_with_dossier(r) ==
  /\ r.op = "create" /\ r.stage = "sent"
  /\ ~\E q \in requests \ {r} : q.client = r.client /\ q.op = "create" /\ q.stage # "sent"
  /\ IF r.client \in clients THEN Answers(r, FALSE) /\ UNCHANGED rows
     ELSE IF r.notify THEN Moves(r, "loaded") /\ UNCHANGED rows
     ELSE /\ clients' = clients \cup {r.client}
          /\ UNCHANGED <<invited, linked>>
          /\ Answers(r, TRUE)
  /\ UNCHANGED <<auth, signIns, made>>

\* Slip: the first invitation's date is written before the invitation is asked for.
resendStamped(r) ==
  /\ r.op = "resend" /\ r.stage = "sent"
  /\ IF r.client \in clients \ linked
     THEN invited' = invited \cup {r.client} /\ Moves(r, "loaded") ELSE Answers(r, FALSE) /\ UNCHANGED invited
  /\ UNCHANGED <<clients, linked, auth, signIns, made>>

\* A client of the advisor's who has not accepted is loaded.
resend_welcome_email(r) ==
  /\ r.op = "resend" /\ r.stage = "sent"
  /\ IF r.client \in clients \ linked THEN Moves(r, "loaded") ELSE Answers(r, FALSE)
  /\ UNCHANGED <<rows, auth, signIns, made>>

\* The auth service makes the account, unless it has one, and sends the email; it refuses a confirmed
\* account.  A refusal, or an answer that does not come, rolls the creation back.
Invites(r) ==
  /\ account[r.client[2]] # "confirmed"
  /\ account' = [account EXCEPT ![r.client[2]] = "invited"]
  /\ emailed' = emailed \cup {r.client}

generate_invite_link(r) ==
  /\ r.stage = "loaded"
  /\ \/ Invites(r) /\ Moves(r, "issued")
     \/ Invites(r) /\ Answers(r, FALSE)
     \/ UNCHANGED auth /\ Answers(r, FALSE)
  /\ UNCHANGED <<rows, signIns, made>>

\* The row and its invited_at are committed together; an invitation sent again keeps the first date.
Stamps(r) ==
  /\ r.stage = "issued"
  /\ clients' = clients \cup {r.client}
  /\ invited' = invited \cup {r.client}
  /\ UNCHANGED linked
  /\ Answers(r, TRUE)
  /\ UNCHANGED <<auth, signIns, made>>

-----------------------------------------------------------------------------
(* The client.                                                             *)

\* A link from the invitation, or one asked for with the email, confirms the account.
SignsIn(e) ==
  /\ account[e] = "invited"
  /\ account' = [account EXCEPT ![e] = "confirmed"]
  /\ UNCHANGED <<rows, emailed, signIns, roster, requests, made>>

Links(e) == linked \cap Of(e)
Matches(e) == Of(e) \ linked

Looking(d, e) == visits[d] # <<>> /\ visits[d][2] = e

\* The account is linked to a client, while a sign-in that saw it linked to none has not chosen that client.
LinkTo(e, c) ==
  /\ linked' = linked \cup {c}
  /\ crossed' = crossed \cup (IF \E d \in Devices : Looking(d, e) /\ visits[d] # <<"found", e, c>>
                            THEN {e} ELSE {})

\* The sign-in lands in a client's home.
Lands(e, c) == homes' = [homes EXCEPT ![e] = @ \cup {c}]

\* The client that is linked to the account: two are an error, and the page finds nothing.
resolve_client_for_auth_user(d, e) ==
  /\ account[e] = "confirmed" /\ visits[d] = <<>>
  /\ \/ Links(e) = {} /\ visits' = [visits EXCEPT ![d] = <<"unlinked", e>>] /\ UNCHANGED homes
     \/ \E c \in Clients : Links(e) = {c} /\ Lands(e, c) /\ UNCHANGED visits
  /\ UNCHANGED <<rows, auth, crossed, roster, requests, made>>

\* The client of the email that is linked to no account: none or two end the sign-in as well.
ByEmail(d, e) ==
  /\ visits[d] = <<"unlinked", e>>
  /\ \/ \E c \in Clients : Matches(e) = {c} /\ visits' = [visits EXCEPT ![d] = <<"found", e, c>>]
     \/ (\A c \in Clients : Matches(e) # {c}) /\ visits' = [visits EXCEPT ![d] = <<>>]
  /\ UNCHANGED <<rows, auth, homes, crossed, roster, requests, made>>

\* The link is written unless there is one by now, and the sign-in lands where it looked either way.
Linked(d, e, c) ==
  /\ visits[d] = <<"found", e, c>>
  /\ LinkTo(e, c)
  /\ Lands(e, c)
  /\ visits' = [visits EXCEPT ![d] = <<>>]
  /\ UNCHANGED <<clients, invited, auth, roster, requests, made>>

\* It fails, or nobody waits for it any more.
GivesUp(d) ==
  /\ visits[d] # <<>>
  /\ visits' = [visits EXCEPT ![d] = <<>>]
  /\ UNCHANGED <<rows, auth, homes, crossed, roster, requests, made>>

\* The chat page of a client, opened at its address, links the client to the account as well.
_jit_backfill_client_auth_user_id(e, c) ==
  /\ account[e] = "confirmed"
  /\ c \in Matches(e) /\ LinkTo(e, c)
  /\ UNCHANGED <<clients, invited, auth, visits, homes, roster, requests, made>>

-----------------------------------------------------------------------------

Init ==
  /\ clients = {} /\ invited = {} /\ linked = {}
  /\ account = [e \in Emails |-> "none"] /\ emailed = {}
  /\ visits = [d \in Devices |-> <<>>]
  /\ homes = [e \in Emails |-> {}] /\ crossed = {}
  /\ roster = [a \in Advisors |-> {}]
  /\ requests = {} /\ made = 0

Next ==
  \/ \E a \in Advisors, answered \in BOOLEAN : ClientsPage(a, answered)
  \/ \E a \in Advisors, e \in Emails : InviteActions(a, e) \/ \E notify \in BOOLEAN : DossierForm(a, e, notify)
  \/ \E r \in requests :
       create_client_with_dossier(r) \/ resend_welcome_email(r) \/ generate_invite_link(r) \/ Stamps(r) \/ Lost(r)
  \/ \E e \in Emails : SignsIn(e) \/ \E c \in Clients : _jit_backfill_client_auth_user_id(e, c)
  \/ \E d \in Devices :
       \/ GivesUp(d)
       \/ \E e \in Emails : \/ resolve_client_for_auth_user(d, e) \/ ByEmail(d, e)
                           \/ \E c \in Clients : Linked(d, e, c)

Spec == Init /\ [][Next]_vars

-----------------------------------------------------------------------------
(* Properties.                                                             *)

\* A client who reads as pending was sent an invitation, whatever was rolled back or lost; and the sign-ins
\* of an account land in one client's home for ever, although two advisors may each have a client with its
\* email and either may be linked to it: unless the account was linked to a client while another sign-in,
\* which had seen no link, was on its way to another.
InvitesLandOnce ==
  /\ \A c \in clients : _access_status(c) = "pending" => c \in emailed
  /\ \A e \in Emails \ crossed : \A c, d \in homes[e] : c = d

=============================================================================
