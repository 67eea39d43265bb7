---------------------------- MODULE PagesProofs ----------------------------
(***************************************************************************)
(* The pages, for any number of people, records and clicks at them.        *)
(* Clients, intake and glances first: a waiting client has been invited,   *)
(* a trip's dates follow its kind of timing, no glance goes back.  Then    *)
(* the household: a document on file has its bytes, the primary member     *)
(* moves on purpose, and a page used alone shows what is on file.  Last,   *)
(* the board: no card is lost on it, none is drawn over the next of its    *)
(* lane, and the ghost of a held card keeps still.                         *)
(***************************************************************************)
EXTENDS MCPages, FiniteSetTheorems, WellFoundedInduction, TLAPS

\* A request is a record with these fields.
RequestShape ==
    \A r \in requests : r = [id |-> r.id, client |-> r.client, op |-> r.op, notify |-> r.notify,
                             stage |-> r.stage]

\* A request past the auth service has had its invitation sent.
IssuedEmailed == \A r \in requests : r.stage = "issued" => r.client \in emailed

\* A first date is only written with an invitation sent.
InvitedEmailed == invited \subseteq emailed

\* Where an account landed is linked to it, so that it is found by its link from then on.
HomesLinked == \A e \in Emails : homes[e] \subseteq R!Links(e)

LinkedAreClients == linked \subseteq clients

\* A sign-in on its way links a client of its email, and the account is linked to no other: unless it was crossed.
FoundOfEmail ==
    \A e \in Emails, d \in Devices : \A c \in R!Clients : visits[d] = <<"found", e, c>> => c \in R!Of(e)

UnlinkedAlone ==
    \A e \in Emails \ crossed, d \in Devices : visits[d] = <<"unlinked", e>> => R!Links(e) = {}

FoundAlone ==
    \A e \in Emails \ crossed, d \in Devices : \A c \in R!Clients :
        visits[d] = <<"found", e, c>> => R!Links(e) \subseteq {c}

OneHome == \A e \in Emails \ crossed : \A c, d \in homes[e] : c = d

InviteInv == RequestShape /\ IssuedEmailed /\ InvitedEmailed

HomeInv ==
    /\ homes = [e \in Emails |-> homes[e]] /\ visits = [d \in Devices |-> visits[d]]
    /\ HomesLinked /\ LinkedAreClients /\ FoundOfEmail /\ UnlinkedAlone /\ FoundAlone /\ OneHome

-----------------------------------------------------------------------------
LEMMA InitInv == R!Init => InviteInv /\ HomeInv
<1>1. R!Init => InviteInv
    BY DEF R!Init, InviteInv, RequestShape, IssuedEmailed, InvitedEmailed
<1>2. R!Init => HomeInv
    BY DEF R!Init, HomeInv, HomesLinked, LinkedAreClients, FoundOfEmail, UnlinkedAlone, FoundAlone, OneHome
<1>3. QED
    BY <1>1, <1>2

\* Only the stage of a request changes on its way.
LEMMA MovedRequest ==
    ASSUME RequestShape, NEW r \in requests, NEW stage
    PROVE  [r EXCEPT !.stage = stage] =
               [id |-> r.id, client |-> r.client, op |-> r.op, notify |-> r.notify, stage |-> stage]
BY DEF RequestShape

\* What a request of a page or of the service does to invitations.
LEMMA StepKeepsInviteInv == InviteInv /\ [R!Next]_rosters => InviteInv'
<1> SUFFICES ASSUME InviteInv, [R!Next]_rosters PROVE InviteInv'
    OBVIOUS
<1> USE DEF InviteInv, RequestShape, IssuedEmailed, InvitedEmailed
<1>1. CASE UNCHANGED rosters
    BY <1>1 DEF rosters
<1>2. ASSUME NEW a \in Desks, NEW answered \in BOOLEAN, R!ClientsPage(a, answered) PROVE InviteInv'
    BY <1>2 DEF R!ClientsPage, R!rows, R!auth
<1>3. ASSUME NEW a \in Desks, NEW e \in Emails,
             R!InviteActions(a, e) \/ \E notify \in BOOLEAN : R!DossierForm(a, e, notify)
      PROVE  InviteInv'
    BY <1>3 DEF R!InviteActions, R!DossierForm, R!Ask, R!rows, R!auth
<1>4. ASSUME NEW r \in requests, R!create_client_with_dossier(r) PROVE InviteInv'
    BY <1>4, MovedRequest DEF R!create_client_with_dossier, R!Answers, R!Moves, R!rows, R!auth
<1>5. ASSUME NEW r \in requests, R!resend_welcome_email(r) PROVE InviteInv'
    BY <1>5, MovedRequest DEF R!resend_welcome_email, R!Answers, R!Moves, R!rows, R!auth
<1>6. ASSUME NEW r \in requests, R!generate_invite_link(r) PROVE InviteInv'
    BY <1>6, MovedRequest DEF R!generate_invite_link, R!Invites, R!Answers, R!Moves, R!rows, R!auth
<1>7. ASSUME NEW r \in requests, R!Stamps(r) PROVE InviteInv'
    BY <1>7 DEF R!Stamps, R!Answers, R!auth
<1>8. ASSUME NEW r \in requests, R!Lost(r) PROVE InviteInv'
    BY <1>8 DEF R!Lost, R!rows, R!auth
<1>9. ASSUME NEW e \in Emails, R!SignsIn(e) \/ \E c \in R!Clients : R!_jit_backfill_client_auth_user_id(e, c)
      PROVE  InviteInv'
    BY <1>9 DEF R!SignsIn, R!_jit_backfill_client_auth_user_id, R!rows, R!auth
<1>10. ASSUME NEW d \in Devices, NEW e \in Emails,
              \/ R!GivesUp(d) \/ R!resolve_client_for_auth_user(d, e) \/ R!ByEmail(d, e)
              \/ \E c \in R!Clients : R!Linked(d, e, c)
       PROVE  InviteInv'
    BY <1>10 DEF R!GivesUp, R!resolve_client_for_auth_user, R!ByEmail, R!Linked, R!rows, R!auth
<1>11. ASSUME NEW d \in Devices, R!GivesUp(d) PROVE InviteInv'
    BY <1>11 DEF R!GivesUp, R!rows, R!auth
<1>12. QED
    BY <1>1, <1>2, <1>3, <1>4, <1>5, <1>6, <1>7, <1>8, <1>9, <1>10, <1>11 DEF R!Next

\* No sign-in on its way looks like none.
LEMMA VisitsDiffer ==
    ASSUME NEW x, NEW y, NEW z
    PROVE  <<>> # <<x, y>> /\ <<>> # <<x, y, z>>
OBVIOUS

\* A sign-in finds the account's link: it lands where every other has.
LEMMA ResolveKeepsHomeInv ==
    ASSUME HomeInv, NEW d \in Devices, NEW e \in Emails, R!resolve_client_for_auth_user(d, e)
    PROVE  HomeInv'
<1>1. UNCHANGED <<clients, linked, crossed>>
    BY DEF R!resolve_client_for_auth_user, R!rows
<1>2. CASE R!Links(e) = {} /\ visits' = [visits EXCEPT ![d] = <<"unlinked", e>>] /\ UNCHANGED homes
    <2>1. \A x \in Devices : visits'[x] = visits[x] \/ visits'[x] = <<"unlinked", e>>
        BY <1>2 DEF HomeInv
    <2>2. \A f \in Emails, x \in Devices : \A c \in R!Clients :
              visits'[x] = <<"found", f, c>> => visits[x] = <<"found", f, c>>
        BY <2>1
    <2>3. \A f \in Emails, x \in Devices :
              visits'[x] = <<"unlinked", f>> => visits[x] = <<"unlinked", f>> \/ f = e
        BY <2>1
    <2>4. QED
        BY <1>1, <1>2, <2>2, <2>3
           DEF HomeInv, HomesLinked, LinkedAreClients, FoundOfEmail, UnlinkedAlone, FoundAlone, OneHome, R!Links, R!Of
<1>3. ASSUME NEW c \in R!Clients, R!Links(e) = {c}, homes' = [homes EXCEPT ![e] = @ \cup {c}], UNCHANGED visits
      PROVE  HomeInv'
    <2>1. homes'[e] = {c} /\ \A f \in Emails \ {e} : homes'[f] = homes[f]
        BY <1>3 DEF HomeInv, HomesLinked
    <2>2. HomesLinked' /\ OneHome'
        BY <1>1, <1>3, <2>1 DEF HomeInv, HomesLinked, OneHome, R!Links, R!Of
    <2>3. \A f \in Emails : R!Links(f)' = R!Links(f) /\ R!Of(f)' = R!Of(f)
        BY <1>1 DEF R!Links, R!Of
    <2>4. LinkedAreClients' /\ FoundOfEmail' /\ UnlinkedAlone' /\ FoundAlone'
        BY <1>1, <1>3, <2>3 DEF HomeInv, LinkedAreClients, FoundOfEmail, UnlinkedAlone, FoundAlone
    <2>5. homes' = [f \in Emails |-> homes'[f]] /\ visits' = [x \in Devices |-> visits'[x]]
        BY <1>3 DEF HomeInv
    <2>6. QED
        BY <2>2, <2>4, <2>5 DEF HomeInv
<1>4. QED
    BY <1>2, <1>3 DEF R!resolve_client_for_auth_user, R!Lands

\* What it looked for by the email is its own, and the account is still linked to nobody.
LEMMA ByEmailKeepsHomeInv ==
    ASSUME HomeInv, NEW d \in Devices, NEW e \in Emails, R!ByEmail(d, e)
    PROVE  HomeInv'
<1>1. UNCHANGED <<clients, linked, crossed, homes>> /\ visits[d] = <<"unlinked", e>>
    BY DEF R!ByEmail, R!rows
<1>2. PICK now : /\ visits' = [visits EXCEPT ![d] = now]
                 /\ now = <<>> \/ \E c \in R!Clients : c \in R!Of(e) /\ now = <<"found", e, c>>
    BY DEF R!ByEmail, R!Matches
<1>3. \A x \in Devices : visits'[x] = IF x = d THEN now ELSE visits[x]
    BY <1>2 DEF HomeInv
<1>4. ASSUME NEW f \in Emails, NEW x \in Devices, visits'[x] = <<"unlinked", f>> PROVE visits[x] = <<"unlinked", f>>
    BY <1>2, <1>3, <1>4
<1>5. ASSUME NEW f \in Emails, NEW x \in Devices, NEW c \in R!Clients, visits'[x] = <<"found", f, c>>
      PROVE  visits[x] = <<"found", f, c>> \/ (f = e /\ c \in R!Of(e))
    BY <1>2, <1>3, <1>5
<1>6. e \notin crossed => R!Links(e) = {}
    BY <1>1 DEF HomeInv, UnlinkedAlone
<1>7. FoundOfEmail' /\ FoundAlone'
    BY <1>1, <1>5, <1>6 DEF HomeInv, FoundOfEmail, FoundAlone, R!Links, R!Of
<1>8. UnlinkedAlone'
    BY <1>1, <1>4 DEF HomeInv, UnlinkedAlone, R!Links, R!Of
<1>9. QED
    BY <1>1, <1>2, <1>7, <1>8 DEF HomeInv, HomesLinked, LinkedAreClients, OneHome, R!Links, R!Of

\* A link that another sign-in does not expect crosses it; what is linked by then stays linked.
LEMMA LinkKeepsAlone ==
    ASSUME HomeInv, NEW e \in Emails, NEW c \in R!Clients, R!LinkTo(e, c), c \in R!Of(e), UNCHANGED clients,
           \A d \in Devices : visits'[d] = visits[d] \/ visits'[d] = <<>>
    PROVE  LinkedAreClients' /\ FoundOfEmail' /\ UnlinkedAlone' /\ FoundAlone'
<1>1. linked' = linked \cup {c} /\ crossed \subseteq crossed'
    BY DEF R!LinkTo
<1>2. R!Links(e)' = R!Links(e) \cup {c} /\ \A f \in Emails \ {e} : R!Links(f)' = R!Links(f)
    BY <1>1 DEF R!Links, R!Of
<1>3. ASSUME NEW f \in Emails \ crossed', NEW d \in Devices, visits'[d] = <<"unlinked", f>> PROVE R!Links(f)' = {}
    <2>1. visits[d] = <<"unlinked", f>>
        BY <1>3, VisitsDiffer
    <2>2. visits[d] # <<>> /\ visits[d][2] = f /\ visits[d] # <<"found", e, c>>
        BY <2>1
    <2>3. f # e
        BY <1>3, <2>2 DEF R!LinkTo, R!Looking
    <2>4. QED
        BY <1>1, <1>2, <1>3, <2>1, <2>3 DEF HomeInv, UnlinkedAlone
<1>4. ASSUME NEW f \in Emails \ crossed', NEW d \in Devices, NEW b \in R!Clients, visits'[d] = <<"found", f, b>>
      PROVE  R!Links(f)' \subseteq {b}
    <2>1. visits[d] = <<"found", f, b>>
        BY <1>4, VisitsDiffer
    <2>2. visits[d] # <<>> /\ visits[d][2] = f
        BY <2>1, VisitsDiffer
    <2>3. f # e \/ visits[d] = <<"found", e, c>>
        BY <1>4, <2>2 DEF R!LinkTo, R!Looking
    <2>4. f # e \/ b = c
        BY <2>1, <2>3
    <2>5. R!Links(f) \subseteq {b}
        BY <1>1, <1>4, <2>1 DEF HomeInv, FoundAlone
    <2>6. QED
        BY <1>2, <2>4, <2>5
<1>5. LinkedAreClients'
    BY <1>1 DEF HomeInv, LinkedAreClients, R!Of
<1>6. ASSUME NEW f \in Emails, NEW d \in Devices, NEW b \in R!Clients, visits'[d] = <<"found", f, b>> PROVE b \in R!Of(f)'
    <2>1. visits[d] = <<"found", f, b>>
        BY <1>6, VisitsDiffer
    <2>2. QED
        BY <2>1 DEF HomeInv, FoundOfEmail, R!Of
<1>7. QED
    BY <1>3, <1>4, <1>5, <1>6 DEF FoundOfEmail, UnlinkedAlone, FoundAlone

\* The sign-in links what it found: unless it was crossed, the account was linked to no other.
LEMMA LinkedKeepsHomeInv ==
    ASSUME HomeInv, NEW d \in Devices, NEW e \in Emails, NEW c \in R!Clients, R!Linked(d, e, c)
    PROVE  HomeInv'
<1>1. /\ visits[d] = <<"found", e, c>> /\ R!LinkTo(e, c) /\ UNCHANGED clients
      /\ homes' = [homes EXCEPT ![e] = @ \cup {c}] /\ visits' = [visits EXCEPT ![d] = <<>>]
    BY DEF R!Linked, R!Lands
<1>2. /\ linked' = linked \cup {c} /\ crossed \subseteq crossed' /\ c \in R!Of(e)
      /\ e \notin crossed => R!Links(e) \subseteq {c}
    BY <1>1 DEF R!LinkTo, HomeInv, FoundOfEmail, FoundAlone
<1>3. LinkedAreClients' /\ FoundOfEmail' /\ UnlinkedAlone' /\ FoundAlone'
    BY <1>1, <1>2, LinkKeepsAlone DEF HomeInv
<1>4. homes'[e] = homes[e] \cup {c} /\ \A f \in Emails \ {e} : homes'[f] = homes[f]
    BY <1>1 DEF HomeInv
<1>5. HomesLinked'
    BY <1>1, <1>2, <1>4 DEF HomeInv, HomesLinked, R!Links, R!Of
<1>6. OneHome'
    BY <1>2, <1>4 DEF HomeInv, HomesLinked, OneHome
<1>7. QED
    BY <1>1, <1>3, <1>5, <1>6 DEF HomeInv

LEMMA BackfillKeepsHomeInv ==
    ASSUME HomeInv, NEW e \in Emails, NEW c \in R!Clients, R!_jit_backfill_client_auth_user_id(e, c)
    PROVE  HomeInv'
<1>1. R!LinkTo(e, c) /\ c \in R!Of(e) /\ UNCHANGED <<clients, visits, homes>>
    BY DEF R!_jit_backfill_client_auth_user_id, R!Matches
<1>2. linked' = linked \cup {c} /\ crossed \subseteq crossed'
    BY <1>1 DEF R!LinkTo
<1>3. LinkedAreClients' /\ FoundOfEmail' /\ UnlinkedAlone' /\ FoundAlone'
    BY <1>1, LinkKeepsAlone
<1>4. HomesLinked' /\ OneHome'
    BY <1>1, <1>2 DEF HomeInv, HomesLinked, OneHome, R!Links, R!Of
<1>5. QED
    BY <1>1, <1>3, <1>4 DEF HomeInv

\* Clients never leave, and a new one is linked to nobody: no other step moves a home or a link.
LEMMA ClientsKeepHomeInv ==
    ASSUME HomeInv, UNCHANGED <<linked, homes, visits, crossed>>, clients \subseteq clients'
    PROVE  HomeInv'
<1>1. \A e \in Emails : R!Links(e)' = R!Links(e) /\ R!Of(e) \subseteq R!Of(e)'
    BY DEF HomeInv, LinkedAreClients, R!Links, R!Of
<1>2. QED
    BY <1>1 DEF HomeInv, HomesLinked, LinkedAreClients, FoundOfEmail, UnlinkedAlone, FoundAlone, OneHome

LEMMA GivesUpKeepsHomeInv ==
    ASSUME HomeInv, NEW d \in Devices, R!GivesUp(d)
    PROVE  HomeInv'
<1>1. visits' = [visits EXCEPT ![d] = <<>>] /\ UNCHANGED <<clients, linked, homes, crossed>>
    BY DEF R!GivesUp, R!rows
<1>2. \A x \in Devices : visits'[x] = visits[x] \/ visits'[x] = <<>>
    BY <1>1 DEF HomeInv
<1>3. \A f \in Emails, x \in Devices :
          /\ visits'[x] = <<"unlinked", f>> => visits[x] = <<"unlinked", f>>
          /\ \A c \in R!Clients : visits'[x] = <<"found", f, c>> => visits[x] = <<"found", f, c>>
    BY <1>2, VisitsDiffer
<1>4. \A f \in Emails : R!Links(f)' = R!Links(f) /\ R!Of(f)' = R!Of(f)
    BY <1>1 DEF R!Links, R!Of
<1>5. FoundOfEmail' /\ UnlinkedAlone' /\ FoundAlone'
    <2>1. FoundOfEmail'
        BY <1>3, <1>4 DEF HomeInv, FoundOfEmail
    <2>2. UnlinkedAlone'
        BY <1>1, <1>3, <1>4 DEF HomeInv, UnlinkedAlone
    <2>3. FoundAlone'
        BY <1>1, <1>3, <1>4 DEF HomeInv, FoundAlone
    <2>4. QED
        BY <2>1, <2>2, <2>3
<1>6. HomesLinked' /\ LinkedAreClients' /\ OneHome'
    <2>1. HomesLinked'
        BY <1>1, <1>4 DEF HomeInv, HomesLinked
    <2>2. LinkedAreClients' /\ OneHome'
        BY <1>1 DEF HomeInv, LinkedAreClients, OneHome
    <2>3. QED
        BY <2>1, <2>2
<1>7. homes' = [e \in Emails |-> homes'[e]] /\ visits' = [x \in Devices |-> visits'[x]]
    BY <1>1 DEF HomeInv
<1>8. QED
    BY <1>5, <1>6, <1>7 DEF HomeInv

LEMMA StepKeepsHomeInv == HomeInv /\ [R!Next]_rosters => HomeInv'
<1> SUFFICES ASSUME HomeInv, [R!Next]_rosters PROVE HomeInv'
    OBVIOUS
<1> DEFINE Rest == UNCHANGED <<linked, homes, visits, crossed>> /\ clients \subseteq clients'
<1>1. ASSUME NEW d \in Devices, NEW e \in Emails,
             \/ R!resolve_client_for_auth_user(d, e) \/ R!ByEmail(d, e)
             \/ \E c \in R!Clients : R!Linked(d, e, c)
      PROVE  HomeInv'
    BY <1>1, ResolveKeepsHomeInv, ByEmailKeepsHomeInv, LinkedKeepsHomeInv
<1>2. ASSUME NEW d \in Devices, R!GivesUp(d) PROVE HomeInv'
    BY <1>2, GivesUpKeepsHomeInv
<1>3. ASSUME NEW r \in requests,
             \/ R!create_client_with_dossier(r) \/ R!resend_welcome_email(r) \/ R!generate_invite_link(r)
             \/ R!Stamps(r) \/ R!Lost(r)
      PROVE  Rest
    BY <1>3 DEF R!create_client_with_dossier, R!resend_welcome_email, R!generate_invite_link, R!Stamps, R!Lost,
                R!Answers, R!rows, R!signIns
<1>4. ASSUME NEW a \in Desks,
             \/ \E answered \in BOOLEAN : R!ClientsPage(a, answered)
             \/ \E e \in Emails : R!InviteActions(a, e) \/ \E notify \in BOOLEAN : R!DossierForm(a, e, notify)
      PROVE  Rest
    BY <1>4 DEF R!ClientsPage, R!InviteActions, R!DossierForm, R!Ask, R!rows, R!signIns
<1>5. ASSUME NEW e \in Emails, R!SignsIn(e) PROVE Rest
    BY <1>5 DEF R!SignsIn, R!rows, R!signIns
<1>6. ASSUME NEW e \in Emails, NEW c \in R!Clients, R!_jit_backfill_client_auth_user_id(e, c) PROVE HomeInv'
    BY <1>6, BackfillKeepsHomeInv
<1>7. UNCHANGED rosters => Rest
    BY DEF rosters
<1>8. Rest => HomeInv'
    BY ClientsKeepHomeInv
<1> HIDE DEF Rest
<1>9. QED
    BY <1>1, <1>2, <1>3, <1>4, <1>5, <1>6, <1>7, <1>8 DEF R!Next

LEMMA PagesStepsRosters == PagesNext => [R!Next]_rosters
BY DEF PagesNext, BoardStep, HouseholdStep, MoneyStep, RosterStep, IntakeStep

\* A client who reads as pending was sent an invitation, whatever was rolled back or lost, and the sign-ins
\* of an account land in one home for ever, for any number of advisors who share the email and of devices:
\* unless the account was linked while another sign-in, which had seen no link, was on its way elsewhere.
THEOREM PagesInvitesLandOnce == PagesSpec => []InvitesLandOnce
<1>1. PagesInit => InviteInv /\ HomeInv
    BY InitInv DEF PagesInit
<1>2. InviteInv /\ HomeInv /\ [PagesNext]_all => InviteInv' /\ HomeInv'
    BY PagesStepsRosters, StepKeepsInviteInv, StepKeepsHomeInv DEF all
<1>3. InviteInv /\ HomeInv => InvitesLandOnce
    BY DEF InviteInv, InvitedEmailed, HomeInv, OneHome, InvitesLandOnce, R!InvitesLandOnce, R!_access_status
<1>4. QED
    BY <1>1, <1>2, <1>3, PTL DEF PagesSpec

-----------------------------------------------------------------------------
(* The intake: what is saved follows its mode, and so does what is written. *)

\* What a page sends follows its mode; the concierge's exact dates may leave a number of nights.
FollowsMode(r) ==
    /\ r.timing_kind = "flexible" => r.date_start = 0 /\ r.date_end = 0 /\ r.duration_nights = 0
    /\ r.duration_nights # 0 => r.timing_kind = "window"

Timed(r, by) ==
    /\ r.timing_kind = "flexible" => r.date_start = 0 /\ r.date_end = 0
    /\ r.duration_nights # 0 => r.timing_kind = "window" \/ (r.timing_kind = "exact" /\ by = I!Concierge)

\* A trip's row and the fields of a page's save have the same columns.
Columns(r) == r = [brief |-> r.brief, timing_kind |-> r.timing_kind, date_start |-> r.date_start,
                   date_end |-> r.date_end, duration_nights |-> r.duration_nights]

UnderWay(v) == calls[v] # <<>> /\ calls[v][1] \in {"sent", "read"}

FromPage(fields) == Columns(fields) /\ FollowsMode(fields)
FromTool(fields) == \E kind \in I!Kinds : \E from, to, nights : fields = I!ToolBody(kind, from, to, nights)

IntakeInv ==
    /\ calls = [v \in I!Writers |-> calls[v]]
    /\ Columns(brief) /\ I!InOrder(brief.date_start, brief.date_end) /\ (raced \/ Timed(brief, writer))
    /\ \A v \in I!Writers :
           UnderWay(v) => /\ FromPage(calls[v][2]) \/ (v = I!Concierge /\ FromTool(calls[v][2]))
                          /\ calls[v][1] = "read" => Columns(calls[v][3])

\* The columns that differ from what was read are written over the row; over the row that was read they make
\* what was sent.
LEMMA WrittenColumns ==
    ASSUME NEW fields, NEW row, NEW seen, Columns(fields), Columns(row), Columns(seen),
           NEW after, after = I!Over([k \in {c \in DOMAIN fields : fields[c] # seen[c]} |-> fields[k]], row)
    PROVE  Columns(after) /\ (seen = row => after = fields)
BY DEF Columns, I!Over

\* The concierge's fields leave the others as they are.
LEMMA ToolColumns ==
    ASSUME NEW kind \in I!Kinds, NEW from, NEW to, NEW nights,
           NEW fields, fields = I!ToolBody(kind, from, to, nights),
           NEW row, NEW seen, Columns(row), Columns(seen),
           NEW after, after = I!Over([k \in {c \in DOMAIN fields : fields[c] # seen[c]} |-> fields[k]], row)
    PROVE  Columns(after) /\ (seen = row => Timed(after, I!Concierge))
<1>1. CASE kind = "flexible"
    <2>1. fields = [timing_kind |-> kind, date_start |-> 0, date_end |-> 0, duration_nights |-> 0]
        BY <1>1 DEF I!ToolBody
    <2>2. /\ after.brief = row.brief /\ Columns(after)
          /\ after.timing_kind = IF seen.timing_kind = kind THEN row.timing_kind ELSE kind
          /\ after.date_start = IF seen.date_start = 0 THEN row.date_start ELSE 0
          /\ after.date_end = IF seen.date_end = 0 THEN row.date_end ELSE 0
          /\ after.duration_nights = IF seen.duration_nights = 0 THEN row.duration_nights ELSE 0
        BY <2>1 DEF Columns, I!Over
    <2>3. QED
        BY <1>1, <2>2 DEF Timed
<1>2. CASE kind # "flexible" /\ nights = 0
    <2>1. fields = [timing_kind |-> kind, date_start |-> from, date_end |-> to]
        BY <1>2 DEF I!ToolBody
    <2>2. QED
        BY <1>2, <2>1 DEF Columns, I!Over, Timed, I!Kinds
<1>3. CASE kind # "flexible" /\ nights # 0
    <2>1. fields = [timing_kind |-> kind, date_start |-> from, date_end |-> to, duration_nights |-> nights]
        BY <1>3 DEF I!ToolBody
    <2>2. QED
        BY <1>3, <2>1 DEF Columns, I!Over, Timed, I!Kinds
<1>4. QED
    BY <1>1, <1>2, <1>3

LEMMA BodyTimed ==
    ASSUME NEW mode, NEW from, NEW to, NEW nights
    PROVE  FromPage(I!Body(mode, from, to, nights))
BY DEF FromPage, Columns, FollowsMode, I!Body

\* Only the service writes the row; a page's save carries columns that follow its mode, the concierge's
\* what the kind it names asks for.
LEMMA PageKeepsIntakeInv ==
    ASSUME IntakeInv, NEW v \in I!Writers,
           \/ I!ItineraryShell(v) \/ I!onEdit(v) \/ I!onSkip(v) \/ I!onSaved(v) \/ I!Fails(v)
           \/ \E mode, from, to, nights : I!save(v, mode, from, to, nights)
    PROVE  IntakeInv'
<1>1. UNCHANGED <<brief, raced, writer>>
    BY DEF I!ItineraryShell, I!onEdit, I!onSkip, I!onSaved, I!Fails, I!save
<1>2. \/ calls' = calls \/ calls' = [calls EXCEPT ![v] = <<>>]
      \/ \E mode, from, to, nights : calls' = [calls EXCEPT ![v] = <<"sent", I!Body(mode, from, to, nights)>>]
    BY DEF I!ItineraryShell, I!onEdit, I!onSkip, I!onSaved, I!Fails, I!save
<1>3. CASE calls' = calls \/ calls' = [calls EXCEPT ![v] = <<>>]
    BY <1>1, <1>3 DEF IntakeInv, UnderWay
<1>4. ASSUME NEW mode, NEW from, NEW to, NEW nights,
             calls' = [calls EXCEPT ![v] = <<"sent", I!Body(mode, from, to, nights)>>]
      PROVE  IntakeInv'
    BY <1>1, <1>4, BodyTimed DEF IntakeInv, UnderWay
<1>5. QED
    BY <1>2, <1>3, <1>4

LEMMA ToolKeepsIntakeInv ==
    ASSUME IntakeInv,
           \/ I!Answered
           \/ \E kind \in I!Kinds : \E from, to, nights : I!update_trip_timing(kind, from, to, nights)
    PROVE  IntakeInv'
<1>1. UNCHANGED <<brief, raced, writer>> /\ I!Concierge \in I!Writers
    BY DEF I!Answered, I!update_trip_timing, I!Writers
<1>2. CASE I!Answered
    BY <1>1, <1>2 DEF I!Answered, IntakeInv, UnderWay
<1>3. ASSUME NEW kind \in I!Kinds, NEW from, NEW to, NEW nights, I!update_trip_timing(kind, from, to, nights)
      PROVE  IntakeInv'
    <2> DEFINE fields == I!ToolBody(kind, from, to, nights)
    <2>1. calls' = [calls EXCEPT ![I!Concierge] = <<"sent", fields>>]
        BY <1>3 DEF I!update_trip_timing
    <2>2. FromTool(fields)
        BY DEF FromTool
    <2> HIDE DEF fields
    <2>3. QED
        BY <1>1, <2>1, <2>2 DEF IntakeInv, UnderWay
<1>4. QED
    BY <1>2, <1>3

LEMMA LoadsKeepsIntakeInv ==
    ASSUME IntakeInv, NEW v \in I!Writers, I!Loads(v)
    PROVE  IntakeInv'
<1>1. UNCHANGED <<brief, raced, writer>> /\ UnderWay(v)
    BY DEF I!Loads, I!Idle, UnderWay
<1>2. calls' = [calls EXCEPT ![v] = <<>>] \/ calls' = [calls EXCEPT ![v] = <<"read", calls[v][2], brief>>]
    BY DEF I!Loads
<1>3. QED
    BY <1>1, <1>2 DEF IntakeInv, UnderWay

LEMMA WriteKeepsIntakeInv ==
    ASSUME IntakeInv, NEW v \in I!Writers, I!update_itinerary_details(v)
    PROVE  IntakeInv'
<1> DEFINE fields == calls[v][2]
           seen == calls[v][3]
           after == I!Over([k \in {c \in DOMAIN fields : fields[c] # seen[c]} |-> fields[k]], brief)
<1>1. UnderWay(v) /\ calls[v][1] = "read"
    BY DEF I!update_itinerary_details, I!Idle, UnderWay
<1>2. \/ /\ I!InOrder(after.date_start, after.date_end) /\ brief' = after
         /\ raced' = (raced \/ seen # brief) /\ writer' = v /\ calls' = [calls EXCEPT ![v] = <<"ok">>]
      \/ calls' = [calls EXCEPT ![v] = <<>>] /\ UNCHANGED <<brief, raced, writer>>
    BY DEF I!update_itinerary_details
<1>3. /\ FromPage(fields) \/ (v = I!Concierge /\ FromTool(fields))
      /\ Columns(seen) /\ Columns(brief)
    BY <1>1 DEF IntakeInv
<1> HIDE DEF fields, seen
<1>4. Columns(after) /\ (seen = brief => Timed(after, v))
    <2>1. CASE FromPage(fields)
        BY <1>3, <2>1, WrittenColumns DEF FromPage, FollowsMode, Timed
    <2>2. CASE v = I!Concierge /\ FromTool(fields)
        <3>1. PICK kind \in I!Kinds : \E from, to, nights : fields = I!ToolBody(kind, from, to, nights)
            BY <2>2 DEF FromTool
        <3>2. QED
            BY <1>3, <2>2, <3>1, ToolColumns
    <2>3. QED
        BY <1>3, <2>1, <2>2
<1> HIDE DEF after
<1>5. CASE calls' = [calls EXCEPT ![v] = <<>>] /\ UNCHANGED <<brief, raced, writer>>
    BY <1>5 DEF IntakeInv, UnderWay
<1>6. CASE /\ I!InOrder(after.date_start, after.date_end) /\ brief' = after
           /\ raced' = (raced \/ seen # brief) /\ writer' = v /\ calls' = [calls EXCEPT ![v] = <<"ok">>]
    <2>1. raced' \/ Timed(after, v)
        <3>1. CASE seen = brief
            BY <1>4, <3>1
        <3>2. CASE seen # brief
            BY <1>6, <3>2
        <3>3. QED
            BY <3>1, <3>2
    <2>2. \A x \in I!Writers : UnderWay(x)' => x # v /\ UnderWay(x) /\ calls'[x] = calls[x]
        BY <1>6 DEF IntakeInv, UnderWay
    <2>3. QED
        BY <1>4, <1>6, <2>1, <2>2 DEF IntakeInv
<1>7. QED
    BY <1>2, <1>5, <1>6

LEMMA StepKeepsIntakeInv == IntakeInv /\ [I!Next]_intake => IntakeInv'
<1>1. IntakeInv /\ UNCHANGED intake => IntakeInv'
    BY DEF intake, IntakeInv, UnderWay
<1>2. IntakeInv /\ I!Next => IntakeInv'
    BY PageKeepsIntakeInv, ToolKeepsIntakeInv, LoadsKeepsIntakeInv, WriteKeepsIntakeInv DEF I!Next, I!Writers
<1>3. QED
    BY <1>1, <1>2

\* The dates of a trip are in order always; and unless a save wrote over another it had not read, a flexible
\* trip has neither dates nor nights, and only a window has nights, but for exact dates from the concierge:
\* for any viewers, dates and saves.
THEOREM PagesTimingFollowsMode == PagesSpec => []TimingFollowsMode
<1>1. PagesInit => IntakeInv
    <2>1. I!Init => IntakeInv
        BY DEF I!Init, IntakeInv, Columns, Timed, UnderWay, I!InOrder, I!Nights, I!Writers
    <2>2. QED
        BY <2>1 DEF PagesInit
<1>2. PagesNext => [I!Next]_intake
    BY DEF PagesNext, BoardStep, HouseholdStep, MoneyStep, RosterStep, IntakeStep
<1>3. IntakeInv /\ [PagesNext]_all => IntakeInv'
    BY <1>2, StepKeepsIntakeInv DEF all
<1>4. IntakeInv => TimingFollowsMode
    BY DEF IntakeInv, Timed, TimingFollowsMode, I!TimingFollowsMode
<1>5. QED
    BY <1>1, <1>3, <1>4, PTL DEF PagesSpec

-----------------------------------------------------------------------------
(* The glances: an answer that still counts is no older than what is shown. *)

Shows(g) == glances[g][1] = "shown"

GlanceStates == {<<"closed">>, <<"loading">>, <<"error">>} \cup {<<"shown", n>> : n \in 0..ops}

\* What a glance shows and what its reads saw are states the ledger has been in; a read that is not cancelled
\* is the glance's last, and saw no less than the glance shows.
GlanceInv ==
    /\ ops \in Nat /\ asked \in Nat
    /\ glances \in [M!Glances -> GlanceStates]
    /\ \A r \in reads : r \in [glance : M!Glances, id : Nat, saw : 0..ops, cancelled : BOOLEAN]
    /\ \A r \in reads : ~r.cancelled /\ Shows(r.glance) => glances[r.glance][2] <= r.saw
    /\ \A r, s \in reads : ~r.cancelled /\ ~s.cancelled /\ r.glance = s.glance => r = s

LEMMA LedgerKeepsGlances == ASSUME GlanceInv, M!Service PROVE GlanceInv' /\ UNCHANGED glances
<1>1. ops' \in {ops, ops + 1} /\ UNCHANGED <<glances, reads, asked>>
    BY DEF M!Service, M!create_invoice, M!attach, M!detach, M!approve, M!book_node, M!correct, M!charge, M!Reverses,
           M!void_line_item, M!cancel_booking, M!move, M!Change
<1>2. 0..ops \subseteq 0..ops' /\ ops' \in Nat
    BY <1>1 DEF GlanceInv
<1>3. GlanceStates \subseteq GlanceStates'
    BY <1>2 DEF GlanceStates
<1>4. \A r \in reads : r \in [glance : M!Glances, id : Nat, saw : 0..ops', cancelled : BOOLEAN]
    BY <1>2 DEF GlanceInv
<1>5. QED
    BY <1>1, <1>2, <1>3, <1>4 DEF GlanceInv, Shows

LEMMA BeginKeepsGlances ==
    ASSUME GlanceInv, NEW g \in M!Glances, M!mount(g) \/ M!effect(g)
    PROVE  GlanceInv'
<1> DEFINE fresh == [glance |-> g, id |-> asked + 1, saw |-> ops, cancelled |-> FALSE]
           stale(r) == [r EXCEPT !.cancelled = @ \/ r.glance = g]
<1>1. /\ ops' = ops /\ asked' = asked + 1
      /\ reads' = {stale(r) : r \in reads} \cup {fresh}
      /\ glances' = glances \/ glances' = [glances EXCEPT ![g] = <<"loading">>]
    BY DEF M!mount, M!effect, M!Begin, M!ledger
<1>2. glances' \in [M!Glances -> GlanceStates] /\ \A h \in M!Glances : Shows(h)' => glances'[h] = glances[h] /\ Shows(h)
    BY <1>1 DEF GlanceInv, GlanceStates, Shows
<1>3. GlanceStates' = GlanceStates
    BY <1>1 DEF GlanceStates
<1>4. \A r \in reads : /\ stale(r) \in [glance : M!Glances, id : Nat, saw : 0..ops, cancelled : BOOLEAN]
                       /\ stale(r).glance = r.glance /\ stale(r).saw = r.saw
                       /\ ~stale(r).cancelled => ~r.cancelled /\ r.glance # g /\ stale(r) = r
    BY DEF GlanceInv
<1>5. /\ fresh \in [glance : M!Glances, id : Nat, saw : 0..ops, cancelled : BOOLEAN]
      /\ fresh.glance = g /\ fresh.saw = ops
    BY DEF GlanceInv
<1>6. \A h \in M!Glances : Shows(h) => glances[h][2] <= ops
    BY DEF GlanceInv, GlanceStates, Shows
<1> HIDE DEF fresh, stale
<1>7. \A r \in reads' : r \in [glance : M!Glances, id : Nat, saw : 0..ops, cancelled : BOOLEAN]
    BY <1>1, <1>4, <1>5
<1>8. \A r \in reads' : ~r.cancelled => r = fresh \/ (r \in reads /\ r.glance # g)
    BY <1>1, <1>4
<1>9. \A r \in reads' : ~r.cancelled /\ Shows(r.glance)' => glances'[r.glance][2] <= r.saw
    BY <1>2, <1>5, <1>6, <1>7, <1>8 DEF GlanceInv
<1>10. \A r, s \in reads' : ~r.cancelled /\ ~s.cancelled /\ r.glance = s.glance => r = s
    BY <1>5, <1>8 DEF GlanceInv
<1>11. QED
    BY <1>1, <1>2, <1>3, <1>7, <1>9, <1>10 DEF GlanceInv

LEMMA AnswerKeepsGlances ==
    ASSUME GlanceInv,
           \/ \E g \in M!Glances : M!unmount(g)
           \/ \E r \in reads : M!Lands(r) \/ M!Fails(r)
    PROVE  GlanceInv'
<1>1. ops' = ops /\ asked' = asked /\ reads' \subseteq reads
    BY DEF M!unmount, M!Lands, M!Fails, M!ledger
<1>2. GlanceStates' = GlanceStates
    BY <1>1 DEF GlanceStates
<1>3. ASSUME NEW r \in reads, ~r.cancelled, glances' = [glances EXCEPT ![r.glance] = <<"shown", r.saw>>],
             reads' = reads \ {r}
      PROVE  /\ glances' \in [M!Glances -> GlanceStates]
             /\ \A s \in reads' : ~s.cancelled /\ Shows(s.glance)' => glances'[s.glance][2] <= s.saw
    BY <1>3 DEF GlanceInv, GlanceStates, Shows
<1>4. ASSUME NEW g \in M!Glances, NEW state \in {<<"closed">>, <<"error">>}, glances' = [glances EXCEPT ![g] = state]
      PROVE  /\ glances' \in [M!Glances -> GlanceStates]
             /\ \A s \in reads' : ~s.cancelled /\ Shows(s.glance)' => glances'[s.glance][2] <= s.saw
    BY <1>1, <1>4 DEF GlanceInv, GlanceStates, Shows
<1>5. CASE glances' = glances
    BY <1>1, <1>2, <1>5 DEF GlanceInv, Shows
<1>6. CASE \E r \in reads : ~r.cancelled /\ glances' = [glances EXCEPT ![r.glance] = <<"shown", r.saw>>] /\ reads' = reads \ {r}
    BY <1>1, <1>2, <1>3, <1>6 DEF GlanceInv
<1>7. CASE \E g \in M!Glances, state \in {<<"closed">>, <<"error">>} : glances' = [glances EXCEPT ![g] = state]
    BY <1>1, <1>2, <1>4, <1>7 DEF GlanceInv
<1>8. \A r \in reads : r.glance \in M!Glances
    BY DEF GlanceInv
<1>9. QED
    BY <1>5, <1>6, <1>7, <1>8 DEF M!unmount, M!Lands, M!land, M!Fails

\* An answer that lands over another was asked for after it, or the other is not shown any more.
LEMMA StepMovesOn ==
    ASSUME GlanceInv, [M!Next]_money, NEW g \in M!Glances, Len(glances[g]) = 2, Len(glances'[g]) = 2
    PROVE  glances'[g][2] >= glances[g][2]
<1>1. \A h \in M!Glances : Len(glances[h]) = 2 => Shows(h) /\ glances[h][2] \in Nat
    BY DEF GlanceInv, GlanceStates, Shows
<1>2. CASE glances' = glances
    BY <1>1, <1>2
<1>3. CASE \E h \in M!Glances, state \in {<<"closed">>, <<"loading">>, <<"error">>} : glances' = [glances EXCEPT ![h] = state]
    BY <1>1, <1>3 DEF GlanceInv
<1>4. CASE \E r \in reads : ~r.cancelled /\ glances' = [glances EXCEPT ![r.glance] = <<"shown", r.saw>>]
    BY <1>1, <1>4 DEF GlanceInv
<1>5. \A r \in reads : r.glance \in M!Glances
    BY DEF GlanceInv
<1>6. CASE M!Page
    BY <1>2, <1>3, <1>4, <1>5, <1>6 DEF M!Page, M!mount, M!effect, M!unmount, M!Lands, M!land, M!Fails
<1>7. QED
    BY <1>2, <1>6, LedgerKeepsGlances DEF M!Next, money

LEMMA NextGlanceInv == GlanceInv /\ [M!Next]_money => GlanceInv'
<1>1. GlanceInv /\ UNCHANGED money => GlanceInv'
    BY DEF GlanceInv, GlanceStates, Shows, money
<1>2. GlanceInv /\ M!Next => GlanceInv'
    BY LedgerKeepsGlances, BeginKeepsGlances, AnswerKeepsGlances DEF M!Next, M!Page
<1>3. QED
    BY <1>1, <1>2

\* No glance goes back to an older state of the ledger, in whatever order its reads are answered, for any cards,
\* changes and reads.
THEOREM PagesGlancesMoveOn == PagesSpec => GlancesMoveOn
<1>1. PagesInit => GlanceInv
    BY DEF PagesInit, M!Init, GlanceInv, GlanceStates
<1>2. PagesNext => [M!Next]_money
    BY DEF PagesNext, BoardStep, HouseholdStep, MoneyStep, RosterStep, IntakeStep
<1>3. GlanceInv /\ [PagesNext]_all => GlanceInv'
    BY <1>2, NextGlanceInv DEF all
<1>4. GlanceInv /\ [PagesNext]_all =>
        [\A g \in M!Glances : Len(glances[g]) = 2 /\ Len(glances'[g]) = 2 => glances'[g][2] >= glances[g][2]]_M!vars
    BY <1>2, StepMovesOn DEF all, money, M!vars, M!ledger
<1>5. QED
    BY <1>1, <1>3, <1>4, PTL DEF PagesSpec, GlancesMoveOn, M!GlancesMoveOn
-----------------------------------------------------------------------------
(* The household: its records, and what the actions of its pages carry.     *)

Kinds == {"member", "document", "contact"} \cup H!Tiers
Rows == [kind : Kinds \cup {"none"}, text : Nat, primary : BOOLEAN, gone : BOOLEAN, uploaded : BOOLEAN]
Tables == [H!Ids -> Rows]
Views == [id : H!Ids, row : Rows]
Submits == {"create", "init", "update"}

\* An action that changes a record names it.
Actions == {c \in [op : Submits \cup {"remove", "complete"}, id : 0..MaxRows, doc : 0..MaxRows, text : Nat,
                   primary : BOOLEAN, ticked : BOOLEAN,
                   stage : {"sent", "loaded", "demoted", "ok", "rendered", "conflict"},
                   loaded : Rows, others : SUBSET H!Ids, seen : SUBSET Views] :
              c.op \in {"update", "remove"} => c.id # 0}

HouseholdType ==
    /\ rows \in Tables /\ rows[1].kind # "none"
    /\ shown \in [H!Pages -> SUBSET Views]
    /\ forms \in [H!Pages -> SUBSET [id : 0..MaxRows, primary : BOOLEAN]]
    /\ queue \in [H!Pages -> Seq(Actions)]
    /\ uploads \in [H!Pages -> 0..MaxRows]
    /\ clicks \in Seq(H!Pages \cup H!Panels)

LEMMA NoRowTyped == H!NoRow \in Rows
BY DEF H!NoRow, Rows

LEMMA FirstId == 1 \in H!Ids
BY BoundsAssumption DEF H!Ids

\* The next record is one that is not there yet.
LEMMA NextIdFree == ASSUME H!Free # {} PROVE H!NextId \in H!Free
<1> DEFINE Below == {ss \in Nat \X Nat : ss[1] < ss[2]}
           S == H!Free
<1>1. IsWellFoundedOn(Below, Nat)
    BY NatLessThanWellFounded DEF OpToRel
<1>2. S \subseteq Nat /\ S # {}
    BY BoundsAssumption DEF H!Free, H!Ids
<1> HIDE DEF S
<1>3. PICK x \in S : \A y \in S : ~(<<y, x>> \in Below)
    <2> HIDE DEF Below
    <2> QED
        BY <1>1, <1>2, WFMin
<1>4. ASSUME NEW y \in S PROVE x <= y
    <2>1. x \in Nat /\ y \in Nat /\ <<y, x>> \in Nat \X Nat
        BY <1>2
    <2>2. ~(y < x)
        BY <1>3, <2>1
    <2> QED
        BY <2>1, <2>2
<1>5. H!NextId = CHOOSE i \in S : \A j \in S : i <= j
    BY DEF H!NextId, S
<1>6. H!NextId \in S
    BY <1>4, <1>5
<1> QED
    BY <1>6 DEF S

LEMMA NowTyped ==
    ASSUME HouseholdType, NEW p \in H!Pages, queue[p] # <<>>
    PROVE  H!Now(p) \in Actions /\ 1 \in 1..Len(queue[p])
BY DEF HouseholdType, H!Now

\* What the first action of a page becomes, and what the others of the queue stay.
LEMMA StageQueue ==
    ASSUME HouseholdType, NEW p \in H!Pages, queue[p] # <<>>, NEW c \in Actions, H!Stage(p, c)
    PROVE  /\ queue' \in [H!Pages -> Seq(Actions)]
           /\ \A q \in H!Pages : q # p => queue'[q] = queue[q]
           /\ queue'[p] # <<>> /\ Len(queue'[p]) = Len(queue[p])
           /\ queue'[p][1] = c
           /\ \A k \in 1..Len(queue[p]) : k # 1 => queue'[p][k] = queue[p][k]
BY DEF HouseholdType, H!Stage

LEMMA PopQueue ==
    ASSUME HouseholdType, NEW p \in H!Pages, queue[p] # <<>>, queue' = [queue EXCEPT ![p] = Tail(@)]
    PROVE  /\ queue' \in [H!Pages -> Seq(Actions)]
           /\ \A q \in H!Pages : q # p => queue'[q] = queue[q]
           /\ Len(queue'[p]) = Len(queue[p]) - 1
           /\ \A k \in 1..Len(queue'[p]) : queue'[p][k] = queue[p][k + 1] /\ k + 1 \in 1..Len(queue[p])
BY DEF HouseholdType

LEMMA PushQueue ==
    ASSUME HouseholdType, NEW p \in H!Pages, NEW c \in Actions, queue' = [queue EXCEPT ![p] = Append(@, c)]
    PROVE  /\ queue' \in [H!Pages -> Seq(Actions)]
           /\ \A q \in H!Pages : q # p => queue'[q] = queue[q]
           /\ queue'[p] # <<>> /\ Len(queue'[p]) = Len(queue[p]) + 1
           /\ queue'[p][Len(queue[p]) + 1] = c
           /\ \A k \in 1..Len(queue[p]) : queue'[p][k] = queue[p][k]
BY DEF HouseholdType

\* What is written, row by row.
LEMMA InsertRows ==
    ASSUME HouseholdType, NEW p \in H!Pages, queue[p] # <<>>, H!Free # {}
    PROVE  /\ H!Insert(p) \in Tables /\ H!NextId \in H!Ids /\ rows[H!NextId].kind = "none" /\ H!NextId # 1
           /\ \A i \in H!Ids : i # H!NextId => H!Insert(p)[i] = rows[i]
           /\ H!Insert(p)[H!NextId].primary = H!Now(p).primary
           /\ ~H!Insert(p)[H!NextId].uploaded
<1>1. H!NextId \in H!Ids /\ rows[H!NextId].kind = "none" /\ H!NextId # 1
    BY NextIdFree DEF H!Free, HouseholdType
<1>2. H!Kind \in Kinds \cup {"none"} /\ H!Now(p).text \in Nat /\ H!Now(p).primary \in BOOLEAN
    BY NowTyped, FirstId DEF HouseholdType, Tables, Rows, H!Kind, Actions
<1> DEFINE row == [H!NoRow EXCEPT !.kind = H!Kind, !.text = H!Now(p).text, !.primary = H!Now(p).primary]
<1>3. row \in Rows /\ row.primary = H!Now(p).primary /\ ~row.uploaded
    BY <1>2 DEF H!NoRow, Rows
<1>4. H!Insert(p) = [rows EXCEPT ![H!NextId] = row]
    BY DEF H!Insert
<1> HIDE DEF row
<1>5. QED
    BY <1>1, <1>3, <1>4 DEF HouseholdType, Tables

LEMMA WrittenRows ==
    ASSUME HouseholdType, NEW p \in H!Pages, queue[p] # <<>>, H!Now(p).op = "update"
    PROVE  /\ H!Written(p) \in Tables
           /\ \A i \in H!Ids : /\ H!Written(p)[i].kind = rows[i].kind /\ H!Written(p)[i].gone = rows[i].gone
                               /\ H!Written(p)[i].uploaded = rows[i].uploaded
                               /\ H!Written(p)[i].primary # rows[i].primary =>
                                     i = H!Now(p).id /\ H!Now(p).primary # H!Now(p).loaded.primary
<1> DEFINE id == H!Now(p).id
           primary == IF H!Now(p).primary = H!Now(p).loaded.primary THEN rows[id].primary ELSE H!Now(p).primary
           text == H!Now(p).text
           row == [rows[id] EXCEPT !.text = text, !.primary = primary]
<1>1. id \in H!Ids /\ text \in Nat /\ H!Now(p).primary \in BOOLEAN
    BY NowTyped, BoundsAssumption DEF Actions, H!Ids
<1>2. rows[id] \in Rows
    BY <1>1 DEF HouseholdType, Tables
<1>3. primary \in BOOLEAN /\ (primary # rows[id].primary => H!Now(p).primary # H!Now(p).loaded.primary)
    BY <1>1, <1>2 DEF Rows
<1>4. H!Written(p) = [rows EXCEPT ![id] = row]
    BY DEF H!Written
<1> HIDE DEF primary, id, text
<1>5. /\ row \in Rows /\ row.kind = rows[id].kind /\ row.gone = rows[id].gone
      /\ row.uploaded = rows[id].uploaded /\ row.primary = primary
    BY <1>1, <1>2, <1>3 DEF Rows
<1> HIDE DEF row
<1>6. /\ H!Written(p) \in Tables /\ H!Written(p)[id] = row
      /\ \A i \in H!Ids : i # id => H!Written(p)[i] = rows[i]
    BY <1>1, <1>4, <1>5 DEF HouseholdType, Tables
<1>7. QED
    BY <1>3, <1>5, <1>6 DEF id

LEMMA DemotedRows ==
    ASSUME NEW p \in H!Pages, NEW table \in Tables
    PROVE  /\ H!Demoted(p, table) \in Tables
           /\ \A i \in H!Ids : LET row == H!Demoted(p, table)[i] IN
                /\ row.kind = table[i].kind /\ row.gone = table[i].gone /\ row.uploaded = table[i].uploaded
                /\ i \notin H!Now(p).others => row = table[i]
<1>1. ASSUME NEW i \in H!Ids
      PROVE  LET row == [table[i] EXCEPT !.primary = FALSE] IN
                /\ row \in Rows
                /\ row.kind = table[i].kind /\ row.gone = table[i].gone /\ row.uploaded = table[i].uploaded
    BY DEF Tables, Rows
<1>2. \A i \in H!Ids : H!Demoted(p, table)[i] =
          IF i \in H!Now(p).others THEN [table[i] EXCEPT !.primary = FALSE] ELSE table[i]
    BY DEF H!Demoted
<1>3. H!Demoted(p, table) \in Tables
    BY <1>1 DEF H!Demoted, Tables
<1>4. QED
    BY <1>1, <1>2, <1>3

\* An action on its way keeps what it was sent with.
Same(c, d) == c.op = d.op /\ c.id = d.id /\ c.primary = d.primary /\ c.ticked = d.ticked

LEMMA Accepted ==
    ASSUME NEW c \in Actions
    PROVE  LET d == [c EXCEPT !.stage = "ok", !.loaded = H!NoRow, !.others = {}]
           IN  d \in Actions /\ Same(d, c) /\ d.doc = c.doc /\ d.stage = "ok" /\ d.seen = c.seen
BY NoRowTyped DEF Actions, Same

LEMMA Filed ==
    ASSUME NEW c \in Actions, NEW doc \in H!Ids
    PROVE  LET d == [c EXCEPT !.stage = "ok", !.doc = doc]
           IN  d \in Actions /\ Same(d, c) /\ d.doc = doc /\ d.stage = "ok" /\ d.seen = c.seen
<1>1. doc \in 0..MaxRows
    BY DEF H!Ids
<1>2. QED
    BY <1>1 DEF Actions, Same

LEMMA Demoting ==
    ASSUME NEW c \in Actions, NEW set \in SUBSET H!Ids
    PROVE  LET d == [c EXCEPT !.stage = "demoted", !.others = set]
           IN  /\ d \in Actions /\ Same(d, c) /\ d.doc = c.doc /\ d.stage = "demoted"
               /\ d.others = set /\ d.loaded = c.loaded /\ d.seen = c.seen
BY DEF Actions, Same

LEMMA Loading ==
    ASSUME NEW c \in Actions, NEW row \in Rows
    PROVE  LET d == [c EXCEPT !.stage = "loaded", !.loaded = row]
           IN  /\ d \in Actions /\ Same(d, c) /\ d.doc = c.doc /\ d.stage = "loaded"
               /\ d.loaded = row /\ d.seen = c.seen
BY DEF Actions, Same

LEMMA Conflicting ==
    ASSUME NEW c \in Actions
    PROVE  LET d == [c EXCEPT !.stage = "conflict"]
           IN  d \in Actions /\ Same(d, c) /\ d.doc = c.doc /\ d.stage = "conflict" /\ d.seen = c.seen
BY DEF Actions, Same

LEMMA Rendering ==
    ASSUME NEW c \in Actions, NEW seen \in SUBSET Views
    PROVE  /\ LET d == [c EXCEPT !.stage = "rendered", !.seen = seen]
              IN  d \in Actions /\ Same(d, c) /\ d.doc = c.doc /\ d.stage = "rendered" /\ d.seen = seen
           /\ LET d == [c EXCEPT !.stage = "rendered"]
              IN  d \in Actions /\ Same(d, c) /\ d.doc = c.doc /\ d.stage = "rendered" /\ d.seen = c.seen
BY DEF Actions, Same

LEMMA ViewTyped == ASSUME NEW table \in Tables PROVE H!View(table) \in SUBSET Views /\ H!Listed(table) \subseteq H!Ids
BY DEF H!View, H!Listed, Views, Tables

\* Three things the service does with an action: it commits a table, it files a document, or it moves on.
Files(p, table) ==
    /\ H!Commits(p, table) /\ table[1].kind = rows[1].kind
    /\ \A i \in H!Ids : table[i].uploaded => rows[i].uploaded \/ (H!Now(p).op = "complete" /\ i = H!Now(p).doc)
    /\ H!Kind # "member" => \A i \in H!Ids : table[i].primary => rows[i].primary \/ H!Now(p).primary

LEMMA CommitCases ==
    ASSUME HouseholdType, NEW p \in H!Pages, queue[p] # <<>>, NEW table \in Tables, H!Kind = "member",
           table[1].kind = rows[1].kind, \A i \in H!Ids : table[i].uploaded => rows[i].uploaded, H!Commit(p, table)
    PROVE  Files(p, table) \/ H!Step(p, [H!Now(p) EXCEPT !.stage = "conflict"])
BY DEF H!Commit, Files

\* A column of a row is written; a row that is not there is left alone.
LEMMA EditedTable ==
    ASSUME rows \in Tables, NEW id \in 0..MaxRows, NEW text \in Nat
    PROVE
         /\ LET table == [rows EXCEPT ![id].gone = TRUE] IN
              /\ table \in Tables /\ table[1].kind = rows[1].kind
              /\ \A i \in H!Ids : /\ table[i].uploaded => rows[i].uploaded
                                  /\ table[i].primary => rows[i].primary
         /\ LET table == [rows EXCEPT ![id].gone = TRUE, ![id].primary = FALSE] IN
              /\ table \in Tables /\ table[1].kind = rows[1].kind
              /\ \A i \in H!Ids : /\ table[i].uploaded => rows[i].uploaded
                                  /\ table[i].primary => rows[i].primary
         /\ LET table == [rows EXCEPT ![id].text = text] IN
              /\ table \in Tables /\ table[1].kind = rows[1].kind
              /\ \A i \in H!Ids : /\ table[i].uploaded => rows[i].uploaded
                                  /\ table[i].primary => rows[i].primary
         /\ LET table == [rows EXCEPT ![id].uploaded = TRUE] IN
              /\ table \in Tables /\ table[1].kind = rows[1].kind
              /\ \A i \in H!Ids : /\ table[i].uploaded => rows[i].uploaded \/ i = id
                                  /\ table[i].primary => rows[i].primary
<1>1. \A i \in H!Ids : rows[i] \in Rows
    BY DEF Tables
<1>2. \A row \in Rows : /\ [row EXCEPT !.gone = TRUE] \in Rows /\ [row EXCEPT !.text = text] \in Rows
                        /\ [row EXCEPT !.uploaded = TRUE] \in Rows
                        /\ [[row EXCEPT !.gone = TRUE] EXCEPT !.primary = FALSE] \in Rows
    BY DEF Rows
<1>3. CASE id \in H!Ids
    <2> DEFINE gone == [rows[id] EXCEPT !.gone = TRUE]
               left == [gone EXCEPT !.primary = FALSE]
               edited == [rows[id] EXCEPT !.text = text]
               given == [rows[id] EXCEPT !.uploaded = TRUE]
    <2>1. /\ [rows EXCEPT ![id].gone = TRUE] = [rows EXCEPT ![id] = gone]
          /\ [rows EXCEPT ![id].text = text] = [rows EXCEPT ![id] = edited]
          /\ [rows EXCEPT ![id].uploaded = TRUE] = [rows EXCEPT ![id] = given]
        OBVIOUS
    <2>2. [rows EXCEPT ![id].gone = TRUE, ![id].primary = FALSE] = [rows EXCEPT ![id] = left]
        BY <1>3 DEF Tables
    <2>3. rows[id] \in Rows
        BY <1>1, <1>3
    <2>4. gone \in Rows /\ left \in Rows /\ edited \in Rows /\ given \in Rows
        BY <1>2, <2>3
    <2>5. /\ gone.kind = rows[id].kind /\ gone.uploaded = rows[id].uploaded
          /\ left.kind = rows[id].kind /\ left.uploaded = rows[id].uploaded
          /\ edited.kind = rows[id].kind /\ edited.uploaded = rows[id].uploaded
          /\ given.kind = rows[id].kind /\ given.primary = rows[id].primary
          /\ gone.primary = rows[id].primary /\ ~left.primary /\ edited.primary = rows[id].primary
        BY <2>3 DEF Rows
    <2> HIDE DEF gone, left, edited, given
    <2>6. ASSUME NEW row \in Rows, row.kind = rows[id].kind
          PROVE  LET table == [rows EXCEPT ![id] = row] IN
                   /\ table \in Tables /\ table[1].kind = rows[1].kind
                   /\ table[id] = row /\ \A i \in H!Ids : i # id => table[i] = rows[i]
        BY <1>3, <2>6, FirstId DEF Tables
    <2>7. ASSUME NEW row \in Rows, row.kind = rows[id].kind, row.uploaded = rows[id].uploaded,
                 row.primary => rows[id].primary
          PROVE  LET table == [rows EXCEPT ![id] = row] IN
                   /\ table \in Tables /\ table[1].kind = rows[1].kind
                   /\ \A i \in H!Ids : /\ table[i].uploaded => rows[i].uploaded
                                       /\ table[i].primary => rows[i].primary
        <3> DEFINE table == [rows EXCEPT ![id] = row]
        <3>1. /\ table \in Tables /\ table[1].kind = rows[1].kind
              /\ table[id] = row /\ \A i \in H!Ids : i # id => table[i] = rows[i]
            BY <2>6, <2>7
        <3> HIDE DEF table
        <3>2. QED
            BY <2>7, <3>1 DEF table
    <2>8. LET table == [rows EXCEPT ![id] = given] IN
            /\ table \in Tables /\ table[1].kind = rows[1].kind
            /\ \A i \in H!Ids : /\ table[i].uploaded => rows[i].uploaded \/ i = id
                                /\ table[i].primary => rows[i].primary
        BY <2>4, <2>5, <2>6
    <2>9. LET table == [rows EXCEPT ![id] = gone] IN
            /\ table \in Tables /\ table[1].kind = rows[1].kind
            /\ \A i \in H!Ids : /\ table[i].uploaded => rows[i].uploaded
                                /\ table[i].primary => rows[i].primary
        BY <2>4, <2>5, <2>7
    <2>10. LET table == [rows EXCEPT ![id] = left] IN
            /\ table \in Tables /\ table[1].kind = rows[1].kind
            /\ \A i \in H!Ids : /\ table[i].uploaded => rows[i].uploaded
                                /\ table[i].primary => rows[i].primary
        BY <2>4, <2>5, <2>7
    <2>11. LET table == [rows EXCEPT ![id] = edited] IN
            /\ table \in Tables /\ table[1].kind = rows[1].kind
            /\ \A i \in H!Ids : /\ table[i].uploaded => rows[i].uploaded
                                /\ table[i].primary => rows[i].primary
        BY <2>4, <2>5, <2>7
    <2>12. QED
        BY <2>1, <2>2, <2>8, <2>9, <2>10, <2>11
<1>4. CASE id \notin H!Ids
    BY <1>4, FirstId DEF Tables
<1>5. QED
    BY <1>3, <1>4

\* An action of the household that the service has not answered yet.
Moving(c) == c.stage \in {"loaded", "demoted", "conflict"} /\ c.op \in {"create", "update"}

LEMMA ServeCases ==
    ASSUME HouseholdType, NEW p \in H!Pages, H!Serve(p)
    PROVE  /\ queue[p] # <<>>
           /\ \/ \E table \in Tables : Files(p, table)
              \/ H!create_document(p)
              \/ \E c \in Actions : /\ H!Step(p, c) /\ Same(c, H!Now(p)) /\ c.doc = H!Now(p).doc
                                    /\ c.seen = H!Now(p).seen /\ Moving(c)
<1>1. queue[p] # <<>>
    BY DEF H!Serve, H!create_party_member, H!update_party_member, H!archive_party_member, H!create_document,
           H!mark_uploaded, H!update_document, H!archive_document, H!create_client_contact,
           H!update_client_contact, H!delete_client_contact, H!create_fact, H!update_fact, H!redact_fact, H!At
<1> DEFINE now == H!Now(p)
           Outcome == \/ \E table \in Tables : Files(p, table)
                      \/ H!create_document(p)
                      \/ \E c \in Actions : /\ H!Step(p, c) /\ Same(c, now) /\ c.doc = now.doc
                                            /\ c.seen = now.seen /\ Moving(c)
<1>2. now \in Actions
    BY <1>1, NowTyped
<1>3. rows \in Tables
    BY DEF HouseholdType
<1>4. H!Primaries(rows) \ {now.id} \in SUBSET H!Ids
    BY <1>3, ViewTyped DEF H!Primaries
<1>5. H!_demote_other_primaries(p) /\ now.op \in {"create", "update"} => Outcome
    <2>1. SUFFICES ASSUME H!_demote_other_primaries(p), now.op \in {"create", "update"}
                   PROVE  \E c \in Actions : /\ H!Step(p, c) /\ Same(c, now) /\ c.doc = now.doc
                                              /\ c.seen = now.seen /\ Moving(c)
        OBVIOUS
    <2> DEFINE set == H!Primaries(rows) \ {now.id}
               c == [now EXCEPT !.stage = "demoted", !.others = set]
    <2>2. H!Step(p, c)
        BY <2>1 DEF H!_demote_other_primaries
    <2>3. set \in SUBSET H!Ids
        BY <1>4
    <2> HIDE DEF now, set
    <2>4. c \in Actions /\ Same(c, now) /\ c.doc = now.doc /\ c.seen = now.seen /\ c.stage = "demoted"
        BY <1>2, <2>3, Demoting
    <2> HIDE DEF c
    <2>5. QED
        BY <2>1, <2>2, <2>4 DEF Moving, Same
<1>6. ASSUME NEW table \in Tables, table[1].kind = rows[1].kind,
             \A i \in H!Ids : table[i].uploaded => rows[i].uploaded, H!Commit(p, table), H!Kind = "member",
             now.op \in {"create", "update"}
      PROVE  Outcome
    <2> DEFINE c == [now EXCEPT !.stage = "conflict"]
    <2>1. Files(p, table) \/ H!Step(p, c)
        BY <1>1, <1>6, CommitCases
    <2> HIDE DEF now
    <2>2. c \in Actions /\ Same(c, now) /\ c.doc = now.doc /\ c.seen = now.seen /\ c.stage = "conflict"
        BY <1>2, Conflicting
    <2> HIDE DEF c
    <2>3. QED
        BY <1>6, <2>1, <2>2 DEF Moving, Same
<1>7. H!create_party_member(p) => Outcome
    <2>1. SUFFICES ASSUME H!create_party_member(p) PROVE Outcome
        OBVIOUS
    <2>2. /\ H!Insert(p) \in Tables /\ H!Insert(p)[1].kind = rows[1].kind
          /\ \A i \in H!Ids : H!Insert(p)[i].uploaded => rows[i].uploaded
        BY <1>1, <2>1, FirstId, InsertRows DEF H!create_party_member
    <2>3. LET table == H!Demoted(p, H!Insert(p)) IN
          /\ table \in Tables /\ table[1].kind = rows[1].kind
          /\ \A i \in H!Ids : table[i].uploaded => rows[i].uploaded
        BY <2>2, FirstId, DemotedRows
    <2>4. QED
        BY <1>5, <1>6, <2>1, <2>2, <2>3 DEF H!create_party_member, H!At
<1>8. H!update_party_member(p) => Outcome
    <2>1. SUFFICES ASSUME H!update_party_member(p) PROVE Outcome
        OBVIOUS
    <2>2. now.op = "update" /\ now.id \in H!Ids
        BY <1>2, <2>1 DEF H!update_party_member, H!At, Actions, H!Ids
    <2>3. /\ H!Written(p) \in Tables /\ H!Written(p)[1].kind = rows[1].kind
          /\ \A i \in H!Ids : H!Written(p)[i].uploaded => rows[i].uploaded
        BY <1>1, <2>2, FirstId, WrittenRows
    <2>4. LET table == H!Demoted(p, H!Written(p)) IN
          /\ table \in Tables /\ table[1].kind = rows[1].kind
          /\ \A i \in H!Ids : table[i].uploaded => rows[i].uploaded
        BY <2>3, FirstId, DemotedRows
    <2>5. rows[now.id] \in Rows
        BY <1>3, <2>2 DEF Tables
    <2> DEFINE c == [now EXCEPT !.stage = "loaded", !.loaded = rows[now.id]]
    <2>6. c \in Actions /\ Same(c, now) /\ c.doc = now.doc /\ c.seen = now.seen /\ c.stage = "loaded"
        <3> HIDE DEF now
        <3>1. QED
            BY <1>2, <2>5, Loading
    <2>7. H!Step(p, c) => Outcome
        <3> HIDE DEF c
        <3>1. QED
            BY <2>2, <2>6 DEF Moving, Same
    <2>8. QED
        BY <1>5, <1>6, <2>1, <2>2, <2>3, <2>4, <2>7 DEF H!update_party_member
<1>9. ASSUME NEW table \in Tables, H!Commits(p, table), table[1].kind = rows[1].kind,
             \A i \in H!Ids : /\ table[i].uploaded => rows[i].uploaded
                              /\ table[i].primary => rows[i].primary \/ now.primary
      PROVE  Outcome
    BY <1>9 DEF Files
<1>10. ASSUME NEW id \in 0..MaxRows
       PROVE
         /\ LET table == [rows EXCEPT ![id].gone = TRUE] IN
              /\ table \in Tables /\ table[1].kind = rows[1].kind
              /\ \A i \in H!Ids : /\ table[i].uploaded => rows[i].uploaded
                                  /\ table[i].primary => rows[i].primary
         /\ LET table == [rows EXCEPT ![id].gone = TRUE, ![id].primary = FALSE] IN
              /\ table \in Tables /\ table[1].kind = rows[1].kind
              /\ \A i \in H!Ids : /\ table[i].uploaded => rows[i].uploaded
                                  /\ table[i].primary => rows[i].primary
         /\ LET table == [rows EXCEPT ![id].text = now.text] IN
              /\ table \in Tables /\ table[1].kind = rows[1].kind
              /\ \A i \in H!Ids : /\ table[i].uploaded => rows[i].uploaded
                                  /\ table[i].primary => rows[i].primary
         /\ LET table == [rows EXCEPT ![id].uploaded = TRUE] IN
              /\ table \in Tables /\ table[1].kind = rows[1].kind
              /\ \A i \in H!Ids : /\ table[i].uploaded => rows[i].uploaded \/ i = id
                                  /\ table[i].primary => rows[i].primary
    <2>1. now.text \in Nat
        BY <1>2 DEF Actions
    <2> HIDE DEF now
    <2>2. QED
        BY <1>3, <2>1, EditedTable
<1>11. now.id \in 0..MaxRows /\ now.doc \in 0..MaxRows
    BY <1>2 DEF Actions
<1>12. H!archive_party_member(p) => Outcome
    BY <1>3, <1>9, <1>10, <1>11 DEF H!archive_party_member
<1>13. H!mark_uploaded(p) => Outcome
    BY <1>10, <1>11 DEF H!mark_uploaded, H!At, Files
<1>14. H!update_document(p) \/ H!archive_document(p) => Outcome
    BY <1>9, <1>10, <1>11 DEF H!update_document, H!archive_document
<1>15. H!update_client_contact(p) \/ H!delete_client_contact(p) => Outcome
    BY <1>9, <1>10, <1>11 DEF H!update_client_contact, H!delete_client_contact
<1>16. H!update_fact(p) \/ H!redact_fact(p) => Outcome
    BY <1>9, <1>10, <1>11 DEF H!update_fact, H!redact_fact
<1>17. H!create_client_contact(p) \/ H!create_fact(p) => Outcome
    BY <1>1, <1>9, FirstId, InsertRows DEF H!create_client_contact, H!create_fact
<1>18. QED
    BY <1>1, <1>7, <1>8, <1>12, <1>13, <1>14, <1>15, <1>16, <1>17 DEF H!Serve

\* What the surfaces come to.
LEMMA ClickCases ==
    ASSUME NEW p \in H!Pages, H!Click(p)
    PROVE  \/ \E i \in H!Ids \cup {0} : H!openForm(p, i)
           \/ \E i \in H!Ids : H!onArchive(p, i)
           \/ \E f \in forms[p] : H!onCancel(p, f) \/ \E ticked \in BOOLEAN : H!submit(p, f, ticked)
           \/ H!Kind = "document" /\ (H!put(p) \/ H!PutAnswered(p))
BY DEF H!Click, H!PartyManager, H!MemberRow, H!ClientPartySection, H!PartyMemberForm, H!DocumentUploadForm,
       H!DocumentRow, H!DocumentMetaForm, H!AddContactForm, H!ContactRow, H!AddDossierFactForm,
       H!AddProfileFactForm, H!AddOsintFactForm, H!FactRow, H!Adds, H!Edits, H!Row, H!Forms

LEMMA AnswerCases ==
    ASSUME NEW p \in H!Pages, H!Answer(p)
    PROVE  H!Rendered(p) \/ H!revalidatePath(p) \/ H!Refused(p) \/ H!NetworkError(p)
BY DEF H!Answer, H!PartyActions, H!ClientPartyActions, H!VaultActions, H!ClientDocumentActions,
       H!ClientContactActions, H!ClientFactActions, H!MyPartyCalls, H!ClientPartyCalls, H!MyDocumentCalls,
       H!ClientDocumentCalls, H!ClientContactCalls, H!DossierFactCalls, H!ProfileFactCalls, H!OsintFactCalls

\* A tab only keeps its own count.
LEMMA TabKeepsPages ==
    ASSUME HouseholdType,
           (\E t \in H!Panels : H!PartyPanel(t)) \/ (\E a \in asks : H!Trip(a))
    PROVE  /\ UNCHANGED <<rows, stored, shown, forms, queue, uploads>>
           /\ clicks' = clicks \/ \E t \in H!Panels : clicks' = Append(clicks, t)
<1>1. ASSUME NEW t \in H!Panels, H!PartyPanel(t)
      PROVE  UNCHANGED <<rows, stored, shown, forms, queue, uploads>> /\ clicks' = Append(clicks, t)
    BY <1>1 DEF H!PartyPanel, H!refresh, H!attach, H!detach, H!Change, H!Ask, H!browser
<1>2. ASSUME NEW a \in asks, H!Trip(a)
      PROVE  UNCHANGED <<rows, stored, shown, forms, queue, uploads, clicks>>
    BY <1>2 DEF H!Trip, H!attach_member_to_itinerary, H!detach_member_from_itinerary, H!list_itinerary_party,
                H!Answers, H!Adopt, H!LoseAsk, H!browser
<1>3. QED
    BY <1>1, <1>2

\* A click fills in the blank of an action.
Blanks == [op : {"none"}, id : {0}, doc : {0}, text : Nat, primary : {FALSE}, ticked : {FALSE}, stage : {"sent"},
           loaded : Rows, others : {{}}, seen : {{}}]

LEMMA NoCallBlank == H!NoCall \in Blanks
BY NoRowTyped DEF H!NoCall, Blanks

LEMMA SubmitAction ==
    ASSUME HouseholdType, NEW p \in H!Pages, NEW f \in forms[p], NEW ticked \in BOOLEAN, H!submit(p, f, ticked)
    PROVE  \E c \in Actions :
             /\ queue' = [queue EXCEPT ![p] = Append(@, c)]
             /\ c.op = (IF f.id # 0 THEN "update" ELSE IF H!Kind = "document" THEN "init" ELSE "create")
             /\ c.id = f.id /\ c.primary = (f.primary # ticked) /\ c.ticked = ticked /\ c.stage = "sent" /\ c.seen = {}
<1> DEFINE op == IF f.id # 0 THEN "update" ELSE IF H!Kind = "document" THEN "init" ELSE "create"
           primary == f.primary # ticked
           text == Len(clicks) + 1
           id == f.id
           blank == H!NoCall
           c == [[blank EXCEPT !.op = op, !.id = id, !.primary = primary, !.ticked = ticked] EXCEPT !.text = text]
<1>1. queue' = [queue EXCEPT ![p] = Append(@, c)]
    BY DEF H!submit, H!Clicks
<1>2. id \in 0..MaxRows /\ primary \in BOOLEAN /\ text \in Nat
    BY DEF HouseholdType
<1>3. op \in Submits /\ (op = "update" => id # 0)
    BY DEF Submits
<1>4. blank \in Blanks /\ 0 \in 0..MaxRows
    BY NoCallBlank, BoundsAssumption
<1> HIDE DEF op, primary, text, id, blank
<1>5. /\ c \in Actions /\ c.op = op /\ c.id = id /\ c.primary = primary /\ c.ticked = ticked
      /\ c.stage = "sent" /\ c.seen = {}
    BY <1>2, <1>3, <1>4 DEF Blanks, Actions, Submits
<1> HIDE DEF c
<1>6. QED
    BY <1>1, <1>5 DEF op, primary, id

LEMMA ArchiveAction ==
    ASSUME HouseholdType, NEW p \in H!Pages, NEW i \in H!Ids, H!onArchive(p, i)
    PROVE  \E c \in Actions :
             /\ queue' = [queue EXCEPT ![p] = Append(@, c)]
             /\ c.op = "remove" /\ c.id = i /\ ~c.primary /\ ~c.ticked /\ c.stage = "sent" /\ c.seen = {}
<1> DEFINE text == Len(clicks) + 1
           blank == H!NoCall
           c == [[blank EXCEPT !.op = "remove", !.id = i] EXCEPT !.text = text]
<1>1. queue' = [queue EXCEPT ![p] = Append(@, c)]
    BY DEF H!onArchive, H!Clicks
<1>2. i \in 0..MaxRows /\ i # 0 /\ text \in Nat
    BY DEF HouseholdType, H!Ids
<1>3. blank \in Blanks /\ 0 \in 0..MaxRows
    BY NoCallBlank, BoundsAssumption
<1> HIDE DEF text, blank
<1>4. c \in Actions /\ c.op = "remove" /\ c.id = i /\ ~c.primary /\ ~c.ticked /\ c.stage = "sent" /\ c.seen = {}
    BY <1>2, <1>3 DEF Blanks, Actions, Submits
<1> HIDE DEF c
<1>5. QED
    BY <1>1, <1>4

LEMMA UploadAction ==
    ASSUME HouseholdType, NEW p \in H!Pages, H!PutAnswered(p)
    PROVE  /\ uploads[p] # 0 /\ uploads' = [uploads EXCEPT ![p] = 0]
           /\ UNCHANGED <<rows, trip, shown, forms, panel, asks, clicks>>
           /\ \/ \E c \in Actions :
                   /\ queue' = [queue EXCEPT ![p] = Append(@, c)]
                   /\ c.op = "complete" /\ c.id = 0 /\ c.doc = uploads[p] /\ ~c.primary /\ c.stage = "sent" /\ c.seen = {}
                   /\ stored' = stored \cup {uploads[p]}
              \/ UNCHANGED <<queue, stored>> /\ troubles' = troubles \cup {"partway"}
<1> DEFINE doc == uploads[p]
           blank == H!NoCall
           c == [blank EXCEPT !.op = "complete", !.doc = doc]
<1>1. /\ doc # 0 /\ uploads' = [uploads EXCEPT ![p] = 0]
      /\ UNCHANGED <<rows, trip, shown, forms, panel, asks, clicks>>
      /\ \/ queue' = [queue EXCEPT ![p] = Append(@, c)] /\ stored' = stored \cup {doc}
         \/ UNCHANGED <<queue, stored>> /\ troubles' = troubles \cup {"partway"}
    BY DEF H!PutAnswered, H!Uploaded, H!browser, H!tabs
<1>2. doc \in 0..MaxRows
    BY DEF HouseholdType
<1>3. blank \in Blanks /\ 0 \in 0..MaxRows
    BY NoCallBlank, BoundsAssumption
<1> HIDE DEF doc, blank
<1>4. c \in Actions /\ c.op = "complete" /\ c.id = 0 /\ c.doc = doc /\ ~c.primary /\ c.stage = "sent" /\ c.seen = {}
    BY <1>2, <1>3 DEF Blanks, Actions, Submits
<1> HIDE DEF c
<1>5. QED
    BY <1>1, <1>4 DEF doc

\* Types, step by step.
LEMMA ClickKeepsType ==
    ASSUME HouseholdType, NEW p \in H!Pages, H!Click(p)
    PROVE  HouseholdType'
<1>1. ASSUME NEW i \in H!Ids \cup {0}, H!openForm(p, i) PROVE HouseholdType'
    <2>1. H!fromMember(p, i) \in [id : 0..MaxRows, primary : BOOLEAN]
        BY BoundsAssumption DEF H!fromMember, H!Ids
    <2>2. /\ UNCHANGED <<rows, shown, queue, uploads, clicks>>
          /\ forms' = [forms EXCEPT ![p] = @ \cup {H!fromMember(p, i)}]
        BY <1>1 DEF H!openForm
    <2>3. QED
        BY <2>1, <2>2 DEF HouseholdType
<1>2. ASSUME NEW c \in Actions, queue' = [queue EXCEPT ![p] = Append(@, c)], clicks' = Append(clicks, p),
             UNCHANGED <<rows, shown, forms, uploads>>
      PROVE  HouseholdType'
    BY <1>2, PushQueue DEF HouseholdType
<1>3. ASSUME NEW i \in H!Ids, H!onArchive(p, i) PROVE HouseholdType'
    <2>1. clicks' = Append(clicks, p) /\ UNCHANGED <<rows, shown, forms, uploads>>
        BY <1>3 DEF H!onArchive, H!Clicks
    <2>2. QED
        BY <1>2, <1>3, <2>1, ArchiveAction
<1>4. ASSUME NEW f \in forms[p], NEW ticked \in BOOLEAN, H!submit(p, f, ticked) PROVE HouseholdType'
    <2>1. clicks' = Append(clicks, p) /\ UNCHANGED <<rows, shown, forms, uploads>>
        BY <1>4 DEF H!submit, H!Clicks
    <2>2. QED
        BY <1>2, <1>4, <2>1, SubmitAction
<1>5. ASSUME NEW f \in forms[p], H!onCancel(p, f) PROVE HouseholdType'
    BY <1>5 DEF H!onCancel, HouseholdType
<1>6. ASSUME H!put(p) PROVE HouseholdType'
    <2>1. queue[p] # <<>> /\ queue' = [queue EXCEPT ![p] = Tail(@)]
        BY <1>6 DEF H!put, H!At
    <2>2. uploads' = [uploads EXCEPT ![p] = H!Now(p).doc] /\ UNCHANGED <<rows, shown, forms, clicks>>
        BY <1>6 DEF H!put, H!browser
    <2>3. H!Now(p).doc \in 0..MaxRows
        BY <2>1, NowTyped DEF Actions
    <2>4. QED
        BY <2>1, <2>2, <2>3, PopQueue DEF HouseholdType
<1>7. ASSUME H!PutAnswered(p) PROVE HouseholdType'
    <2>1. uploads' = [uploads EXCEPT ![p] = 0] /\ UNCHANGED <<rows, shown, forms, clicks>>
        BY <1>7, UploadAction
    <2>2. queue' \in [H!Pages -> Seq(Actions)]
        <3>1. queue' = queue \/ \E c \in Actions : queue' = [queue EXCEPT ![p] = Append(@, c)]
            BY <1>7, UploadAction
        <3>2. QED
            BY <3>1, PushQueue DEF HouseholdType
    <2>3. 0 \in 0..MaxRows
        BY BoundsAssumption
    <2>4. uploads' \in [H!Pages -> 0..MaxRows]
        BY <2>1, <2>3 DEF HouseholdType
    <2>5. QED
        BY <2>1, <2>2, <2>4 DEF HouseholdType
<1>8. QED
    BY <1>1, <1>3, <1>4, <1>5, <1>6, <1>7, ClickCases

LEMMA FilesStep ==
    ASSUME HouseholdType, NEW p \in H!Pages, queue[p] # <<>>, NEW table \in Tables, Files(p, table)
    PROVE  \E c \in Actions :
             /\ Same(c, H!Now(p)) /\ c.doc = H!Now(p).doc /\ c.stage = "ok" /\ c.seen = H!Now(p).seen /\ H!Stage(p, c)
             /\ rows' = table
             /\ UNCHANGED <<stored, trip, shown, forms, uploads, panel, asks, clicks, troubles>>
<1> DEFINE now == H!Now(p)
           c == [now EXCEPT !.stage = "ok", !.loaded = H!NoRow, !.others = {}]
<1>1. /\ H!Stage(p, c) /\ rows' = table
      /\ UNCHANGED <<stored, trip, shown, forms, uploads, panel, asks, clicks, troubles>>
    BY DEF Files, H!Commits, H!browser, H!tabs
<1>2. now \in Actions
    BY NowTyped
<1> HIDE DEF now
<1>3. c \in Actions /\ Same(c, now) /\ c.doc = now.doc /\ c.stage = "ok" /\ c.seen = now.seen
    BY <1>2, Accepted
<1> HIDE DEF c
<1>4. QED
    BY <1>1, <1>3 DEF now

LEMMA DocumentStep ==
    ASSUME HouseholdType, NEW p \in H!Pages, H!create_document(p)
    PROVE  /\ rows' = H!Insert(p) /\ H!Free # {} /\ queue[p] # <<>> /\ H!Now(p).op = "init"
           /\ UNCHANGED <<stored, trip, shown, forms, uploads, panel, asks, clicks, troubles>>
           /\ \E c \in Actions : Same(c, H!Now(p)) /\ c.doc = H!NextId /\ c.stage = "ok" /\ c.seen = H!Now(p).seen /\ H!Stage(p, c)
<1> DEFINE now == H!Now(p)
           doc == H!NextId
           c == [now EXCEPT !.stage = "ok", !.doc = doc]
<1>1. /\ H!Stage(p, c) /\ rows' = H!Insert(p) /\ H!Free # {} /\ queue[p] # <<>> /\ now.op = "init"
      /\ UNCHANGED <<stored, trip, shown, forms, uploads, panel, asks, clicks, troubles>>
    BY DEF H!create_document, H!At, H!browser, H!tabs
<1>2. now \in Actions /\ doc \in H!Ids
    BY <1>1, NowTyped, NextIdFree DEF H!Free
<1> HIDE DEF now, doc
<1>3. c \in Actions /\ Same(c, now) /\ c.doc = doc /\ c.stage = "ok" /\ c.seen = now.seen
    BY <1>2, Filed
<1> HIDE DEF c
<1>4. QED
    BY <1>1, <1>3 DEF now, doc

LEMMA ServeKeepsType ==
    ASSUME HouseholdType, NEW p \in H!Pages, H!Serve(p)
    PROVE  HouseholdType' /\ rows'[1].kind = rows[1].kind
<1>1. queue[p] # <<>>
    BY ServeCases
<1>2. ASSUME NEW table \in Tables, Files(p, table) PROVE HouseholdType' /\ rows'[1].kind = rows[1].kind
    <2>1. table[1].kind = rows[1].kind
        BY <1>2 DEF Files
    <2>2. PICK c \in Actions : H!Stage(p, c) /\ rows' = table /\ UNCHANGED <<shown, forms, uploads, clicks>>
        BY <1>1, <1>2, FilesStep
    <2>3. QED
        BY <1>1, <2>1, <2>2, StageQueue DEF HouseholdType
<1>3. ASSUME H!create_document(p) PROVE HouseholdType' /\ rows'[1].kind = rows[1].kind
    <2>1. rows' = H!Insert(p) /\ H!Free # {} /\ UNCHANGED <<shown, forms, uploads, clicks>>
        BY <1>3, DocumentStep
    <2>2. PICK c \in Actions : H!Stage(p, c)
        BY <1>3, DocumentStep
    <2>3. rows' \in Tables /\ rows'[1] = rows[1]
        BY <1>1, <2>1, InsertRows, FirstId
    <2>4. QED
        BY <1>1, <2>1, <2>2, <2>3, StageQueue DEF HouseholdType
<1>4. ASSUME NEW c \in Actions, H!Step(p, c) PROVE HouseholdType' /\ rows'[1].kind = rows[1].kind
    <2>1. H!Stage(p, c) /\ UNCHANGED <<rows, shown, forms, uploads, clicks>>
        BY <1>4 DEF H!Step, H!browser
    <2>2. QED
        BY <1>1, <2>1, StageQueue DEF HouseholdType
<1>5. QED
    BY <1>2, <1>3, <1>4, ServeCases

\* What a page has been rendered afresh with.
LEMMA RerenderStep ==
    ASSUME HouseholdType, NEW p \in H!Pages, H!revalidatePath(p)
    PROVE  /\ queue[p] # <<>> /\ H!Now(p).stage = "ok" /\ H!Now(p).op # "init"
           /\ UNCHANGED <<rows, stored, trip, shown, forms, uploads, panel, asks, clicks>>
           /\ \E c \in Actions : /\ Same(c, H!Now(p)) /\ c.doc = H!Now(p).doc /\ c.stage = "rendered" /\ H!Stage(p, c)
                                 /\ \/ c.seen = H!View(rows) /\ troubles' = troubles
                                    \/ c.seen = H!Now(p).seen /\ troubles' = troubles \cup {"unread"}
<1> DEFINE now == H!Now(p)
           seen == H!View(rows)
           c == [now EXCEPT !.stage = "rendered", !.seen = seen]
           d == [now EXCEPT !.stage = "rendered"]
<1>1. /\ queue[p] # <<>> /\ now.stage = "ok" /\ now.op # "init"
      /\ UNCHANGED <<rows, stored, trip, shown, forms, uploads, panel, asks, clicks>>
      /\ (H!Stage(p, c) /\ troubles' = troubles) \/ (H!Stage(p, d) /\ troubles' = troubles \cup {"unread"})
    BY DEF H!revalidatePath, H!Rerender, H!Step, H!browser, H!tabs
<1>2. now \in Actions /\ seen \in SUBSET Views
    BY <1>1, NowTyped, ViewTyped DEF HouseholdType
<1> HIDE DEF now, seen
<1>3. /\ c \in Actions /\ Same(c, now) /\ c.doc = now.doc /\ c.stage = "rendered" /\ c.seen = seen
      /\ d \in Actions /\ Same(d, now) /\ d.doc = now.doc /\ d.stage = "rendered" /\ d.seen = now.seen
    BY <1>2, Rendering
<1> HIDE DEF c, d
<1>4. QED
    BY <1>1, <1>3 DEF now, seen

LEMMA AnswerKeepsType ==
    ASSUME HouseholdType, NEW p \in H!Pages, H!Answer(p)
    PROVE  HouseholdType' /\ rows' = rows
<1>1. ASSUME H!revalidatePath(p) PROVE HouseholdType' /\ rows' = rows
    <2>1. queue[p] # <<>> /\ UNCHANGED <<rows, shown, forms, uploads, clicks>>
        BY <1>1, RerenderStep
    <2>2. PICK c \in Actions : H!Stage(p, c)
        BY <1>1, RerenderStep
    <2>3. QED
        BY <2>1, <2>2, StageQueue DEF HouseholdType
<1>2. ASSUME H!Refused(p) \/ H!NetworkError(p) PROVE HouseholdType' /\ rows' = rows
    <2>1. queue[p] # <<>> /\ queue' = [queue EXCEPT ![p] = Tail(@)] /\ UNCHANGED <<rows, shown, forms, uploads, clicks>>
        BY <1>2 DEF H!Refused, H!NetworkError, H!Answered, H!browser
    <2>2. QED
        BY <2>1, PopQueue DEF HouseholdType
<1>3. ASSUME H!Rendered(p) PROVE HouseholdType' /\ rows' = rows
    <2>1. /\ queue[p] # <<>> /\ queue' = [queue EXCEPT ![p] = Tail(@)] /\ UNCHANGED <<rows, uploads, clicks>>
          /\ shown' = [shown EXCEPT ![p] = H!Now(p).seen]
          /\ forms' = [forms EXCEPT ![p] =
                {f \in @ : f.id # H!Now(p).id /\ (f.id = 0 \/ \E v \in H!Now(p).seen : v.id = f.id)}]
        BY <1>3 DEF H!Rendered
    <2>2. H!Now(p).seen \in SUBSET Views
        BY <2>1, NowTyped DEF Actions
    <2>3. QED
        BY <2>1, <2>2, PopQueue DEF HouseholdType
<1>4. QED
    BY <1>1, <1>2, <1>3, AnswerCases

LEMMA StepKeepsType == HouseholdType /\ [H!Next]_household => HouseholdType' /\ rows'[1].kind = rows[1].kind
<1> SUFFICES ASSUME HouseholdType, [H!Next]_household PROVE HouseholdType' /\ rows'[1].kind = rows[1].kind
    OBVIOUS
<1>1. CASE UNCHANGED household
    BY <1>1 DEF household, HouseholdType
<1>2. ASSUME NEW p \in H!Pages, H!Click(p) PROVE HouseholdType' /\ rows'[1].kind = rows[1].kind
    <2>1. rows' = rows
        BY <1>2, ClickCases, UploadAction DEF H!openForm, H!onArchive, H!onCancel, H!submit, H!Clicks, H!put
    <2>2. QED
        BY <1>2, <2>1, ClickKeepsType
<1>3. ASSUME (\E t \in H!Panels : H!PartyPanel(t)) \/ (\E a \in asks : H!Trip(a))
      PROVE  HouseholdType' /\ rows'[1].kind = rows[1].kind
    <2>1. /\ UNCHANGED <<rows, shown, forms, queue, uploads>>
          /\ clicks' = clicks \/ \E t \in H!Panels : clicks' = Append(clicks, t)
        BY <1>3, TabKeepsPages
    <2>2. clicks' \in Seq(H!Pages \cup H!Panels)
        <3> DEFINE S == H!Pages \cup H!Panels
        <3>1. clicks \in Seq(S)
            BY DEF HouseholdType
        <3>2. clicks' = clicks \/ \E t \in S : clicks' = Append(clicks, t)
            BY <2>1
        <3> HIDE DEF S
        <3>3. clicks' \in Seq(S)
            BY <3>1, <3>2
        <3>4. QED
            BY <3>3 DEF S
    <2>3. QED
        BY <2>1, <2>2 DEF HouseholdType
<1>4. QED
    BY <1>1, <1>2, <1>3, ServeKeepsType, AnswerKeepsType DEF H!Next

LEMMA InitType == H!Init => HouseholdType
<1> SUFFICES ASSUME H!Init PROVE HouseholdType
    OBVIOUS
<1>1. PICK kind \in {"member", "document", "contact"} \cup H!Tiers, primary \in BOOLEAN :
          /\ primary => kind = "member"
          /\ rows = [i \in H!Ids |-> IF i = 1 \/ (i = 2 /\ kind = "member")
                                     THEN [H!NoRow EXCEPT !.kind = kind, !.primary = primary /\ i = 1, !.uploaded = kind = "document"]
                                     ELSE H!NoRow]
    BY DEF H!Init
<1>2. \A i \in H!Ids : [H!NoRow EXCEPT !.kind = kind, !.primary = primary /\ i = 1, !.uploaded = kind = "document"] \in Rows
    BY <1>1 DEF H!NoRow, Rows, Kinds
<1>3. rows \in Tables
    BY <1>1, <1>2, NoRowTyped DEF Tables
<1>4. rows[1].kind # "none"
    BY <1>1, FirstId DEF H!NoRow, H!Tiers
<1>5. H!View(rows) \in SUBSET Views
    BY <1>3, ViewTyped
<1>6. /\ shown = [p \in H!Pages |-> IF H!Sees(p) THEN H!View(rows) ELSE {}] /\ forms = [p \in H!Pages |-> {}]
      /\ queue = [p \in H!Pages |-> <<>>] /\ uploads = [p \in H!Pages |-> 0] /\ clicks = <<>>
    BY DEF H!Init
<1>7. shown \in [H!Pages -> SUBSET Views]
    BY <1>5, <1>6
<1>8. uploads \in [H!Pages -> 0..MaxRows]
    BY <1>6, BoundsAssumption
<1>9. queue \in [H!Pages -> Seq(Actions)] /\ clicks \in Seq(H!Pages \cup H!Panels)
    BY <1>6
<1>10. forms \in [H!Pages -> SUBSET [id : 0..MaxRows, primary : BOOLEAN]]
    BY <1>6
<1>11. QED
    BY <1>3, <1>4, <1>7, <1>8, <1>9, <1>10 DEF HouseholdType

-----------------------------------------------------------------------------
(* The vault: a document is only confirmed once its bytes have arrived.      *)

\* What is on file has its bytes, and so has a document a confirmation is queued for.
BytesFirst ==
    /\ \A i \in H!Ids : rows[i].uploaded => i \in stored
    /\ \A p \in H!Pages : \A k \in 1..Len(queue[p]) : queue[p][k].op = "complete" => queue[p][k].doc \in stored

\* The first action of a page moves on: its row is written with what it names.
LEMMA StagedBytes ==
    ASSUME HouseholdType, BytesFirst, NEW p \in H!Pages, queue[p] # <<>>, NEW c \in Actions, H!Stage(p, c),
           c.op = H!Now(p).op, c.op = "complete" => c.doc = H!Now(p).doc, UNCHANGED stored
    PROVE  \A q \in H!Pages : \A k \in 1..Len(queue'[q]) : queue'[q][k].op = "complete" => queue'[q][k].doc \in stored'
<1>1. H!Now(p).op = "complete" => H!Now(p).doc \in stored
    BY NowTyped DEF BytesFirst, H!Now
<1>2. QED
    BY <1>1, StageQueue DEF BytesFirst

LEMMA StepKeepsBytesFirst == HouseholdType /\ BytesFirst /\ [H!Next]_household => BytesFirst'
<1> SUFFICES ASSUME HouseholdType, BytesFirst, [H!Next]_household PROVE BytesFirst'
    OBVIOUS
<1>1. CASE UNCHANGED household
    BY <1>1 DEF household, BytesFirst
<1>2. ASSUME NEW p \in H!Pages, queue[p] # <<>>, queue' = [queue EXCEPT ![p] = Tail(@)], UNCHANGED <<rows, stored>>
      PROVE  BytesFirst'
    BY <1>2, PopQueue DEF BytesFirst
<1>3. ASSUME NEW p \in H!Pages, NEW c \in Actions, queue' = [queue EXCEPT ![p] = Append(@, c)], UNCHANGED rows,
             stored \subseteq stored', c.op = "complete" => c.doc \in stored'
      PROVE  BytesFirst'
    BY <1>3, PushQueue DEF BytesFirst
<1>4. CASE UNCHANGED <<rows, stored, queue>>
    BY <1>4 DEF BytesFirst
<1>5. ASSUME NEW p \in H!Pages, H!Click(p) PROVE BytesFirst'
    <2>1. ASSUME NEW i \in H!Ids, H!onArchive(p, i) PROVE BytesFirst'
        <3>1. UNCHANGED <<rows, stored>>
            BY <2>1 DEF H!onArchive, H!Clicks
        <3>2. PICK c \in Actions : queue' = [queue EXCEPT ![p] = Append(@, c)] /\ c.op = "remove"
            BY <2>1, ArchiveAction
        <3>3. QED
            BY <1>3, <3>1, <3>2
    <2>2. ASSUME NEW f \in forms[p], NEW ticked \in BOOLEAN, H!submit(p, f, ticked) PROVE BytesFirst'
        <3>1. UNCHANGED <<rows, stored>>
            BY <2>2 DEF H!submit, H!Clicks
        <3>2. PICK c \in Actions : queue' = [queue EXCEPT ![p] = Append(@, c)] /\ c.op # "complete"
            BY <2>2, SubmitAction
        <3>3. QED
            BY <1>3, <3>1, <3>2
    <2>3. ASSUME H!PutAnswered(p) PROVE BytesFirst'
        <3>1. CASE UNCHANGED <<queue, stored>>
            BY <1>4, <2>3, <3>1, UploadAction
        <3>2. ASSUME NEW c \in Actions, queue' = [queue EXCEPT ![p] = Append(@, c)], c.doc = uploads[p],
                     stored' = stored \cup {uploads[p]}
              PROVE  BytesFirst'
            BY <1>3, <2>3, <3>2, UploadAction
        <3>3. QED
            BY <2>3, <3>1, <3>2, UploadAction
    <2>4. H!put(p) => BytesFirst'
        BY <1>2 DEF H!put, H!At
    <2>5. (\E i \in H!Ids \cup {0} : H!openForm(p, i)) \/ (\E f \in forms[p] : H!onCancel(p, f)) => BytesFirst'
        BY <1>4 DEF H!openForm, H!onCancel
    <2>6. QED
        BY <1>5, <2>1, <2>2, <2>3, <2>4, <2>5, ClickCases
<1>6. ASSUME NEW p \in H!Pages, H!Serve(p) PROVE BytesFirst'
    <2>1. queue[p] # <<>>
        BY <1>6, ServeCases
    <2>2. ASSUME NEW table \in Tables, Files(p, table) PROVE BytesFirst'
        <3>1. PICK c \in Actions : /\ Same(c, H!Now(p)) /\ c.doc = H!Now(p).doc /\ H!Stage(p, c)
                                   /\ rows' = table /\ UNCHANGED stored
            BY <2>1, <2>2, FilesStep
        <3>2. \A i \in H!Ids : rows'[i].uploaded => i \in stored
            BY <2>1, <2>2, <3>1, NowTyped DEF Files, BytesFirst, H!Now
        <3>3. QED
            BY <2>1, <3>1, <3>2, StagedBytes DEF BytesFirst, Same
    <2>3. ASSUME H!create_document(p) PROVE BytesFirst'
        <3>1. rows' = H!Insert(p) /\ H!Free # {} /\ H!Now(p).op = "init" /\ UNCHANGED stored
            BY <2>3, DocumentStep
        <3>2. PICK c \in Actions : Same(c, H!Now(p)) /\ H!Stage(p, c)
            BY <2>3, DocumentStep
        <3>3. \A i \in H!Ids : rows'[i].uploaded => i \in stored
            BY <2>1, <3>1, InsertRows DEF BytesFirst
        <3>4. QED
            BY <2>1, <3>1, <3>2, <3>3, StagedBytes DEF BytesFirst, Same
    <2>4. ASSUME NEW c \in Actions, H!Step(p, c), Same(c, H!Now(p)), c.doc = H!Now(p).doc PROVE BytesFirst'
        BY <2>1, <2>4, StagedBytes DEF BytesFirst, Same, H!Step
    <2>5. QED
        BY <1>6, <2>2, <2>3, <2>4, ServeCases
<1>7. ASSUME NEW p \in H!Pages, H!Answer(p) PROVE BytesFirst'
    <2>1. H!revalidatePath(p) => BytesFirst'
        <3>1. SUFFICES ASSUME H!revalidatePath(p) PROVE BytesFirst'
            OBVIOUS
        <3>2. queue[p] # <<>> /\ UNCHANGED <<rows, stored>>
            BY <3>1, RerenderStep
        <3>3. PICK c \in Actions : Same(c, H!Now(p)) /\ c.doc = H!Now(p).doc /\ H!Stage(p, c)
            BY <3>1, RerenderStep
        <3>4. QED
            BY <3>2, <3>3, StagedBytes DEF BytesFirst, Same
    <2>2. H!Rendered(p) \/ H!Refused(p) \/ H!NetworkError(p) => BytesFirst'
        BY <1>2 DEF H!Rendered, H!Refused, H!NetworkError, H!Answered
    <2>3. QED
        BY <1>7, <2>1, <2>2, AnswerCases
<1>8. ASSUME (\E t \in H!Panels : H!PartyPanel(t)) \/ (\E a \in asks : H!Trip(a)) PROVE BytesFirst'
    BY <1>4, <1>8, TabKeepsPages
<1>9. QED
    BY <1>1, <1>5, <1>6, <1>7, <1>8 DEF H!Next

LEMMA PagesStepsHousehold == PagesNext => [H!Next]_household
BY DEF PagesNext, BoardStep, HouseholdStep, MoneyStep, RosterStep, IntakeStep

\* Only a record of a document says that its bytes are there, and the first one's are.
LEMMA InitBytesFirst == H!Init => BytesFirst
<1> SUFFICES ASSUME H!Init PROVE BytesFirst
    OBVIOUS
<1>1. PICK kind \in {"member", "document", "contact"} \cup H!Tiers, primary \in BOOLEAN :
          rows = [i \in H!Ids |-> IF i = 1 \/ (i = 2 /\ kind = "member")
                                  THEN [H!NoRow EXCEPT !.kind = kind, !.primary = primary /\ i = 1, !.uploaded = kind = "document"]
                                  ELSE H!NoRow]
    BY DEF H!Init
<1>2. rows[1].kind = kind /\ \A i \in H!Ids : rows[i].uploaded => kind = "document" /\ i = 1
    BY <1>1, FirstId DEF H!NoRow
<1>3. kind = "document" => 1 \in H!Listed(rows)
    BY <1>1, FirstId DEF H!NoRow, H!Listed
<1>4. stored = (IF H!Kind = "document" THEN H!Listed(rows) ELSE {}) /\ queue = [p \in H!Pages |-> <<>>]
    BY DEF H!Init
<1>5. QED
    BY <1>2, <1>3, <1>4 DEF H!Kind, BytesFirst

\* A document that reads as uploaded has its bytes in the bucket, whatever fails, is lost or is renamed and archived
\* meanwhile, although the service only takes the page's word.
THEOREM PagesUploadedHasBytes == PagesSpec => []UploadedHasBytes
<1>1. PagesInit => HouseholdType /\ BytesFirst
    BY InitType, InitBytesFirst DEF PagesInit
<1>2. HouseholdType /\ BytesFirst /\ [PagesNext]_all => HouseholdType' /\ BytesFirst'
    BY PagesStepsHousehold, StepKeepsType, StepKeepsBytesFirst DEF all
<1>3. BytesFirst => UploadedHasBytes
    BY DEF BytesFirst, UploadedHasBytes, H!UploadedHasBytes
<1>4. QED
    BY <1>1, <1>2, <1>3, PTL DEF PagesSpec

-----------------------------------------------------------------------------
(* The primary slot: on a page used alone a form's box says who holds it.    *)

\* Only members have a primary.
NoPrimary ==
    H!Kind # "member" =>
      /\ \A i \in H!Ids : ~rows[i].primary
      /\ \A p \in H!Pages : \A v \in shown[p] : ~v.row.primary
      /\ \A p \in H!Pages : \A f \in forms[p] : ~f.primary
      /\ \A p \in H!Pages : \A k \in 1..Len(queue[p]) : /\ ~queue[p][k].primary
                                                       /\ \A v \in queue[p][k].seen : ~v.row.primary

OnePrimary == H!Kind = "member" => \A i, j \in H!Primaries(rows) : i = j

\* No other page has been clicked.
Alone(p) == \A k \in 1..Len(clicks) : clicks[k] \notin H!Pages \ {p}

InUse(p) == queue[p] # <<>> => Alone(p) /\ \E k \in 1..Len(clicks) : clicks[k] = p

\* The page's first action is done, and when it was a form's that changed what the others show.
Landed(p) == queue[p] # <<>> /\ H!Now(p).stage \in {"ok", "rendered"}
Changing(p) == Landed(p) /\ H!Now(p).op # "remove"

Holds(table, i) == i # 0 /\ table[i].primary

\* Each record is named by one action at most; a form stays until its own is answered, and the box it was
\* submitted with, unless ticked over, says whether the record holds the slot.
Box(c) ==
    /\ c.op # "remove" /\ ~c.ticked /\ c.stage \in {"sent", "loaded", "demoted"} => c.primary = Holds(rows, c.id)
    /\ c.op = "update" /\ c.stage \in {"loaded", "demoted"} => c.loaded.primary = Holds(rows, c.id)
    /\ c.stage = "demoted" => c.ticked \/ (c.primary /\ c.others = {})
    /\ c.stage = "rendered" => c.seen = H!View(rows)

Named(p, c) ==
    /\ c.op \in {"create", "update", "remove"}
    /\ c.op = "create" <=> c.id = 0
    /\ c.op # "remove" <=> \E f \in forms[p] : f.id = c.id

Queued(p) ==
    /\ \A k \in 1..Len(queue[p]) : Box(queue[p][k]) /\ Named(p, queue[p][k]) /\ (k # 1 => queue[p][k].stage = "sent")
    /\ \A k, l \in 1..Len(queue[p]) : queue[p][k].id = queue[p][l].id => k = l

OneForm(p) ==
    /\ \A f, g \in forms[p] : f = g
    /\ \A f \in forms[p] : f.id = 0 => ~f.primary
    /\ \A f \in forms[p] : f.id # 0 => f.id \in H!Listed(rows) /\ (f.primary = rows[f.id].primary \/ Changing(p))

Fresh(p) ==
    \A v \in shown[p] : \/ v.id \in H!Listed(rows) /\ (v.row.primary = rows[v.id].primary \/ Changing(p))
                        \/ Landed(p) /\ H!Now(p).id = v.id

Boxes(p) == Queued(p) /\ OneForm(p) /\ Fresh(p)

\* Without troubles, a page is used alone while it waits, and its boxes say who holds the slot.
MemberInv ==
    troubles = {} /\ H!Kind = "member" =>
       /\ \A p \in H!Pages : InUse(p)
       /\ \A p \in H!Pages : Alone(p) => Boxes(p)

-----------------------------------------------------------------------------

LEMMA HouseholdCardinality == ASSUME NEW S PROVE H!Cardinality(S) = Cardinality(S)
BY DEF H!Cardinality, Cardinality, H!IsFiniteSet, IsFiniteSet

LEMMA AtMostOne ==
    ASSUME NEW S \in SUBSET H!Ids, H!Cardinality(S) <= 1
    PROVE  \A i, j \in S : i = j
<1>1. IsFiniteSet(H!Ids)
    BY FS_Interval, BoundsAssumption DEF H!Ids
<1>2. IsFiniteSet(S) /\ Cardinality(S) \in Nat
    BY <1>1, FS_Subset, FS_CardinalityType
<1>3. Cardinality(S) = 0 \/ Cardinality(S) = 1
    BY <1>2, HouseholdCardinality
<1>4. S = {} \/ \E x : S = {x}
    BY <1>2, <1>3, FS_EmptySet, FS_Singleton
<1>5. QED
    BY <1>4

\* What the service does with an action on a member.
Progress(p, c) ==
    /\ H!Step(p, c) /\ Same(c, H!Now(p)) /\ c.seen = H!Now(p).seen
    /\ \/ c.stage = "conflict"
       \/ /\ c.stage = "loaded" /\ c.op = "update" /\ c.loaded = rows[c.id]
       \/ /\ c.stage = "demoted" /\ c.op # "remove" /\ c.primary /\ c.others = H!Primaries(rows) \ {c.id}
          /\ c.op = "update" => H!Now(p).stage = "loaded" /\ c.loaded = H!Now(p).loaded

Writes(p, table) ==
    \/ /\ H!Now(p).op = "create" /\ H!Now(p).stage = "sent" /\ ~H!Now(p).primary /\ H!Free # {} /\ table = H!Insert(p)
    \/ /\ H!Now(p).op = "create" /\ H!Now(p).stage = "demoted" /\ H!Free # {} /\ table = H!Demoted(p, H!Insert(p))
    \/ /\ H!Now(p).op = "update" /\ H!Now(p).stage = "loaded" /\ table = H!Written(p)
    \/ /\ H!Now(p).op = "update" /\ H!Now(p).stage = "demoted" /\ table = H!Demoted(p, H!Written(p))
    \/ /\ H!Now(p).op = "remove" /\ H!Now(p).stage = "sent" /\ table = rows
    \/ /\ H!Now(p).op = "remove" /\ H!Now(p).stage = "sent"
       /\ table = [rows EXCEPT ![H!Now(p).id].gone = TRUE, ![H!Now(p).id].primary = FALSE]

LEMMA MemberServe ==
    ASSUME HouseholdType, H!Kind = "member", NEW p \in H!Pages, H!Serve(p),
           H!Now(p).op \in {"create", "update", "remove"}
    PROVE  /\ queue[p] # <<>> /\ H!Now(p).stage \in {"sent", "loaded", "demoted"}
           /\ \/ \E c \in Actions : Progress(p, c)
              \/ \E table \in Tables : H!Commits(p, table) /\ Writes(p, table) /\ table[1].kind = rows[1].kind
                                       /\ (H!Now(p).op # "remove" => \A i, j \in H!Primaries(table) : i = j)
<1> DEFINE now == H!Now(p)
           Outcome == \/ \E c \in Actions : Progress(p, c)
                      \/ \E table \in Tables : H!Commits(p, table) /\ Writes(p, table) /\ table[1].kind = rows[1].kind
                                               /\ (now.op # "remove" => \A i, j \in H!Primaries(table) : i = j)
<1>1. queue[p] # <<>> /\ now \in Actions
    BY ServeCases, NowTyped
<1>2. H!create_party_member(p) \/ H!update_party_member(p) \/ H!archive_party_member(p)
    BY DEF H!Serve, H!create_document, H!mark_uploaded, H!update_document, H!archive_document,
           H!create_client_contact, H!update_client_contact, H!delete_client_contact, H!create_fact, H!update_fact,
           H!redact_fact, H!At, H!Tiers
<1>3. now.stage \in {"sent", "loaded", "demoted"}
    BY <1>2 DEF H!create_party_member, H!update_party_member, H!archive_party_member, H!At
<1>4. rows \in Tables
    BY DEF HouseholdType
<1>5. ASSUME NEW table \in Tables, table[1].kind = rows[1].kind, Writes(p, table), H!Commit(p, table)
      PROVE  Outcome
    <2>1. CASE H!Commits(p, table) /\ H!Cardinality(H!Primaries(table)) <= 1
        <3>1. H!Primaries(table) \in SUBSET H!Ids
            BY DEF H!Primaries, H!Listed
        <3>2. \A i, j \in H!Primaries(table) : i = j
            BY <2>1, <3>1, AtMostOne
        <3>3. QED
            BY <1>5, <2>1, <3>2
    <2>2. CASE H!Step(p, [now EXCEPT !.stage = "conflict"])
        <3> DEFINE c == [now EXCEPT !.stage = "conflict"]
        <3>1. H!Step(p, c)
            BY <2>2
        <3> HIDE DEF now
        <3>2. c \in Actions /\ Same(c, now) /\ c.stage = "conflict" /\ c.seen = now.seen
            BY <1>1, Conflicting
        <3> HIDE DEF c
        <3>3. Progress(p, c)
            BY <3>1, <3>2 DEF Progress, now
        <3>4. QED
            BY <3>2, <3>3
    <2>3. QED
        BY <1>5, <2>1, <2>2 DEF H!Commit
<1>6. ASSUME H!_demote_other_primaries(p), now.primary, now.op # "remove", now.op = "update" => now.stage = "loaded"
      PROVE  Outcome
    <2> DEFINE set == H!Primaries(rows) \ {now.id}
               c == [now EXCEPT !.stage = "demoted", !.others = set]
    <2>1. H!Step(p, c)
        BY <1>6 DEF H!_demote_other_primaries
    <2>2. set \in SUBSET H!Ids
        BY DEF H!Primaries, H!Listed
    <2> HIDE DEF now, set
    <2>3. c \in Actions /\ Same(c, now) /\ c.stage = "demoted" /\ c.others = set /\ c.loaded = now.loaded /\ c.seen = now.seen
        BY <1>1, <2>2, Demoting
    <2> HIDE DEF c
    <2>4. Progress(p, c)
        BY <1>6, <2>1, <2>3 DEF Progress, now, set, Same
    <2>5. QED
        BY <2>3, <2>4
<1>7. CASE H!create_party_member(p)
    <2>1. /\ H!Insert(p) \in Tables /\ H!Insert(p)[1].kind = rows[1].kind
        BY <1>1, <1>7, FirstId, InsertRows DEF H!create_party_member
    <2>2. /\ H!Demoted(p, H!Insert(p)) \in Tables /\ H!Demoted(p, H!Insert(p))[1].kind = rows[1].kind
        BY <2>1, FirstId, DemotedRows
    <2>3. \/ now.op = "create" /\ now.primary /\ H!_demote_other_primaries(p)
          \/ Writes(p, H!Insert(p)) /\ H!Commit(p, H!Insert(p))
          \/ Writes(p, H!Demoted(p, H!Insert(p))) /\ H!Commit(p, H!Demoted(p, H!Insert(p)))
        BY <1>7 DEF H!create_party_member, H!At, Writes
    <2>4. QED
        BY <1>1, <1>3, <1>5, <1>6, <2>1, <2>2, <2>3
<1>8. CASE H!update_party_member(p)
    <2>1. now.op = "update" /\ now.id \in H!Ids
        BY <1>1, <1>8 DEF H!update_party_member, H!At, Actions, H!Ids
    <2>2. H!Written(p) \in Tables /\ H!Written(p)[1].kind = rows[1].kind
        BY <1>1, <2>1, FirstId, WrittenRows
    <2>3. H!Demoted(p, H!Written(p)) \in Tables /\ H!Demoted(p, H!Written(p))[1].kind = rows[1].kind
        BY <2>2, FirstId, DemotedRows
    <2> DEFINE row == rows[now.id]
               c == [now EXCEPT !.stage = "loaded", !.loaded = row]
    <2>4. \/ H!Step(p, c)
          \/ now.stage = "loaded" /\ now.primary /\ H!_demote_other_primaries(p)
          \/ Writes(p, H!Written(p)) /\ H!Commit(p, H!Written(p))
          \/ Writes(p, H!Demoted(p, H!Written(p))) /\ H!Commit(p, H!Demoted(p, H!Written(p)))
        BY <1>8 DEF H!update_party_member, H!At, Writes
    <2>5. ASSUME H!Step(p, c) PROVE Outcome
        <3>1. row \in Rows
            BY <1>4, <2>1 DEF Tables
        <3> HIDE DEF now, row
        <3>2. c \in Actions /\ Same(c, now) /\ c.stage = "loaded" /\ c.loaded = row /\ c.seen = now.seen
            BY <1>1, <3>1, Loading
        <3> HIDE DEF c
        <3>3. Progress(p, c)
            BY <2>1, <2>5, <3>2 DEF Progress, now, row, Same
        <3>4. QED
            BY <3>2, <3>3
    <2>6. QED
        BY <1>1, <1>3, <1>5, <1>6, <2>1, <2>2, <2>3, <2>4, <2>5
<1>9. CASE H!archive_party_member(p)
    <2> DEFINE table == [rows EXCEPT ![now.id].gone = TRUE, ![now.id].primary = FALSE]
    <2>1. now.id \in 0..MaxRows
        BY <1>1 DEF Actions
    <2>2. table \in Tables /\ table[1].kind = rows[1].kind
        <3> HIDE DEF now
        <3>1. 0 \in Nat
            OBVIOUS
        <3>2. QED
            BY <1>4, <2>1, <3>1, EditedTable
    <2>3. /\ now.op = "remove" /\ now.stage = "sent"
          /\ H!Commits(p, rows) \/ H!Commits(p, table)
        BY <1>9 DEF H!archive_party_member, H!At
    <2>4. Writes(p, rows) /\ Writes(p, table)
        BY <2>3 DEF Writes
    <2> HIDE DEF table
    <2>5. QED
        BY <1>1, <1>3, <1>4, <2>2, <2>3, <2>4
<1>10. QED
    BY <1>1, <1>2, <1>3, <1>7, <1>8, <1>9

\* Other pages than the one in use have nothing under way, and have a click of that one before theirs.
LEMMA OthersWait ==
    ASSUME HouseholdType, troubles = {}, MemberInv, H!Kind = "member", NEW p \in H!Pages, queue[p] # <<>>,
           clicks' = clicks
    PROVE  Alone(p) /\ Boxes(p) /\ \A q \in H!Pages : q # p => queue[q] = <<>> /\ ~Alone(q) /\ ~Alone(q)'
<1>1. Alone(p) /\ \E k \in 1..Len(clicks) : clicks[k] = p
    BY DEF MemberInv, InUse
<1>2. \A q \in H!Pages : q # p => ~Alone(q) /\ ~Alone(q)'
    BY <1>1 DEF Alone
<1>3. QED
    BY <1>1, <1>2 DEF MemberInv, InUse

\* A step of a page with actions under way only has to keep that page's part.
LEMMA PageStep ==
    ASSUME HouseholdType, troubles = {}, MemberInv, H!Kind = "member", NEW p \in H!Pages, queue[p] # <<>>,
           clicks' = clicks, \A q \in H!Pages : q # p => queue'[q] = queue[q], Boxes(p)'
    PROVE  (\A q \in H!Pages : InUse(q)) ' /\ \A q \in H!Pages : Alone(q)' => Boxes(q)'
<1>1. Alone(p) /\ \A q \in H!Pages : q # p => queue[q] = <<>> /\ ~Alone(q)'
    BY OthersWait
<1>2. \E k \in 1..Len(clicks) : clicks[k] = p
    BY DEF MemberInv, InUse
<1>3. ASSUME NEW q \in H!Pages PROVE InUse(q)'
    BY <1>1, <1>2 DEF InUse, Alone
<1>4. QED
    BY <1>1, <1>3

\* Its first action has moved on.
LEMMA ProgressKeepsBoxes ==
    ASSUME HouseholdType, OnePrimary, H!Kind = "member", NEW p \in H!Pages, queue[p] # <<>>, Boxes(p),
           H!Now(p).stage \in {"sent", "loaded", "demoted"}, NEW c \in Actions, Progress(p, c)
    PROVE  Boxes(p)'
<1>1. /\ H!Stage(p, c) /\ UNCHANGED <<rows, shown, forms>> /\ Same(c, H!Now(p))
    BY DEF Progress, H!Step, H!browser
<1>2. /\ queue'[p] # <<>> /\ Len(queue'[p]) = Len(queue[p]) /\ queue'[p][1] = c
      /\ \A k \in 1..Len(queue[p]) : k # 1 => queue'[p][k] = queue[p][k]
    BY <1>1, StageQueue
<1>3. H!Now(p) = queue[p][1] /\ 1 \in 1..Len(queue[p])
    BY NowTyped DEF H!Now
<1>4. ~Landed(p) /\ ~Changing(p)
    BY DEF Landed, Changing
<1>5. Box(c)
    <2>1. Box(H!Now(p)) /\ Named(p, H!Now(p))
        BY <1>3 DEF Boxes, Queued
    <2>2. CASE c.stage = "conflict"
        BY <2>2 DEF Box
    <2>3. CASE c.stage = "loaded"
        <3>1. c.op = "update" /\ c.loaded = rows[c.id] /\ c.id # 0
            BY <2>3, <1>1, <2>1 DEF Progress, Same, Named
        <3>2. c.id \in H!Ids
            BY <3>1 DEF Actions, H!Ids
        <3>3. rows[c.id].primary \in BOOLEAN
            BY <3>2 DEF HouseholdType, Tables, Rows
        <3>4. c.loaded.primary = Holds(rows, c.id)
            BY <3>1, <3>3 DEF Holds
        <3>5. ~c.ticked => c.primary = Holds(rows, c.id)
            BY <1>1, <2>1, <3>1 DEF Box, Same
        <3>6. QED
            BY <2>3, <3>4, <3>5 DEF Box
    <2>4. CASE c.stage = "demoted"
        <3>1. /\ c.op # "remove" /\ c.primary /\ c.others = H!Primaries(rows) \ {c.id}
              /\ c.op = "update" => H!Now(p).stage = "loaded" /\ c.loaded = H!Now(p).loaded
            BY <2>4 DEF Progress
        <3>2. ~c.ticked => c.primary = Holds(rows, c.id)
            BY <1>1, <2>1, <3>1 DEF Box, Same
        <3>3. c.op = "update" => c.loaded.primary = Holds(rows, c.id)
            BY <1>1, <2>1, <3>1 DEF Box, Same
        <3>4. ~c.ticked => c.others = {}
            <4>1. SUFFICES ASSUME ~c.ticked PROVE H!Primaries(rows) \subseteq {c.id}
                BY <3>1
            <4>2. c.id # 0 /\ rows[c.id].primary
                BY <3>1, <3>2, <4>1 DEF Holds
            <4>3. \E f \in forms[p] : f.id = c.id
                BY <1>1, <2>1, <3>1 DEF Named, Same
            <4>4. c.id \in H!Listed(rows)
                BY <4>2, <4>3 DEF Boxes, OneForm
            <4>5. c.id \in H!Primaries(rows)
                BY <4>2, <4>4 DEF H!Primaries
            <4>6. QED
                BY <4>5 DEF OnePrimary
        <3>5. QED
            BY <2>4, <3>1, <3>2, <3>3, <3>4 DEF Box
    <2>5. QED
        BY <2>2, <2>3, <2>4 DEF Progress
<1>6. H!View(rows)' = H!View(rows) /\ H!Listed(rows)' = H!Listed(rows)
    BY <1>1 DEF H!View, H!Listed
<1>7. Queued(p)'
    <2>1. \A k \in 1..Len(queue[p]) : Box(queue'[p][k])
        BY <1>2, <1>5 DEF Boxes, Queued
    <2>2. \A k \in 1..Len(queue[p]) : Named(p, queue'[p][k])
        <3>1. Named(p, c)
            BY <1>1, <1>3 DEF Boxes, Queued, Named, Same
        <3>2. QED
            BY <1>2, <3>1 DEF Boxes, Queued
    <2>3. \A d : (Box(d) => Box(d)') /\ (Named(p, d) => Named(p, d)')
        BY <1>1, <1>6 DEF Box, Named, Holds
    <2>4. \A k \in 1..Len(queue[p]) : queue'[p][k].id = queue[p][k].id
        BY <1>1, <1>2, <1>3 DEF Same
    <2>5. QED
        BY <1>2, <2>1, <2>2, <2>3, <2>4 DEF Boxes, Queued
<1>8. OneForm(p)'
    BY <1>1, <1>4, <1>6 DEF Boxes, OneForm
<1>9. Fresh(p)'
    BY <1>1, <1>4, <1>6 DEF Boxes, Fresh
<1>10. QED
    BY <1>7, <1>8, <1>9 DEF Boxes

\* It is done: the record it names is written, and so is the one that held the slot.
LEMMA WritesRows ==
    ASSUME HouseholdType, NEW p \in H!Pages, queue[p] # <<>>, NEW table \in Tables, Writes(p, table),
           Named(p, H!Now(p))
    PROVE  /\ H!Now(p).op # "remove" => H!Listed(rows) \subseteq H!Listed(table)
           /\ H!Now(p).op = "remove" => \A i \in H!Ids : i # H!Now(p).id => table[i] = rows[i]
<1>1. rows \in Tables /\ H!Now(p) \in Actions
    BY NowTyped DEF HouseholdType
<1>2. ASSUME \A i \in H!Ids : table[i].gone = rows[i].gone /\ (table[i].kind = rows[i].kind \/ rows[i].kind = "none")
      PROVE  H!Listed(rows) \subseteq H!Listed(table)
    BY <1>2 DEF H!Listed
<1>3. CASE H!Now(p).op = "create"
    <2>1. H!Free # {}
        BY <1>3 DEF Writes
    <2>2. ASSUME NEW i \in H!Ids, i \in H!Listed(rows) PROVE H!Insert(p)[i] = rows[i]
        BY <2>1, <2>2, InsertRows DEF H!Listed
    <2>3. H!Listed(rows) \subseteq H!Listed(H!Insert(p))
        BY <2>2 DEF H!Listed
    <2>4. H!Insert(p) \in Tables
        BY <2>1, InsertRows
    <2>5. H!Listed(H!Demoted(p, H!Insert(p))) = H!Listed(H!Insert(p))
        BY <2>4, DemotedRows DEF H!Listed
    <2>6. QED
        BY <1>3, <2>3, <2>5 DEF Writes
<1>4. CASE H!Now(p).op = "update"
    <2>1. H!Written(p) \in Tables /\ H!Listed(H!Written(p)) = H!Listed(rows)
        BY <1>4, WrittenRows DEF H!Listed
    <2>2. H!Listed(H!Demoted(p, H!Written(p))) = H!Listed(H!Written(p))
        BY <2>1, DemotedRows DEF H!Listed
    <2>3. QED
        BY <1>4, <2>1, <2>2 DEF Writes
<1>5. CASE H!Now(p).op = "remove"
    BY <1>1, <1>5 DEF Writes, Tables
<1>6. QED
    BY <1>3, <1>4, <1>5 DEF Named

LEMMA CommitStep ==
    ASSUME HouseholdType, NEW p \in H!Pages, queue[p] # <<>>, NEW table \in Tables, H!Commits(p, table)
    PROVE  \E c \in Actions : /\ Same(c, H!Now(p)) /\ c.stage = "ok" /\ H!Stage(p, c)
                              /\ rows' = table /\ UNCHANGED <<shown, forms, clicks>>
<1> DEFINE now == H!Now(p)
           c == [now EXCEPT !.stage = "ok", !.loaded = H!NoRow, !.others = {}]
<1>1. H!Stage(p, c) /\ rows' = table /\ UNCHANGED <<shown, forms, clicks>>
    BY DEF H!Commits, H!browser
<1>2. now \in Actions
    BY NowTyped
<1> HIDE DEF now
<1>3. c \in Actions /\ Same(c, now) /\ c.stage = "ok"
    BY <1>2, Accepted
<1> HIDE DEF c
<1>4. QED
    BY <1>1, <1>3 DEF now

LEMMA CommitKeepsBoxes ==
    ASSUME HouseholdType, H!Kind = "member", NEW p \in H!Pages, queue[p] # <<>>, Boxes(p),
           H!Now(p).stage \in {"sent", "loaded", "demoted"}, NEW table \in Tables, Writes(p, table),
           NEW c \in Actions, H!Stage(p, c), Same(c, H!Now(p)), c.stage = "ok",
           rows' = table, UNCHANGED <<shown, forms>>
    PROVE  Boxes(p)'
<1> DEFINE now == H!Now(p)
<1>2. now \in Actions /\ now = queue[p][1] /\ 1 \in 1..Len(queue[p])
    BY NowTyped DEF H!Now
<1>4. /\ queue'[p] # <<>> /\ Len(queue'[p]) = Len(queue[p]) /\ queue'[p][1] = c
      /\ \A k \in 1..Len(queue[p]) : k # 1 => queue'[p][k] = queue[p][k]
    BY StageQueue
<1>5. H!Now(p)' = c
    BY <1>4 DEF H!Now
<1>6. ~Landed(p) /\ Landed(p)' /\ (now.op # "remove" => Changing(p)')
    BY <1>4, <1>5 DEF Landed, Changing, Same
<1>7. Named(p, now) /\ Named(p, c)
    BY <1>2 DEF Boxes, Queued, Named, Same
<1>8. /\ now.op # "remove" => H!Listed(rows) \subseteq H!Listed(table)
      /\ now.op = "remove" => \A i \in H!Ids : i # now.id => table[i] = rows[i]
    BY <1>7, WritesRows
<1>9. Queued(p)'
    <2>1. \A d : Named(p, d) => Named(p, d)'
        BY DEF Named
    <2>2. \A d : d.stage = "ok" => Box(d)'
        BY DEF Box
    <2>3. \A d : d.stage = "sent" /\ Box(d) /\ (d.op # "remove" => Holds(table, d.id) = Holds(rows, d.id)) => Box(d)'
        BY DEF Box
    <2>4. ASSUME NEW d \in Actions, Named(p, d), d.id # now.id, d.op # "remove"
          PROVE  Holds(table, d.id) = Holds(rows, d.id)
        <3>1. PICK f \in forms[p] : f.id = d.id
            BY <2>4 DEF Named
        <3>2. now.op = "remove"
            BY <1>7, <2>4, <3>1 DEF Named, Boxes, OneForm
        <3>3. QED
            BY <1>8, <2>4, <3>2 DEF Holds, Actions, H!Ids
    <2>5. \A k \in 1..Len(queue[p]) : k # 1 =>
            /\ queue[p][k] \in Actions /\ Named(p, queue[p][k]) /\ Box(queue[p][k]) /\ queue[p][k].stage = "sent"
            /\ queue[p][k].id # now.id
        <3>1. \A k \in 1..Len(queue[p]) : queue[p][k] \in Actions
            BY DEF HouseholdType
        <3>2. \A k \in 1..Len(queue[p]) : k # 1 => queue[p][k].id # now.id
            BY <1>2 DEF Boxes, Queued
        <3>3. QED
            BY <3>1, <3>2 DEF Boxes, Queued
    <2>6. \A d : d = c => Named(p, d)' /\ Box(d)'
        BY <1>7, <2>1, <2>2
    <2>7. \A k \in 1..Len(queue[p]) : k # 1 => \A d : d = queue[p][k] => Named(p, d)' /\ Box(d)' /\ d.stage = "sent"
        BY <2>1, <2>3, <2>4, <2>5
    <2>8. \A k \in 1..Len(queue[p]) : queue'[p][k].id = queue[p][k].id
        BY <1>2, <1>4 DEF Same
    <2>9. \A k \in 1..Len(queue'[p]) : \E d : d = queue'[p][k] /\ Named(p, d)' /\ Box(d)' /\ (k # 1 => d.stage = "sent")
        BY <1>4, <2>6, <2>7
    <2>10. QED
        BY <1>4, <2>8, <2>9 DEF Boxes, Queued
<1>10. ASSUME NEW i \in H!Listed(rows), i # now.id \/ now.op # "remove"
       PROVE  i \in H!Listed(rows') /\ (rows'[i].primary = rows[i].primary \/ Changing(p)')
    BY <1>6, <1>8, <1>10 DEF H!Listed
<1>11. OneForm(p)'
    BY <1>6, <1>7, <1>10 DEF Boxes, OneForm, Changing, Named
<1>12. Fresh(p)'
    <2>1. ASSUME NEW v \in shown[p]
          PROVE  \/ v.id \in H!Listed(rows') /\ (v.row.primary = rows'[v.id].primary \/ Changing(p)')
                 \/ Landed(p)' /\ H!Now(p)'.id = v.id
        <3>1. v.id \in H!Listed(rows) /\ v.row.primary = rows[v.id].primary
            BY <1>6 DEF Boxes, Fresh, Changing
        <3>2. CASE v.id = now.id /\ now.op = "remove"
            BY <1>5, <1>6, <3>2 DEF Same
        <3>3. CASE v.id # now.id \/ now.op # "remove"
            BY <1>10, <3>1, <3>3
        <3>4. QED
            BY <3>2, <3>3
    <2>2. QED
        BY <2>1 DEF Fresh
<1>13. QED
    BY <1>9, <1>11, <1>12 DEF Boxes

\* A form is opened on a page that has none: only removals are under way there.
LEMMA OpenKeepsBoxes ==
    ASSUME HouseholdType, NEW p \in H!Pages, Boxes(p), NEW i \in H!Ids \cup {0}, H!openForm(p, i), troubles' = {}
    PROVE  Boxes(p)'
<1> DEFINE f == H!fromMember(p, i)
<1>1. /\ forms[p] = {} /\ forms'[p] = {f} /\ UNCHANGED <<rows, shown, queue>>
      /\ ~H!Waits(p, i) /\ (i = 0 \/ \E v \in shown[p] : v.id = i)
    BY DEF H!openForm, HouseholdType
<1>2. f.id = i /\ (f.primary <=> \E v \in shown[p] : v.id = i /\ v.row.primary)
    BY DEF H!fromMember
<1>3. \A k \in 1..Len(queue[p]) : queue[p][k].op = "remove" /\ queue[p][k].id # i
    <2>1. \A k \in 1..Len(queue[p]) : queue[p][k].id # i
        BY <1>1 DEF H!Waits, HouseholdType
    <2>2. QED
        BY <1>1, <2>1 DEF Boxes, Queued, Named
<1>4. queue[p] # <<>> => H!Now(p).op = "remove" /\ H!Now(p).id # i
    BY <1>3, NowTyped DEF H!Now
<1> HIDE DEF f
<1>5. Queued(p)'
    <2>1. \A d : Box(d) => Box(d)'
        BY <1>1 DEF Box, H!View, H!Listed
    <2>2. \A d : d.op = "remove" /\ d.id # i /\ Named(p, d) => Named(p, d)'
        BY <1>1, <1>2 DEF Named
    <2>3. QED
        BY <1>1, <1>3, <2>1, <2>2 DEF Boxes, Queued
<1>6. i # 0 => i \in H!Listed(rows) /\ (f.primary = rows[i].primary)
    <2>1. SUFFICES ASSUME i # 0 PROVE i \in H!Listed(rows) /\ f.primary = rows[i].primary
        OBVIOUS
    <2>2. \A v \in shown[p] : v.id = i => i \in H!Listed(rows) /\ v.row.primary = rows[i].primary
        BY <1>4 DEF Boxes, Fresh, Landed, Changing
    <2>3. rows[i].primary \in BOOLEAN /\ f.primary \in BOOLEAN
        BY <2>1 DEF HouseholdType, Tables, Rows, f, H!fromMember
    <2>4. QED
        BY <1>1, <1>2, <2>1, <2>2, <2>3
<1>7. i = 0 => ~f.primary
    BY <1>2 DEF HouseholdType, Views, H!Ids
<1>8. H!Listed(rows)' = H!Listed(rows) /\ Changing(p)' = Changing(p) /\ Landed(p)' = Landed(p) /\ H!Now(p)' = H!Now(p)
    BY <1>1 DEF H!Listed, Changing, Landed, H!Now
<1>9. OneForm(p)'
    BY <1>1, <1>2, <1>6, <1>7, <1>8 DEF OneForm
<1>10. Fresh(p)'
    BY <1>1, <1>8 DEF Boxes, Fresh
<1>11. QED
    BY <1>5, <1>9, <1>10 DEF Boxes

LEMMA CancelKeepsBoxes ==
    ASSUME HouseholdType, NEW p \in H!Pages, Boxes(p), NEW f \in forms[p], H!onCancel(p, f)
    PROVE  Boxes(p)'
<1>1. forms'[p] = {} /\ UNCHANGED <<rows, shown, queue>> /\ ~H!Waits(p, f.id)
    BY DEF H!onCancel, HouseholdType, Boxes, OneForm
<1>2. \A k \in 1..Len(queue[p]) : queue[p][k].op = "remove"
    <2>1. \A k \in 1..Len(queue[p]) : queue[p][k].id # f.id
        BY <1>1 DEF H!Waits, HouseholdType
    <2>2. QED
        BY <2>1 DEF Boxes, Queued, Named, OneForm
<1>3. Queued(p)'
    <2>1. \A d : Box(d) => Box(d)'
        BY <1>1 DEF Box, H!View, H!Listed
    <2>2. \A d : d.op = "remove" /\ Named(p, d) => Named(p, d)'
        BY <1>1 DEF Named
    <2>3. QED
        BY <1>1, <1>2, <2>1, <2>2 DEF Boxes, Queued
<1>4. H!Listed(rows)' = H!Listed(rows) /\ Changing(p)' = Changing(p) /\ Landed(p)' = Landed(p) /\ H!Now(p)' = H!Now(p)
    BY <1>1 DEF H!Listed, Changing, Landed, H!Now
<1>5. OneForm(p)'
    BY <1>1 DEF OneForm
<1>6. Fresh(p)'
    BY <1>1, <1>4 DEF Boxes, Fresh
<1>7. QED
    BY <1>3, <1>5, <1>6 DEF Boxes

\* An action joins the others of its page, and names a record that none of them does.
LEMMA PushKeepsBoxes ==
    ASSUME HouseholdType, NEW p \in H!Pages, Boxes(p), NEW c \in Actions,
           queue' = [queue EXCEPT ![p] = Append(@, c)], UNCHANGED <<rows, shown, forms>>,
           c.stage = "sent", Box(c), Named(p, c), ~H!Waits(p, c.id), H!Now(p).id # c.id \/ queue[p] = <<>>
    PROVE  Boxes(p)'
<1>1. /\ queue'[p] # <<>> /\ Len(queue'[p]) = Len(queue[p]) + 1
      /\ queue'[p][Len(queue[p]) + 1] = c
      /\ \A k \in 1..Len(queue[p]) : queue'[p][k] = queue[p][k]
    BY PushQueue
<1>2. \A k \in 1..Len(queue[p]) : queue[p][k].id # c.id
    BY DEF H!Waits, HouseholdType
<1>3. Len(queue[p]) \in Nat /\ (queue[p] # <<>> => 1 \in 1..Len(queue[p]))
    BY DEF HouseholdType
<1>4. Queued(p)'
    <2>1. \A d : Box(d) => Box(d)'
        BY DEF Box, H!View, H!Listed
    <2>2. \A d : Named(p, d) => Named(p, d)'
        BY DEF Named
    <2>3. \A k \in 1..Len(queue'[p]) : k \in 1..Len(queue[p]) \/ k = Len(queue[p]) + 1
        BY <1>1, <1>3
    <2>4. \A k \in 1..Len(queue'[p]) : \E d : d = queue'[p][k] /\ Box(d) /\ Named(p, d) /\ (k # 1 => d.stage = "sent")
        BY <1>1, <2>3 DEF Boxes, Queued
    <2>5. \A k, l \in 1..Len(queue'[p]) : queue'[p][k].id = queue'[p][l].id => k = l
        BY <1>1, <1>2, <2>3 DEF Boxes, Queued
    <2>6. QED
        BY <2>1, <2>2, <2>4, <2>5 DEF Queued
<1>5. Landed(p)' = Landed(p) /\ Changing(p)' = Changing(p) /\ (Landed(p) => H!Now(p)' = H!Now(p))
    <2>1. CASE queue[p] = <<>>
        <3>1. H!Now(p)' = c
            BY <1>1, <2>1 DEF H!Now
        <3>2. QED
            BY <2>1, <3>1 DEF Landed, Changing
    <2>2. CASE queue[p] # <<>>
        <3>1. H!Now(p)' = H!Now(p)
            BY <1>1, <1>3, <2>2 DEF H!Now
        <3>2. QED
            BY <1>1, <2>2, <3>1 DEF Landed, Changing
    <2>3. QED
        BY <2>1, <2>2
<1>6. H!Listed(rows)' = H!Listed(rows)
    BY DEF H!Listed
<1>7. OneForm(p)'
    BY <1>5, <1>6 DEF Boxes, OneForm
<1>8. Fresh(p)'
    BY <1>5, <1>6 DEF Boxes, Fresh
<1>9. QED
    BY <1>4, <1>7, <1>8 DEF Boxes

\* The box of a form says who holds the slot, unless it is ticked over.
LEMMA SubmitKeepsBoxes ==
    ASSUME HouseholdType, H!Kind = "member", NEW p \in H!Pages, Boxes(p), NEW f \in forms[p], NEW ticked \in BOOLEAN,
           H!submit(p, f, ticked)
    PROVE  Boxes(p)'
<1>1. UNCHANGED <<rows, shown, forms>> /\ ~H!Waits(p, f.id)
    BY DEF H!submit, H!Clicks
<1>2. PICK c \in Actions :
         /\ queue' = [queue EXCEPT ![p] = Append(@, c)]
         /\ c.op = (IF f.id # 0 THEN "update" ELSE "create")
         /\ c.id = f.id /\ c.primary = (f.primary # ticked) /\ c.ticked = ticked /\ c.stage = "sent"
    BY SubmitAction
<1>3. queue[p] # <<>> => H!Now(p).id # f.id
    BY <1>1, NowTyped DEF H!Waits, H!Now, HouseholdType
<1>4. ~Changing(p)
    <2>1. SUFFICES ASSUME queue[p] # <<>>, H!Now(p).op # "remove" PROVE FALSE
        BY DEF Changing, Landed
    <2>2. Named(p, H!Now(p))
        BY <2>1, NowTyped DEF Boxes, Queued, H!Now
    <2>3. QED
        BY <1>3, <2>1, <2>2 DEF Named, Boxes, OneForm
<1>5. f \in [id : 0..MaxRows, primary : BOOLEAN]
    BY DEF HouseholdType
<1>6. f.primary = Holds(rows, f.id)
    <2>1. CASE f.id = 0
        BY <1>5, <2>1 DEF Boxes, OneForm, Holds
    <2>2. CASE f.id # 0
        BY <1>4, <1>5, <2>2 DEF Boxes, OneForm, Holds
    <2>3. QED
        BY <2>1, <2>2
<1>7. Box(c)
    BY <1>2, <1>5, <1>6 DEF Box
<1>8. Named(p, c)
    BY <1>2 DEF Named
<1>9. QED
    BY <1>1, <1>2, <1>3, <1>7, <1>8, PushKeepsBoxes

LEMMA ArchiveKeepsBoxes ==
    ASSUME HouseholdType, NEW p \in H!Pages, Boxes(p), NEW i \in H!Ids, H!onArchive(p, i)
    PROVE  Boxes(p)'
<1>1. UNCHANGED <<rows, shown, forms>> /\ ~H!Waits(p, i) /\ ~H!Open(p, i)
    BY DEF H!onArchive, H!Clicks
<1>2. PICK c \in Actions : /\ queue' = [queue EXCEPT ![p] = Append(@, c)]
                           /\ c.op = "remove" /\ c.id = i /\ c.stage = "sent"
    BY ArchiveAction
<1>3. queue[p] # <<>> => H!Now(p).id # i
    BY <1>1, NowTyped DEF H!Waits, H!Now, HouseholdType
<1>4. Box(c) /\ Named(p, c)
    BY <1>1, <1>2 DEF Box, Named, H!Open, H!Ids
<1>5. QED
    BY <1>1, <1>2, <1>3, <1>4, PushKeepsBoxes

\* The page is rendered with what is on file.
LEMMA RerenderKeepsBoxes ==
    ASSUME HouseholdType, NEW p \in H!Pages, Boxes(p), H!revalidatePath(p), troubles' = {}
    PROVE  Boxes(p)'
<1>1. /\ queue[p] # <<>> /\ H!Now(p).stage = "ok" /\ UNCHANGED <<rows, shown, forms>>
    BY RerenderStep
<1>2. PICK c \in Actions : Same(c, H!Now(p)) /\ c.stage = "rendered" /\ H!Stage(p, c) /\ c.seen = H!View(rows)
    BY RerenderStep
<1>3. /\ queue'[p] # <<>> /\ Len(queue'[p]) = Len(queue[p]) /\ queue'[p][1] = c
      /\ \A k \in 1..Len(queue[p]) : k # 1 => queue'[p][k] = queue[p][k]
    BY <1>1, <1>2, StageQueue
<1>4. H!Now(p) = queue[p][1] /\ 1 \in 1..Len(queue[p]) /\ H!Now(p)' = c
    BY <1>1, <1>3, NowTyped DEF H!Now
<1>5. Landed(p)' = Landed(p) /\ Changing(p)' = Changing(p) /\ H!Now(p)'.id = H!Now(p).id
    BY <1>1, <1>2, <1>3, <1>4 DEF Landed, Changing, Same
<1>6. H!Listed(rows)' = H!Listed(rows)
    BY <1>1 DEF H!Listed
<1>7. Box(c) /\ Named(p, c)
    BY <1>1, <1>2, <1>4 DEF Boxes, Queued, Box, Named, Same
<1>8. Queued(p)'
    <2>1. \A d : Box(d) => Box(d)'
        BY <1>1 DEF Box, H!View, H!Listed
    <2>2. \A d : Named(p, d) => Named(p, d)'
        BY <1>1 DEF Named
    <2>3. \A k \in 1..Len(queue'[p]) : \E d : d = queue'[p][k] /\ Box(d) /\ Named(p, d) /\ (k # 1 => d.stage = "sent")
        BY <1>3, <1>7 DEF Boxes, Queued
    <2>4. \A k \in 1..Len(queue[p]) : queue'[p][k].id = queue[p][k].id
        BY <1>2, <1>3, <1>4 DEF Same
    <2>5. QED
        BY <1>3, <2>1, <2>2, <2>3, <2>4 DEF Boxes, Queued
<1>9. OneForm(p)'
    BY <1>1, <1>5, <1>6 DEF Boxes, OneForm
<1>10. Fresh(p)'
    BY <1>1, <1>5, <1>6 DEF Boxes, Fresh
<1>11. QED
    BY <1>8, <1>9, <1>10 DEF Boxes

\* The answer of a page's first action is in.
LEMMA PopKeepsQueued ==
    ASSUME HouseholdType, NEW p \in H!Pages, queue[p] # <<>>, Boxes(p), queue' = [queue EXCEPT ![p] = Tail(@)],
           UNCHANGED rows,
           \A i : i # H!Now(p).id => ((\E f \in forms'[p] : f.id = i) <=> (\E f \in forms[p] : f.id = i))
    PROVE  Queued(p)' /\ ~Landed(p)'
<1>1. /\ Len(queue'[p]) = Len(queue[p]) - 1
      /\ \A k \in 1..Len(queue'[p]) : queue'[p][k] = queue[p][k + 1] /\ k + 1 \in 1..Len(queue[p])
    BY PopQueue
<1>2. H!Now(p) = queue[p][1] /\ 1 \in 1..Len(queue[p]) /\ Len(queue[p]) \in Nat
    BY NowTyped DEF H!Now, HouseholdType
<1>3. \A k \in 1..Len(queue'[p]) : k + 1 # 1
    OBVIOUS
<1>4. \A d : Box(d) => Box(d)'
    BY DEF Box, H!View, H!Listed
<1>5. \A d : d.id # H!Now(p).id /\ Named(p, d) => Named(p, d)'
    BY DEF Named
<1>6. \A k \in 1..Len(queue'[p]) : \E d : /\ d = queue'[p][k] /\ Box(d) /\ Named(p, d) /\ d.stage = "sent"
                                          /\ d.id # H!Now(p).id
    BY <1>1, <1>2, <1>3 DEF Boxes, Queued
<1>7. \A k, l \in 1..Len(queue'[p]) : queue'[p][k].id = queue'[p][l].id => k = l
    <2>1. SUFFICES ASSUME NEW k \in 1..Len(queue'[p]), NEW l \in 1..Len(queue'[p]), queue'[p][k].id = queue'[p][l].id
                   PROVE  k = l
        OBVIOUS
    <2>2. queue[p][k + 1].id = queue[p][l + 1].id /\ k + 1 \in 1..Len(queue[p]) /\ l + 1 \in 1..Len(queue[p])
        BY <1>1, <2>1
    <2>3. k + 1 = l + 1
        BY <2>2 DEF Boxes, Queued
    <2>4. QED
        BY <2>3
<1>8. Queued(p)'
    BY <1>4, <1>5, <1>6, <1>7 DEF Queued
<1>9. ~Landed(p)'
    <2>1. queue'[p] # <<>> => 1 \in 1..Len(queue'[p])
        <3>1. queue'[p] \in Seq(Actions)
            BY PopQueue
        <3>2. QED
            BY <3>1
    <2>2. QED
        BY <1>6, <2>1 DEF Landed, H!Now
<1>10. QED
    BY <1>8, <1>9

LEMMA RenderedKeepsBoxes ==
    ASSUME HouseholdType, NEW p \in H!Pages, Boxes(p), H!Rendered(p)
    PROVE  Boxes(p)'
<1>1. /\ queue[p] # <<>> /\ H!Now(p).stage = "rendered" /\ UNCHANGED rows
      /\ queue' = [queue EXCEPT ![p] = Tail(@)]
      /\ shown'[p] = H!Now(p).seen
      /\ forms'[p] = {f \in forms[p] : f.id # H!Now(p).id /\ (f.id = 0 \/ \E v \in H!Now(p).seen : v.id = f.id)}
    BY DEF H!Rendered, HouseholdType
<1>2. Box(H!Now(p)) /\ Named(p, H!Now(p))
    BY <1>1, NowTyped DEF Boxes, Queued, H!Now
<1>3. H!Now(p).seen = H!View(rows)
    BY <1>1, <1>2 DEF Box
<1>4. \A i : i \in H!Listed(rows) => \E v \in H!View(rows) : v.id = i
    <2>1. SUFFICES ASSUME NEW i \in H!Listed(rows) PROVE \E v \in H!View(rows) : v.id = i
        OBVIOUS
    <2>2. [id |-> i, row |-> rows[i]] \in H!View(rows)
        BY DEF H!View
    <2>3. QED
        BY <2>2
<1>5. \A f \in forms[p] : f.id # H!Now(p).id => f \in forms'[p]
    BY <1>1, <1>3, <1>4 DEF Boxes, OneForm
<1>6. Queued(p)' /\ ~Landed(p)'
    BY <1>1, <1>5, PopKeepsQueued
<1>7. H!Listed(rows)' = H!Listed(rows)
    BY <1>1 DEF H!Listed
<1>8. OneForm(p)'
    <2>1. \A f \in forms'[p] : f \in forms[p] /\ f.id # H!Now(p).id
        BY <1>1
    <2>2. (\E f \in forms'[p] : TRUE) => ~Changing(p)
        BY <1>2, <2>1 DEF Changing, Named, Boxes, OneForm
    <2>3. QED
        BY <1>1, <1>7, <2>1, <2>2 DEF Boxes, OneForm
<1>9. Fresh(p)'
    <2>1. \A v \in H!View(rows) : v.id \in H!Listed(rows) /\ v.row.primary = rows[v.id].primary
        BY DEF H!View
    <2>2. QED
        BY <1>1, <1>3, <1>7, <2>1 DEF Fresh
<1>10. QED
    BY <1>6, <1>8, <1>9 DEF Boxes

\* Of a member, only a second one in the slot is refused.
LEMMA RefusedKeepsBoxes ==
    ASSUME HouseholdType, H!Kind = "member", NEW p \in H!Pages, Boxes(p), H!Refused(p)
    PROVE  Boxes(p)'
<1>1. /\ queue[p] # <<>> /\ H!Now(p).stage = "conflict" /\ UNCHANGED <<rows, shown, forms>>
      /\ queue' = [queue EXCEPT ![p] = Tail(@)]
    BY DEF H!Refused, H!Refuses, H!Answered, H!browser, H!Tiers
<1>2. ~Landed(p) /\ ~Changing(p)
    BY <1>1 DEF Landed, Changing
<1>3. Queued(p)'
    BY <1>1, PopKeepsQueued
<1>4. H!Listed(rows)' = H!Listed(rows)
    BY <1>1 DEF H!Listed
<1>5. OneForm(p)' /\ Fresh(p)'
    BY <1>1, <1>2, <1>4 DEF Boxes, OneForm, Fresh
<1>6. QED
    BY <1>3, <1>5 DEF Boxes

\* Nothing that went wrong is forgotten.
LEMMA TroublesStay == H!Next => troubles \subseteq troubles'
<1> SUFFICES ASSUME H!Next PROVE troubles \subseteq troubles'
    OBVIOUS
<1>1. ASSUME NEW p \in H!Pages, H!Click(p) PROVE troubles \subseteq troubles'
    BY <1>1, ClickCases DEF H!openForm, H!onArchive, H!onCancel, H!submit, H!Clicks, H!put, H!PutAnswered, H!Uploaded
<1>2. ASSUME NEW p \in H!Pages, H!Serve(p) PROVE troubles \subseteq troubles'
    BY <1>2 DEF H!Serve, H!create_party_member, H!update_party_member, H!archive_party_member, H!create_document,
                H!mark_uploaded, H!update_document, H!archive_document, H!create_client_contact,
                H!update_client_contact, H!delete_client_contact, H!create_fact, H!update_fact, H!redact_fact,
                H!_demote_other_primaries, H!Commit, H!Commits, H!Step
<1>3. ASSUME NEW p \in H!Pages, H!Answer(p) PROVE troubles \subseteq troubles'
    BY <1>3, AnswerCases DEF H!Rendered, H!revalidatePath, H!Rerender, H!Refused, H!NetworkError, H!Answered, H!Step
<1>4. ASSUME NEW t \in H!Panels, H!PartyPanel(t) PROVE troubles \subseteq troubles'
    BY <1>4 DEF H!PartyPanel, H!refresh, H!attach, H!detach, H!Change, H!Ask
<1>5. ASSUME NEW a \in asks, H!Trip(a) PROVE troubles \subseteq troubles'
    BY <1>5 DEF H!Trip, H!attach_member_to_itinerary, H!detach_member_from_itinerary, H!list_itinerary_party,
                H!Answers, H!Adopt, H!LoseAsk
<1>6. QED
    BY <1>1, <1>2, <1>3, <1>4, <1>5 DEF H!Next

\* A click on a page: the other one has never been used.
LEMMA ClicksAlone ==
    ASSUME HouseholdType, troubles = {}, troubles' = {}, H!Kind = "member", MemberInv, NEW p \in H!Pages, NEW call,
           H!Clicks(p, call), NEW c \in Actions, queue' = [queue EXCEPT ![p] = Append(@, c)],
           Boxes(p) => Boxes(p)'
    PROVE  (\A q \in H!Pages : InUse(q)') /\ \A q \in H!Pages : Alone(q)' => Boxes(q)'
<1>1. /\ clicks' = Append(clicks, p)
      /\ \A k \in DOMAIN clicks : clicks[k] \notin H!Pages \ {p}
      /\ \A q \in H!Pages \ {p} : queue[q] = <<>>
    BY DEF H!Clicks
<1>2. clicks \in Seq(H!Pages \cup H!Panels)
    BY DEF HouseholdType
<1>3. Alone(p)
    BY <1>1, <1>2 DEF Alone
<1>4. /\ Len(clicks') = Len(clicks) + 1 /\ clicks'[Len(clicks) + 1] = p
      /\ \A k \in 1..Len(clicks) : clicks'[k] = clicks[k]
    <2> DEFINE S == H!Pages \cup H!Panels
    <2>1. clicks \in Seq(S) /\ p \in S
        BY <1>2
    <2> HIDE DEF S
    <2>2. QED
        BY <1>1, <2>1
<1>5. Len(clicks) \in Nat
    BY <1>2
<1>6. Alone(p)' /\ \E k \in 1..Len(clicks') : clicks'[k] = p
    BY <1>3, <1>4, <1>5 DEF Alone
<1>7. \A q \in H!Pages : q # p => queue'[q] = <<>> /\ ~Alone(q)'
    BY <1>1, <1>6, PushQueue DEF Alone
<1>8. Boxes(p)'
    BY <1>3 DEF MemberInv
<1>9. ASSUME NEW q \in H!Pages PROVE InUse(q)'
    BY <1>6, <1>7 DEF InUse
<1>10. QED
    BY <1>7, <1>8, <1>9

LEMMA StepKeepsMember ==
    HouseholdType /\ MemberInv /\ (troubles = {} => OnePrimary) /\ [H!Next]_household => MemberInv'
<1> SUFFICES ASSUME HouseholdType, MemberInv, troubles = {} => OnePrimary, [H!Next]_household,
                    (troubles = {} /\ H!Kind = "member")'
             PROVE  (\A p \in H!Pages : InUse(p)') /\ \A p \in H!Pages : Alone(p)' => Boxes(p)'
    BY DEF MemberInv
<1>1. troubles = {} /\ troubles' = {} /\ H!Kind = "member"
    BY TroublesStay, StepKeepsType DEF household, H!Kind
<1>2. (\A p \in H!Pages : InUse(p)) /\ \A p \in H!Pages : Alone(p) => Boxes(p)
    BY <1>1 DEF MemberInv
<1>3. CASE UNCHANGED household
    BY <1>2, <1>3 DEF household, InUse, Alone, Boxes, Queued, OneForm, Fresh, Box, Named, Holds, Landed, Changing,
                      H!Now, H!View, H!Listed
<1>4. ASSUME NEW p \in H!Pages, UNCHANGED <<queue, clicks, rows, shown>>, \A q \in H!Pages : q # p => forms'[q] = forms[q],
             Boxes(p) => Boxes(p)'
      PROVE  (\A q \in H!Pages : InUse(q)') /\ \A q \in H!Pages : Alone(q)' => Boxes(q)'
    <2>1. ASSUME NEW q \in H!Pages PROVE InUse(q)'
        BY <1>2, <1>4 DEF InUse, Alone
    <2>2. ASSUME NEW q \in H!Pages, Alone(q)' PROVE Boxes(q)'
        <3>1. Alone(q) /\ Boxes(q)
            BY <1>2, <1>4, <2>2 DEF Alone
        <3>2. CASE q = p
            BY <1>4, <3>1, <3>2
        <3>3. CASE q # p
            BY <1>4, <3>1, <3>3 DEF Boxes, Queued, OneForm, Fresh, Box, Named, Holds, Landed, Changing,
                                    H!Now, H!View, H!Listed
        <3>4. QED
            BY <3>2, <3>3
    <2>3. QED
        BY <2>1, <2>2
<1>5. ASSUME NEW p \in H!Pages, H!Click(p)
      PROVE  (\A q \in H!Pages : InUse(q)') /\ \A q \in H!Pages : Alone(q)' => Boxes(q)'
    <2>1. ASSUME NEW i \in H!Ids \cup {0}, H!openForm(p, i)
          PROVE  (\A q \in H!Pages : InUse(q)') /\ \A q \in H!Pages : Alone(q)' => Boxes(q)'
        <3>1. UNCHANGED <<queue, clicks, rows, shown>> /\ \A q \in H!Pages : q # p => forms'[q] = forms[q]
            BY <2>1 DEF H!openForm, HouseholdType
        <3>2. QED
            BY <1>1, <1>4, <2>1, <3>1, OpenKeepsBoxes
    <2>2. ASSUME NEW f \in forms[p], H!onCancel(p, f)
          PROVE  (\A q \in H!Pages : InUse(q)') /\ \A q \in H!Pages : Alone(q)' => Boxes(q)'
        <3>1. UNCHANGED <<queue, clicks, rows, shown>> /\ \A q \in H!Pages : q # p => forms'[q] = forms[q]
            BY <2>2 DEF H!onCancel, HouseholdType
        <3>2. QED
            BY <1>4, <2>2, <3>1, CancelKeepsBoxes
    <2>3. ASSUME NEW i \in H!Ids, H!onArchive(p, i)
          PROVE  (\A q \in H!Pages : InUse(q)') /\ \A q \in H!Pages : Alone(q)' => Boxes(q)'
        <3>1. PICK call : H!Clicks(p, call)
            BY <2>3 DEF H!onArchive
        <3>2. PICK c \in Actions : queue' = [queue EXCEPT ![p] = Append(@, c)]
            BY <2>3, ArchiveAction
        <3>3. QED
            BY <1>1, <2>3, <3>1, <3>2, ClicksAlone, ArchiveKeepsBoxes
    <2>4. ASSUME NEW f \in forms[p], NEW ticked \in BOOLEAN, H!submit(p, f, ticked)
          PROVE  (\A q \in H!Pages : InUse(q)') /\ \A q \in H!Pages : Alone(q)' => Boxes(q)'
        <3>1. PICK call : H!Clicks(p, call)
            BY <2>4 DEF H!submit
        <3>2. PICK c \in Actions : queue' = [queue EXCEPT ![p] = Append(@, c)]
            BY <2>4, SubmitAction
        <3>3. QED
            BY <1>1, <2>4, <3>1, <3>2, ClicksAlone, SubmitKeepsBoxes
    <2>5. QED
        BY <1>1, <1>5, <2>1, <2>2, <2>3, <2>4, ClickCases
<1>6. ASSUME NEW p \in H!Pages, queue[p] # <<>>, clicks' = clicks, \A q \in H!Pages : q # p => queue'[q] = queue[q],
             Boxes(p) => Boxes(p)'
      PROVE  (\A q \in H!Pages : InUse(q)') /\ \A q \in H!Pages : Alone(q)' => Boxes(q)'
    <2>1. Boxes(p)'
        BY <1>1, <1>6, OthersWait
    <2>2. QED
        BY <1>1, <1>6, <2>1, PageStep
<1>7. ASSUME NEW p \in H!Pages, H!Serve(p)
      PROVE  (\A q \in H!Pages : InUse(q)') /\ \A q \in H!Pages : Alone(q)' => Boxes(q)'
    <2>1. queue[p] # <<>>
        BY <1>7, ServeCases
    <2>2. Boxes(p) /\ H!Now(p) = queue[p][1] /\ 1 \in 1..Len(queue[p])
        BY <1>1, <1>2, <2>1, NowTyped DEF InUse, H!Now
    <2>3. H!Now(p).op \in {"create", "update", "remove"}
        BY <2>2 DEF Boxes, Queued, Named
    <2>4. H!Now(p).stage \in {"sent", "loaded", "demoted"}
        BY <1>1, <1>7, <2>3, MemberServe
    <2>5. ASSUME NEW c \in Actions, Progress(p, c)
          PROVE  clicks' = clicks /\ (\A q \in H!Pages : q # p => queue'[q] = queue[q]) /\ Boxes(p)'
        <3>1. H!Stage(p, c) /\ clicks' = clicks
            BY <2>5 DEF Progress, H!Step
        <3>2. QED
            BY <1>1, <2>1, <2>2, <2>4, <2>5, <3>1, StageQueue, ProgressKeepsBoxes
    <2>6. ASSUME NEW table \in Tables, H!Commits(p, table), Writes(p, table)
          PROVE  clicks' = clicks /\ (\A q \in H!Pages : q # p => queue'[q] = queue[q]) /\ Boxes(p)'
        <3>1. PICK c \in Actions : /\ Same(c, H!Now(p)) /\ c.stage = "ok" /\ H!Stage(p, c)
                                   /\ rows' = table /\ UNCHANGED <<shown, forms, clicks>>
            BY <2>1, <2>6, CommitStep
        <3>2. QED
            BY <1>1, <2>1, <2>2, <2>4, <2>6, <3>1, StageQueue, CommitKeepsBoxes
    <2>7. QED
        BY <1>1, <1>6, <1>7, <2>1, <2>3, <2>5, <2>6, MemberServe
<1>8. ASSUME NEW p \in H!Pages, H!Answer(p)
      PROVE  (\A q \in H!Pages : InUse(q)') /\ \A q \in H!Pages : Alone(q)' => Boxes(q)'
    <2>1. ASSUME H!revalidatePath(p)
          PROVE  queue[p] # <<>> /\ clicks' = clicks /\ (\A q \in H!Pages : q # p => queue'[q] = queue[q])
        <3>1. queue[p] # <<>> /\ clicks' = clicks
            BY <2>1, RerenderStep
        <3>2. PICK c \in Actions : H!Stage(p, c)
            BY <2>1, RerenderStep
        <3>3. QED
            BY <3>1, <3>2, StageQueue
    <2>2. ASSUME H!Rendered(p) \/ H!Refused(p)
          PROVE  queue[p] # <<>> /\ clicks' = clicks /\ (\A q \in H!Pages : q # p => queue'[q] = queue[q])
        <3>1. queue[p] # <<>> /\ clicks' = clicks /\ queue' = [queue EXCEPT ![p] = Tail(@)]
            BY <2>2 DEF H!Rendered, H!Refused, H!Answered
        <3>2. QED
            BY <3>1, PopQueue
    <2>3. ~H!NetworkError(p)
        BY <1>1 DEF H!NetworkError
    <2>4. Boxes(p) => Boxes(p)'
        BY <1>1, <1>8, <2>3, AnswerCases, RerenderKeepsBoxes, RenderedKeepsBoxes, RefusedKeepsBoxes
    <2>5. QED
        BY <1>6, <1>8, <2>1, <2>2, <2>3, <2>4, AnswerCases
<1>9. ASSUME (\E t \in H!Panels : H!PartyPanel(t)) \/ (\E a \in asks : H!Trip(a))
      PROVE  (\A q \in H!Pages : InUse(q)') /\ \A q \in H!Pages : Alone(q)' => Boxes(q)'
    <2>1. /\ UNCHANGED <<rows, shown, forms, queue>>
          /\ clicks' = clicks \/ \E t \in H!Panels : clicks' = Append(clicks, t)
        BY <1>9, TabKeepsPages
    <2>2. \A q \in H!Pages : Boxes(q) => Boxes(q)'
        BY <2>1 DEF Boxes, Queued, OneForm, Fresh, Box, Named, Holds, Landed, Changing, H!Now, H!View, H!Listed
    <2>3. \A q \in H!Pages : (Alone(q)' <=> Alone(q)) /\ (InUse(q) => InUse(q)')
        <3>1. CASE clicks' = clicks
            BY <2>1, <3>1 DEF Alone, InUse
        <3>2. ASSUME NEW t \in H!Panels, clicks' = Append(clicks, t) PROVE \A q \in H!Pages : (Alone(q)' <=> Alone(q)) /\ (InUse(q) => InUse(q)')
            <4>1. /\ Len(clicks') = Len(clicks) + 1 /\ clicks'[Len(clicks) + 1] = t /\ Len(clicks) \in Nat
                  /\ \A k \in 1..Len(clicks) : clicks'[k] = clicks[k]
                <5> DEFINE S == H!Pages \cup H!Panels
                <5>1. clicks \in Seq(S) /\ t \in S
                    BY DEF HouseholdType
                <5> HIDE DEF S
                <5>2. QED
                    BY <3>2, <5>1
            <4>2. t \notin H!Pages
                BY DEF H!Panels, H!Pages
            <4>3. \A q \in H!Pages : Alone(q)' <=> Alone(q)
                BY <4>1, <4>2 DEF Alone
            <4>4. \A q \in H!Pages : (\E k \in 1..Len(clicks) : clicks[k] = q) => \E k \in 1..Len(clicks') : clicks'[k] = q
                BY <4>1
            <4>5. QED
                BY <2>1, <4>3, <4>4 DEF InUse
        <3>3. QED
            BY <2>1, <3>1, <3>2
    <2>4. QED
        BY <1>2, <2>2, <2>3
<1>10. QED
    BY <1>3, <1>5, <1>7, <1>8, <1>9 DEF H!Next

-----------------------------------------------------------------------------
(* Only members have a primary, and one at most.                            *)

\* What a page queues or shows has no primary if it is not of a member.
Plain(c) == ~c.primary /\ \A v \in c.seen : ~v.row.primary

NoneQueued == \A p \in H!Pages : \A k \in 1..Len(queue[p]) : Plain(queue[p][k])

LEMMA QueuesPlain ==
    ASSUME HouseholdType, NoneQueued, NEW p \in H!Pages,
           \/ queue[p] # <<>> /\ queue' = [queue EXCEPT ![p] = Tail(@)]
           \/ \E c \in Actions : Plain(c) /\ queue' = [queue EXCEPT ![p] = Append(@, c)]
           \/ \E c \in Actions : queue[p] # <<>> /\ Plain(c) /\ H!Stage(p, c)
           \/ UNCHANGED queue
    PROVE  NoneQueued'
<1>1. CASE queue[p] # <<>> /\ queue' = [queue EXCEPT ![p] = Tail(@)]
    BY <1>1, PopQueue DEF NoneQueued, Plain
<1>2. ASSUME NEW c \in Actions, Plain(c), queue' = [queue EXCEPT ![p] = Append(@, c)] PROVE NoneQueued'
    BY <1>2, PushQueue DEF NoneQueued, Plain
<1>3. ASSUME NEW c \in Actions, queue[p] # <<>>, Plain(c), H!Stage(p, c) PROVE NoneQueued'
    BY <1>3, StageQueue DEF NoneQueued, Plain
<1>4. CASE UNCHANGED queue
    BY <1>4 DEF NoneQueued, Plain
<1>5. QED
    BY <1>1, <1>2, <1>3, <1>4

NoneShown ==
    /\ \A i \in H!Ids : ~rows[i].primary
    /\ \A p \in H!Pages : \A v \in shown[p] : ~v.row.primary
    /\ \A p \in H!Pages : \A f \in forms[p] : ~f.primary

LEMMA StepKeepsNoPrimary == HouseholdType /\ NoPrimary /\ [H!Next]_household => NoPrimary'
<1> SUFFICES ASSUME HouseholdType, NoPrimary, [H!Next]_household, H!Kind' # "member" PROVE NoneQueued' /\ NoneShown'
    BY DEF NoPrimary, NoneQueued, NoneShown, Plain
<1>1. H!Kind # "member"
    BY StepKeepsType DEF H!Kind
<1>2. NoneQueued /\ NoneShown
    BY <1>1 DEF NoPrimary, NoneQueued, NoneShown, Plain
<1>3. \A p \in H!Pages : queue[p] # <<>> => Plain(H!Now(p))
    BY <1>2, NowTyped DEF NoneQueued, H!Now
<1>4. CASE UNCHANGED <<rows, shown, forms, queue>>
    BY <1>2, <1>4 DEF NoneQueued, NoneShown, Plain
<1>5. ASSUME UNCHANGED <<rows, shown, forms>> PROVE NoneShown'
    BY <1>2, <1>5 DEF NoneShown
<1>6. ASSUME NEW p \in H!Pages, H!Click(p) PROVE NoneQueued' /\ NoneShown'
    <2>1. ASSUME NEW i \in H!Ids \cup {0}, H!openForm(p, i) PROVE NoneQueued' /\ NoneShown'
        <3>1. UNCHANGED <<rows, shown, queue>> /\ forms' = [forms EXCEPT ![p] = @ \cup {H!fromMember(p, i)}]
            BY <2>1 DEF H!openForm
        <3>2. ~H!fromMember(p, i).primary
            BY <1>2 DEF H!fromMember, NoneShown
        <3>3. NoneShown'
            BY <1>2, <3>1, <3>2 DEF NoneShown, HouseholdType
        <3>4. NoneQueued'
            BY <1>2, <3>1, QueuesPlain
        <3>5. QED
            BY <3>3, <3>4
    <2>2. ASSUME NEW f \in forms[p], H!onCancel(p, f) PROVE NoneQueued' /\ NoneShown'
        <3>1. UNCHANGED <<rows, shown, queue>> /\ forms' = [forms EXCEPT ![p] = @ \ {f}]
            BY <2>2 DEF H!onCancel
        <3>2. NoneShown'
            BY <1>2, <3>1 DEF NoneShown, HouseholdType
        <3>3. NoneQueued'
            BY <1>2, <3>1, QueuesPlain
        <3>4. QED
            BY <3>2, <3>3
    <2>3. ASSUME NEW i \in H!Ids, H!onArchive(p, i) PROVE NoneQueued' /\ NoneShown'
        <3>1. UNCHANGED <<rows, shown, forms>>
            BY <2>3 DEF H!onArchive, H!Clicks
        <3>2. \E c \in Actions : Plain(c) /\ queue' = [queue EXCEPT ![p] = Append(@, c)]
            BY <2>3, ArchiveAction DEF Plain
        <3>3. QED
            BY <1>2, <1>5, <3>1, <3>2, QueuesPlain
    <2>4. ASSUME NEW f \in forms[p], NEW ticked \in BOOLEAN, H!submit(p, f, ticked) PROVE NoneQueued' /\ NoneShown'
        <3>1. UNCHANGED <<rows, shown, forms>> /\ ~ticked
            BY <1>1, <2>4 DEF H!submit, H!Clicks
        <3>2. ~f.primary
            BY <1>2 DEF NoneShown
        <3>3. PICK c \in Actions :
                 /\ queue' = [queue EXCEPT ![p] = Append(@, c)]
                 /\ c.op = (IF f.id # 0 THEN "update" ELSE IF H!Kind = "document" THEN "init" ELSE "create")
                 /\ c.id = f.id /\ c.primary = (f.primary # ticked) /\ c.ticked = ticked /\ c.stage = "sent" /\ c.seen = {}
            BY <2>4, SubmitAction
        <3>4. ~c.primary
            BY <3>1, <3>2, <3>3 DEF HouseholdType
        <3>5. Plain(c)
            BY <3>3, <3>4 DEF Plain
        <3>6. QED
            BY <1>2, <1>5, <3>1, <3>3, <3>5, QueuesPlain
    <2>5. ASSUME H!PutAnswered(p) PROVE NoneQueued' /\ NoneShown'
        <3>1. UNCHANGED <<rows, shown, forms>>
            BY <2>5, UploadAction
        <3>2. UNCHANGED queue \/ \E c \in Actions : Plain(c) /\ queue' = [queue EXCEPT ![p] = Append(@, c)]
            BY <2>5, UploadAction DEF Plain
        <3>3. QED
            BY <1>2, <1>5, <3>1, <3>2, QueuesPlain
    <2>6. ASSUME H!put(p) PROVE NoneQueued' /\ NoneShown'
        <3>1. UNCHANGED <<rows, shown, forms>> /\ queue[p] # <<>> /\ queue' = [queue EXCEPT ![p] = Tail(@)]
            BY <2>6 DEF H!put, H!At, H!browser
        <3>2. QED
            BY <1>2, <1>5, <3>1, QueuesPlain
    <2>7. QED
        BY <1>6, <2>1, <2>2, <2>3, <2>4, <2>5, <2>6, ClickCases
<1>7. ASSUME NEW p \in H!Pages, H!Serve(p) PROVE NoneQueued' /\ NoneShown'
    <2>1. queue[p] # <<>> /\ Plain(H!Now(p))
        BY <1>3, <1>7, ServeCases
    <2>2. ASSUME NEW c \in Actions, Same(c, H!Now(p)), c.seen = H!Now(p).seen, H!Stage(p, c) PROVE NoneQueued'
        <3>1. Plain(c)
            BY <2>1, <2>2 DEF Plain, Same
        <3>2. QED
            BY <1>2, <2>1, <2>2, <3>1, QueuesPlain
    <2>3. ASSUME NEW table \in Tables, Files(p, table) PROVE NoneQueued' /\ NoneShown'
        <3>1. PICK c \in Actions : /\ Same(c, H!Now(p)) /\ c.seen = H!Now(p).seen /\ H!Stage(p, c)
                                   /\ rows' = table /\ UNCHANGED <<shown, forms>>
            BY <2>1, <2>3, FilesStep
        <3>2. \A i \in H!Ids : ~rows'[i].primary
            BY <1>1, <1>2, <2>1, <2>3, <3>1 DEF Files, NoneShown, Plain
        <3>3. QED
            BY <1>2, <2>2, <3>1, <3>2 DEF NoneShown
    <2>4. ASSUME H!create_document(p) PROVE NoneQueued' /\ NoneShown'
        <3>1. rows' = H!Insert(p) /\ H!Free # {} /\ UNCHANGED <<shown, forms>>
            BY <2>4, DocumentStep
        <3>2. PICK c \in Actions : Same(c, H!Now(p)) /\ c.seen = H!Now(p).seen /\ H!Stage(p, c)
            BY <2>4, DocumentStep
        <3>3. \A i \in H!Ids : ~rows'[i].primary
            BY <1>2, <2>1, <3>1, InsertRows DEF NoneShown, Plain
        <3>4. QED
            BY <1>2, <2>2, <3>1, <3>2, <3>3 DEF NoneShown
    <2>5. ASSUME NEW c \in Actions, H!Step(p, c), Same(c, H!Now(p)), c.seen = H!Now(p).seen
          PROVE  NoneQueued' /\ NoneShown'
        BY <1>5, <2>2, <2>5 DEF H!Step, H!browser
    <2>6. QED
        BY <1>7, <2>3, <2>4, <2>5, ServeCases
<1>8. ASSUME NEW p \in H!Pages, H!Answer(p) PROVE NoneQueued' /\ NoneShown'
    <2>1. ASSUME H!revalidatePath(p) PROVE NoneQueued' /\ NoneShown'
        <3>1. queue[p] # <<>> /\ UNCHANGED <<rows, shown, forms>>
            BY <2>1, RerenderStep
        <3>2. PICK c \in Actions : /\ Same(c, H!Now(p)) /\ H!Stage(p, c)
                                   /\ c.seen = H!View(rows) \/ c.seen = H!Now(p).seen
            BY <2>1, RerenderStep
        <3>3. \A v \in H!View(rows) : ~v.row.primary
            BY <1>2 DEF H!View, H!Listed, NoneShown
        <3>4. Plain(c)
            BY <1>3, <3>1, <3>2, <3>3 DEF Plain, Same
        <3>5. QED
            BY <1>2, <1>5, <3>1, <3>2, <3>4, QueuesPlain
    <2>2. ASSUME H!Refused(p) \/ H!NetworkError(p) PROVE NoneQueued' /\ NoneShown'
        <3>1. queue[p] # <<>> /\ queue' = [queue EXCEPT ![p] = Tail(@)] /\ UNCHANGED <<rows, shown, forms>>
            BY <2>2 DEF H!Refused, H!NetworkError, H!Answered, H!browser
        <3>2. QED
            BY <1>2, <1>5, <3>1, QueuesPlain
    <2>3. ASSUME H!Rendered(p) PROVE NoneQueued' /\ NoneShown'
        <3>1. /\ queue[p] # <<>> /\ queue' = [queue EXCEPT ![p] = Tail(@)] /\ UNCHANGED rows
              /\ shown' = [shown EXCEPT ![p] = H!Now(p).seen]
              /\ forms' = [forms EXCEPT ![p] =
                    {f \in @ : f.id # H!Now(p).id /\ (f.id = 0 \/ \E v \in H!Now(p).seen : v.id = f.id)}]
            BY <2>3 DEF H!Rendered
        <3>2. \A v \in H!Now(p).seen : ~v.row.primary
            BY <1>3, <3>1 DEF Plain
        <3>3. \A q \in H!Pages : forms'[q] \subseteq forms[q]
            BY <3>1 DEF HouseholdType
        <3>4. \A q \in H!Pages : \A v \in shown'[q] : ~v.row.primary
            BY <1>2, <3>1, <3>2 DEF NoneShown, HouseholdType
        <3>5. NoneShown'
            BY <1>2, <3>1, <3>3, <3>4 DEF NoneShown
        <3>6. QED
            BY <1>2, <3>1, <3>5, QueuesPlain
    <2>4. QED
        BY <1>8, <2>1, <2>2, <2>3, AnswerCases
<1>9. ASSUME (\E t \in H!Panels : H!PartyPanel(t)) \/ (\E a \in asks : H!Trip(a)) PROVE NoneQueued' /\ NoneShown'
    BY <1>4, <1>9, TabKeepsPages
<1>10. QED
    BY <1>4, <1>6, <1>7, <1>8, <1>9 DEF H!Next, household

\* Whoever holds the slot only loses it or gains it with a form that was ticked over, or is removed.
Purposeful == \E p \in H!Pages : queue[p] # <<>> /\ (H!Now(p).ticked \/ H!Now(p).op = "remove")

LEMMA WritesPrimaries ==
    ASSUME HouseholdType, NEW p \in H!Pages, queue[p] # <<>>, Box(H!Now(p)), Named(p, H!Now(p)),
           NEW table \in Tables, Writes(p, table), H!Now(p).op # "remove", ~H!Now(p).ticked
    PROVE  H!Primaries(table) = H!Primaries(rows)
<1>1. H!Now(p) \in Actions
    BY NowTyped
<1>2. CASE H!Now(p).op = "create"
    <2>1. ~Holds(rows, H!Now(p).id)
        BY <1>2 DEF Named, Holds
    <2>2. H!Now(p).stage = "sent" /\ ~H!Now(p).primary /\ H!Free # {} /\ table = H!Insert(p)
        BY <1>2, <2>1 DEF Writes, Box
    <2>3. /\ rows[H!NextId].kind = "none" /\ ~H!Insert(p)[H!NextId].primary
          /\ \A i \in H!Ids : i # H!NextId => H!Insert(p)[i] = rows[i]
        BY <2>2, InsertRows
    <2>4. QED
        BY <2>2, <2>3 DEF H!Primaries, H!Listed
<1>3. CASE H!Now(p).op = "update"
    <2>1. H!Now(p).primary = Holds(rows, H!Now(p).id) /\ H!Now(p).loaded.primary = Holds(rows, H!Now(p).id)
        BY <1>3 DEF Writes, Box
    <2>2. H!Written(p) \in Tables /\ \A i \in H!Ids : /\ H!Written(p)[i].kind = rows[i].kind
                                                      /\ H!Written(p)[i].gone = rows[i].gone
                                                      /\ H!Written(p)[i].primary = rows[i].primary
        BY <1>3, <2>1, WrittenRows
    <2>3. \A i \in H!Ids : table[i] = H!Written(p)[i]
        <3>1. CASE H!Now(p).stage = "loaded"
            BY <1>3, <3>1 DEF Writes
        <3>2. CASE H!Now(p).stage = "demoted" /\ table = H!Demoted(p, H!Written(p))
            <4>1. H!Now(p).others = {}
                BY <3>2 DEF Box
            <4>2. QED
                BY <2>2, <3>2, <4>1, DemotedRows
        <3>3. QED
            BY <1>3, <3>1, <3>2 DEF Writes
    <2>4. QED
        BY <2>2, <2>3 DEF H!Primaries, H!Listed
<1>4. QED
    BY <1>2, <1>3 DEF Named

\* A step of the household leaves one member in the slot, and moves it on purpose.
LEMMA StepKeepsPrimary ==
    ASSUME HouseholdType, MemberInv, NoPrimary, NoPrimary', troubles = {}, OnePrimary, [H!Next]_household
    PROVE  OnePrimary' /\ (H!Primaries(rows') # H!Primaries(rows) => Purposeful)
<1>1. CASE UNCHANGED rows
    BY <1>1 DEF OnePrimary, H!Primaries, H!Listed, H!Kind
<1>2. CASE H!Kind # "member"
    <2>1. H!Kind' # "member"
        BY <1>2, StepKeepsType DEF H!Kind
    <2>2. H!Primaries(rows') = {} /\ H!Primaries(rows) = {}
        BY <1>2, <2>1 DEF NoPrimary, H!Primaries, H!Listed
    <2>3. QED
        BY <2>1, <2>2 DEF OnePrimary
<1>3. CASE H!Kind = "member"
    <2>1. ASSUME NEW p \in H!Pages, H!Serve(p)
          PROVE  OnePrimary' /\ (H!Primaries(rows') # H!Primaries(rows) => Purposeful)
        <3>1. queue[p] # <<>>
            BY <2>1, ServeCases
        <3>2. Boxes(p) /\ H!Now(p) = queue[p][1] /\ 1 \in 1..Len(queue[p])
            BY <1>3, <3>1, NowTyped DEF MemberInv, InUse, H!Now
        <3>3. Box(H!Now(p)) /\ Named(p, H!Now(p))
            BY <3>2 DEF Boxes, Queued
        <3>4. H!Now(p).op \in {"create", "update", "remove"}
            BY <3>3 DEF Named
        <3>5. ASSUME NEW c \in Actions, Progress(p, c)
              PROVE  OnePrimary' /\ (H!Primaries(rows') # H!Primaries(rows) => Purposeful)
            BY <1>1, <3>5 DEF Progress, H!Step
        <3>6. ASSUME NEW table \in Tables, H!Commits(p, table), Writes(p, table),
                     H!Now(p).op # "remove" => \A i, j \in H!Primaries(table) : i = j
              PROVE  OnePrimary' /\ (H!Primaries(rows') # H!Primaries(rows) => Purposeful)
            <4>1. rows' = table
                BY <3>6 DEF H!Commits
            <4>2. CASE H!Now(p).op # "remove"
                <5>1. \A i, j \in H!Primaries(table) : i = j
                    BY <3>6, <4>2
                <5>2. OnePrimary'
                    BY <4>1, <5>1 DEF OnePrimary, H!Primaries, H!Listed
                <5>3. ~H!Now(p).ticked => H!Primaries(table) = H!Primaries(rows)
                    BY <3>1, <3>3, <3>6, <4>2, WritesPrimaries
                <5>4. QED
                    BY <3>1, <4>1, <5>2, <5>3 DEF Purposeful
            <4>3. CASE H!Now(p).op = "remove"
                <5>1. Purposeful
                    BY <3>1, <4>3 DEF Purposeful
                <5>2. \A i \in H!Ids : \/ table[i] = rows[i]
                                       \/ i = H!Now(p).id /\ ~table[i].primary
                    BY <4>3, <3>6 DEF Writes, HouseholdType, Tables, Rows
                <5>3. H!Primaries(table) \subseteq H!Primaries(rows)
                    BY <5>2 DEF H!Primaries, H!Listed
                <5>4. \A i, j \in H!Primaries(table) : i = j
                    BY <1>3, <5>3 DEF OnePrimary
                <5>5. OnePrimary'
                    BY <4>1, <5>4 DEF OnePrimary, H!Primaries, H!Listed
                <5>6. QED
                    BY <5>1, <5>5
            <4>4. QED
                BY <4>2, <4>3
        <3>7. QED
            BY <1>3, <2>1, <3>4, <3>5, <3>6, MemberServe
    <2>2. ASSUME NEW p \in H!Pages, H!Click(p) PROVE rows' = rows
        BY <2>2, ClickCases, UploadAction DEF H!openForm, H!onArchive, H!onCancel, H!submit, H!Clicks, H!put
    <2>3. QED
        BY <1>1, <2>1, <2>2, AnswerKeepsType, TabKeepsPages DEF H!Next, household
<1>4. QED
    BY <1>2, <1>3

LEMMA InitPrimary == H!Init => NoPrimary /\ MemberInv /\ OnePrimary
<1> SUFFICES ASSUME H!Init PROVE NoPrimary /\ MemberInv /\ OnePrimary
    OBVIOUS
<1>1. PICK kind \in {"member", "document", "contact"} \cup H!Tiers, primary \in BOOLEAN :
          /\ primary => kind = "member"
          /\ rows = [i \in H!Ids |-> IF i = 1 \/ (i = 2 /\ kind = "member")
                                     THEN [H!NoRow EXCEPT !.kind = kind, !.primary = primary /\ i = 1, !.uploaded = kind = "document"]
                                     ELSE H!NoRow]
    BY DEF H!Init
<1>2. rows[1].kind = kind /\ \A i \in H!Ids : rows[i].primary => primary /\ i = 1
    BY <1>1, FirstId DEF H!NoRow
<1>3. /\ shown = [p \in H!Pages |-> IF H!Sees(p) THEN H!View(rows) ELSE {}] /\ forms = [p \in H!Pages |-> {}]
      /\ queue = [p \in H!Pages |-> <<>>] /\ clicks = <<>>
    BY DEF H!Init
<1>4. OnePrimary
    BY <1>2 DEF OnePrimary, H!Primaries, H!Listed
<1>5. \A v \in H!View(rows) : v.id \in H!Listed(rows) /\ v.row.primary = rows[v.id].primary
    BY DEF H!View
<1>6. \A p \in H!Pages : /\ queue[p] = <<>> /\ forms[p] = {} /\ ~Landed(p)
                         /\ \A v \in shown[p] : v.id \in H!Listed(rows) /\ v.row.primary = rows[v.id].primary
    BY <1>3, <1>5 DEF Landed
<1>7. NoPrimary
    <2>1. SUFFICES ASSUME H!Kind # "member" PROVE NoneQueued /\ NoneShown
        BY DEF NoPrimary, NoneQueued, NoneShown, Plain
    <2>2. \A i \in H!Ids : ~rows[i].primary
        BY <1>1, <1>2, <2>1 DEF H!Kind
    <2>3. \A p \in H!Pages : \A v \in shown[p] : ~v.row.primary
        BY <1>6, <2>2 DEF H!Listed
    <2>4. \A p \in H!Pages : Len(queue[p]) = 0
        BY <1>6
    <2>5. NoneQueued
        BY <2>4 DEF NoneQueued
    <2>6. QED
        BY <1>6, <2>2, <2>3, <2>5 DEF NoneShown
<1>8. MemberInv
    BY <1>6 DEF MemberInv, InUse, Boxes, Queued, OneForm, Fresh
<1>9. QED
    BY <1>4, <1>7, <1>8

PrimaryInv == NoPrimary /\ MemberInv /\ (troubles = {} => OnePrimary)

LEMMA StepKeepsPrimaryInv == HouseholdType /\ PrimaryInv /\ [H!Next]_household => PrimaryInv'
<1> SUFFICES ASSUME HouseholdType, PrimaryInv, [H!Next]_household PROVE PrimaryInv'
    OBVIOUS
<1>1. NoPrimary' /\ MemberInv'
    BY StepKeepsNoPrimary, StepKeepsMember DEF PrimaryInv
<1>2. troubles' = {} => troubles = {}
    BY TroublesStay DEF household
<1>3. QED
    BY <1>1, <1>2, StepKeepsPrimary DEF PrimaryInv

\* Who is primary only moves on purpose: on a page that is used alone, one form at a time, no form carries a box that
\* is out of date to the service, which takes every box it is sent.
THEOREM PagesPrimaryMovesOnPurpose == PagesSpec => PrimaryMovesOnPurpose
<1>1. PagesInit => HouseholdType /\ PrimaryInv
    BY InitType, InitPrimary DEF PagesInit, PrimaryInv
<1>2. HouseholdType /\ PrimaryInv /\ [PagesNext]_all => HouseholdType' /\ PrimaryInv'
    BY PagesStepsHousehold, StepKeepsType, StepKeepsPrimaryInv DEF all
<1>3. HouseholdType /\ PrimaryInv /\ HouseholdType' /\ PrimaryInv' /\ [PagesNext]_all =>
        [troubles = {} /\ H!Primaries(rows') # H!Primaries(rows) =>
           \E p \in H!Pages : queue[p] # <<>> /\ (H!Now(p).ticked \/ H!Now(p).op = "remove")]_(H!vars)
    BY PagesStepsHousehold, StepKeepsPrimary DEF PrimaryInv, Purposeful, all, household
<1>4. QED
    BY <1>1, <1>2, <1>3, PTL DEF PagesSpec, PrimaryMovesOnPurpose, H!PrimaryMovesOnPurpose

-----------------------------------------------------------------------------
(* What a page or a tab shows once its calls are answered.                   *)

LEMMA ServeStage ==
    ASSUME NEW p \in H!Pages, H!Serve(p)
    PROVE  /\ H!Now(p).stage \in {"sent", "loaded", "demoted"}
           /\ UNCHANGED <<trip, shown, forms, uploads, panel, asks, clicks, troubles>>
BY DEF H!Serve, H!create_party_member, H!update_party_member, H!archive_party_member, H!create_document,
       H!mark_uploaded, H!update_document, H!archive_document, H!create_client_contact, H!update_client_contact,
       H!delete_client_contact, H!create_fact, H!update_fact, H!redact_fact, H!At, H!_demote_other_primaries,
       H!Commit, H!Commits, H!Step, H!browser, H!tabs

\* What files a record anew is not what drafts it.
LEMMA FilesDraft ==
    ASSUME NEW p \in H!Pages, H!Serve(p)
    PROVE  H!create_document(p) \/ H!Now(p).op # "init"
BY DEF H!Serve, H!create_party_member, H!update_party_member, H!archive_party_member,
       H!mark_uploaded, H!update_document, H!archive_document, H!create_client_contact, H!update_client_contact,
       H!delete_client_contact, H!create_fact, H!update_fact, H!redact_fact, H!At

\* A page that shows nothing of this kind is not used.
Unseen(p) ==
    ~H!Sees(p) => /\ forms[p] = {} /\ shown[p] = {} /\ queue[p] = <<>> /\ uploads[p] = 0
                  /\ \A k \in 1..Len(clicks) : clicks[k] # p

\* A page that waits is the only one that was used.
Waiting(p) == queue[p] # <<>> \/ uploads[p] # 0 => Alone(p) /\ \E k \in 1..Len(clicks) : clicks[k] = p

\* What was asked for carries what is on file; a draft has its record, and a confirmation is taken.
Carried(c) ==
    /\ c.stage = "rendered" => c.seen = H!View(rows)
    /\ c.op = "init" /\ c.stage = "ok" => c.doc # 0
    /\ c.op = "complete" => c.id = 0 /\ c.stage \in {"sent", "ok", "rendered"}

InTurn(p) == \A k \in 1..Len(queue[p]) : Carried(queue[p][k]) /\ (k # 1 => queue[p][k].stage = "sent")

Confirming(p) == \E k \in 1..Len(queue[p]) : queue[p][k].op = "complete"

\* A page shows what is on file, or will when what is under way is answered.
Known(p) == shown[p] = H!View(rows) \/ uploads[p] # 0 \/ Landed(p) \/ Confirming(p)

Calm == troubles \subseteq {"forms", "failed"}

\* A page without records of this kind is idle; of the others, who waits is the only one used, and what it waits for
\* will show what is on file.
QuietPages ==
    /\ \A p \in H!Pages : Unseen(p)
    /\ Calm => \A p \in H!Pages : Waiting(p) /\ InTurn(p) /\ (Alone(p) /\ H!Sees(p) => Known(p))

LEMMA CalmBefore == [H!Next]_household /\ Calm' => Calm
BY TroublesStay DEF Calm, household

\* Whoever waits, the others do not, and are not alone.
LEMMA OnlyOneWaits ==
    ASSUME QuietPages, Calm, NEW p \in H!Pages, queue[p] # <<>> \/ uploads[p] # 0
    PROVE  /\ Alone(p) /\ \E k \in 1..Len(clicks) : clicks[k] = p
           /\ \A q \in H!Pages : q # p => queue[q] = <<>> /\ uploads[q] = 0 /\ ~Alone(q)
<1>1. Alone(p) /\ \E k \in 1..Len(clicks) : clicks[k] = p
    BY DEF QuietPages, Waiting
<1>2. \A q \in H!Pages : q # p => ~Alone(q)
    BY <1>1 DEF Alone
<1>3. QED
    BY <1>1, <1>2 DEF QuietPages, Waiting

\* A step of a page that waits only has to keep that page's part.
LEMMA QuietStep ==
    ASSUME HouseholdType, QuietPages, Calm, NEW p \in H!Pages, queue[p] # <<>> \/ uploads[p] # 0, clicks' = clicks,
           H!Kind' = H!Kind,
           \A q \in H!Pages : q # p => /\ queue'[q] = queue[q] /\ uploads'[q] = uploads[q]
                                       /\ forms'[q] = forms[q] /\ shown'[q] = shown[q],
           InTurn(p)', Known(p)'
    PROVE  QuietPages'
<1>1. /\ Alone(p) /\ \E k \in 1..Len(clicks) : clicks[k] = p
      /\ \A q \in H!Pages : q # p => queue[q] = <<>> /\ uploads[q] = 0 /\ ~Alone(q)
    BY OnlyOneWaits
<1>2. \A q \in H!Pages : Alone(q)' <=> Alone(q)
    BY DEF Alone
<1>3. \A q \in H!Pages : H!Sees(q)' <=> H!Sees(q)
    BY DEF H!Sees
<1>4. H!Sees(p)
    BY <1>1 DEF QuietPages, Unseen
<1>5. ASSUME NEW q \in H!Pages PROVE Unseen(q)'
    BY <1>3, <1>4 DEF QuietPages, Unseen
<1>6. ASSUME NEW q \in H!Pages PROVE Waiting(q)' /\ InTurn(q)' /\ ((Alone(q) /\ H!Sees(q))' => Known(q)')
    <2>1. CASE q = p
        BY <1>1, <1>2, <2>1 DEF Waiting
    <2>2. CASE q # p
        <3>1. Len(queue'[q]) = 0 /\ uploads'[q] = 0
            BY <1>1, <2>2
        <3>2. queue'[q] = <<>>
            BY <1>1, <2>2
        <3>3. QED
            BY <1>1, <1>2, <2>2, <3>1, <3>2 DEF Waiting, InTurn
    <2>3. QED
        BY <2>1, <2>2
<1>7. QED
    BY <1>5, <1>6 DEF QuietPages

\* The actions that a page has not sent yet are all it still has.
LEMMA PopInTurn ==
    ASSUME HouseholdType, NEW p \in H!Pages, InTurn(p), queue[p] # <<>>, queue' = [queue EXCEPT ![p] = Tail(@)],
           UNCHANGED rows
    PROVE  InTurn(p)' /\ (Confirming(p) => H!Now(p).op = "complete" \/ Confirming(p)')
<1>1. /\ Len(queue'[p]) = Len(queue[p]) - 1
      /\ \A k \in 1..Len(queue'[p]) : queue'[p][k] = queue[p][k + 1] /\ k + 1 \in 1..Len(queue[p])
    BY PopQueue
<1>2. Len(queue[p]) \in Nat /\ H!Now(p) = queue[p][1] /\ Len(queue'[p]) \in Nat
    <2>1. queue'[p] \in Seq(Actions)
        BY PopQueue
    <2>2. QED
        BY <2>1 DEF HouseholdType, H!Now
<1>3. \A k \in 1..Len(queue'[p]) : k + 1 # 1
    OBVIOUS
<1>4. \A d : Carried(d) => Carried(d)'
    BY DEF Carried, H!View, H!Listed
<1>5. \A k \in 1..Len(queue'[p]) : \E d : d = queue'[p][k] /\ Carried(d) /\ d.stage = "sent"
    BY <1>1, <1>3 DEF InTurn
<1>6. InTurn(p)'
    BY <1>4, <1>5 DEF InTurn
<1>7. ASSUME NEW k \in 1..Len(queue[p]), k # 1, queue[p][k].op = "complete" PROVE Confirming(p)'
    <2>1. k - 1 \in 1..Len(queue'[p]) /\ (k - 1) + 1 = k
        BY <1>1, <1>2, <1>7
    <2>2. queue'[p][k - 1] = queue[p][k]
        BY <1>1, <2>1
    <2>3. QED
        BY <1>7, <2>1, <2>2 DEF Confirming
<1>8. QED
    BY <1>2, <1>6, <1>7 DEF Confirming

\* An action joins the page's others.
LEMMA PushInTurn ==
    ASSUME HouseholdType, NEW p \in H!Pages, InTurn(p), NEW c \in Actions, queue' = [queue EXCEPT ![p] = Append(@, c)],
           UNCHANGED rows, c.stage = "sent", c.op = "complete" => c.id = 0
    PROVE  /\ InTurn(p)' /\ (Confirming(p) => Confirming(p)') /\ (c.op = "complete" => Confirming(p)')
           /\ Landed(p) => Landed(p)'
<1>1. /\ queue'[p] # <<>> /\ Len(queue'[p]) = Len(queue[p]) + 1
      /\ queue'[p][Len(queue[p]) + 1] = c
      /\ \A k \in 1..Len(queue[p]) : queue'[p][k] = queue[p][k]
    BY PushQueue
<1>2. Len(queue[p]) \in Nat /\ (queue[p] # <<>> => 1 \in 1..Len(queue[p]))
    BY DEF HouseholdType
<1>3. \A d : Carried(d) => Carried(d)'
    BY DEF Carried, H!View, H!Listed
<1>4. Carried(c)
    BY DEF Carried
<1>5. \A k \in 1..Len(queue'[p]) : k \in 1..Len(queue[p]) \/ k = Len(queue[p]) + 1
    BY <1>1, <1>2
<1>6. \A k \in 1..Len(queue'[p]) : \E d : d = queue'[p][k] /\ Carried(d) /\ (k # 1 => d.stage = "sent")
    BY <1>1, <1>4, <1>5 DEF InTurn
<1>7. InTurn(p)'
    BY <1>3, <1>6 DEF InTurn
<1>8. Confirming(p) => Confirming(p)'
    <2>1. \A k \in 1..Len(queue[p]) : k \in 1..Len(queue'[p])
        BY <1>1, <1>2
    <2>2. QED
        BY <1>1, <2>1 DEF Confirming
<1>9. c.op = "complete" => Confirming(p)'
    <2>1. Len(queue[p]) + 1 \in 1..Len(queue'[p])
        BY <1>1, <1>2
    <2>2. QED
        BY <1>1, <2>1 DEF Confirming
<1>10. Landed(p) => Landed(p)'
    BY <1>1, <1>2 DEF Landed, H!Now
<1>11. QED
    BY <1>7, <1>8, <1>9, <1>10

\* The page's first action moves on.
LEMMA StageInTurn ==
    ASSUME HouseholdType, NEW p \in H!Pages, InTurn(p), queue[p] # <<>>, NEW c \in Actions, H!Stage(p, c),
           c.op = H!Now(p).op,
           \A d : d = c => Carried(d)'
    PROVE  /\ InTurn(p)' /\ (Confirming(p) => Confirming(p)')
           /\ c.stage \in {"ok", "rendered"} => Landed(p)'
<1>1. /\ queue'[p] # <<>> /\ Len(queue'[p]) = Len(queue[p]) /\ queue'[p][1] = c
      /\ \A k \in 1..Len(queue[p]) : k # 1 => queue'[p][k] = queue[p][k]
    BY StageQueue
<1>2. H!Now(p) = queue[p][1] /\ 1 \in 1..Len(queue[p])
    BY NowTyped DEF H!Now
<1>3. \A d : Carried(d) /\ d.stage = "sent" => Carried(d)'
    BY DEF Carried
<1>4. \A k \in 1..Len(queue'[p]) : \E d : d = queue'[p][k] /\ Carried(d)' /\ (k # 1 => d.stage = "sent")
    BY <1>1, <1>3 DEF InTurn
<1>5. InTurn(p)'
    BY <1>4 DEF InTurn
<1>6. \A k \in 1..Len(queue[p]) : queue'[p][k].op = queue[p][k].op
    BY <1>1, <1>2
<1>7. Confirming(p) => Confirming(p)'
    BY <1>1, <1>6 DEF Confirming
<1>8. c.stage \in {"ok", "rendered"} => Landed(p)'
    BY <1>1 DEF Landed, H!Now
<1>9. QED
    BY <1>5, <1>7, <1>8

\* A click: the page it is on is the only one that was used.
LEMMA ClickKeepsQuiet ==
    ASSUME HouseholdType, QuietPages, NEW p \in H!Pages, H!Sees(p), NEW call, H!Clicks(p, call), NEW c \in Actions,
           queue' = [queue EXCEPT ![p] = Append(@, c)], c.stage = "sent", c.op # "complete", UNCHANGED forms,
           Calm' => Calm
    PROVE  QuietPages'
<1>1. /\ clicks' = Append(clicks, p) /\ UNCHANGED <<rows, shown, forms, uploads>>
      /\ \A q \in H!Pages : q # p => queue'[q] = queue[q]
    BY PushQueue DEF H!Clicks
<1>2. Calm' => \A k \in DOMAIN clicks : clicks[k] \notin H!Pages \ {p}
    BY DEF H!Clicks, Calm
<1>3. clicks \in Seq(H!Pages \cup H!Panels)
    BY DEF HouseholdType
<1>4. /\ Len(clicks') = Len(clicks) + 1 /\ clicks'[Len(clicks) + 1] = p
      /\ \A k \in 1..Len(clicks) : clicks'[k] = clicks[k]
    <2> DEFINE S == H!Pages \cup H!Panels
    <2>1. clicks \in Seq(S) /\ p \in S
        BY <1>3
    <2> HIDE DEF S
    <2>2. QED
        BY <1>1, <2>1
<1>5. Len(clicks) \in Nat
    BY <1>3
<1>6. \A k \in 1..Len(clicks') : k \in 1..Len(clicks) \/ k = Len(clicks) + 1
    BY <1>4, <1>5
<1>7. \A q \in H!Pages : H!Sees(q)' <=> H!Sees(q)
    BY <1>1 DEF H!Sees, H!Kind
<1>8. ASSUME NEW q \in H!Pages PROVE Unseen(q)'
    BY <1>1, <1>4, <1>6, <1>7 DEF QuietPages, Unseen
<1>9. ASSUME Calm' PROVE \A q \in H!Pages : Waiting(q)' /\ InTurn(q)' /\ ((Alone(q) /\ H!Sees(q))' => Known(q)')
    <2>1. Calm /\ Alone(p)
        BY <1>2, <1>3, <1>9 DEF Alone
    <2>2. Alone(p)' /\ \E k \in 1..Len(clicks') : clicks'[k] = p
        BY <1>4, <1>5, <1>6, <2>1 DEF Alone
    <2>3. \A q \in H!Pages : q # p => ~Alone(q)'
        BY <2>2 DEF Alone
    <2>4. \A q \in H!Pages : q # p => queue[q] = <<>> /\ uploads[q] = 0
        BY <2>1, <1>2, <1>3, <1>9 DEF QuietPages, Waiting
    <2>5. \A q \in H!Pages : q # p => queue'[q] = <<>> /\ uploads'[q] = 0 /\ Len(queue'[q]) = 0
        BY <1>1, <2>4
    <2>6. InTurn(p) /\ Known(p)
        BY <2>1 DEF QuietPages
    <2>7. InTurn(p)' /\ Known(p)'
        <3>1. shown[p] = H!View(rows) => shown'[p] = H!View(rows)'
            BY <1>1 DEF H!View, H!Listed
        <3>2. QED
            BY <1>1, <2>6, <3>1, PushInTurn DEF Known
    <2>8. ASSUME NEW q \in H!Pages, q # p PROVE Waiting(q)' /\ InTurn(q)'
        BY <2>5, <2>8 DEF Waiting, InTurn
    <2>9. Waiting(p)'
        BY <2>2 DEF Waiting
    <2>10. QED
        BY <2>3, <2>7, <2>8, <2>9
<1>10. QED
    BY <1>8, <1>9 DEF QuietPages

\* What only changes the forms, or what the tabs do.
LEMMA IdleKeepsQuiet ==
    ASSUME HouseholdType, QuietPages, UNCHANGED <<rows, shown, queue, uploads>>, Calm' => Calm,
           clicks' = clicks \/ \E t \in H!Panels : clicks' = Append(clicks, t),
           \A p \in H!Pages : ~H!Sees(p) => forms'[p] = {}
    PROVE  QuietPages'
<1>1. \A p \in H!Pages : /\ (Alone(p)' <=> Alone(p))
                         /\ (\E k \in 1..Len(clicks) : clicks[k] = p) <=> (\E k \in 1..Len(clicks') : clicks'[k] = p)
    <2>1. CASE clicks' = clicks
        BY <2>1 DEF Alone
    <2>2. ASSUME NEW t \in H!Panels, clicks' = Append(clicks, t)
          PROVE  \A p \in H!Pages : /\ (Alone(p)' <=> Alone(p))
                                    /\ (\E k \in 1..Len(clicks) : clicks[k] = p) <=> (\E k \in 1..Len(clicks') : clicks'[k] = p)
        <3>1. /\ Len(clicks') = Len(clicks) + 1 /\ clicks'[Len(clicks) + 1] = t /\ Len(clicks) \in Nat
              /\ \A k \in 1..Len(clicks) : clicks'[k] = clicks[k]
            <4> DEFINE S == H!Pages \cup H!Panels
            <4>1. clicks \in Seq(S) /\ t \in S
                BY DEF HouseholdType
            <4> HIDE DEF S
            <4>2. QED
                BY <2>2, <4>1
        <3>2. t \notin H!Pages
            BY DEF H!Panels, H!Pages
        <3>3. \A k \in 1..Len(clicks') : k \in 1..Len(clicks) \/ k = Len(clicks) + 1
            BY <3>1
        <3>4. \A p \in H!Pages : Alone(p)' <=> Alone(p)
            BY <3>1, <3>2 DEF Alone
        <3>5. ASSUME NEW p \in H!Pages
              PROVE  (\E k \in 1..Len(clicks) : clicks[k] = p) <=> (\E k \in 1..Len(clicks') : clicks'[k] = p)
            <4>1. ASSUME NEW k \in 1..Len(clicks), clicks[k] = p PROVE \E l \in 1..Len(clicks') : clicks'[l] = p
                BY <3>1, <4>1
            <4>2. ASSUME NEW k \in 1..Len(clicks'), clicks'[k] = p PROVE \E l \in 1..Len(clicks) : clicks[l] = p
                BY <3>1, <3>2, <3>3, <4>2
            <4>3. QED
                BY <4>1, <4>2
        <3>6. QED
            BY <3>4, <3>5
    <2>3. QED
        BY <2>1, <2>2
<1>2. ASSUME NEW p \in H!Pages
      PROVE  /\ (H!Sees(p)' <=> H!Sees(p)) /\ (InTurn(p) => InTurn(p)') /\ (Known(p) => Known(p)')
             /\ (Waiting(p) => Waiting(p)') /\ (Unseen(p) => Unseen(p)')
    <2>1. H!Sees(p)' <=> H!Sees(p)
        BY DEF H!Sees, H!Kind
    <2>2. InTurn(p) => InTurn(p)'
        BY DEF InTurn, Carried, H!View, H!Listed
    <2>3. Known(p) => Known(p)'
        BY DEF Known, Landed, Confirming, H!Now, H!View, H!Listed
    <2>4. Waiting(p) => Waiting(p)'
        BY <1>1 DEF Waiting
    <2>5. Unseen(p) => Unseen(p)'
        BY <1>1, <2>1 DEF Unseen
    <2>6. QED
        BY <2>1, <2>2, <2>3, <2>4, <2>5
<1>3. QED
    BY <1>1, <1>2 DEF QuietPages

\* The service: a page's action is on its way to its answer.
LEMMA ServeKeepsQuiet ==
    ASSUME HouseholdType, QuietPages, NEW p \in H!Pages, H!Serve(p), Calm
    PROVE  QuietPages'
<1>1. queue[p] # <<>> /\ H!Now(p) \in Actions
    BY ServeCases, NowTyped
<1>2. /\ H!Now(p).stage \in {"sent", "loaded", "demoted"} /\ UNCHANGED <<shown, forms, uploads, clicks>>
    BY ServeStage
<1>3. InTurn(p) /\ (Alone(p) /\ H!Sees(p) => Known(p)) /\ Alone(p)
    BY <1>1, OnlyOneWaits DEF QuietPages
<1>4. H!Sees(p) /\ H!Kind' = H!Kind
    BY <1>1, ServeKeepsType DEF QuietPages, Unseen, H!Kind
<1>5. ~Landed(p)
    BY <1>2 DEF Landed
<1>6. Carried(H!Now(p))
    BY <1>1, NowTyped, <1>3 DEF InTurn, H!Now
<1>7. ASSUME NEW c \in Actions, H!Stage(p, c), c.op = H!Now(p).op, c.id = H!Now(p).id, c.stage = "ok",
             c.op = "init" => c.doc # 0
      PROVE  QuietPages'
    <2>1. \A d : d = c => Carried(d)'
        BY <1>6, <1>7 DEF Carried
    <2>2. InTurn(p)' /\ Landed(p)'
        BY <1>1, <1>3, <1>7, <2>1, StageInTurn
    <2>3. Known(p)'
        BY <2>2 DEF Known
    <2>4. \A q \in H!Pages : q # p => queue'[q] = queue[q]
        BY <1>1, <1>7, StageQueue
    <2>5. QED
        BY <1>1, <1>2, <1>4, <2>2, <2>3, <2>4, QuietStep
<1>8. ASSUME NEW table \in Tables, Files(p, table), ~H!create_document(p) PROVE QuietPages'
    <2>1. PICK c \in Actions : Same(c, H!Now(p)) /\ c.doc = H!Now(p).doc /\ c.stage = "ok" /\ H!Stage(p, c)
        BY <1>1, <1>8, FilesStep
    <2>2. H!Now(p).op # "init"
        BY <1>8, FilesDraft
    <2>3. QED
        BY <1>7, <2>1, <2>2 DEF Same
<1>9. ASSUME H!create_document(p) PROVE QuietPages'
    <2>1. PICK c \in Actions : Same(c, H!Now(p)) /\ c.doc = H!NextId /\ c.stage = "ok" /\ H!Stage(p, c)
        BY <1>9, DocumentStep
    <2>2. H!NextId # 0
        BY <1>9, DocumentStep, NextIdFree DEF H!Free, H!Ids
    <2>3. QED
        BY <1>7, <2>1, <2>2 DEF Same
<1>10. ASSUME NEW c \in Actions, H!Step(p, c), Same(c, H!Now(p)), Moving(c) PROVE QuietPages'
    <2>1. H!Stage(p, c) /\ UNCHANGED rows
        BY <1>10 DEF H!Step
    <2>2. \A d : d = c => Carried(d)'
        BY <1>10 DEF Carried, Moving
    <2>3. InTurn(p)' /\ (Confirming(p) => Confirming(p)')
        BY <1>1, <1>3, <1>10, <2>1, <2>2, StageInTurn DEF Same
    <2>4. Known(p)'
        BY <1>2, <1>3, <1>4, <1>5, <2>1, <2>3 DEF Known, H!View, H!Listed
    <2>5. \A q \in H!Pages : q # p => queue'[q] = queue[q]
        BY <1>1, <2>1, StageQueue
    <2>6. QED
        BY <1>1, <1>2, <1>4, <2>3, <2>4, <2>5, QuietStep
<1>11. QED
    BY <1>8, <1>9, <1>10, ServeCases

\* The answers: the page is rendered with what is on file, or stays as it was.
LEMMA AnswerKeepsQuiet ==
    ASSUME HouseholdType, QuietPages, NEW p \in H!Pages, H!Answer(p), Calm, Calm'
    PROVE  QuietPages'
<1>1. queue[p] # <<>>
    BY AnswerCases DEF H!Rendered, H!revalidatePath, H!Refused, H!NetworkError
<1>2. InTurn(p) /\ (Alone(p) /\ H!Sees(p) => Known(p)) /\ Alone(p) /\ H!Sees(p)
    BY <1>1, OnlyOneWaits DEF QuietPages, Unseen
<1>3. Carried(H!Now(p)) /\ H!Now(p) \in Actions
    BY <1>1, NowTyped, <1>2 DEF InTurn, H!Now
<1>4. H!Kind' = H!Kind
    BY AnswerKeepsType DEF H!Kind
<1>5. ASSUME H!revalidatePath(p) PROVE QuietPages'
    <2>1. UNCHANGED <<rows, shown, forms, uploads, clicks>>
        BY <1>5, RerenderStep
    <2>2. PICK c \in Actions : /\ Same(c, H!Now(p)) /\ c.stage = "rendered" /\ H!Stage(p, c)
                               /\ c.seen = H!View(rows) \/ troubles' = troubles \cup {"unread"}
        BY <1>5, RerenderStep
    <2>3. c.seen = H!View(rows)
        BY <2>2 DEF Calm
    <2>4. \A d : d = c => Carried(d)'
        BY <1>3, <2>1, <2>2, <2>3 DEF Carried, H!View, H!Listed, Same
    <2>5. InTurn(p)' /\ Landed(p)'
        BY <1>1, <1>2, <2>2, <2>4, StageInTurn DEF Same
    <2>6. Known(p)'
        BY <2>5 DEF Known
    <2>7. \A q \in H!Pages : q # p => queue'[q] = queue[q]
        BY <1>1, <2>2, StageQueue
    <2>8. QED
        BY <1>1, <1>4, <2>1, <2>5, <2>6, <2>7, QuietStep
<1>6. ASSUME H!Rendered(p) PROVE QuietPages'
    <2>1. /\ queue' = [queue EXCEPT ![p] = Tail(@)] /\ UNCHANGED <<rows, uploads, clicks>> /\ H!Now(p).stage = "rendered"
          /\ shown' = [shown EXCEPT ![p] = H!Now(p).seen]
          /\ \A q \in H!Pages : q # p => forms'[q] = forms[q]
        BY <1>6 DEF H!Rendered, HouseholdType
    <2>2. shown'[p] = H!View(rows) /\ \A q \in H!Pages : q # p => shown'[q] = shown[q]
        BY <1>3, <2>1 DEF Carried, HouseholdType
    <2>3. InTurn(p)'
        BY <1>1, <1>2, <2>1, PopInTurn
    <2>4. Known(p)'
        BY <2>1, <2>2 DEF Known, H!View, H!Listed
    <2>5. \A q \in H!Pages : q # p => queue'[q] = queue[q]
        BY <1>1, <2>1, PopQueue
    <2>6. QED
        BY <1>1, <1>4, <2>1, <2>2, <2>3, <2>4, <2>5, QuietStep
<1>7. ASSUME H!Refused(p) PROVE QuietPages'
    <2>1. /\ queue' = [queue EXCEPT ![p] = Tail(@)] /\ UNCHANGED <<rows, shown, forms, uploads, clicks>>
          /\ H!Now(p).stage = "conflict" \/ (H!Now(p).stage = "sent" /\ H!Now(p).id # 0)
        BY <1>7 DEF H!Refused, H!Refuses, H!Answered, H!browser
    <2>2. ~Landed(p) /\ H!Now(p).op # "complete"
        BY <1>3, <2>1 DEF Landed, Carried
    <2>3. InTurn(p)' /\ (Confirming(p) => Confirming(p)')
        BY <1>1, <1>2, <2>1, <2>2, PopInTurn
    <2>4. Known(p)'
        BY <1>2, <2>1, <2>2, <2>3 DEF Known, H!View, H!Listed
    <2>5. \A q \in H!Pages : q # p => queue'[q] = queue[q]
        BY <1>1, <2>1, PopQueue
    <2>6. QED
        BY <1>1, <1>4, <2>1, <2>3, <2>4, <2>5, QuietStep
<1>8. ASSUME H!NetworkError(p) PROVE QuietPages'
    <2>1. /\ queue' = [queue EXCEPT ![p] = Tail(@)] /\ UNCHANGED <<rows, shown, forms, uploads, clicks>>
          /\ H!Now(p).stage = "sent" /\ H!Now(p).op # "complete"
        BY <1>8 DEF H!NetworkError, H!Answered, H!browser, Calm
    <2>2. ~Landed(p)
        BY <2>1 DEF Landed
    <2>3. InTurn(p)' /\ (Confirming(p) => Confirming(p)')
        BY <1>1, <1>2, <2>1, PopInTurn
    <2>4. Known(p)'
        BY <1>2, <2>1, <2>2, <2>3 DEF Known, H!View, H!Listed
    <2>5. \A q \in H!Pages : q # p => queue'[q] = queue[q]
        BY <1>1, <2>1, PopQueue
    <2>6. QED
        BY <1>1, <1>4, <2>1, <2>3, <2>4, <2>5, QuietStep
<1>9. QED
    BY <1>5, <1>6, <1>7, <1>8, AnswerCases

\* The file of a document goes to the bucket, and then the service is told.
LEMMA UploadKeepsQuiet ==
    ASSUME HouseholdType, QuietPages, NEW p \in H!Pages, H!put(p) \/ H!PutAnswered(p), Calm, Calm'
    PROVE  QuietPages'
<1>1. /\ queue[p] # <<>> \/ uploads[p] # 0
      /\ UNCHANGED <<rows, shown, forms, clicks>>
    BY UploadAction DEF H!put, H!At, H!browser
<1>2. H!Kind' = H!Kind /\ InTurn(p)
    BY <1>1 DEF H!Kind, QuietPages
<1>3. ASSUME H!put(p) PROVE QuietPages'
    <2>1. /\ queue[p] # <<>> /\ H!Now(p).op = "init" /\ H!Now(p).stage = "ok"
          /\ queue' = [queue EXCEPT ![p] = Tail(@)] /\ uploads' = [uploads EXCEPT ![p] = H!Now(p).doc]
        BY <1>3 DEF H!put, H!At
    <2>2. Carried(H!Now(p))
        BY <1>2, <2>1, NowTyped DEF InTurn, H!Now
    <2>3. uploads'[p] # 0 /\ \A q \in H!Pages : q # p => uploads'[q] = uploads[q]
        BY <2>1, <2>2 DEF Carried, HouseholdType
    <2>4. InTurn(p)' /\ \A q \in H!Pages : q # p => queue'[q] = queue[q]
        BY <1>1, <1>2, <2>1, PopInTurn, PopQueue
    <2>5. Known(p)'
        BY <2>3 DEF Known
    <2>6. QED
        BY <1>1, <1>2, <2>3, <2>4, <2>5, QuietStep
<1>4. ASSUME H!PutAnswered(p) PROVE QuietPages'
    <2>1. uploads' = [uploads EXCEPT ![p] = 0]
        BY <1>4, UploadAction
    <2>2. PICK c \in Actions : queue' = [queue EXCEPT ![p] = Append(@, c)] /\ c.op = "complete" /\ c.stage = "sent" /\ c.id = 0
        BY <1>4, UploadAction DEF Calm
    <2>3. InTurn(p)' /\ Confirming(p)'
        BY <1>1, <1>2, <2>2, PushInTurn
    <2>4. Known(p)'
        BY <2>3 DEF Known
    <2>5. \A q \in H!Pages : q # p => queue'[q] = queue[q] /\ uploads'[q] = uploads[q]
        BY <2>1, <2>2, PushQueue DEF HouseholdType
    <2>6. QED
        BY <1>1, <1>2, <2>3, <2>4, <2>5, QuietStep
<1>5. QED
    BY <1>3, <1>4

LEMMA OthersKept ==
    ASSUME HouseholdType, NEW p \in H!Pages, H!Serve(p) \/ H!Answer(p) \/ H!put(p) \/ H!PutAnswered(p)
    PROVE  /\ queue[p] # <<>> \/ uploads[p] # 0
           /\ clicks' = clicks
           /\ \A q \in H!Pages : q # p => /\ queue'[q] = queue[q] /\ uploads'[q] = uploads[q]
                                          /\ forms'[q] = forms[q] /\ shown'[q] = shown[q]
<1>1. ASSUME H!Serve(p)
      PROVE  /\ queue[p] # <<>> /\ UNCHANGED <<clicks, uploads, forms, shown>>
             /\ \A q \in H!Pages : q # p => queue'[q] = queue[q]
    <2>1. queue[p] # <<>> /\ UNCHANGED <<clicks, uploads, forms, shown>>
        BY <1>1, ServeCases, ServeStage
    <2>2. \E c \in Actions : H!Stage(p, c)
        BY <1>1, <2>1, ServeCases, FilesStep, DocumentStep DEF H!Step
    <2>3. QED
        BY <2>1, <2>2, StageQueue
<1>2. ASSUME H!revalidatePath(p)
      PROVE  /\ queue[p] # <<>> /\ UNCHANGED <<clicks, uploads, forms, shown>>
             /\ \A q \in H!Pages : q # p => queue'[q] = queue[q]
    <2>1. queue[p] # <<>> /\ UNCHANGED <<clicks, uploads, forms, shown>> /\ \E c \in Actions : H!Stage(p, c)
        BY <1>2, RerenderStep
    <2>2. QED
        BY <2>1, StageQueue
<1>3. ASSUME H!Refused(p) \/ H!NetworkError(p)
      PROVE  /\ queue[p] # <<>> /\ UNCHANGED <<clicks, uploads, forms, shown>>
             /\ \A q \in H!Pages : q # p => queue'[q] = queue[q]
    <2>1. queue[p] # <<>> /\ UNCHANGED <<clicks, uploads, forms, shown>> /\ queue' = [queue EXCEPT ![p] = Tail(@)]
        BY <1>3 DEF H!Refused, H!NetworkError, H!Answered, H!browser
    <2>2. QED
        BY <2>1, PopQueue
<1>4. ASSUME H!Rendered(p)
      PROVE  /\ queue[p] # <<>> /\ UNCHANGED <<clicks, uploads>>
             /\ \A q \in H!Pages : q # p => queue'[q] = queue[q] /\ forms'[q] = forms[q] /\ shown'[q] = shown[q]
    <2>1. queue[p] # <<>> /\ UNCHANGED <<clicks, uploads>> /\ queue' = [queue EXCEPT ![p] = Tail(@)]
          /\ \A q \in H!Pages : q # p => forms'[q] = forms[q] /\ shown'[q] = shown[q]
        BY <1>4 DEF H!Rendered, HouseholdType
    <2>2. QED
        BY <2>1, PopQueue
<1>5. ASSUME H!put(p)
      PROVE  /\ queue[p] # <<>> /\ UNCHANGED <<clicks, forms, shown>>
             /\ \A q \in H!Pages : q # p => queue'[q] = queue[q] /\ uploads'[q] = uploads[q]
    <2>1. queue[p] # <<>> /\ UNCHANGED <<clicks, forms, shown>> /\ queue' = [queue EXCEPT ![p] = Tail(@)]
          /\ \A q \in H!Pages : q # p => uploads'[q] = uploads[q]
        BY <1>5 DEF H!put, H!At, H!browser, HouseholdType
    <2>2. QED
        BY <2>1, PopQueue
<1>6. ASSUME H!PutAnswered(p)
      PROVE  /\ uploads[p] # 0 /\ UNCHANGED <<clicks, forms, shown>>
             /\ \A q \in H!Pages : q # p => queue'[q] = queue[q] /\ uploads'[q] = uploads[q]
    <2>1. uploads[p] # 0 /\ UNCHANGED <<clicks, forms, shown>> /\ uploads' = [uploads EXCEPT ![p] = 0]
          /\ (UNCHANGED queue \/ \E c \in Actions : queue' = [queue EXCEPT ![p] = Append(@, c)])
        BY <1>6, UploadAction
    <2>2. QED
        BY <2>1, PushQueue DEF HouseholdType
<1>7. QED
    BY <1>1, <1>2, <1>3, <1>4, <1>5, <1>6, AnswerCases

LEMMA StepKeepsQuietPages == HouseholdType /\ QuietPages /\ [H!Next]_household => QuietPages'
<1> SUFFICES ASSUME HouseholdType, QuietPages, [H!Next]_household PROVE QuietPages'
    OBVIOUS
<1>1. Calm' => Calm
    BY CalmBefore
<1>2. H!Kind' = H!Kind
    BY StepKeepsType DEF H!Kind
<1>3. CASE UNCHANGED household
    <2>1. \A p \in H!Pages : ~H!Sees(p) => forms'[p] = {}
        BY <1>3 DEF household, QuietPages, Unseen
    <2>2. QED
        BY <1>1, <1>3, <2>1, IdleKeepsQuiet DEF household
<1>4. ASSUME NEW p \in H!Pages, H!Serve(p) \/ H!Answer(p) \/ H!put(p) \/ H!PutAnswered(p) PROVE QuietPages'
    <2>1. CASE Calm'
        BY <1>1, <1>4, <2>1, ServeKeepsQuiet, AnswerKeepsQuiet, UploadKeepsQuiet
    <2>2. CASE ~Calm'
        <3>1. H!Sees(p)
            BY <1>4, OthersKept DEF QuietPages, Unseen
        <3>2. \A q \in H!Pages : H!Sees(q)' <=> H!Sees(q)
            BY <1>2 DEF H!Sees
        <3>3. ASSUME NEW q \in H!Pages PROVE Unseen(q)'
            BY <1>4, <3>1, <3>2, OthersKept DEF QuietPages, Unseen
        <3>4. QED
            BY <2>2, <3>3 DEF QuietPages
    <2>3. QED
        BY <2>1, <2>2
<1>5. ASSUME NEW p \in H!Pages, H!Click(p) PROVE QuietPages'
    <2>1. ASSUME NEW i \in H!Ids \cup {0}, H!openForm(p, i) PROVE QuietPages'
        <3>1. UNCHANGED <<rows, shown, queue, uploads, clicks>> /\ H!Sees(p)
              /\ \A q \in H!Pages : q # p => forms'[q] = forms[q]
            BY <2>1 DEF H!openForm, HouseholdType
        <3>2. \A q \in H!Pages : ~H!Sees(q) => forms'[q] = {}
            BY <3>1 DEF QuietPages, Unseen
        <3>3. QED
            BY <1>1, <3>1, <3>2, IdleKeepsQuiet
    <2>2. ASSUME NEW f \in forms[p], H!onCancel(p, f) PROVE QuietPages'
        <3>1. UNCHANGED <<rows, shown, queue, uploads, clicks>> /\ \A q \in H!Pages : forms'[q] \subseteq forms[q]
            BY <2>2 DEF H!onCancel, HouseholdType
        <3>2. \A q \in H!Pages : ~H!Sees(q) => forms'[q] = {}
            BY <3>1 DEF QuietPages, Unseen
        <3>3. QED
            BY <1>1, <3>1, <3>2, IdleKeepsQuiet
    <2>3. ASSUME NEW i \in H!Ids, H!onArchive(p, i) PROVE QuietPages'
        <3>1. PICK call : H!Clicks(p, call)
            BY <2>3 DEF H!onArchive
        <3>2. PICK c \in Actions : queue' = [queue EXCEPT ![p] = Append(@, c)] /\ c.op = "remove" /\ c.stage = "sent"
            BY <2>3, ArchiveAction
        <3>3. UNCHANGED forms /\ shown[p] # {}
            BY <2>3 DEF H!onArchive
        <3>4. H!Sees(p)
            BY <3>3 DEF QuietPages, Unseen
        <3>5. QED
            BY <1>1, <3>1, <3>2, <3>3, <3>4, ClickKeepsQuiet
    <2>4. ASSUME NEW f \in forms[p], NEW ticked \in BOOLEAN, H!submit(p, f, ticked) PROVE QuietPages'
        <3>1. PICK call : H!Clicks(p, call)
            BY <2>4 DEF H!submit
        <3>2. PICK c \in Actions :
                 /\ queue' = [queue EXCEPT ![p] = Append(@, c)]
                 /\ c.op = (IF f.id # 0 THEN "update" ELSE IF H!Kind = "document" THEN "init" ELSE "create")
                 /\ c.id = f.id /\ c.primary = (f.primary # ticked) /\ c.ticked = ticked /\ c.stage = "sent" /\ c.seen = {}
            BY <2>4, SubmitAction, SMTT(60)
        <3>3. UNCHANGED forms /\ H!Sees(p)
            BY <2>4 DEF H!submit, QuietPages, Unseen
        <3>4. c.op # "complete"
            BY <3>2
        <3>5. QED
            BY <1>1, <3>1, <3>2, <3>3, <3>4, ClickKeepsQuiet
    <2>5. QED
        BY <1>4, <1>5, <2>1, <2>2, <2>3, <2>4, ClickCases
<1>6. ASSUME (\E t \in H!Panels : H!PartyPanel(t)) \/ (\E a \in asks : H!Trip(a)) PROVE QuietPages'
    <2>1. \A p \in H!Pages : ~H!Sees(p) => forms'[p] = {}
        BY <1>6, TabKeepsPages DEF QuietPages, Unseen
    <2>2. QED
        BY <1>1, <1>6, <2>1, TabKeepsPages, IdleKeepsQuiet
<1>7. QED
    BY <1>3, <1>4, <1>5, <1>6 DEF H!Next

\* What a tab asked for last is answered with whom the trip has.
AskFields == {"tab", "op", "member", "stage", "trip", "roster"}
Shape(a) == a = [f \in AskFields |-> a[f]]
PanelFields == {"onTrip", "roster", "pending"}
PanelShape(v) == v = [f \in PanelFields |-> v[f]]

TabType ==
    /\ \A a \in asks : Shape(a) /\ a.tab \in H!Panels
    /\ DOMAIN panel = H!Panels /\ \A t \in H!Panels : PanelShape(panel[t])
    /\ panel = [t \in H!Panels |-> panel[t]]

Used(t) == \A k \in 1..Len(clicks) : clicks[k] = t

\* A tab used alone asks one thing at a time, and what has been done for it is in the answer.
QuietTabs ==
    Calm =>
      /\ \A a \in asks : (\E k \in 1..Len(clicks) : clicks[k] = a.tab) /\ (a.stage = "ok" => a.trip = trip)
      /\ \A a, b \in asks : a = b
      /\ \A t \in H!Panels : Used(t) => panel[t].onTrip = trip \/ \E a \in asks : a.tab = t /\ a.stage = "ok"

\* What a step of the tabs does.
Asked(t) ==
    \E a : /\ Shape(a) /\ a.tab = t /\ a.stage = "sent" /\ asks' = asks \cup {a}
           /\ clicks' = Append(clicks, t) /\ trip' = trip
           /\ troubles' = troubles \cup (IF asks = {} THEN {} ELSE {"overlap"})
           /\ \A u \in H!Panels : panel'[u].onTrip = panel[u].onTrip

Replied(a) ==
    \E b : /\ Shape(b) /\ b.tab = a.tab /\ asks' = (asks \ {a}) \cup {b} /\ UNCHANGED <<panel, clicks, troubles>>
           /\ a.stage # "ok"
           /\ b.stage = "ok" => b.trip = trip'
           /\ b.stage # "ok" => trip' = trip

Adopted(a) ==
    /\ a.stage = "ok" /\ asks' = asks \ {a} /\ UNCHANGED <<trip, clicks, troubles>>
    /\ panel'[a.tab].onTrip = a.trip

Dropped(a) ==
    /\ a.stage # "ok" /\ asks' = asks \ {a} /\ UNCHANGED <<trip, clicks>>
    /\ \A u \in H!Panels : panel'[u].onTrip = panel[u].onTrip

PanelKept == DOMAIN panel' = H!Panels /\ panel' = [t \in H!Panels |-> panel'[t]] /\ \A t \in H!Panels : PanelShape(panel'[t])

LEMMA PanelShown ==
    ASSUME TabType, NEW t \in H!Panels, NEW onTrip, NEW listed, NEW pending
    PROVE  LET new == [panel EXCEPT ![t].onTrip = onTrip, ![t].roster = listed, ![t].pending = pending] IN
             /\ new[t].onTrip = onTrip
             /\ DOMAIN new = H!Panels /\ new = [u \in H!Panels |-> new[u]]
             /\ \A u \in H!Panels : PanelShape(new[u])
<1> DEFINE v == panel[t]
           first == [v EXCEPT !.onTrip = onTrip]
           second == [first EXCEPT !.roster = listed]
           third == [second EXCEPT !.pending = pending]
           new == [panel EXCEPT ![t].onTrip = onTrip, ![t].roster = listed, ![t].pending = pending]
<1>1. PanelShape(v)
    BY DEF TabType
<1>2. new = [panel EXCEPT ![t] = third]
    BY DEF TabType
<1> HIDE DEF v
<1>3. PanelShape(first) /\ first.onTrip = onTrip
    BY <1>1 DEF PanelShape, PanelFields
<1> HIDE DEF first
<1>4. PanelShape(second) /\ second.onTrip = onTrip
    BY <1>3 DEF PanelShape, PanelFields
<1> HIDE DEF second
<1>5. PanelShape(third) /\ third.onTrip = onTrip
    BY <1>4 DEF PanelShape, PanelFields
<1> HIDE DEF third
<1>6. QED
    BY <1>2, <1>5 DEF TabType

LEMMA AskCases ==
    ASSUME TabType, NEW t \in H!Panels, H!PartyPanel(t)
    PROVE  Asked(t) /\ PanelKept
<1> DEFINE blank == H!NoAsk
<1>1. Shape(blank) /\ blank.stage = "sent"
    BY DEF H!NoAsk, Shape, AskFields
<1> HIDE DEF blank
<1>2. ASSUME NEW op, NEW m
      PROVE  /\ LET a == [blank EXCEPT !.tab = t] IN Shape(a) /\ a.tab = t /\ a.stage = "sent"
             /\ LET a == [blank EXCEPT !.tab = t, !.op = op, !.member = m] IN Shape(a) /\ a.tab = t /\ a.stage = "sent"
    BY <1>1 DEF Shape, AskFields
<1>3. ASSUME H!refresh(t) PROVE Asked(t) /\ PanelKept
    <2> DEFINE a == [blank EXCEPT !.tab = t]
    <2>1. /\ asks' = asks \cup {a} /\ clicks' = Append(clicks, t) /\ UNCHANGED <<trip, panel>>
          /\ troubles' = troubles \cup (IF asks = {} THEN {} ELSE {"overlap"})
        BY <1>3 DEF H!refresh, H!Ask, blank
    <2>2. Shape(a) /\ a.tab = t /\ a.stage = "sent"
        BY <1>2
    <2> HIDE DEF a
    <2>3. QED
        BY <2>1, <2>2 DEF Asked, PanelKept, TabType
<1>4. ASSUME NEW op, NEW m, H!Change(t, op, m) PROVE Asked(t) /\ PanelKept
    <2> DEFINE a == [blank EXCEPT !.tab = t, !.op = op, !.member = m]
               v == [panel[t] EXCEPT !.pending = TRUE]
    <2>1. /\ asks' = asks \cup {a} /\ clicks' = Append(clicks, t) /\ UNCHANGED trip
          /\ troubles' = troubles \cup (IF asks = {} THEN {} ELSE {"overlap"})
          /\ panel' = [panel EXCEPT ![t] = v]
        BY <1>4 DEF H!Change, H!Ask, blank
    <2>2. Shape(a) /\ a.tab = t /\ a.stage = "sent"
        BY <1>2
    <2>3. PanelShape(v) /\ v.onTrip = panel[t].onTrip
        BY DEF TabType, PanelShape, PanelFields
    <2> HIDE DEF a, v
    <2>4. panel'[t] = v /\ (\A u \in H!Panels : u # t => panel'[u] = panel[u]) /\ DOMAIN panel' = H!Panels
          /\ panel' = [u \in H!Panels |-> panel'[u]]
        BY <2>1 DEF TabType
    <2>5. Asked(t)
        BY <2>1, <2>2, <2>3, <2>4 DEF Asked
    <2>6. PanelKept
        BY <2>3, <2>4 DEF PanelKept, TabType
    <2>7. QED
        BY <2>5, <2>6
<1>5. QED
    BY <1>3, <1>4 DEF H!PartyPanel, H!attach, H!detach

LEMMA TripCases ==
    ASSUME TabType, NEW a \in asks, H!Trip(a), "lost" \notin troubles'
    PROVE  (Replied(a) \/ Adopted(a) \/ Dropped(a)) /\ PanelKept
<1>1. Shape(a) /\ a.tab \in H!Panels /\ PanelShape(panel[a.tab])
    BY DEF TabType
<1>2. ASSUME NEW list, H!Answers(a, list), a.stage # "ok" PROVE Replied(a) /\ PanelKept
    <2> DEFINE b == [a EXCEPT !.stage = "ok", !.trip = list]
    <2>1. trip' = list /\ asks' = (asks \ {a}) \cup {b} /\ UNCHANGED <<panel, clicks, troubles>>
        BY <1>2 DEF H!Answers
    <2>2. Shape(b) /\ b.tab = a.tab /\ b.stage = "ok" /\ b.trip = list
        BY <1>1 DEF Shape, AskFields
    <2> HIDE DEF b
    <2>3. QED
        BY <1>2, <2>1, <2>2 DEF Replied, PanelKept, TabType
<1>3. ASSUME H!attach_member_to_itinerary(a) PROVE Replied(a) /\ PanelKept
    <2> DEFINE b == [a EXCEPT !.stage = "absent"]
    <2>1. Shape(b) /\ b.tab = a.tab /\ b.stage = "absent"
        BY <1>1 DEF Shape, AskFields
    <2>2. \/ a.stage # "ok" /\ \E list : H!Answers(a, list)
          \/ a.stage # "ok" /\ asks' = (asks \ {a}) \cup {b} /\ UNCHANGED <<trip, panel, clicks, troubles>>
        BY <1>3 DEF H!attach_member_to_itinerary
    <2> HIDE DEF b
    <2>3. QED
        BY <1>2, <2>1, <2>2 DEF Replied, PanelKept, TabType
<1>4. ASSUME H!detach_member_from_itinerary(a) PROVE Replied(a) /\ PanelKept
    BY <1>2, <1>4 DEF H!detach_member_from_itinerary
<1>5. ASSUME H!list_itinerary_party(a) PROVE Replied(a) /\ PanelKept
    <2> DEFINE listed == H!Listed(rows)
               b == [a EXCEPT !.stage = "ok", !.trip = trip, !.roster = listed]
    <2>1. a.stage # "ok" /\ asks' = (asks \ {a}) \cup {b} /\ UNCHANGED <<trip, panel, clicks, troubles>>
        BY <1>5 DEF H!list_itinerary_party
    <2> HIDE DEF listed
    <2>2. Shape(b) /\ b.tab = a.tab /\ b.stage = "ok" /\ b.trip = trip
        BY <1>1 DEF Shape, AskFields
    <2> HIDE DEF b
    <2>3. QED
        BY <2>1, <2>2 DEF Replied, PanelKept, TabType
<1>6. ASSUME H!Adopt(a) PROVE Adopted(a) /\ PanelKept
    <2> DEFINE listed == IF a.op = "refresh" THEN a.roster ELSE panel[a.tab].roster
               pending == panel[a.tab].pending /\ a.op = "refresh"
    <2>1. a.stage = "ok" /\ asks' = asks \ {a} /\ UNCHANGED <<trip, clicks, troubles>>
        BY <1>6 DEF H!Adopt
    <2>2. panel' = [panel EXCEPT ![a.tab].onTrip = a.trip, ![a.tab].roster = listed, ![a.tab].pending = pending]
        BY <1>6 DEF H!Adopt
    <2> HIDE DEF listed, pending
    <2> DEFINE new == [panel EXCEPT ![a.tab].onTrip = a.trip, ![a.tab].roster = listed, ![a.tab].pending = pending]
    <2>3. /\ new[a.tab].onTrip = a.trip
          /\ DOMAIN new = H!Panels /\ new = [u \in H!Panels |-> new[u]]
          /\ \A u \in H!Panels : PanelShape(new[u])
        BY <1>1, PanelShown
    <2>4. panel' = new
        BY <2>2
    <2> HIDE DEF new
    <2>5. panel'[a.tab].onTrip = a.trip /\ PanelKept
        BY <2>3, <2>4 DEF PanelKept
    <2>6. QED
        BY <2>1, <2>5 DEF Adopted
<1>7. ASSUME H!LoseAsk(a) PROVE Dropped(a) /\ PanelKept
    <2> DEFINE pending == panel[a.tab].pending /\ a.op = "refresh"
               v == [panel[a.tab] EXCEPT !.pending = pending]
    <2>1. a.stage # "ok" /\ asks' = asks \ {a} /\ UNCHANGED <<trip, clicks>>
        BY <1>7 DEF H!LoseAsk
    <2>2. panel' = [panel EXCEPT ![a.tab] = v]
        BY <1>7, <1>1 DEF H!LoseAsk, TabType
    <2> HIDE DEF pending
    <2>3. PanelShape(v) /\ v.onTrip = panel[a.tab].onTrip
        BY <1>1 DEF PanelShape, PanelFields
    <2> HIDE DEF v
    <2>4. panel'[a.tab] = v /\ (\A u \in H!Panels : u # a.tab => panel'[u] = panel[u]) /\ DOMAIN panel' = H!Panels
          /\ panel' = [u \in H!Panels |-> panel'[u]]
        BY <1>1, <2>2 DEF TabType
    <2>5. QED
        BY <2>1, <2>3, <2>4 DEF Dropped, PanelKept, TabType
<1>8. QED
    BY <1>3, <1>4, <1>5, <1>6, <1>7 DEF H!Trip

LEMMA PageKeepsTabs ==
    ASSUME HouseholdType, NEW p \in H!Pages, H!Click(p) \/ H!Serve(p) \/ H!Answer(p)
    PROVE  UNCHANGED <<asks, panel, trip>> /\ (clicks' = clicks \/ clicks' = Append(clicks, p))
<1>1. ASSUME H!Click(p) PROVE UNCHANGED <<asks, panel, trip>> /\ (clicks' = clicks \/ clicks' = Append(clicks, p))
    BY <1>1, ClickCases, UploadAction DEF H!openForm, H!onArchive, H!onCancel, H!submit, H!Clicks, H!put, H!tabs
<1>2. ASSUME H!Answer(p) PROVE UNCHANGED <<asks, panel, trip, clicks>>
    BY <1>2, AnswerCases, RerenderStep DEF H!Rendered, H!Refused, H!NetworkError, H!Answered, H!tabs
<1>3. QED
    BY <1>1, <1>2, ServeStage

LEMMA StepKeepsTabType == TabType /\ HouseholdType /\ [H!Next]_household /\ Calm' => TabType'
<1> SUFFICES ASSUME TabType, HouseholdType, [H!Next]_household, Calm' PROVE TabType'
    OBVIOUS
<1>1. CASE UNCHANGED <<asks, panel>>
    BY <1>1 DEF TabType
<1>2. ASSUME NEW t \in H!Panels, H!PartyPanel(t) PROVE TabType'
    <2>1. Asked(t) /\ PanelKept
        BY <1>2, AskCases
    <2>2. \A a \in asks' : Shape(a) /\ a.tab \in H!Panels
        BY <2>1 DEF Asked, TabType
    <2>3. QED
        BY <2>1, <2>2 DEF PanelKept, TabType
<1>3. ASSUME NEW a \in asks, H!Trip(a) PROVE TabType'
    <2>1. (Replied(a) \/ Adopted(a) \/ Dropped(a)) /\ PanelKept
        BY <1>3, TripCases DEF Calm
    <2>2. \A b \in asks' : Shape(b) /\ b.tab \in H!Panels
        BY <2>1 DEF Replied, Adopted, Dropped, TabType
    <2>3. QED
        BY <2>1, <2>2 DEF PanelKept, TabType
<1>4. ASSUME NEW p \in H!Pages, H!Click(p) \/ H!Serve(p) \/ H!Answer(p) PROVE UNCHANGED <<asks, panel>>
    BY <1>4, PageKeepsTabs
<1>5. QED
    BY <1>1, <1>2, <1>3, <1>4 DEF H!Next, household

LEMMA StepKeepsQuietTabs == TabType /\ HouseholdType /\ QuietTabs /\ [H!Next]_household => QuietTabs'
<1> SUFFICES ASSUME TabType, HouseholdType, QuietTabs, [H!Next]_household, Calm' PROVE QuietTabs'
    BY DEF QuietTabs
<1>1. /\ \A a \in asks : (\E k \in 1..Len(clicks) : clicks[k] = a.tab) /\ (a.stage = "ok" => a.trip = trip)
      /\ \A a, b \in asks : a = b
      /\ \A t \in H!Panels : Used(t) => panel[t].onTrip = trip \/ \E a \in asks : a.tab = t /\ a.stage = "ok"
    BY CalmBefore DEF QuietTabs
<1>2. CASE UNCHANGED <<asks, panel, trip, clicks>>
    BY <1>1, <1>2 DEF QuietTabs, Used
<1>3. ASSUME NEW t \in H!Pages \cup H!Panels, clicks' = Append(clicks, t)
      PROVE  /\ Len(clicks') = Len(clicks) + 1 /\ clicks'[Len(clicks) + 1] = t /\ Len(clicks) \in Nat
             /\ \A k \in 1..Len(clicks) : clicks'[k] = clicks[k]
             /\ Len(clicks) + 1 \in 1..Len(clicks')
    <2> DEFINE S == H!Pages \cup H!Panels
    <2>1. clicks \in Seq(S) /\ t \in S
        BY DEF HouseholdType
    <2> HIDE DEF S
    <2>2. QED
        BY <1>3, <2>1
<1>4. ASSUME NEW p \in H!Pages, H!Click(p) \/ H!Serve(p) \/ H!Answer(p) PROVE QuietTabs'
    <2>1. UNCHANGED <<asks, panel, trip>> /\ (clicks' = clicks \/ clicks' = Append(clicks, p))
        BY <1>4, PageKeepsTabs
    <2>2. CASE clicks' = Append(clicks, p)
        <3>1. \A a \in asks' : \E k \in 1..Len(clicks') : clicks'[k] = a.tab
            BY <1>1, <1>3, <2>1, <2>2
        <3>2. \A t \in H!Panels : ~Used(t)'
            <4>1. \A t \in H!Panels : t # p
                BY DEF H!Pages, H!Panels
            <4>2. QED
                BY <1>3, <2>2, <4>1 DEF Used
        <3>3. QED
            BY <1>1, <2>1, <3>1, <3>2 DEF QuietTabs
    <2>3. QED
        BY <1>2, <2>1, <2>2
<1>5. ASSUME NEW t \in H!Panels, H!PartyPanel(t) PROVE QuietTabs'
    <2>1. Asked(t)
        BY <1>5, AskCases
    <2>2. PICK a : /\ a.tab = t /\ a.stage = "sent" /\ asks' = asks \cup {a}
                   /\ clicks' = Append(clicks, t) /\ trip' = trip
                   /\ troubles' = troubles \cup (IF asks = {} THEN {} ELSE {"overlap"})
                   /\ \A u \in H!Panels : panel'[u].onTrip = panel[u].onTrip
        BY <2>1 DEF Asked
    <2>3. asks = {} /\ asks' = {a}
        BY <2>2 DEF Calm
    <2>4. \A b \in asks' : (\E k \in 1..Len(clicks') : clicks'[k] = b.tab) /\ b.stage # "ok"
        BY <1>3, <2>2, <2>3
    <2>5. \A u \in H!Panels : Used(u)' => Used(u)
        BY <1>3, <2>2 DEF Used
    <2>6. \A u \in H!Panels : Used(u)' => panel'[u].onTrip = trip'
        BY <1>1, <2>2, <2>3, <2>5
    <2>7. QED
        BY <2>3, <2>4, <2>6 DEF QuietTabs
<1>6. ASSUME NEW a \in asks, H!Trip(a) PROVE QuietTabs'
    <2>1. Replied(a) \/ Adopted(a) \/ Dropped(a)
        BY <1>6, TripCases DEF Calm
    <2>2. asks = {a} /\ \E k \in 1..Len(clicks) : clicks[k] = a.tab
        BY <1>1
    <2>3. \A t \in H!Panels : Used(t) => t = a.tab
        BY <2>2 DEF Used
    <2>4. ASSUME Replied(a) PROVE QuietTabs'
        <3>1. PICK b : /\ b.tab = a.tab /\ asks' = (asks \ {a}) \cup {b} /\ UNCHANGED <<panel, clicks>> /\ a.stage # "ok"
                       /\ (b.stage = "ok" => b.trip = trip') /\ (b.stage # "ok" => trip' = trip)
            BY <2>4 DEF Replied
        <3>2. asks' = {b}
            BY <2>2, <3>1
        <3>3. \A t \in H!Panels : Used(t)' => Used(t)
            BY <3>1 DEF Used
        <3>4. \A t \in H!Panels : Used(t) => panel[t].onTrip = trip
            BY <1>1, <2>2, <3>1
        <3>5. \A t \in H!Panels : Used(t)' => panel'[t].onTrip = trip' \/ \E d \in asks' : d.tab = t /\ d.stage = "ok"
            BY <2>3, <3>1, <3>2, <3>3, <3>4
        <3>6. \A d \in asks' : (\E k \in 1..Len(clicks') : clicks'[k] = d.tab) /\ (d.stage = "ok" => d.trip = trip')
            BY <2>2, <3>1, <3>2
        <3>7. QED
            BY <3>2, <3>5, <3>6 DEF QuietTabs
    <2>5. ASSUME Adopted(a) PROVE QuietTabs'
        <3>1. /\ a.stage = "ok" /\ asks' = {} /\ UNCHANGED <<trip, clicks>> /\ panel'[a.tab].onTrip = a.trip
            BY <2>2, <2>5 DEF Adopted
        <3>2. \A t \in H!Panels : Used(t)' => panel'[t].onTrip = trip'
            BY <1>1, <2>3, <3>1 DEF Used
        <3>3. QED
            BY <3>1, <3>2 DEF QuietTabs
    <2>6. ASSUME Dropped(a) PROVE QuietTabs'
        <3>1. /\ a.stage # "ok" /\ asks' = {} /\ UNCHANGED <<trip, clicks>>
              /\ \A u \in H!Panels : panel'[u].onTrip = panel[u].onTrip
            BY <2>2, <2>6 DEF Dropped
        <3>2. \A t \in H!Panels : Used(t)' => panel'[t].onTrip = trip'
            BY <1>1, <2>2, <3>1 DEF Used
        <3>3. QED
            BY <3>1, <3>2 DEF QuietTabs
    <2>7. QED
        BY <2>1, <2>4, <2>5, <2>6
<1>7. QED
    BY <1>2, <1>4, <1>5, <1>6 DEF H!Next, household

LEMMA InitQuiet == H!Init => QuietPages /\ TabType /\ QuietTabs
<1> SUFFICES ASSUME H!Init PROVE QuietPages /\ TabType /\ QuietTabs
    OBVIOUS
<1>1. /\ shown = [p \in H!Pages |-> IF H!Sees(p) THEN H!View(rows) ELSE {}] /\ forms = [p \in H!Pages |-> {}]
      /\ queue = [p \in H!Pages |-> <<>>] /\ uploads = [p \in H!Pages |-> 0] /\ clicks = <<>>
      /\ trip = <<>> /\ asks = {}
    BY DEF H!Init
<1>2. \A p \in H!Pages : /\ queue[p] = <<>> /\ Len(queue[p]) = 0 /\ forms[p] = {} /\ uploads[p] = 0
                         /\ shown[p] = IF H!Sees(p) THEN H!View(rows) ELSE {}
    BY <1>1
<1>3. Len(clicks) = 0
    BY <1>1
<1>4. QuietPages
    BY <1>2, <1>3 DEF QuietPages, Unseen, Waiting, InTurn, Known
<1>5. panel = [t \in H!Panels |-> [onTrip |-> <<>>, roster |-> IF H!Kind = "member" THEN H!Listed(rows) ELSE {}, pending |-> FALSE]]
    BY DEF H!Init
<1>6. TabType
    BY <1>1, <1>5 DEF TabType, PanelShape, PanelFields
<1>7. QuietTabs
    BY <1>1, <1>5 DEF QuietTabs
<1>8. QED
    BY <1>4, <1>6, <1>7

QuietInv == QuietPages /\ (Calm => TabType) /\ QuietTabs

LEMMA QuietShows == HouseholdType /\ QuietInv => QuietHouseholdAgrees
<1> SUFFICES ASSUME HouseholdType, QuietInv, Calm
             PROVE  /\ \A p \in H!Pages : H!ToSet(clicks) = {p} /\ queue[p] = <<>> /\ uploads[p] = 0 => shown[p] = H!View(rows)
                    /\ \A t \in H!Panels : H!ToSet(clicks) = {t} /\ asks = {} => panel[t].onTrip = trip
    BY DEF QuietHouseholdAgrees, H!QuietHouseholdAgrees, Calm
<1>1. clicks \in Seq(H!Pages \cup H!Panels)
    BY DEF HouseholdType
<1>2. \A x : H!ToSet(clicks) = {x} => (\A k \in 1..Len(clicks) : clicks[k] = x) /\ \E k \in 1..Len(clicks) : clicks[k] = x
    <2>1. H!ToSet(clicks) = {clicks[k] : k \in 1..Len(clicks)}
        BY <1>1 DEF H!ToSet
    <2>2. QED
        BY <2>1
<1>3. ASSUME NEW p \in H!Pages, H!ToSet(clicks) = {p}, queue[p] = <<>>, uploads[p] = 0 PROVE shown[p] = H!View(rows)
    <2>1. Alone(p) /\ H!Sees(p)
        BY <1>2, <1>3 DEF Alone, QuietInv, QuietPages, Unseen
    <2>2. Known(p)
        BY <2>1 DEF QuietInv, QuietPages
    <2>3. Len(queue[p]) = 0
        BY <1>3
    <2>4. QED
        BY <1>3, <2>2, <2>3 DEF Known, Landed, Confirming
<1>4. ASSUME NEW t \in H!Panels, H!ToSet(clicks) = {t}, asks = {} PROVE panel[t].onTrip = trip
    BY <1>2, <1>4 DEF QuietInv, QuietTabs, Used
<1>5. QED
    BY <1>3, <1>4

\* A page that is used alone shows what is on file once its actions are answered, although some were refused or failed,
\* and so does a Party tab whose calls came one at a time: for any records and clicks, but for a lost answer, an
\* upload that stopped half way and a list that could not be read.
THEOREM PagesQuietHouseholdAgrees == PagesSpec => []QuietHouseholdAgrees
<1>1. PagesInit => HouseholdType /\ QuietInv
    BY InitType, InitQuiet DEF PagesInit, QuietInv
<1>2. HouseholdType /\ QuietInv /\ [PagesNext]_all => HouseholdType' /\ QuietInv'
    <2>1. HouseholdType /\ QuietInv /\ [H!Next]_household => QuietInv'
        <3>1. SUFFICES ASSUME HouseholdType, QuietInv, [H!Next]_household PROVE QuietInv'
            OBVIOUS
        <3>2. Calm' => Calm
            BY <3>1, CalmBefore
        <3>3. Calm' => TabType'
            BY <3>1, <3>2, StepKeepsTabType DEF QuietInv
        <3>4. QuietTabs'
            BY <3>1, <3>2, StepKeepsQuietTabs DEF QuietInv, QuietTabs
        <3>5. QED
            BY <3>1, <3>3, <3>4, StepKeepsQuietPages DEF QuietInv
    <2>2. QED
        BY <2>1, PagesStepsHousehold, StepKeepsType DEF all
<1>3. QED
    BY <1>1, <1>2, QuietShows, PTL DEF PagesSpec

-----------------------------------------------------------------------------
(* The board: a card with a time is drawn.                                 *)

\* A finite set of days has a first and a last one.
LEMMA LeastDay ==
    ASSUME NEW S, IsFiniteSet(S), S # {}, S \subseteq Int
    PROVE  \E x \in S : \A y \in S : x <= y
<1> DEFINE Below(x) == {y \in S : y < x}
           T == {Below(x) : x \in S}
<1>1. IsWellFoundedOn(StrictSubsetOrdering(S), SUBSET S)
    BY FS_FiniteSubsetsOfFinite, FS_StrictSubsetOrderingWellFounded
<1>2. T \subseteq SUBSET S /\ T # {}
    OBVIOUS
<1>3. \E m \in T : \A t \in T : ~(<<t, m>> \in StrictSubsetOrdering(S))
    <2> HIDE DEF T
    <2> QED
        BY <1>1, <1>2, WFMin
<1>4. PICK x \in S : \A t \in T : ~(<<t, Below(x)>> \in StrictSubsetOrdering(S))
    BY <1>3
<1>5. ASSUME NEW y \in S, y < x PROVE FALSE
    <2>0. y \in Int /\ ~(y < y)
        OBVIOUS
    <2>1. y \in Below(x) /\ y \notin Below(y) /\ Below(y) \in T
        BY <1>5, <2>0
    <2>2. Below(y) \subseteq Below(x)
        <3>1. x \in Int /\ y \in Int /\ \A z \in S : z \in Int
            OBVIOUS
        <3>2. \A z \in S : z < y => z < x
            BY ONLY <1>5, <3>1, SMT
        <3> QED
            BY <3>2
    <2>3. <<Below(y), Below(x)>> \in StrictSubsetOrdering(S)
        BY <2>1, <2>2 DEF StrictSubsetOrdering
    <2> QED
        BY <1>4, <2>1, <2>3
<1> QED
    BY <1>5

LEMMA GreatestDay ==
    ASSUME NEW S, IsFiniteSet(S), S # {}, S \subseteq Int
    PROVE  \E x \in S : \A y \in S : x >= y
<1> DEFINE Above(x) == {y \in S : y > x}
           T == {Above(x) : x \in S}
<1>1. IsWellFoundedOn(StrictSubsetOrdering(S), SUBSET S)
    BY FS_FiniteSubsetsOfFinite, FS_StrictSubsetOrderingWellFounded
<1>2. T \subseteq SUBSET S /\ T # {}
    OBVIOUS
<1>3. \E m \in T : \A t \in T : ~(<<t, m>> \in StrictSubsetOrdering(S))
    <2> HIDE DEF T
    <2> QED
        BY <1>1, <1>2, WFMin
<1>4. PICK x \in S : \A t \in T : ~(<<t, Above(x)>> \in StrictSubsetOrdering(S))
    BY <1>3
<1>5. ASSUME NEW y \in S, y > x PROVE FALSE
    <2>0. y \in Int /\ ~(y > y)
        OBVIOUS
    <2>1. y \in Above(x) /\ y \notin Above(y) /\ Above(y) \in T
        BY <1>5, <2>0
    <2>2. Above(y) \subseteq Above(x)
        <3>1. x \in Int /\ y \in Int /\ \A z \in S : z \in Int
            OBVIOUS
        <3>2. \A z \in S : z > y => z > x
            BY ONLY <1>5, <3>1, SMT
        <3> QED
            BY <3>2
    <2>3. <<Above(y), Above(x)>> \in StrictSubsetOrdering(S)
        BY <2>1, <2>2 DEF StrictSubsetOrdering
    <2> QED
        BY <1>4, <2>1, <2>3
<1> QED
    BY <1>5

LEMMA DaySpans ==
    ASSUME NEW S, IsFiniteSet(S), S # {}, S \subseteq Int
    PROVE  Min(S) \in Int /\ Max(S) \in Int /\ S \subseteq Min(S)..Max(S)
<1>1. Min(S) \in S /\ \A y \in S : Min(S) <= y
    BY LeastDay DEF Min
<1>2. Max(S) \in S /\ \A y \in S : Max(S) >= y
    BY GreatestDay DEF Max
<1>3. \A y \in S : y \in Int
    OBVIOUS
<1>4. \A y \in S : y \in Min(S)..Max(S)
    BY <1>1, <1>2, <1>3
<1> QED
    BY <1>1, <1>2, <1>3, <1>4

-----------------------------------------------------------------------------
\* The rows and the page speak of the same cards, and every start has a day.
RowsType ==
    /\ DOMAIN node = Cards /\ There # {}
    /\ \A c \in There : node[c].start[1] \in Int /\ node[c].column[1] \in Int
    /\ window \subseteq Int /\ IsFiniteSet(window)

BoardType ==
    /\ RowsType
    /\ DOMAIN page = Cards /\ \A c \in Cards : page[c].start[1] \in Int
    /\ days \subseteq Int

\* What a drop, a tap or the composer may write is a day that is drawn; the trip's dates stand still during a
\* drag, and if they change under the composer that is written down.
AimsAtDays ==
    /\ {"card", "day"} \subseteq DOMAIN drag
    /\ {drag.card, held, last} \subseteq Cards \cup {0} /\ (drag.card # 0 => drag.day \in days \cup {0})
    /\ slot = Nowhere \/ slot[1] \in Int
    /\ "dates" \in mishaps \/ slot = Nowhere \/ slot[1] \in days

\* A time that was not made up is on a day that is drawn, for the page and for the service, and the page has
\* the service's.
TimesDrawn ==
    mishaps \subseteq {"failed"} => \A c \in There :
        /\ isNodeScheduled(c) => page[c].start = explicitStart(c) /\ page[c].start[1] \in days
        /\ node[c].start # Nowhere /\ ~node[c].synth => node[c].start[1] \in days

BoardInv == BoardType /\ AimsAtDays /\ TimesDrawn

LEMMA CardsFinite == IsFiniteSet(Cards) /\ \A S \in SUBSET Cards : IsFiniteSet(S)
<1>1. Cards = 1..Len(Quarters) /\ Len(Quarters) \in Nat
    BY CardsAssumption DEF Cards
<1>2. IsFiniteSet(Cards)
    BY <1>1, FS_Interval
<1> QED
    BY <1>2, FS_Subset

LEMMA DaysFinite ==
    ASSUME NEW S \in SUBSET Cards, NEW day, \A c \in S : day[c] \in Int
    PROVE  LET on == {day[c] : c \in S} IN IsFiniteSet(on) /\ on \subseteq Int
<1> DEFINE on == {day[c] : c \in S}
           f == [c \in S |-> day[c]]
<1>1. f \in Surjection(S, on)
    BY DEF Surjection
<1> QED
    BY <1>1, CardsFinite, FS_Surjection

\* Every card of the service is laid out on a day, and the columns cover them all.
SpanHolds ==
    /\ daySpan \subseteq Int
    /\ \A c \in There : resolvedStart(c)[1] \in Int /\ resolvedStart(c)[1] \in daySpan

LEMMA SpanCovers == RowsType => SpanHolds
<1> SUFFICES ASSUME RowsType PROVE SpanHolds
    OBVIOUS
<1>1. There \subseteq Cards /\ Undated \subseteq There
    BY DEF There, Undated
<1>2. \A c \in There : explicitStart(c)[1] \in Int
    BY DEF RowsType, explicitStart
<1>3. synthAnchor \in Int
    <2>1. CASE There # Undated
        <3> DEFINE S == There \ Undated
                   day == [c \in Cards |-> explicitStart(c)[1]]
                   on == {explicitStart(c)[1] : c \in S}
        <3>1. S # {} /\ S \in SUBSET Cards /\ on = {day[c] : c \in S} /\ \A c \in S : day[c] \in Int
            BY <1>1, <1>2, <2>1
        <3>2. on # {}
            BY <3>1
        <3> HIDE DEF S, day
        <3>3. IsFiniteSet(on) /\ on \subseteq Int
            BY <3>1, DaysFinite
        <3>4. synthAnchor = Min(on)
            BY <2>1 DEF synthAnchor, S
        <3> HIDE DEF on
        <3> QED
            BY <3>2, <3>3, <3>4, DaySpans
    <2>2. CASE There = Undated
        <3>1. window # {} => Min(window) \in Int
            BY DaySpans DEF RowsType
        <3> QED
            BY <2>2, <3>1 DEF synthAnchor
    <2> QED
        BY <2>1, <2>2
<1>4. \A c \in There : resolvedStart(c)[1] \in Int
    BY <1>2, <1>3 DEF resolvedStart
<1> DEFINE day == [c \in Cards |-> resolvedStart(c)[1]]
           cards == {resolvedStart(c)[1] : c \in There}
           on == cards \cup window
<1>5. IsFiniteSet(cards) /\ cards \subseteq Int
    <2>1. There \in SUBSET Cards /\ cards = {day[c] : c \in There} /\ \A c \in There : day[c] \in Int
        BY <1>1, <1>4
    <2> HIDE DEF day
    <2> QED
        BY <2>1, DaysFinite
<1>6. on # {} /\ \A c \in There : resolvedStart(c)[1] \in on
    BY DEF RowsType
<1>7. daySpan = Min(on)..Max(on)
    BY DEF daySpan
<1> HIDE DEF cards
<1>8. IsFiniteSet(on) /\ on \subseteq Int
    BY <1>5, FS_Union DEF RowsType
<1> HIDE DEF on
<1>9. Min(on) \in Int /\ Max(on) \in Int /\ on \subseteq Min(on)..Max(on)
    BY <1>6, <1>8, DaySpans
<1> QED
    BY <1>4, <1>6, <1>7, <1>9 DEF SpanHolds

-----------------------------------------------------------------------------
\* A step that writes no card and draws no other columns.
LEMMA BoardStands ==
    ASSUME BoardInv, UNCHANGED <<node, window, page, days, mishaps>>
    PROVE  BoardType' /\ TimesDrawn'
<1>1. BoardType'
    BY DEF BoardInv, BoardType, RowsType, There
<1>2. TimesDrawn'
    BY DEF BoardInv, TimesDrawn, There, isNodeScheduled, explicitStart
<1> QED
    BY <1>1, <1>2

\* What writing a card does to the rows.
LEMMA RowWritten ==
    ASSUME DOMAIN node = Cards, NEW c \in Cards, NEW start, NEW synth, update_node(c, start, synth)
    PROVE  /\ DOMAIN node' = Cards /\ There' = There \cup {c}
           /\ node'[c].start = start /\ node'[c].column = start /\ node'[c].synth = synth
           /\ explicitStart(c)' = start
           /\ \A o \in Cards \ {c} : node'[o] = node[o] /\ explicitStart(o)' = explicitStart(o)
<1>1. /\ DOMAIN node' = Cards /\ \A o \in Cards \ {c} : node'[o] = node[o]
      /\ node'[c] = [there |-> TRUE, start |-> start, synth |-> synth, column |-> start]
    BY DEF update_node
<1> QED
    BY <1>1 DEF There, explicitStart

LEMMA PageWritten ==
    ASSUME DOMAIN page = Cards, NEW c \in Cards, NEW start, NEW synth,
           page' = [page EXCEPT ![c] = [start |-> start, synth |-> synth]]
    PROVE  /\ DOMAIN page' = Cards /\ page'[c].start = start /\ page'[c].synth = synth
           /\ \A o \in Cards \ {c} : page'[o] = page[o]
OBVIOUS

\* A card that is written on a day that is drawn, or with no time, keeps the board in order.
LEMMA PersistKeeps ==
    ASSUME BoardInv, NEW c \in Cards, NEW start, start[1] \in Int, NEW synth,
           start # Nowhere /\ ~synth => start[1] \in days, persist(c, start, synth)
    PROVE  BoardType' /\ TimesDrawn' /\ days' = days /\ mishaps \subseteq mishaps'
                      /\ ("dates" \in mishaps' => "dates" \in mishaps)
<1>1. window' = window /\ days' = days
    BY DEF persist
<1>2. There \subseteq Cards
    BY DEF There
<1>3. CASE page' = [page EXCEPT ![c] = [start |-> start, synth |-> synth]] /\ update_node(c, start, synth)
            /\ UNCHANGED mishaps
    <2>1. BoardType'
        BY <1>1, <1>2, <1>3, RowWritten, PageWritten DEF BoardInv, BoardType, RowsType
    <2>2. TimesDrawn'
        <3> SUFFICES ASSUME mishaps \subseteq {"failed"}, NEW o \in There'
                     PROVE  /\ isNodeScheduled(o)' => page'[o].start = explicitStart(o)' /\ page'[o].start[1] \in days
                            /\ node'[o].start # Nowhere /\ ~node'[o].synth => node'[o].start[1] \in days
            BY <1>1, <1>3 DEF TimesDrawn
        <3>1. CASE o = c
            BY <1>3, <3>1, RowWritten, PageWritten DEF BoardInv, BoardType, RowsType, isNodeScheduled
        <3>2. CASE o # c
            <4>1. o \in There /\ node'[o] = node[o] /\ explicitStart(o)' = explicitStart(o) /\ page'[o] = page[o]
                BY <1>2, <1>3, <3>2, RowWritten, PageWritten DEF BoardInv, BoardType, RowsType
            <4> QED
                BY <4>1 DEF BoardInv, TimesDrawn, isNodeScheduled
        <3> QED
            BY <3>1, <3>2
    <2> QED
        BY <1>1, <1>3, <2>1, <2>2
<1>4. CASE mishaps' = mishaps \cup {"failed"} /\ UNCHANGED <<node, page>>
    <2>1. BoardType'
        BY <1>1, <1>4 DEF BoardInv, BoardType, RowsType, There
    <2>2. TimesDrawn'
        BY <1>1, <1>4 DEF BoardInv, TimesDrawn, There, isNodeScheduled, explicitStart
    <2> QED
        BY <1>1, <1>4, <2>1, <2>2
<1>5. CASE update_node(c, start, synth) /\ mishaps' = mishaps \cup {"lost"} /\ UNCHANGED page
    <2>1. BoardType'
        BY <1>1, <1>2, <1>5, RowWritten DEF BoardInv, BoardType, RowsType
    <2>2. TimesDrawn'
        BY <1>5 DEF TimesDrawn
    <2> QED
        BY <1>1, <1>5, <2>1, <2>2
<1>6. CASE page' = [page EXCEPT ![c] = [start |-> start, synth |-> synth]] /\ mishaps' = mishaps \cup {"apart"}
            /\ UNCHANGED node
    <2>1. BoardType'
        BY <1>1, <1>6, PageWritten DEF BoardInv, BoardType, RowsType, There
    <2>2. TimesDrawn'
        BY <1>6 DEF TimesDrawn
    <2> QED
        BY <1>1, <1>6, <2>1, <2>2
<1> QED
    BY <1>3, <1>4, <1>5, <1>6 DEF persist

LEMMA MoveKeeps ==
    ASSUME BoardInv, NEW c \in Cards, NEW d \in days, NEW quarter, moveNode(c, d, quarter)
    PROVE  BoardType' /\ TimesDrawn' /\ days' = days /\ ("dates" \in mishaps' => "dates" \in mishaps)
                      /\ mishaps \subseteq mishaps'
<1> DEFINE to == rebasedMetadata(c, d, quarter)
           synth == IF to = Nowhere THEN page[c].synth ELSE FALSE
<1>1. to = <<d, quarter>> \/ to = <<d, page[c].start[2]>> \/ to = Nowhere
    BY DEF rebasedMetadata
<1>2. Nowhere[1] \in Int
    BY DEF Nowhere
<1>3. d \in Int
    BY DEF BoardInv, BoardType, RowsType
<1>4. to[1] \in Int /\ (to # Nowhere => to[1] \in days)
    BY <1>1, <1>2, <1>3
<1>5. persist(c, to, synth)
    BY DEF moveNode
<1> HIDE DEF to, synth
<1> QED
    BY <1>4, <1>5, PersistKeeps

LEMMA UnscheduleKeeps ==
    ASSUME BoardInv, NEW c \in Cards, unscheduleNode(c)
    PROVE  BoardType' /\ TimesDrawn' /\ days' = days /\ ("dates" \in mishaps' => "dates" \in mishaps)
                      /\ mishaps \subseteq mishaps'
<1>1. Nowhere[1] \in Int
    BY DEF Nowhere
<1> QED
    BY <1>1, PersistKeeps DEF unscheduleNode

-----------------------------------------------------------------------------
\* Dragging.
LEMMA DragKeeps ==
    ASSUME BoardInv,
           \/ \E c \in Cards : handleDragStart(c)
           \/ \E d \in days \cup {0} : handleDragOver(d)
           \/ \E y \in Pointers : onMove(y)
           \/ \E target \in {"day", "collection", "none"} : handleDragEnd(target)
    PROVE  BoardInv'
<1>0. 0 \notin Cards /\ DayColumns \subseteq days
    BY CardsAssumption DEF Cards, DayColumns
<1>1. ASSUME NEW c \in Cards, handleDragStart(c) PROVE BoardInv'
    <2>1. UNCHANGED <<node, window, page, days, mishaps, held, last, slot>>
        BY <1>1 DEF handleDragStart, Still, service
    <2>2. drag'.card = c /\ drag'.day = 0 /\ {"card", "day"} \subseteq DOMAIN drag'
        BY <1>1 DEF handleDragStart, NoDrag
    <2>3. AimsAtDays'
        BY <2>1, <2>2 DEF BoardInv, AimsAtDays
    <2> QED
        BY <2>1, <2>3, BoardStands DEF BoardInv
<1>2. ASSUME NEW d \in days \cup {0}, handleDragOver(d) \/ \E y \in Pointers : onMove(y) PROVE BoardInv'
    <2>1. UNCHANGED <<node, window, page, days, mishaps, held, last, slot>>
        BY <1>2 DEF handleDragOver, onMove, Still, service
    <2>2. /\ drag'.card = drag.card /\ drag'.day \in {drag.day, d} /\ {"card", "day"} \subseteq DOMAIN drag'
        <3>1. {"card", "day"} \subseteq DOMAIN drag
            BY DEF BoardInv, AimsAtDays
        <3>2. CASE handleDragOver(d)
            BY <3>1, <3>2 DEF handleDragOver
        <3>3. ASSUME NEW y \in Pointers, onMove(y) PROVE drag'.card = drag.card /\ drag'.day = drag.day /\ DOMAIN drag' = DOMAIN drag
            <4> DEFINE quarter == mapYToQuarter(y)
            <4>1. drag' = [drag EXCEPT !.quarter = quarter, !.was = drag.quarter, !.y = y, !.moves = @ + 1]
                BY <3>3 DEF onMove
            <4> HIDE DEF quarter
            <4> QED
                BY <3>1, <4>1
        <3> QED
            BY <1>2, <3>1, <3>2, <3>3
    <2>3. AimsAtDays'
        BY <2>1, <2>2 DEF BoardInv, AimsAtDays
    <2> QED
        BY <2>1, <2>3, BoardStands DEF BoardInv
<1>3. ASSUME NEW target \in {"day", "collection", "none"}, handleDragEnd(target) PROVE BoardInv'
    <2>1. drag.card # 0 /\ drag' = NoDrag /\ UNCHANGED <<held, last, slot>> /\ drag.card \in Cards /\ drag.day \in days \cup {0}
        BY <1>3 DEF handleDragEnd, BoardInv, AimsAtDays
    <2>2. BoardType' /\ TimesDrawn' /\ days' = days /\ mishaps \subseteq mishaps'
        <3>1. CASE drag.day # 0 /\ moveNode(drag.card, drag.day, drag.quarter)
            BY <2>1, <3>1, MoveKeeps
        <3>2. CASE unscheduleNode(drag.card)
            BY <2>1, <3>2, UnscheduleKeeps
        <3>3. CASE Still
            BY <3>3, BoardStands DEF Still, service
        <3> QED
            BY <1>3, <3>1, <3>2, <3>3 DEF handleDragEnd
    <2>3. AimsAtDays'
        BY <2>1, <2>2 DEF BoardInv, AimsAtDays, NoDrag
    <2> QED
        BY <2>2, <2>3 DEF BoardInv
<1> QED
    BY <1>1, <1>2, <1>3

\* Picking up and placing, and the composer.
LEMMA PlaceKeeps ==
    ASSUME BoardInv,
           \/ \E c \in Cards : holdItem(c)
           \/ \E d \in days, y \in Pointers : handlePlaceTap(d, y) \/ handleCreateTap(d, y)
           \/ clearHeldItem \/ undoPlacement \/ clearLastPlacement
    PROVE  BoardInv'
<1>0. DayColumns \subseteq days
    BY DEF DayColumns
<1>1. ASSUME NEW c \in Cards, holdItem(c) PROVE BoardInv'
    <2>1. UNCHANGED <<node, window, page, days, mishaps, drag, slot>> /\ held' = c /\ last' = 0
        BY <1>1 DEF holdItem, Still, service
    <2> QED
        BY <2>1, BoardStands DEF BoardInv, AimsAtDays
<1>2. ASSUME clearHeldItem \/ clearLastPlacement PROVE BoardInv'
    <2>1. UNCHANGED <<node, window, page, days, mishaps, drag, slot>> /\ held' \in {held, 0} /\ last' \in {last, 0}
        BY <1>2 DEF clearHeldItem, clearLastPlacement, Still, service
    <2> QED
        BY <2>1, BoardStands DEF BoardInv, AimsAtDays
<1>3. ASSUME NEW d \in days, NEW y \in Pointers, handlePlaceTap(d, y) PROVE BoardInv'
    <2> DEFINE quarter == mapYToQuarter(y)
    <2>1. /\ held # 0 /\ moveNode(held, d, quarter) /\ held' = 0 /\ last' = held /\ UNCHANGED <<drag, slot>>
        BY <1>3 DEF handlePlaceTap, placeHeldItem, PlaceTargets, PlaceModeLayer
    <2>2. held \in Cards
        BY <2>1 DEF BoardInv, AimsAtDays
    <2> HIDE DEF quarter
    <2>3. BoardType' /\ TimesDrawn' /\ days' = days /\ mishaps \subseteq mishaps'
        BY <2>1, <2>2, MoveKeeps
    <2> QED
        BY <2>1, <2>2, <2>3 DEF BoardInv, AimsAtDays
<1>4. ASSUME NEW d \in days, NEW y \in Pointers, handleCreateTap(d, y) PROVE BoardInv'
    <2> DEFINE quarter == mapYToQuarter(y)
    <2>1. UNCHANGED <<node, window, page, days, mishaps, drag, held, last>> /\ slot' = <<d, quarter>>
        BY <1>4 DEF handleCreateTap, Still, service
    <2> HIDE DEF quarter
    <2>2. slot'[1] = d /\ d \in Int
        BY <2>1 DEF BoardInv, BoardType, RowsType
    <2> QED
        BY <2>1, <2>2, BoardStands DEF BoardInv, AimsAtDays
<1>5. CASE undoPlacement
    <2>1. last # 0 /\ unscheduleNode(last) /\ last' = 0 /\ UNCHANGED <<drag, held, slot>>
        BY <1>5 DEF undoPlacement
    <2>2. last \in Cards
        BY <2>1 DEF BoardInv, AimsAtDays
    <2>3. BoardType' /\ TimesDrawn' /\ days' = days /\ mishaps \subseteq mishaps'
        BY <2>1, <2>2, UnscheduleKeeps
    <2> QED
        BY <2>1, <2>3 DEF BoardInv, AimsAtDays
<1> QED
    BY <1>1, <1>2, <1>3, <1>4, <1>5

\* A new card is saved with the slot the composer was opened at.
LEMMA AuthorKeeps == ASSUME BoardInv, NEW c \in Cards, authorNode(c) PROVE BoardInv'
<1>1. slot # Nowhere /\ slot' = Nowhere /\ UNCHANGED <<window, days, drag, held, last>>
    BY DEF authorNode
<1>2. There \subseteq Cards /\ slot[1] \in Int /\ ("dates" \in mishaps \/ slot[1] \in days)
    BY <1>1 DEF There, BoardInv, AimsAtDays
<1>3. CASE /\ update_node(c, slot, FALSE) /\ page' = [page EXCEPT ![c] = [start |-> slot, synth |-> FALSE]]
           /\ UNCHANGED mishaps
    <2> DEFINE synth == FALSE
               start == slot
    <2>0. /\ update_node(c, start, synth) /\ page' = [page EXCEPT ![c] = [start |-> start, synth |-> synth]] /\ ~synth
          /\ start[1] \in Int /\ (mishaps \subseteq {"failed"} => start[1] \in days)
        BY <1>2, <1>3
    <2> HIDE DEF start, synth
    <2>1. BoardType'
        BY <1>1, <1>2, <2>0, RowWritten, PageWritten DEF BoardInv, BoardType, RowsType
    <2>2. TimesDrawn'
        <3> SUFFICES ASSUME mishaps \subseteq {"failed"}, NEW o \in There'
                     PROVE  /\ isNodeScheduled(o)' => page'[o].start = explicitStart(o)' /\ page'[o].start[1] \in days
                            /\ node'[o].start # Nowhere /\ ~node'[o].synth => node'[o].start[1] \in days
            BY <1>1, <1>3 DEF TimesDrawn
        <3>1. CASE o = c
            BY <2>0, <3>1, RowWritten, PageWritten DEF BoardInv, BoardType, RowsType, isNodeScheduled
        <3>2. CASE o # c
            <4>1. o \in There /\ node'[o] = node[o] /\ explicitStart(o)' = explicitStart(o) /\ page'[o] = page[o]
                BY <1>2, <2>0, <3>2, RowWritten, PageWritten DEF BoardInv, BoardType, RowsType
            <4> QED
                BY <4>1 DEF BoardInv, TimesDrawn, isNodeScheduled
        <3> QED
            BY <3>1, <3>2
    <2>3. AimsAtDays'
        BY <1>1, <1>3 DEF BoardInv, AimsAtDays
    <2> QED
        BY <2>1, <2>2, <2>3 DEF BoardInv
<1>4. CASE mishaps' = mishaps \cup {"failed"} /\ UNCHANGED <<node, page>>
    <2>1. BoardType'
        BY <1>1, <1>4 DEF BoardInv, BoardType, RowsType, There
    <2>2. TimesDrawn'
        BY <1>1, <1>4 DEF BoardInv, TimesDrawn, There, isNodeScheduled, explicitStart
    <2>3. AimsAtDays'
        BY <1>1, <1>4 DEF BoardInv, AimsAtDays
    <2> QED
        BY <2>1, <2>2, <2>3 DEF BoardInv
<1> QED
    BY <1>3, <1>4 DEF authorNode

\* An edit of the text writes the start the card is drawn with.
LEMMA DetailsKeep == ASSUME BoardInv, NEW c \in Cards, updateCardDetails(c) PROVE BoardInv'
<1>1. c \in There /\ UNCHANGED <<window, days, drag, held, last, slot, page>>
    BY DEF updateCardDetails, pointer
<1>2. There \subseteq Cards /\ page[c].start[1] \in Int
    BY DEF There, BoardInv, BoardType, RowsType
<1>3. CASE update_node(c, page[c].start, page[c].synth) /\ mishaps' \in {mishaps, mishaps \cup {"lost"}}
    <2> DEFINE start == page[c].start
               synth == page[c].synth
    <2>1. update_node(c, start, synth) /\ start[1] \in Int
        BY <1>2, <1>3
    <2>2. isNodeScheduled(c) <=> start # Nowhere /\ ~synth
        BY DEF isNodeScheduled
    <2>3. isNodeScheduled(c)' <=> isNodeScheduled(c)
        BY <1>1 DEF isNodeScheduled
    <2>4. page'[c].start = start
        BY <1>1
    <2> HIDE DEF start, synth
    <2>5. BoardType'
        BY <1>1, <1>2, <2>1, RowWritten DEF BoardInv, BoardType, RowsType
    <2>6. TimesDrawn'
        <3> SUFFICES ASSUME mishaps \subseteq {"failed"}, NEW o \in There'
                     PROVE  /\ isNodeScheduled(o)' => page'[o].start = explicitStart(o)' /\ page'[o].start[1] \in days
                            /\ node'[o].start # Nowhere /\ ~node'[o].synth => node'[o].start[1] \in days
            BY <1>1, <1>3 DEF TimesDrawn
        <3>1. CASE o = c
            <4>1. isNodeScheduled(c) => start[1] \in days
                BY <1>1, <2>4 DEF BoardInv, TimesDrawn
            <4>2. node'[c].start = start /\ node'[c].synth = synth /\ explicitStart(c)' = start
                BY <2>1, RowWritten DEF BoardInv, BoardType, RowsType
            <4> QED
                BY <2>2, <2>3, <2>4, <3>1, <4>1, <4>2
        <3>2. CASE o # c
            <4>1. o \in There /\ node'[o] = node[o] /\ explicitStart(o)' = explicitStart(o) /\ page'[o] = page[o]
                BY <1>1, <1>2, <2>1, <3>2, RowWritten DEF BoardInv, BoardType, RowsType
            <4> QED
                BY <4>1 DEF BoardInv, TimesDrawn, isNodeScheduled
        <3> QED
            BY <3>1, <3>2
    <2>7. AimsAtDays'
        BY <1>1, <1>3 DEF BoardInv, AimsAtDays
    <2> QED
        BY <2>5, <2>6, <2>7 DEF BoardInv
<1>4. CASE mishaps' = mishaps \cup {"failed"} /\ UNCHANGED <<node, page>>
    <2>1. BoardType'
        BY <1>1, <1>4 DEF BoardInv, BoardType, RowsType, There
    <2>2. TimesDrawn'
        BY <1>1, <1>4 DEF BoardInv, TimesDrawn, There, isNodeScheduled, explicitStart
    <2>3. AimsAtDays'
        BY <1>1, <1>4 DEF BoardInv, AimsAtDays
    <2> QED
        BY <2>1, <2>2, <2>3 DEF BoardInv
<1> QED
    BY <1>3, <1>4 DEF updateCardDetails

-----------------------------------------------------------------------------
\* What was not made up is laid out where it is.
LEMMA Resolved ==
    ASSUME NEW c \in There
    PROVE  /\ explicitStart(c) # Nowhere => resolvedStart(c) = explicitStart(c)
           /\ c \notin Undated => resolvedStart(c) = explicitStart(c)
           /\ node[c].start # Nowhere => explicitStart(c) = node[c].start
BY DEF resolvedStart, Undated, explicitStart

\* The page is opened: it shows the service's cards, and the columns cover them.
LEMMA OpenedPage ==
    ASSUME RowsType, page' = resolvedNodes, days' = daySpan, UNCHANGED <<node, window>>
    PROVE  BoardType' /\ TimesDrawn'
<1>1. SpanHolds
    BY SpanCovers
<1>2. RowsType' /\ There' = There /\ \A c \in Cards : explicitStart(c)' = explicitStart(c)
    BY DEF RowsType, There, explicitStart
<1>3. Nowhere[1] \in Int
    BY DEF Nowhere
<1>4. \A c \in There : page'[c].start = resolvedStart(c) /\ page'[c].synth = (c \in Undated \/ node[c].synth)
    BY DEF resolvedNodes, There
<1>5. \A c \in Cards \ There : page'[c].start = Nowhere
    BY DEF resolvedNodes
<1>6. BoardType'
    <2>1. DOMAIN page' = Cards
        BY DEF resolvedNodes
    <2> QED
        BY <1>1, <1>2, <1>3, <1>4, <1>5, <2>1 DEF BoardType, SpanHolds
<1>7. ASSUME NEW c \in There
      PROVE  /\ isNodeScheduled(c)' => page'[c].start = explicitStart(c) /\ page'[c].start[1] \in daySpan
             /\ node[c].start # Nowhere => node[c].start[1] \in daySpan
    BY <1>1, <1>4, Resolved DEF SpanHolds, isNodeScheduled
<1>8. TimesDrawn'
    BY <1>2, <1>7 DEF TimesDrawn, There
<1> QED
    BY <1>6, <1>8

LEMMA ReopenKeeps == ASSUME BoardInv, toItineraryTimeline PROVE BoardInv'
<1>1. /\ page' = resolvedNodes /\ days' = daySpan /\ UNCHANGED <<node, window>>
      /\ drag' = NoDrag /\ held' = 0 /\ last' = 0 /\ slot' = Nowhere
    BY DEF toItineraryTimeline, service
<1>2. BoardType' /\ TimesDrawn'
    BY <1>1, OpenedPage DEF BoardInv, BoardType
<1>3. AimsAtDays'
    BY <1>1 DEF AimsAtDays, NoDrag
<1> QED
    BY <1>2, <1>3 DEF BoardInv

\* The trip's dates change: the columns are drawn anew from the service's cards, which are the page's.
LEMMA DatesKeep == ASSUME BoardInv, NEW dates \in Windows, onItineraryUpdated(dates) PROVE BoardInv'
<1>1. /\ UNCHANGED <<node, page, drag, held, last, slot>> /\ drag.card = 0 /\ window' = dates /\ days' = daySpan'
      /\ mishaps' = mishaps \cup (IF slot = Nowhere THEN {} ELSE {"dates"})
    BY DEF onItineraryUpdated, pointer
<1>2. There' = There /\ \A c \in There : explicitStart(c)' = explicitStart(c)
    BY <1>1 DEF There, explicitStart
<1>3. RowsType'
    BY <1>1, <1>2, WindowsAssumption DEF BoardInv, BoardType, RowsType
<1>4. SpanHolds'
    <2>1. RowsType' => SpanHolds'
        BY SpanCovers, PTL
    <2> QED
        BY <1>3, <2>1
<1>5. BoardType'
    BY <1>1, <1>3, <1>4 DEF BoardInv, BoardType, SpanHolds
<1>6. \A c \in There : explicitStart(c) # Nowhere => explicitStart(c)[1] \in days'
    <2> SUFFICES ASSUME NEW c \in There, explicitStart(c) # Nowhere PROVE explicitStart(c)[1] \in days'
        OBVIOUS
    <2>1. c \notin Undated'
        BY <1>2 DEF Undated
    <2>2. resolvedStart(c)' = explicitStart(c)
        BY <1>2, <2>1 DEF resolvedStart
    <2> QED
        BY <1>1, <1>2, <1>4, <2>2 DEF SpanHolds
<1>7. TimesDrawn'
    <2> SUFFICES ASSUME mishaps \subseteq {"failed"}, NEW c \in There
                 PROVE  /\ isNodeScheduled(c) => page[c].start = explicitStart(c) /\ page[c].start[1] \in days'
                        /\ node[c].start # Nowhere /\ ~node[c].synth => node[c].start[1] \in days'
        BY <1>1, <1>2 DEF TimesDrawn, isNodeScheduled
    <2>1. isNodeScheduled(c) => page[c].start = explicitStart(c) /\ page[c].start # Nowhere
        BY DEF BoardInv, TimesDrawn, isNodeScheduled
    <2> QED
        BY <1>6, <2>1, Resolved
<1>8. AimsAtDays'
    BY <1>1 DEF BoardInv, AimsAtDays
<1> QED
    BY <1>5, <1>7, <1>8 DEF BoardInv

\* An edit of the price brings the card as it is on file, and the zoom is no matter of days.
LEMMA CostKeeps == ASSUME BoardInv, NEW c \in Cards, updateCardCost(c) PROVE BoardInv'
<1>1. /\ c \in There /\ page' = [page EXCEPT ![c] = [start |-> node[c].start, synth |-> node[c].synth]]
      /\ UNCHANGED <<node, window, days, mishaps, drag, held, last, slot>>
    BY DEF updateCardCost, service, pointer
<1>2. /\ DOMAIN page' = Cards /\ page'[c].start = node[c].start /\ page'[c].synth = node[c].synth
      /\ \A o \in Cards \ {c} : page'[o] = page[o]
    BY <1>1, PageWritten DEF BoardInv, BoardType
<1>3. There' = There /\ There \subseteq Cards /\ RowsType' /\ \A o \in There : explicitStart(o)' = explicitStart(o)
    BY <1>1 DEF There, explicitStart, BoardInv, BoardType, RowsType
<1>4. BoardType'
    BY <1>1, <1>2, <1>3 DEF BoardInv, BoardType, RowsType
<1>5. TimesDrawn'
    <2> SUFFICES ASSUME mishaps \subseteq {"failed"}, NEW o \in There
                 PROVE  /\ isNodeScheduled(o)' => page'[o].start = explicitStart(o) /\ page'[o].start[1] \in days
                        /\ node[o].start # Nowhere /\ ~node[o].synth => node[o].start[1] \in days
        BY <1>1, <1>3 DEF TimesDrawn
    <2>1. CASE o = c
        BY <1>2, <2>1, Resolved DEF BoardInv, TimesDrawn, isNodeScheduled
    <2>2. CASE o # c
        BY <1>2, <1>3, <2>2 DEF BoardInv, TimesDrawn, isNodeScheduled
    <2> QED
        BY <2>1, <2>2
<1> QED
    BY <1>1, <1>4, <1>5 DEF BoardInv, AimsAtDays

LEMMA ZoomKeeps == ASSUME BoardInv, NEW z, setPxPerMinute(z) PROVE BoardInv'
<1>1. UNCHANGED <<node, window, page, days, mishaps, drag, held, last, slot>>
    BY DEF setPxPerMinute, service, pointer
<1> QED
    BY <1>1, BoardStands DEF BoardInv, AimsAtDays

LEMMA BoardKeeps == BoardInv /\ [Next]_vars => BoardInv'
<1> SUFFICES ASSUME BoardInv, [Next]_vars PROVE BoardInv'
    OBVIOUS
<1>1. CASE UNCHANGED vars
    BY <1>1, BoardStands DEF vars, BoardInv, AimsAtDays
<1>2. ASSUME NEW c \in Cards,
             \/ handleDragStart(c) \/ holdItem(c) \/ authorNode(c) \/ updateCardDetails(c) \/ updateCardCost(c)
      PROVE  BoardInv'
    BY <1>2, DragKeeps, PlaceKeeps, AuthorKeeps, DetailsKeep, CostKeeps
<1>3. CASE \/ \E d \in days \cup {0} : handleDragOver(d)
           \/ \E y \in Pointers : onMove(y)
           \/ \E target \in {"day", "collection", "none"} : handleDragEnd(target)
    BY <1>3, DragKeeps
<1>4. CASE \/ \E d \in days, y \in Pointers : handlePlaceTap(d, y) \/ handleCreateTap(d, y)
           \/ clearHeldItem \/ undoPlacement \/ clearLastPlacement
    BY <1>4, PlaceKeeps
<1>5. CASE \E dates \in Windows : onItineraryUpdated(dates)
    BY <1>5, DatesKeep
<1>6. CASE toItineraryTimeline \/ \E z \in Zooms : setPxPerMinute(z)
    BY <1>6, ReopenKeeps, ZoomKeeps
<1> QED
    BY <1>1, <1>2, <1>3, <1>4, <1>5, <1>6 DEF Next

\* A board with a card starts with the first one in place.
LEMMA InitBoardInv == Init => (Cards # {} => BoardInv)
<1> SUFFICES ASSUME Init, Cards # {} PROVE BoardInv
    OBVIOUS
<1>0. PICK first \in Starts, other \in Others :
          node = [c \in Cards |-> IF c = 1 THEN Node(first) ELSE IF c = Ghost - 1 THEN Absent ELSE Node(other)]
    BY DEF Init
<1>1. 1 \in Cards
    BY CardsAssumption DEF Cards
<1>2. first[1] \in Int /\ other[1] \in Int
    BY StartsAssumption
<1>3. RowsType
    <2>1. DOMAIN node = Cards /\ 1 \in There
        BY <1>0, <1>1 DEF There, Node
    <2>2. \A c \in There : node[c] \in {Node(first), Node(other)}
        BY <1>0 DEF There, Absent
    <2>3. \A c \in There : node[c].start[1] \in Int /\ node[c].column[1] \in Int
        BY <1>2, <2>2 DEF Node
    <2>4. window \subseteq Int /\ IsFiniteSet(window)
        BY WindowsAssumption DEF Init
    <2> QED
        BY <2>1, <2>3, <2>4 DEF RowsType
<1>4. SpanHolds
    BY <1>3, SpanCovers
<1>5. page = resolvedNodes /\ days = daySpan /\ drag = NoDrag /\ held = 0 /\ last = 0 /\ slot = Nowhere /\ mishaps = {}
    BY DEF Init
<1>6. \A c \in There : page[c].start = resolvedStart(c) /\ page[c].synth = (c \in Undated \/ node[c].synth)
    BY <1>5 DEF resolvedNodes, There
<1>7. \A c \in Cards : page[c].start[1] \in Int
    <2>1. \A c \in Cards \ There : page[c].start = Nowhere
        BY <1>5 DEF resolvedNodes
    <2>2. Nowhere[1] \in Int
        BY DEF Nowhere
    <2> QED
        BY <1>4, <1>6, <2>1, <2>2 DEF SpanHolds
<1>8. BoardType
    <2>1. DOMAIN page = Cards
        BY <1>5 DEF resolvedNodes
    <2> QED
        BY <1>3, <1>4, <1>5, <1>7, <2>1 DEF BoardType, SpanHolds
<1>9. TimesDrawn
    BY <1>4, <1>5, <1>6, Resolved DEF SpanHolds, TimesDrawn, isNodeScheduled
<1>10. AimsAtDays
    BY <1>5 DEF AimsAtDays, NoDrag
<1> QED
    BY <1>8, <1>9, <1>10 DEF BoardInv

\* What is drawn: every card with a time, and only those; the others are in one lane of the Collection.
LEMMA ScheduledDrawn ==
    ASSUME TimesDrawn, mishaps \subseteq {"failed"}, NEW c \in There, isNodeScheduled(c)
    PROVE  c \in HorizontalCanvas /\ c \in MobileItineraryLayout
<1>1. page[c].start[1] \in days
    BY DEF TimesDrawn
<1>2. DayColumns = days
    <2> DEFINE S == {o \in There : isNodeScheduled(o)}
    <2>1. S \in SUBSET Cards /\ S # {}
        BY DEF There
    <2>2. Cardinality(S) # 0
        <3> HIDE DEF S
        <3> QED
            BY <2>1, CardsFinite, FS_EmptySet
    <2> QED
        BY <2>2 DEF DayColumns, collectionDominant, scheduledCount
<1>3. c \in HorizontalCanvas
    <2> DEFINE i == [id |-> c, day |-> page[c].start[1], q |-> page[c].start[2], len |-> Quarters[c]]
    <2>1. c \in {o \in There : isNodeScheduled(o) /\ page[o].start[1] \in days}
        BY <1>1
    <2>2. i \in items
        BY <2>1 DEF items
    <2>3. i.id = c /\ i.day \in days
        BY <1>1
    <2> HIDE DEF i
    <2> QED
        BY <1>2, <2>2, <2>3 DEF HorizontalCanvas
<1>4. c \in MobileItineraryLayout
    <2>1. groupNodesByDay[page[c].start[1]] = {o \in There : page[o].start[1] = page[c].start[1]}
        BY <1>1 DEF groupNodesByDay
    <2> QED
        BY <1>1, <1>2, <2>1 DEF MobileItineraryLayout
<1> QED
    BY <1>3, <1>4

LEMMA OneLane ==
    ASSUME NEW c \in There, ~isNodeScheduled(c), NEW axis
    PROVE  LET sorted == wishList(axis) IN Cardinality({l \in DOMAIN sorted : c \in sorted[l]}) = 1
<1> DEFINE cards == {o \in There : ~isNodeScheduled(o)}
           lane(o) == laneOf(o, axis)
           sorted == [l \in {lane(o) : o \in cards} |-> {o \in cards : lane(o) = l}]
<1>1. wishList(axis) = sorted
    BY DEF wishList, groupCollection, collectionItemsOf
<1>2. c \in cards
    OBVIOUS
<1> HIDE DEF cards, lane
<1>3. {l \in DOMAIN sorted : c \in sorted[l]} = {lane(c)}
    BY <1>2
<1>4. Cardinality({lane(c)}) = 1
    BY FS_Singleton
<1> QED
    BY <1>1, <1>3, <1>4

LEMMA BoardLosesNoCard == (Cards # {} => BoardInv) => NoCardLost
<1> SUFFICES ASSUME Cards # {} => BoardInv, mishaps \subseteq {"failed"}
             PROVE  /\ {c \in There : isNodeScheduled(c)} \subseteq HorizontalCanvas \cap MobileItineraryLayout
                    /\ \A c \in There \ HorizontalCanvas, axis \in {"type", "cost", "proximity"} :
                         LET sorted == wishList(axis) IN Cardinality({l \in DOMAIN sorted : c \in sorted[l]}) = 1
    BY DEF NoCardLost
<1>1. There # {} => TimesDrawn
    BY DEF There, BoardInv
<1>2. \A c \in There : isNodeScheduled(c) => c \in HorizontalCanvas /\ c \in MobileItineraryLayout
    BY <1>1, ScheduledDrawn
<1>3. ASSUME NEW c \in There \ HorizontalCanvas, NEW axis
      PROVE  LET sorted == wishList(axis) IN Cardinality({l \in DOMAIN sorted : c \in sorted[l]}) = 1
    BY <1>2, OneLane
<1> QED
    BY <1>2, <1>3

\* No card is lost on the board by the page that works on it: whatever is dragged, placed, undone, authored or edited,
\* whatever calls are refused and whatever the trip's dates become, a card that has a time is drawn, on the timeline and
\* on the phone, and one that has none is in one lane of the Collection.
THEOREM PagesNoCardLost == PagesSpec => []NoCardLost
<1>1. PagesInit => (Cards # {} => BoardInv)
    BY InitBoardInv DEF PagesInit
<1>2. (Cards # {} => BoardInv) /\ [PagesNext]_all => (Cards # {} => BoardInv)'
    <2>1. [PagesNext]_all => [Next]_vars
        BY DEF PagesNext, BoardStep, HouseholdStep, MoneyStep, RosterStep, IntakeStep, all
    <2>2. Cards' = Cards
        BY DEF Cards
    <2> QED
        BY <2>1, <2>2, BoardKeeps
<1> QED
    BY <1>1, <1>2, BoardLosesNoCard, PTL DEF PagesSpec

-----------------------------------------------------------------------------
Long(run) == run[2] - run[1]
OneOf(s) == CHOOSE x \in s : TRUE

\* One unfolding of the fold, and the functions on the subsets of S that satisfy it.
Unfold(g, s)   == IF s = {} THEN 0 ELSE Long(OneOf(s)) + g[s \ {OneOf(s)}]
Solves(g, S)   == g = [s \in SUBSET S |-> Unfold(g, s)]
Solution(S)    == CHOOSE g : Solves(g, S)

-----------------------------------------------------------------------------
\* A set of subsets of a finite set has a member that includes no other.
LEMMA LeastSet ==
    ASSUME NEW S, IsFiniteSet(S), NEW T, T \subseteq SUBSET S, T # {}
    PROVE  \E m \in T : \A t \in T : t \subseteq m => t = m
<1>1. IsWellFoundedOn(StrictSubsetOrdering(S), SUBSET S)
    BY FS_FiniteSubsetsOfFinite, FS_StrictSubsetOrderingWellFounded
<1>2. PICK m \in T : \A t \in T : ~(<<t, m>> \in StrictSubsetOrdering(S))
    BY <1>1, WFMin
<1>3. QED
    BY <1>2 DEF StrictSubsetOrdering

LEMMA SumIsSolution == ASSUME NEW S PROVE collapsed(S) = Solution(S)[S]
BY DEF collapsed, MapThenSumSet, MapThenFoldSet, Solution, Solves, Unfold, OneOf, Long

LEMMA OneOfIn == ASSUME NEW s, s # {} PROVE OneOf(s) \in s
BY DEF OneOf

LEMMA SolvesAt ==
    ASSUME NEW S, NEW g, Solves(g, S), NEW s \in SUBSET S
    PROVE  g[s] = Unfold(g, s)
<1> DEFINE F(x) == Unfold(g, x)
<1>1. g = [x \in SUBSET S |-> F(x)]
    BY DEF Solves
<1> HIDE DEF F
<1>2. g[s] = F(s)
    BY <1>1
<1>3. QED
    BY <1>2 DEF F

\* Solutions agree where both are defined.
LEMMA SolutionsAgree ==
    ASSUME NEW S, NEW T, NEW g, NEW h, Solves(g, S), Solves(h, T),
           NEW U, IsFiniteSet(U), U \subseteq S, U \subseteq T
    PROVE  g[U] = h[U]
<1> DEFINE Differ == {s \in SUBSET U : g[s] # h[s]}
<1> SUFFICES ASSUME Differ # {} PROVE FALSE
    OBVIOUS
<1>1. PICK m \in Differ : \A t \in Differ : t \subseteq m => t = m
    <2>1. Differ \subseteq SUBSET U
        OBVIOUS
    <2> HIDE DEF Differ
    <2>2. QED
        BY <2>1, LeastSet
<1>2. g[m] = Unfold(g, m) /\ h[m] = Unfold(h, m)
    BY SolvesAt
<1>3. CASE m = {}
    BY <1>1, <1>2, <1>3 DEF Unfold
<1>4. CASE m # {}
    <2>1. OneOf(m) \in m
        BY <1>4, OneOfIn
    <2>2. m \ {OneOf(m)} \notin Differ
        BY <1>1, <2>1
    <2>3. g[m \ {OneOf(m)}] = h[m \ {OneOf(m)}]
        BY <2>2
    <2>4. QED
        BY <1>1, <1>2, <1>4, <2>3 DEF Unfold
<1>5. QED
    BY <1>3, <1>4

LEMMA SolutionExists == ASSUME NEW S, IsFiniteSet(S) PROVE Solves(Solution(S), S)
<1> DEFINE Bad == {s \in SUBSET S : ~Solves(Solution(s), s)}
<1> SUFFICES ASSUME Bad # {} PROVE FALSE
    OBVIOUS
<1>1. PICK m \in Bad : \A t \in Bad : t \subseteq m => t = m
    <2>1. Bad \subseteq SUBSET S
        OBVIOUS
    <2> HIDE DEF Bad
    <2>2. QED
        BY <2>1, LeastSet
<1>2. \A s \in SUBSET m : s # m => Solves(Solution(s), s)
    BY <1>1
<1>3. \A s \in SUBSET m : IsFiniteSet(s)
    <2>1. IsFiniteSet(m)
        BY FS_Subset
    <2>2. QED
        BY <2>1, FS_Subset
<1> DEFINE below == [s \in SUBSET m |-> Solution(s)[s]]
           g == [s \in SUBSET m |-> Unfold(below, s)]
<1>4. \A s \in SUBSET m : s # m => g[s] = below[s]
    <2> SUFFICES ASSUME NEW s \in SUBSET m, s # m PROVE g[s] = below[s]
        OBVIOUS
    <2>1. below[s] = Unfold(Solution(s), s)
        BY <1>2, SolvesAt
    <2>2. s # {} => Solution(s)[s \ {OneOf(s)}] = below[s \ {OneOf(s)}]
        <3> SUFFICES ASSUME s # {} PROVE Solution(s)[s \ {OneOf(s)}] = below[s \ {OneOf(s)}]
            OBVIOUS
        <3> DEFINE r == s \ {OneOf(s)}
        <3>1. OneOf(s) \in s
            BY OneOfIn
        <3>2. r \in SUBSET m /\ r # m /\ r \subseteq s /\ IsFiniteSet(r)
            BY <1>3, <3>1
        <3>3. Solution(s)[r] = Solution(r)[r]
            BY <1>2, <3>2, SolutionsAgree
        <3>4. QED
            BY <3>2, <3>3
    <2>3. QED
        BY <2>1, <2>2 DEF Unfold
<1>5. \A s \in SUBSET m : Unfold(g, s) = Unfold(below, s)
    <2> SUFFICES ASSUME NEW s \in SUBSET m, s # {}
                 PROVE  g[s \ {OneOf(s)}] = below[s \ {OneOf(s)}]
        BY DEF Unfold
    <2>1. OneOf(s) \in s
        BY OneOfIn
    <2>2. s \ {OneOf(s)} \in SUBSET m /\ s \ {OneOf(s)} # m
        BY <2>1
    <2>3. QED
        BY <1>4, <2>2
<1>6. Solves(g, m)
    <2> HIDE DEF below
    <2>1. g = [s \in SUBSET m |-> Unfold(g, s)]
        BY <1>5
    <2>2. QED
        BY <2>1 DEF Solves
<1>7. Solves(Solution(m), m)
    <2> HIDE DEF g
    <2>1. QED
        BY <1>6 DEF Solution
<1>8. QED
    BY <1>1, <1>7

-----------------------------------------------------------------------------
LEMMA SumEmpty == collapsed({}) = 0
<1>1. Solves(Solution({}), {})
    BY SolutionExists, FS_EmptySet
<1>2. Solution({})[{}] = Unfold(Solution({}), {})
    BY <1>1, SolvesAt
<1>3. QED
    BY <1>2, SumIsSolution DEF Unfold

\* The fold takes First away.
LEMMA SumOfOne ==
    ASSUME NEW S, IsFiniteSet(S), S # {}
    PROVE  collapsed(S) = Long(OneOf(S)) + collapsed(S \ {OneOf(S)})
<1> DEFINE r == S \ {OneOf(S)}
<1>1. IsFiniteSet(r)
    BY FS_Subset
<1>2. Solves(Solution(S), S) /\ Solves(Solution(r), r)
    BY <1>1, SolutionExists
<1>3. Solution(S)[S] = Long(OneOf(S)) + Solution(S)[r]
    BY <1>2, SolvesAt DEF Unfold
<1>4. Solution(S)[r] = Solution(r)[r]
    BY <1>1, <1>2, SolutionsAgree
<1>5. QED
    BY <1>3, <1>4, SumIsSolution

Lengths(S) == \A run \in S : Long(run) \in Int

LEMMA SumInt == ASSUME NEW S, IsFiniteSet(S), Lengths(S) PROVE collapsed(S) \in Int
<1> DEFINE Bad == {s \in SUBSET S : collapsed(s) \notin Int}
<1> SUFFICES ASSUME Bad # {} PROVE FALSE
    OBVIOUS
<1>1. PICK m \in Bad : \A t \in Bad : t \subseteq m => t = m
    <2>1. Bad \subseteq SUBSET S
        OBVIOUS
    <2> HIDE DEF Bad
    <2>2. QED
        BY <2>1, LeastSet
<1>2. m # {}
    <2>1. collapsed(m) # 0
        BY <1>1
    <2>2. QED
        BY <2>1, SumEmpty
<1>3. OneOf(m) \in m /\ IsFiniteSet(m)
    BY <1>2, OneOfIn, FS_Subset
<1>4. collapsed(m \ {OneOf(m)}) \in Int
    BY <1>1, <1>3
<1>5. Long(OneOf(m)) \in Int
    BY <1>3 DEF Lengths
<1>6. collapsed(m) = Long(OneOf(m)) + collapsed(m \ {OneOf(m)})
    BY <1>2, <1>3, SumOfOne
<1>7. collapsed(m) \in Int
    BY <1>4, <1>5, <1>6
<1>8. QED
    BY <1>1, <1>7

\* Whichever element is taken away, the rest sums to what the fold says.
LEMMA SumRemove ==
    ASSUME NEW S, IsFiniteSet(S), Lengths(S), NEW x \in S
    PROVE  collapsed(S) = Long(x) + collapsed(S \ {x})
<1> DEFINE Bad == {s \in SUBSET S : \E y \in s : collapsed(s) # Long(y) + collapsed(s \ {y})}
<1> SUFFICES ASSUME Bad # {} PROVE FALSE
    OBVIOUS
<1>1. PICK m \in Bad : \A t \in Bad : t \subseteq m => t = m
    <2>1. Bad \subseteq SUBSET S
        OBVIOUS
    <2> HIDE DEF Bad
    <2>2. QED
        BY <2>1, LeastSet
<1>2. PICK y \in m : collapsed(m) # Long(y) + collapsed(m \ {y})
    BY <1>1
<1> DEFINE f == OneOf(m)
<1>3. f \in m /\ IsFiniteSet(m) /\ IsFiniteSet(m \ {f}) /\ IsFiniteSet(m \ {y})
    BY OneOfIn, FS_Subset
<1>4. collapsed(m) = Long(f) + collapsed(m \ {f})
    BY <1>3, SumOfOne
<1>5. f # y
    BY <1>2, <1>4
<1>6. m \ {f} \notin Bad /\ m \ {y} \notin Bad /\ m \ {f} \in SUBSET S /\ m \ {y} \in SUBSET S
    BY <1>1, <1>3
<1>7. collapsed(m \ {f}) = Long(y) + collapsed((m \ {f}) \ {y})
    BY <1>5, <1>6
<1>8. collapsed(m \ {y}) = Long(f) + collapsed((m \ {y}) \ {f})
    BY <1>3, <1>5, <1>6
<1>9. (m \ {f}) \ {y} = (m \ {y}) \ {f}
    OBVIOUS
<1>10. collapsed((m \ {f}) \ {y}) \in Int /\ Long(f) \in Int /\ Long(y) \in Int
    <2>1. IsFiniteSet((m \ {f}) \ {y}) /\ Lengths((m \ {f}) \ {y})
        BY <1>3, FS_Subset DEF Lengths
    <2>2. QED
        BY <1>3, <2>1, SumInt DEF Lengths
<1> DEFINE c == collapsed((m \ {f}) \ {y})
<1>11. collapsed(m) = Long(f) + (Long(y) + c) /\ collapsed(m \ {y}) = Long(f) + c
    BY <1>4, <1>7, <1>8, <1>9
<1>12. c \in Int /\ Long(f) \in Int /\ Long(y) \in Int
    BY <1>10
<1> HIDE DEF c, f
<1>13. Long(f) + (Long(y) + c) = Long(y) + (Long(f) + c)
    BY ONLY <1>12
<1>14. QED
    BY <1>2, <1>11, <1>13

-----------------------------------------------------------------------------
\* What a part of a set of runs collapses and what the rest does add up.
LEMMA SumSplit ==
    ASSUME NEW S, IsFiniteSet(S), Lengths(S), NEW A \in SUBSET S
    PROVE  collapsed(S) = collapsed(A) + collapsed(S \ A)
<1> DEFINE Bad == {s \in SUBSET S : A \subseteq s /\ collapsed(s) # collapsed(A) + collapsed(s \ A)}
<1> SUFFICES ASSUME Bad # {} PROVE FALSE
    OBVIOUS
<1>1. PICK m \in Bad : \A t \in Bad : t \subseteq m => t = m
    <2>1. Bad \subseteq SUBSET S
        OBVIOUS
    <2> HIDE DEF Bad
    <2>2. QED
        BY <2>1, LeastSet
<1>2. \A s \in SUBSET S : IsFiniteSet(s) /\ Lengths(s) /\ collapsed(s) \in Int
    <2>1. \A s \in SUBSET S : IsFiniteSet(s) /\ Lengths(s)
        BY FS_Subset DEF Lengths
    <2> QED
        BY <2>1, SumInt
<1>3. PICK x \in m : x \notin A
    <2>1. CASE m = A
        <3>1. m \ A = {} /\ collapsed(A) \in Int
            BY <2>1, <1>2
        <3>2. collapsed(m \ A) = 0
            BY <3>1, SumEmpty
        <3>3. collapsed(m) # collapsed(A) + collapsed(m \ A)
            BY <1>1
        <3>4. collapsed(A) # collapsed(A) + 0
            BY <2>1, <3>2, <3>3
        <3>5. collapsed(A) = collapsed(A) + 0
            BY <3>1
        <3> QED
            BY <3>4, <3>5
    <2> QED
        BY <2>1, <1>1
<1>4. collapsed(m \ {x}) = collapsed(A) + collapsed((m \ {x}) \ A)
    BY <1>1, <1>3
<1>5. collapsed(m) = Long(x) + collapsed(m \ {x})
    BY <1>2, <1>3, SumRemove
<1>6. collapsed(m \ A) = Long(x) + collapsed((m \ A) \ {x})
    BY <1>2, <1>3, SumRemove
<1>7. (m \ A) \ {x} = (m \ {x}) \ A
    OBVIOUS
<1> DEFINE c == collapsed((m \ {x}) \ A)
           a == collapsed(A)
<1>8. c \in Int /\ a \in Int /\ Long(x) \in Int
    BY <1>2, <1>3 DEF Lengths
<1>9. collapsed(m) = Long(x) + (a + c) /\ collapsed(m \ A) = Long(x) + c
    BY <1>4, <1>5, <1>6, <1>7
<1> HIDE DEF c
<1>10. Long(x) + (a + c) = a + (Long(x) + c)
    BY ONLY <1>8
<1> QED
    BY <1>1, <1>9, <1>10

\* Runs as the layout collapses them: of some length each, no two of them sharing a quarter.
Bands(S) ==
    /\ IsFiniteSet(S) /\ S \subseteq Int \X Int
    /\ \A r \in S : r[1] < r[2]
    /\ \A r, s \in S : r # s => r[2] <= s[1] \/ s[2] <= r[1]

Within(S, lo, hi) == \A r \in S : lo <= r[1] /\ r[2] <= hi

LEMMA BandsPart == ASSUME NEW S, Bands(S), NEW A \in SUBSET S PROVE Bands(A) /\ Lengths(A) /\ collapsed(A) \in Int
<1>1. Bands(A)
    BY FS_Subset DEF Bands
<1>2. Lengths(A)
    BY <1>1 DEF Lengths, Long, Bands
<1> QED
    BY <1>1, <1>2, SumInt DEF Bands

\* A set of runs has a last one.
LEMMA LastRun == ASSUME NEW m, Bands(m), m # {} PROVE \E r \in m : \A s \in m : s[2] <= r[2]
<1> DEFINE ends == {s[2] : s \in m}
           f == [s \in m |-> s[2]]
<1>1. f \in Surjection(m, ends)
    BY DEF Surjection
<1>2. IsFiniteSet(ends)
    BY <1>1, FS_Surjection DEF Bands
<1>3. ends # {} /\ ends \subseteq Int
    BY DEF Bands
<1> HIDE DEF ends
<1>4. PICK e \in ends : \A x \in ends : e >= x
    BY <1>2, <1>3, GreatestDay
<1>5. \A x \in ends : x \in Int
    BY <1>3
<1>6. PICK r \in m : r[2] = e
    BY DEF ends
<1>7. \A s \in m : s[2] \in ends
    BY DEF ends
<1>8. \A s \in m : s[2] <= r[2]
    BY <1>4, <1>5, <1>6, <1>7
<1> QED
    BY <1>8

\* Bands side by side between two quarters collapse no more than there is between them.
LEMMA BandsSum ==
    ASSUME NEW S, Bands(S), NEW lo \in Int, NEW hi \in Int, lo <= hi, Within(S, lo, hi)
    PROVE  0 <= collapsed(S) /\ collapsed(S) <= hi - lo
<1> DEFINE Under(s, end) == 0 <= collapsed(s) /\ collapsed(s) <= end - lo
           Bad == {s \in SUBSET S : \E end \in Int : lo <= end /\ Within(s, lo, end) /\ ~Under(s, end)}
<1> SUFFICES ASSUME Bad # {} PROVE FALSE
    OBVIOUS
<1>1. PICK m \in Bad : \A t \in Bad : t \subseteq m => t = m
    <2>1. Bad \subseteq SUBSET S
        OBVIOUS
    <2> HIDE DEF Bad
    <2>2. QED
        BY <2>1, LeastSet DEF Bands
<1>2. PICK end \in Int : lo <= end /\ Within(m, lo, end) /\ ~Under(m, end)
    BY <1>1
<1>3. m # {}
    BY <1>2, SumEmpty
<1>4. Bands(m) /\ Lengths(m)
    BY <1>1, BandsPart
<1>5. PICK r \in m : \A s \in m : s[2] <= r[2]
    BY <1>3, <1>4, LastRun
<1> DEFINE rest == m \ {r}
<1>6. r[1] \in Int /\ r[2] \in Int /\ r[1] < r[2] /\ lo <= r[1] /\ r[2] <= end
    BY <1>2, <1>4 DEF Bands, Within
<1>7. Within(rest, lo, r[1])
    <2> SUFFICES ASSUME NEW s \in rest PROVE lo <= s[1] /\ s[2] <= r[1]
        BY DEF Within
    <2>1. s[1] \in Int /\ s[2] \in Int /\ s[1] < s[2] /\ (s[2] <= r[1] \/ r[2] <= s[1])
        BY <1>4 DEF Bands
    <2>2. s[2] <= r[2] /\ lo <= s[1]
        BY <1>2, <1>5 DEF Within
    <2> QED
        BY <1>6, <2>1, <2>2
<1>8. rest \in SUBSET S /\ rest # m /\ rest \subseteq m
    BY <1>1
<1>9. Under(rest, r[1])
    <2>1. rest \notin Bad
        BY <1>1, <1>8
    <2> QED
        BY <2>1, <1>6, <1>7, <1>8
<1>10. collapsed(m) = (r[2] - r[1]) + collapsed(rest)
    BY <1>4, SumRemove DEF Bands, Long
<1>11. collapsed(rest) \in Int
    BY <1>8, BandsPart
<1> HIDE DEF rest
<1>12. Under(m, end)
    BY <1>6, <1>9, <1>10, <1>11
<1> QED
    BY <1>2, <1>12

-----------------------------------------------------------------------------
\* The axis of time under any set of runs, and the way back from a height.
AxisY(S, h, q) ==
    LET above == {run \in S : run[2] <= q} IN (q - collapsed(above)) * h + 56 * Cardinality(above)

AxisAt(S, h, y) ==
    LET above == {run \in S : AxisY(S, h, run[2]) <= y}
        under == {run \in S \ above : AxisY(S, h, run[1]) <= y}
        quarter == collapsed(above) + (2 * (y - 56 * Cardinality(above)) + h) \div (2 * h)
    IN IF under # {} THEN (CHOOSE run \in under : TRUE)[2] ELSE Min({96, quarter})

LEMMA AxisOfPage ==
    /\ \A q : mapQuarterToY(q) = AxisY(elided, quarterHeight, q)
    /\ \A y : mapYToQuarter(y) = AxisAt(elided, quarterHeight, y)
BY DEF mapQuarterToY, mapYToQuarter, AxisY, AxisAt

LEMMA LeastOfTwo == ASSUME NEW a \in Int, NEW b \in Int PROVE Min({a, b}) = IF a <= b THEN a ELSE b
<1>1. Min({a, b}) \in {a, b} /\ \A x \in {a, b} : Min({a, b}) <= x
    <2>1. \E x \in {a, b} : \A y \in {a, b} : x <= y
        OBVIOUS
    <2> QED
        BY <2>1 DEF Min
<1> QED
    BY <1>1

LEMMA Product == ASSUME NEW m \in Nat, NEW n \in Nat PROVE m * n \in Nat
OBVIOUS

LEMMA ProductRises == ASSUME NEW a \in Int, NEW b \in Int, a <= b, NEW h \in Nat PROVE a * h <= b * h
<1>1. (b - a) * h \in Nat
    BY Product
<1>2. (b - a) * h = b * h - a * h
    OBVIOUS
<1>3. a * h \in Int /\ b * h \in Int
    OBVIOUS
<1> QED
    BY <1>1, <1>2, <1>3

\* Dividing what is at least k times d gives at least k.
LEMMA QuotientBound ==
    ASSUME NEW n \in Int, NEW d \in Nat \ {0}, NEW k \in Int, k * d <= n
    PROVE  n \div d \in Int /\ k <= n \div d
<1>1. n \div d \in Int /\ n % d \in 0..(d - 1) /\ n = d * (n \div d) + (n % d)
    OBVIOUS
<1> DEFINE w == n \div d
<1>2. w \in Int /\ n < d * w + d
    BY <1>1
<1> HIDE DEF w
<1>3. ASSUME w < k PROVE FALSE
    <2>1. (w + 1) * d <= k * d
        BY <1>2, <1>3, ProductRises
    <2>2. (w + 1) * d = d * w + d
        BY <1>2
    <2>3. k * d \in Int /\ d * w \in Int
        BY <1>2
    <2> QED
        BY <1>2, <2>1, <2>2, <2>3
<1> QED
    BY <1>2, <1>3 DEF w

LEMMA AxisInt == ASSUME NEW S, Bands(S), NEW h \in Nat, NEW q \in Int PROVE AxisY(S, h, q) \in Int
<1> DEFINE above == {run \in S : run[2] <= q}
<1>1. collapsed(above) \in Int /\ Cardinality(above) \in Int
    <2>1. above \in SUBSET S
        OBVIOUS
    <2> HIDE DEF above
    <2>2. Bands(above) /\ collapsed(above) \in Int
        BY <2>1, BandsPart
    <2>3. Cardinality(above) \in Nat
        BY <2>2, FS_CardinalityType DEF Bands
    <2> QED
        BY <2>2, <2>3
<1>2. AxisY(S, h, q) = (q - collapsed(above)) * h + 56 * Cardinality(above)
    BY DEF AxisY
<1> HIDE DEF above
<1>3. (q - collapsed(above)) * h \in Int
    BY <1>1
<1> QED
    BY <1>1, <1>2, <1>3

\* A quarter no run lies across.
Clear(S, q) == \A r \in S : r[2] <= q \/ q <= r[1]

\* From such a quarter on, the runs before a later one give their height for what they collapse.
LEMMA AxisRises ==
    ASSUME NEW S, Bands(S), NEW h \in Nat, NEW a \in Int, NEW b \in Int, a <= b, Clear(S, a),
           NEW mid, mid = {r \in S : a < r[2] /\ r[2] <= b}
    PROVE  /\ collapsed(mid) \in 0..(b - a) /\ Cardinality(mid) \in Nat
           /\ AxisY(S, h, b) = AxisY(S, h, a) + (b - a - collapsed(mid)) * h + 56 * Cardinality(mid)
           /\ AxisY(S, h, a) <= AxisY(S, h, b)
<1> DEFINE A == {r \in S : r[2] <= a}
           B == {r \in S : r[2] <= b}
<1>0. \A r \in S : r[1] \in Int /\ r[2] \in Int /\ r[1] < r[2]
    BY DEF Bands
<1>1. A \in SUBSET S /\ B \in SUBSET S /\ mid \in SUBSET S /\ A \subseteq B /\ mid = B \ A
    BY <1>0
<1>2. AxisY(S, h, a) = (a - collapsed(A)) * h + 56 * Cardinality(A)
    BY DEF AxisY
<1>3. AxisY(S, h, b) = (b - collapsed(B)) * h + 56 * Cardinality(B)
    BY DEF AxisY
<1>4. Within(mid, a, b)
    BY <1>0 DEF Within, Clear
<1> HIDE DEF A, B
<1>5. Bands(mid) /\ Bands(B) /\ Lengths(B) /\ Bands(A) /\ collapsed(A) \in Int /\ collapsed(mid) \in Int
    BY <1>1, BandsPart
<1>6. collapsed(mid) \in 0..(b - a)
    BY <1>4, <1>5, BandsSum
<1>7. collapsed(B) = collapsed(A) + collapsed(mid)
    BY <1>1, <1>5, SumSplit DEF Bands
<1>8. Cardinality(mid) \in Nat /\ Cardinality(A) \in Nat /\ Cardinality(B) = Cardinality(A) + Cardinality(mid)
    <2>1. IsFiniteSet(mid) /\ IsFiniteSet(A)
        BY <1>5 DEF Bands
    <2>2. Cardinality(mid) \in Nat /\ Cardinality(A) \in Nat
        BY <2>1, FS_CardinalityType
    <2>3. A \cap mid = {} /\ A \cup mid = B
        BY <1>1
    <2>4. Cardinality(A \cup mid) = Cardinality(A) + Cardinality(mid) - Cardinality(A \cap mid)
        BY <2>1, FS_Union
    <2>5. Cardinality(A \cap mid) = 0
        BY <2>3, FS_EmptySet
    <2>6. Cardinality(B) = Cardinality(A) + Cardinality(mid) - 0
        BY <2>3, <2>4, <2>5
    <2>7. Cardinality(A) + Cardinality(mid) - 0 = Cardinality(A) + Cardinality(mid)
        BY <2>2
    <2> QED
        BY <2>2, <2>6, <2>7
<1> DEFINE cA == collapsed(A)
           cM == collapsed(mid)
           nA == Cardinality(A)
           nM == Cardinality(mid)
<1>9. cA \in Int /\ cM \in 0..(b - a) /\ nA \in Nat /\ nM \in Nat
    BY <1>5, <1>6, <1>8
<1>10. /\ AxisY(S, h, a) = (a - cA) * h + 56 * nA
       /\ AxisY(S, h, b) = (b - (cA + cM)) * h + 56 * (nA + nM)
    BY <1>2, <1>3, <1>7, <1>8
<1> HIDE DEF cA, cM, nA, nM
<1>11. (b - (cA + cM)) * h = (a - cA) * h + (b - a - cM) * h
    BY <1>9
<1>12. (b - a - cM) * h \in Nat /\ (a - cA) * h \in Int
    BY <1>9, Product
<1>13. /\ AxisY(S, h, b) = AxisY(S, h, a) + (b - a - cM) * h + 56 * nM
       /\ AxisY(S, h, a) <= AxisY(S, h, b)
    BY <1>9, <1>10, <1>11, <1>12
<1> QED
    BY <1>6, <1>8, <1>13 DEF cM, nM

LEMMA AxisOrder ==
    ASSUME NEW S, Bands(S), NEW h \in Nat, NEW a \in Int, NEW b \in Int, a <= b, Clear(S, a)
    PROVE  AxisY(S, h, a) <= AxisY(S, h, b)
<1> DEFINE mid == {r \in S : a < r[2] /\ r[2] <= b}
<1>1. mid = {r \in S : a < r[2] /\ r[2] <= b}
    OBVIOUS
<1> HIDE DEF mid
<1> QED
    BY <1>1, AxisRises

\* A run lies across none of the ends of the others.
LEMMA EndsClear == ASSUME NEW S, Bands(S), NEW r \in S PROVE Clear(S, r[2]) /\ Clear(S, r[1])
<1>1. \A s \in S : s[1] \in Int /\ s[2] \in Int /\ s[1] < s[2] /\ (s # r => s[2] <= r[1] \/ r[2] <= s[1])
    BY DEF Bands
<1> QED
    BY <1>1 DEF Clear

LEMMA EndOrder ==
    ASSUME NEW S, Bands(S), NEW h \in Nat, NEW r \in S, NEW b \in Int, r[2] <= b
    PROVE  AxisY(S, h, r[2]) <= AxisY(S, h, b)
<1>1. r[2] \in Int
    BY DEF Bands
<1>2. Clear(S, r[2])
    BY EndsClear
<1> DEFINE a == r[2]
<1> HIDE DEF a
<1>3. AxisY(S, h, a) <= AxisY(S, h, b)
    BY <1>1, <1>2, AxisOrder DEF a
<1> QED
    BY <1>3 DEF a

-----------------------------------------------------------------------------
\* The runs of the night and those of the evening, the daytime between them.
Shoulders(T, B) ==
    /\ Bands(T \cup B)
    /\ \A r \in T : r[2] <= 28
    /\ \A r \in B : 84 <= r[1]

LEMMA EveningAbove ==
    ASSUME NEW T, NEW B, Shoulders(T, B), NEW h \in Nat, NEW q \in Int, 84 <= q
    PROVE  AxisY(T, h, 84) \in Int /\ AxisY(T \cup B, h, q) \in Int /\ AxisY(T, h, 84) <= AxisY(T \cup B, h, q)
<1>1. \A r \in T \cup B : r[1] \in Int /\ r[2] \in Int /\ r[1] < r[2]
    BY DEF Shoulders, Bands
<1>2. {r \in T \cup B : r[2] <= 84} = {r \in T : r[2] <= 84}
    BY <1>1 DEF Shoulders
<1>3. AxisY(T \cup B, h, 84) = AxisY(T, h, 84)
    BY <1>2 DEF AxisY
<1>4. Clear(T \cup B, 84)
    BY <1>1 DEF Clear, Shoulders
<1>5. AxisY(T \cup B, h, 84) <= AxisY(T \cup B, h, q)
    BY <1>4, AxisOrder DEF Shoulders
<1>6. AxisY(T \cup B, h, 84) \in Int /\ AxisY(T \cup B, h, q) \in Int
    BY AxisInt DEF Shoulders
<1> QED
    BY <1>3, <1>5, <1>6

\* Above the evening the height is read by the night's runs alone.
LEMMA ReadByNight ==
    ASSUME NEW T, NEW B, Shoulders(T, B), NEW h \in Nat, NEW y \in Int, y < AxisY(T, h, 84)
    PROVE  AxisAt(T \cup B, h, y) = AxisAt(T, h, y)
<1> DEFINE S == T \cup B
           above(runs) == {run \in runs : AxisY(runs, h, run[2]) <= y}
           under(runs) == {run \in runs \ above(runs) : AxisY(runs, h, run[1]) <= y}
           quarter(runs) == collapsed(above(runs)) + (2 * (y - 56 * Cardinality(above(runs))) + h) \div (2 * h)
<1>1. \A r \in S : r[1] \in Int /\ r[2] \in Int /\ r[1] < r[2]
    BY DEF Shoulders, Bands
<1>2. \A r \in T : r[1] <= 28 /\ r[2] <= 28
    BY <1>1 DEF Shoulders
<1>3. ASSUME NEW q \in Int, q <= 28 PROVE AxisY(S, h, q) = AxisY(T, h, q)
    <2>1. {r \in S : r[2] <= q} = {r \in T : r[2] <= q}
        <3>1. \A r \in B : r[2] \in Int /\ 84 < r[2]
            BY <1>1 DEF Shoulders
        <3>2. \A r \in B : ~(r[2] <= q)
            BY <1>3, <3>1
        <3> QED
            BY <3>2
    <2> QED
        BY <2>1 DEF AxisY
<1>4. ASSUME NEW r \in B PROVE ~(AxisY(S, h, r[1]) <= y) /\ ~(AxisY(S, h, r[2]) <= y)
    <2>1. 84 <= r[1] /\ 84 <= r[2] /\ r[1] \in Int /\ r[2] \in Int
        BY <1>1 DEF Shoulders
    <2>2. AxisY(T, h, 84) \in Int /\ AxisY(S, h, r[1]) \in Int /\ AxisY(T, h, 84) <= AxisY(S, h, r[1])
        BY <2>1, EveningAbove
    <2>3. AxisY(S, h, r[2]) \in Int /\ AxisY(T, h, 84) <= AxisY(S, h, r[2])
        BY <2>1, EveningAbove
    <2> QED
        BY <2>2, <2>3
<1>5. above(S) = above(T)
    <2>1. \A r \in T : AxisY(S, h, r[2]) = AxisY(T, h, r[2])
        BY <1>1, <1>2, <1>3
    <2> QED
        BY <1>4, <2>1
<1>6. under(S) = under(T)
    <2>1. \A r \in T : AxisY(S, h, r[1]) = AxisY(T, h, r[1])
        BY <1>1, <1>2, <1>3
    <2> HIDE DEF above
    <2> QED
        BY <1>4, <1>5, <2>1
<1>7. \A runs : AxisAt(runs, h, y) = IF under(runs) # {} THEN (CHOOSE run \in under(runs) : TRUE)[2] ELSE Min({96, quarter(runs)})
    BY DEF AxisAt
<1>8. quarter(S) = quarter(T)
    <2> HIDE DEF above
    <2> QED
        BY <1>5
<1> HIDE DEF under, quarter
<1> QED
    BY <1>6, <1>7, <1>8

\* From the evening on, whatever the runs, the height is no time of the day.
LEMMA ReadPastEvening ==
    ASSUME NEW T, NEW B, Shoulders(T, B), NEW h \in Nat \ {0}, NEW y \in Int, AxisY(T, h, 84) <= y
    PROVE  AxisAt(T \cup B, h, y) \in Int /\ 84 <= AxisAt(T \cup B, h, y)
<1> DEFINE S == T \cup B
           above == {run \in S : AxisY(S, h, run[2]) <= y}
           under == {run \in S \ above : AxisY(S, h, run[1]) <= y}
           quarter == collapsed(above) + (2 * (y - 56 * Cardinality(above)) + h) \div (2 * h)
<1>0. h \in Nat /\ Bands(S)
    BY DEF Shoulders
<1>1. \A r \in S : r[1] \in Int /\ r[2] \in Int /\ r[1] < r[2]
    BY DEF Shoulders, Bands
<1>2. AxisAt(S, h, y) = IF under # {} THEN (CHOOSE run \in under : TRUE)[2] ELSE Min({96, quarter})
    BY DEF AxisAt
<1>3. \A q \in Int : AxisY(S, h, q) \in Int
    BY <1>0, AxisInt
<1>4. AxisY(S, h, 84) <= y
    <2>1. {r \in S : r[2] <= 84} = {r \in T : r[2] <= 84}
        BY <1>1 DEF Shoulders
    <2>2. AxisY(S, h, 84) = AxisY(T, h, 84)
        BY <2>1 DEF AxisY
    <2> QED
        BY <2>2
<1>5. T \subseteq above
    <2> SUFFICES ASSUME NEW r \in T PROVE AxisY(S, h, r[2]) <= y
        OBVIOUS
    <2>1. r \in S /\ r[2] \in Int /\ r[2] <= 84
        BY <1>1 DEF Shoulders
    <2>2. AxisY(S, h, r[2]) <= AxisY(S, h, 84)
        BY <1>0, <2>1, EndOrder
    <2> QED
        BY <1>3, <1>4, <2>1, <2>2
<1>6. CASE under # {}
    <2>1. PICK r \in under : AxisAt(S, h, y) = r[2]
        BY <1>2, <1>6
    <2>2. r \in B
        BY <1>5
    <2>3. 84 <= r[1] /\ r[1] \in Int /\ r[2] \in Int /\ r[1] < r[2]
        BY <1>1, <2>2 DEF Shoulders
    <2> QED
        BY <2>1, <2>3
<1>7. CASE under = {}
    <2>1. PICK e \in Int : 84 <= e /\ AxisY(S, h, e) <= y /\ above = {r \in S : r[2] <= e}
        <3>1. CASE above = T
            <4>1. \A r \in S : r[2] <= 84 <=> r \in T
                BY <1>1 DEF Shoulders
            <4>2. above = {r \in S : r[2] <= 84}
                BY <3>1, <4>1
            <4> QED
                BY <1>4, <4>2
        <3>2. CASE above # T
            <4> DEFINE late == above \ T
            <4>1. late # {} /\ late \in SUBSET S /\ late \subseteq B
                BY <1>5, <3>2
            <4>2. Bands(late)
                BY <1>0, <4>1, BandsPart
            <4>3. PICK a \in late : \A s \in late : s[2] <= a[2]
                <5> HIDE DEF late
                <5> QED
                    BY <4>1, <4>2, LastRun
            <4>4. a[2] \in Int /\ 84 <= a[2] /\ AxisY(S, h, a[2]) <= y
                BY <1>1, <4>1, <4>3 DEF Shoulders
            <4>5. ASSUME NEW r \in S, r[2] <= a[2] PROVE r \in above
                <5>1. r[2] \in Int
                    BY <1>1
                <5>2. AxisY(S, h, r[2]) <= AxisY(S, h, a[2])
                    BY <1>0, <4>4, <4>5, EndOrder
                <5>3. AxisY(S, h, r[2]) \in Int /\ AxisY(S, h, a[2]) \in Int
                    BY <1>3, <4>4, <5>1
                <5>4. AxisY(S, h, r[2]) <= y
                    BY <4>4, <5>2, <5>3
                <5> QED
                    BY <5>4
            <4>6. ASSUME NEW r \in above PROVE r[2] <= a[2]
                <5>1. CASE r \in T
                    <6>1. r[2] \in Int /\ r[2] <= 28
                        BY <1>1, <5>1 DEF Shoulders
                    <6> QED
                        BY <4>4, <6>1
                <5>2. CASE r \notin T
                    BY <4>3, <4>6, <5>2
                <5> QED
                    BY <5>1, <5>2
            <4>7. above = {r \in S : r[2] <= a[2]}
                <5>1. above \subseteq S
                    OBVIOUS
                <5> HIDE DEF above
                <5> QED
                    BY <4>5, <4>6, <5>1
            <4> QED
                BY <4>4, <4>7
        <3> QED
            BY <3>1, <3>2
    <2>2. AxisY(S, h, e) = (e - collapsed(above)) * h + 56 * Cardinality(above)
        BY <2>1 DEF AxisY
    <2>3. collapsed(above) \in Int /\ Cardinality(above) \in Nat
        <3>1. above \in SUBSET S
            OBVIOUS
        <3> HIDE DEF above
        <3>2. Bands(above) /\ collapsed(above) \in Int
            BY <1>0, <3>1, BandsPart
        <3> QED
            BY <3>2, FS_CardinalityType DEF Bands
    <2> DEFINE c == collapsed(above)
               n == Cardinality(above)
               x == 2 * (y - 56 * n) + h
    <2>4. quarter = c + x \div (2 * h)
        OBVIOUS
    <2>5. c \in Int /\ n \in Nat /\ (e - c) * h + 56 * n <= y
        BY <2>1, <2>2, <2>3
    <2> HIDE DEF c, n, above, under
    <2>6. (e - c) * (2 * h) = 2 * ((e - c) * h) /\ (e - c) * h \in Int
        BY <2>5
    <2>7. x \in Int /\ (e - c) * (2 * h) <= x
        BY <2>5, <2>6
    <2>8. 2 * h \in Nat \ {0} /\ e - c \in Int
        BY <2>5
    <2> HIDE DEF x
    <2>9. x \div (2 * h) \in Int /\ e - c <= x \div (2 * h)
        BY <2>7, <2>8, QuotientBound
    <2>10. quarter \in Int /\ e <= quarter
        BY <2>4, <2>5, <2>9
    <2>11. AxisAt(S, h, y) = Min({96, quarter})
        BY <1>2, <1>7
    <2> HIDE DEF quarter
    <2>12. Min({96, quarter}) = IF 96 <= quarter THEN 96 ELSE quarter
        BY <2>10, LeastOfTwo
    <2> QED
        BY <2>1, <2>10, <2>11, <2>12
<1> QED
    BY <1>6, <1>7

\* So a time of the day that a height was read as does not change with the evening's runs.
LEMMA DaytimeSteady ==
    ASSUME NEW T, NEW B, NEW C, Shoulders(T, B), Shoulders(T, C), NEW h \in Nat \ {0}, NEW y \in Int,
           AxisAt(T \cup B, h, y) < 84
    PROVE  AxisAt(T \cup C, h, y) = AxisAt(T \cup B, h, y)
<1>0. h \in Nat /\ 84 \in Int /\ 84 <= 84
    OBVIOUS
<1>1. AxisY(T, h, 84) \in Int
    BY <1>0, EveningAbove
<1>2. y < AxisY(T, h, 84)
    BY <1>1, ReadPastEvening
<1>3. AxisAt(T \cup B, h, y) = AxisAt(T, h, y)
    BY <1>0, <1>2, ReadByNight
<1>4. AxisAt(T \cup C, h, y) = AxisAt(T, h, y)
    BY <1>0, <1>2, ReadByNight
<1> QED
    BY <1>3, <1>4

-----------------------------------------------------------------------------
\* The dead runs around any set of items.
RunsOf(its, lo, hi) ==
    {run \in ({lo} \cup {i.q + i.len + 1 : i \in its}) \X ({hi} \cup {i.q - 1 : i \in its}) :
       /\ lo <= run[1] /\ run[1] + 6 < run[2] /\ run[2] <= hi
       /\ \A i \in its : run[2] <= i.q - 1 \/ i.q + i.len + 1 <= run[1]}

LaidOut(its) == IsFiniteSet(its) /\ \A i \in its : i.q \in Int /\ i.len \in Nat \ {0}

LEMMA RunsOfItems == \A lo, hi : deadRuns(lo, hi) = RunsOf(items, lo, hi)
BY DEF deadRuns, RunsOf

\* A run keeps a quarter from every item, so that two of them that met would be one.
LEMMA RunsAreBands ==
    ASSUME NEW its, LaidOut(its), NEW lo \in Int, NEW hi \in Int
    PROVE  /\ Bands(RunsOf(its, lo, hi)) /\ Within(RunsOf(its, lo, hi), lo, hi)
           /\ \A run \in RunsOf(its, lo, hi) : run[1] + 6 < run[2]
<1> DEFINE starts == {lo} \cup {i.q + i.len + 1 : i \in its}
           ends == {hi} \cup {i.q - 1 : i \in its}
           runs == RunsOf(its, lo, hi)
<1>1. \A i \in its : i.q \in Int /\ i.len \in Nat \ {0}
    BY DEF LaidOut
<1>2. starts \subseteq Int /\ ends \subseteq Int
    BY <1>1
<1>3. \A r \in runs : /\ r[1] \in starts /\ r[2] \in ends /\ r \in Int \X Int
                      /\ lo <= r[1] /\ r[1] + 6 < r[2] /\ r[2] <= hi
                      /\ \A i \in its : r[2] <= i.q - 1 \/ i.q + i.len + 1 <= r[1]
    <2>1. \A r \in runs : r \in starts \X ends
        BY DEF RunsOf
    <2>2. \A r \in runs : /\ lo <= r[1] /\ r[1] + 6 < r[2] /\ r[2] <= hi
                          /\ \A i \in its : r[2] <= i.q - 1 \/ i.q + i.len + 1 <= r[1]
        BY DEF RunsOf
    <2> HIDE DEF starts, ends, runs
    <2> QED
        BY <1>2, <2>1, <2>2
<1>4. IsFiniteSet(runs)
    <2> DEFINE S == {i.q + i.len + 1 : i \in its}
               E == {i.q - 1 : i \in its}
               f == [i \in its |-> i.q + i.len + 1]
               g == [i \in its |-> i.q - 1]
    <2>1. f \in Surjection(its, S) /\ g \in Surjection(its, E)
        BY DEF Surjection
    <2>2. IsFiniteSet(S) /\ IsFiniteSet(E)
        <3> HIDE DEF S, E, f, g
        <3> QED
            BY <2>1, FS_Surjection DEF LaidOut
    <2>3. IsFiniteSet({lo}) /\ IsFiniteSet({hi})
        BY FS_Singleton
    <2>4. IsFiniteSet(starts) /\ IsFiniteSet(ends)
        <3> HIDE DEF S, E
        <3>1. IsFiniteSet({lo} \cup S) /\ IsFiniteSet({hi} \cup E)
            BY <2>2, <2>3, FS_Union
        <3> QED
            BY <3>1 DEF S, E
    <2>5. runs \subseteq starts \X ends
        BY DEF RunsOf
    <2> HIDE DEF starts, ends, runs
    <2>6. IsFiniteSet(starts \X ends)
        BY <2>4, FS_Product
    <2> QED
        BY <2>5, <2>6, FS_Subset
<1>5. ASSUME NEW r \in runs, NEW s \in runs, r[1] < s[2], s[1] < r[2], r[1] < s[1] PROVE FALSE
    <2>1. PICK i \in its : s[1] = i.q + i.len + 1
        <3>1. s[1] # lo
            BY <1>3, <1>5
        <3>2. s[1] \in starts
            BY <1>3
        <3> QED
            BY <3>1, <3>2
    <2>2. r[2] <= i.q - 1 \/ i.q + i.len + 1 <= r[1]
        BY <1>3
    <2>3. i.q \in Int /\ i.len \in Nat /\ r[1] \in Int /\ r[2] \in Int /\ s[1] \in Int
        BY <1>1, <1>3
    <2> QED
        BY <1>5, <2>1, <2>2, <2>3
<1>6. ASSUME NEW r \in runs, NEW s \in runs, r[1] = s[1], r[2] < s[2] PROVE FALSE
    <2>1. PICK i \in its : r[2] = i.q - 1
        <3>1. r[2] # hi
            BY <1>3, <1>6
        <3>2. r[2] \in ends
            BY <1>3
        <3> QED
            BY <3>1, <3>2
    <2>2. s[2] <= i.q - 1 \/ i.q + i.len + 1 <= s[1]
        BY <1>3
    <2>3. i.q \in Int /\ i.len \in Nat /\ s[1] \in Int /\ s[2] \in Int /\ r[1] + 6 < r[2]
        BY <1>1, <1>3
    <2> QED
        BY <1>6, <2>1, <2>2, <2>3
<1>7. ASSUME NEW r \in runs, NEW s \in runs, r # s PROVE r[2] <= s[1] \/ s[2] <= r[1]
    <2> SUFFICES ASSUME ~(r[2] <= s[1]), ~(s[2] <= r[1]) PROVE FALSE
        OBVIOUS
    <2>1. r[1] \in Int /\ r[2] \in Int /\ s[1] \in Int /\ s[2] \in Int
        BY <1>3
    <2>2. r[1] < s[2] /\ s[1] < r[2]
        BY <2>1
    <2>3. r[1] = s[1]
        BY <1>5, <2>1, <2>2
    <2>4. r[2] = s[2]
        BY <1>6, <2>1, <2>3
    <2>5. r \in Int \X Int /\ s \in Int \X Int
        BY <1>3
    <2> QED
        BY <1>7, <2>3, <2>4, <2>5
<1>8. \A r \in runs : r[1] < r[2]
    BY <1>3
<1> HIDE DEF runs
<1>9. Bands(runs)
    BY <1>3, <1>4, <1>7, <1>8 DEF Bands
<1>10. Within(runs, lo, hi)
    BY <1>3 DEF Within
<1> QED
    BY <1>3, <1>9, <1>10 DEF runs

LEMMA ElidedShoulders ==
    ASSUME NEW its, LaidOut(its), NEW others, LaidOut(others)
    PROVE  Shoulders(RunsOf(its, 0, 28), RunsOf(others, 84, 96))
<1> DEFINE T == RunsOf(its, 0, 28)
           B == RunsOf(others, 84, 96)
<1>1. Bands(T) /\ Within(T, 0, 28) /\ Bands(B) /\ Within(B, 84, 96)
    BY RunsAreBands
<1> HIDE DEF T, B
<1>2. \A r \in T : r[1] \in Int /\ r[2] \in Int /\ r[1] < r[2] /\ r[2] <= 28
    BY <1>1 DEF Bands, Within
<1>3. \A r \in B : r[1] \in Int /\ r[2] \in Int /\ r[1] < r[2] /\ 84 <= r[1]
    BY <1>1 DEF Bands, Within
<1>4. IsFiniteSet(T \cup B)
    BY <1>1, FS_Union DEF Bands
<1>5. ASSUME NEW r \in T \cup B, NEW s \in T \cup B, r # s PROVE r[2] <= s[1] \/ s[2] <= r[1]
    BY <1>1, <1>2, <1>3, <1>5 DEF Bands
<1>6. \A r \in T \cup B : r[1] < r[2]
    BY <1>2, <1>3
<1>7. T \cup B \subseteq Int \X Int
    BY <1>1 DEF Bands
<1>8. Bands(T \cup B)
    BY <1>4, <1>5, <1>6, <1>7 DEF Bands
<1> QED
    BY <1>2, <1>3, <1>8 DEF Shoulders, T, B

LEMMA AxisAtInt ==
    ASSUME NEW S, Bands(S), NEW h \in Nat \ {0}, NEW y \in Int
    PROVE  AxisAt(S, h, y) \in Int
<1> DEFINE above == {run \in S : AxisY(S, h, run[2]) <= y}
           under == {run \in S \ above : AxisY(S, h, run[1]) <= y}
           x == 2 * (y - 56 * Cardinality(above)) + h
           quarter == collapsed(above) + x \div (2 * h)
<1>1. AxisAt(S, h, y) = IF under # {} THEN (CHOOSE run \in under : TRUE)[2] ELSE Min({96, quarter})
    BY DEF AxisAt
<1>2. under # {} => (CHOOSE run \in under : TRUE)[2] \in Int
    <2>1. under \subseteq S
        OBVIOUS
    <2>2. \A r \in S : r[2] \in Int
        BY DEF Bands
    <2> HIDE DEF under
    <2> QED
        BY <2>1, <2>2
<1>3. collapsed(above) \in Int /\ Cardinality(above) \in Nat
    <2>1. above \in SUBSET S
        OBVIOUS
    <2> HIDE DEF above
    <2>2. Bands(above) /\ collapsed(above) \in Int
        BY <2>1, BandsPart
    <2> QED
        BY <2>2, FS_CardinalityType DEF Bands
<1>4. quarter \in Int
    <2>1. x \in Int /\ 2 * h \in Nat \ {0}
        BY <1>3
    <2> HIDE DEF x
    <2>2. x \div (2 * h) \in Int
        BY <2>1
    <2> QED
        BY <1>3, <2>2
<1> HIDE DEF quarter, under
<1>5. Min({96, quarter}) \in Int
    BY <1>4, LeastOfTwo
<1> QED
    BY <1>1, <1>2, <1>5

-----------------------------------------------------------------------------
\* Quarters and pixels are whole numbers, on every row and card and in the hand.
RowsTimed == \A c \in There : node[c].start[2] \in Int /\ node[c].column[2] \in Int

AllTimed == RowsTimed /\ \A c \in Cards : page[c].start[2] \in Int

Hands == [card : Cards \cup {0}, day : Int, quarter : Int, was : Int, y : Int, moves : Int]
DragType == drag \in Hands

AxisType == AllTimed /\ DragType /\ zoom \in Int /\ slot[2] \in Int

cardItems ==
    {[id |-> c, day |-> page[c].start[1], q |-> page[c].start[2], len |-> Quarters[c]] :
       c \in {o \in There : isNodeScheduled(o) /\ page[o].start[1] \in days}}

LEMMA ItemsOf == items = cardItems \cup ghostNode
BY DEF items, cardItems

LEMMA CardLength == \A c \in Cards : Quarters[c] \in Nat \ {0} /\ c \in Nat \ {0} /\ c # Ghost
<1>1. Cards = 1..Len(Quarters) /\ Len(Quarters) \in Nat /\ \A c \in Cards : Quarters[c] \in Nat \ {0}
    BY CardsAssumption DEF Cards
<1>2. Cardinality(Cards) = Len(Quarters)
    <2>1. Cardinality(1..Len(Quarters)) = IF 1 > Len(Quarters) THEN 0 ELSE Len(Quarters) - 1 + 1
        BY <1>1, FS_Interval
    <2> QED
        BY <1>1, <2>1
<1> QED
    BY <1>1, <1>2 DEF Ghost

LEMMA QuarterHeight == AxisType => quarterHeight \in Nat \ {0} /\ 44 <= quarterHeight
BY DEF AxisType, quarterHeight

LEMMA AllLaidOut == AxisType => LaidOut(cardItems) /\ LaidOut(ghostNode) /\ LaidOut(items)
<1> SUFFICES ASSUME AxisType PROVE LaidOut(cardItems) /\ LaidOut(ghostNode) /\ LaidOut(items)
    OBVIOUS
<1>1. LaidOut(cardItems)
    <2> DEFINE S == {o \in There : isNodeScheduled(o) /\ page[o].start[1] \in days}
               f == [c \in S |-> [id |-> c, day |-> page[c].start[1], q |-> page[c].start[2], len |-> Quarters[c]]]
    <2>1. S \in SUBSET Cards
        BY DEF There
    <2>2. f \in Surjection(S, cardItems)
        BY DEF Surjection, cardItems
    <2>3. IsFiniteSet(cardItems)
        <3> HIDE DEF S, f
        <3> QED
            BY <2>1, <2>2, CardsFinite, FS_Surjection
    <2>4. \A i \in cardItems : i.q \in Int /\ i.len \in Nat \ {0}
        BY <2>1, CardLength DEF AxisType, AllTimed, RowsTimed, cardItems
    <2> QED
        BY <2>3, <2>4 DEF LaidOut
<1>2. LaidOut(ghostNode)
    <2> DEFINE g == [id |-> Ghost, day |-> drag.day,
                     q |-> IF drag.quarter = 97 THEN page[drag.card].start[2] ELSE drag.quarter,
                     len |-> Quarters[drag.card]]
    <2>1. ghostNode = {} \/ (ghostNode = {g} /\ drag.card # 0)
        BY DEF ghostNode
    <2>2. drag.card # 0 => g.q \in Int /\ g.len \in Nat \ {0}
        BY CardLength DEF AxisType, AllTimed, RowsTimed, DragType, Hands
    <2> HIDE DEF g
    <2>3. IsFiniteSet(ghostNode)
        BY <2>1, FS_EmptySet, FS_Singleton
    <2> QED
        BY <2>1, <2>2, <2>3 DEF LaidOut
<1>3. IsFiniteSet(cardItems \cup ghostNode)
    BY <1>1, <1>2, FS_Union DEF LaidOut
<1> QED
    BY <1>1, <1>2, <1>3, ItemsOf DEF LaidOut

\* What is collapsed, and that the height of the pointer reads as a quarter.
LEMMA ElidedBands ==
    AxisType => /\ elided = RunsOf(items, 0, 28) \cup RunsOf(items, 84, 96)
                /\ Bands(elided) /\ \A y \in Int : mapYToQuarter(y) \in Int
<1> SUFFICES ASSUME AxisType
             PROVE  /\ elided = RunsOf(items, 0, 28) \cup RunsOf(items, 84, 96)
                    /\ Bands(elided) /\ \A y \in Int : mapYToQuarter(y) \in Int
    OBVIOUS
<1>1. elided = RunsOf(items, 0, 28) \cup RunsOf(items, 84, 96)
    BY RunsOfItems DEF elided
<1>2. Bands(elided)
    BY <1>1, AllLaidOut, ElidedShoulders DEF Shoulders
<1>3. \A y \in Int : mapYToQuarter(y) \in Int
    BY <1>2, QuarterHeight, AxisOfPage, AxisAtInt
<1> QED
    BY <1>1, <1>2, <1>3

-----------------------------------------------------------------------------
\* Every step leaves whole quarters behind.
LEMMA TimedStands == ASSUME AllTimed, UNCHANGED <<node, page>> PROVE AllTimed'
BY DEF AllTimed, RowsTimed, There

LEMMA RowTimed ==
    ASSUME BoardInv, AllTimed, NEW c \in Cards, NEW start, start[2] \in Int, NEW synth, update_node(c, start, synth)
    PROVE  \A o \in There' : node'[o].start[2] \in Int /\ node'[o].column[2] \in Int
<1>1. /\ There' = There \cup {c} /\ node'[c].start = start /\ node'[c].column = start
      /\ \A o \in Cards \ {c} : node'[o] = node[o]
    BY RowWritten DEF BoardInv, BoardType, RowsType
<1> QED
    BY <1>1 DEF AllTimed, RowsTimed, There

LEMMA PageTimed ==
    ASSUME BoardInv, AllTimed, NEW c \in Cards, NEW start, start[2] \in Int, NEW synth,
           page' = [page EXCEPT ![c] = [start |-> start, synth |-> synth]]
    PROVE  \A o \in Cards : page'[o].start[2] \in Int
<1>1. page'[c].start = start /\ \A o \in Cards \ {c} : page'[o] = page[o]
    BY PageWritten DEF BoardInv, BoardType
<1> QED
    BY <1>1 DEF AllTimed, RowsTimed

LEMMA PersistTimed ==
    ASSUME BoardInv, AllTimed, NEW c \in Cards, NEW start, start[2] \in Int, NEW synth, persist(c, start, synth)
    PROVE  AllTimed' /\ zoom' = zoom
<1>1. zoom' = zoom
    BY DEF persist
<1>2. CASE page' = [page EXCEPT ![c] = [start |-> start, synth |-> synth]] /\ update_node(c, start, synth)
    BY <1>1, <1>2, RowTimed, PageTimed DEF AllTimed, RowsTimed, Cards
<1>3. CASE UNCHANGED <<node, page>>
    BY <1>1, <1>3, TimedStands
<1>4. CASE update_node(c, start, synth) /\ UNCHANGED page
    BY <1>1, <1>4, RowTimed DEF AllTimed, RowsTimed, Cards
<1>5. CASE page' = [page EXCEPT ![c] = [start |-> start, synth |-> synth]] /\ UNCHANGED node
    BY <1>1, <1>5, PageTimed DEF AllTimed, RowsTimed, There, Cards
<1> QED
    BY <1>2, <1>3, <1>4, <1>5 DEF persist

LEMMA MoveTimed ==
    ASSUME BoardInv, AllTimed, NEW c \in Cards, NEW d \in days, NEW quarter \in Int, moveNode(c, d, quarter)
    PROVE  AllTimed' /\ zoom' = zoom
<1> DEFINE to == rebasedMetadata(c, d, quarter)
           synth == IF to = Nowhere THEN page[c].synth ELSE FALSE
<1>1. to[2] \in Int
    BY DEF rebasedMetadata, Nowhere, AllTimed, RowsTimed
<1>2. persist(c, to, synth)
    BY DEF moveNode
<1> HIDE DEF to, synth
<1> QED
    BY <1>1, <1>2, PersistTimed

LEMMA UnscheduleTimed == ASSUME BoardInv, AllTimed, NEW c \in Cards, unscheduleNode(c) PROVE AllTimed' /\ zoom' = zoom
<1>1. Nowhere[2] \in Int
    BY DEF Nowhere
<1> QED
    BY <1>1, PersistTimed DEF unscheduleNode

\* Where a card that has no time of its own is laid out.
LEMMA ResolvedTimed == ASSUME BoardInv, RowsTimed, NEW c \in There PROVE resolvedStart(c)[2] \in Int
<1>1. explicitStart(c)[2] \in Int
    BY DEF RowsTimed, explicitStart
<1>2. Cardinality({o \in Undated : o < c}) \in Int
    <2> DEFINE S == {o \in Undated : o < c}
    <2>1. S \in SUBSET Cards
        BY DEF Undated, There
    <2> HIDE DEF S
    <2>2. Cardinality(S) \in Nat
        BY <2>1, CardsFinite, FS_CardinalityType
    <2> QED
        BY <2>2 DEF S
<1> DEFINE n == Cardinality({o \in Undated : o < c})
<1>3. resolvedStart(c) = IF c \in Undated THEN <<synthAnchor, 36 + 4 * n>> ELSE explicitStart(c)
    BY DEF resolvedStart
<1> HIDE DEF n
<1>4. 36 + 4 * n \in Int
    BY <1>2 DEF n
<1> QED
    BY <1>1, <1>3, <1>4

-----------------------------------------------------------------------------
\* In a drag nothing else moves: only the pointer and the column under it, until the card is let go.
DragHolds == drag.card # 0 => drag.card \in There /\ slot = Nowhere

LEMMA OnlyDrags ==
    ASSUME BoardInv, DragHolds, Next, drag.card # 0, drag'.card # 0
    PROVE  (\E d \in days \cup {0} : handleDragOver(d)) \/ (\E y \in Pointers : onMove(y))
<1>0. slot = Nowhere /\ ~Idle
    BY DEF DragHolds, Idle
<1>1. ASSUME NEW c \in Cards, handleDragStart(c) \/ holdItem(c) \/ authorNode(c) \/ updateCardDetails(c) \/ updateCardCost(c)
      PROVE  FALSE
    BY <1>0, <1>1 DEF handleDragStart, holdItem, authorNode, updateCardDetails, updateCardCost
<1>2. ASSUME NEW target \in {"day", "collection", "none"}, handleDragEnd(target) PROVE FALSE
    BY <1>2 DEF handleDragEnd, NoDrag
<1>3. ASSUME NEW d \in days, NEW y \in Pointers, handlePlaceTap(d, y) \/ handleCreateTap(d, y) PROVE FALSE
    BY <1>0, <1>3 DEF handlePlaceTap, handleCreateTap, PlaceTargets, PlaceModeLayer, CreateSlots
<1>4. CASE clearHeldItem \/ undoPlacement \/ clearLastPlacement
    BY <1>0, <1>4 DEF clearHeldItem, undoPlacement, clearLastPlacement, PlaceModeLayer
<1>5. ASSUME NEW dates \in Windows, onItineraryUpdated(dates) PROVE FALSE
    BY <1>5 DEF onItineraryUpdated
<1>6. CASE toItineraryTimeline
    BY <1>6 DEF toItineraryTimeline, NoDrag
<1>7. ASSUME NEW z \in Zooms, setPxPerMinute(z) PROVE FALSE
    BY <1>0, <1>7 DEF setPxPerMinute, ZoomControls
<1> QED
    BY <1>1, <1>2, <1>3, <1>4, <1>5, <1>6, <1>7 DEF Next

LEMMA OnlyStart ==
    ASSUME Next, drag.card = 0, drag'.card # 0
    PROVE  \E c \in Cards : handleDragStart(c)
<1>1. ASSUME NEW c \in Cards, holdItem(c) \/ authorNode(c) \/ updateCardDetails(c) \/ updateCardCost(c)
      PROVE  FALSE
    BY <1>1 DEF holdItem, authorNode, updateCardDetails, updateCardCost, pointer
<1>2. ASSUME NEW target \in {"day", "collection", "none"}, handleDragEnd(target) PROVE FALSE
    BY <1>2 DEF handleDragEnd, NoDrag
<1>3. ASSUME NEW d \in days, NEW y \in Pointers, handlePlaceTap(d, y) \/ handleCreateTap(d, y) PROVE FALSE
    BY <1>3 DEF handlePlaceTap, handleCreateTap
<1>4. CASE clearHeldItem \/ undoPlacement \/ clearLastPlacement
    BY <1>4 DEF clearHeldItem, undoPlacement, clearLastPlacement
<1>5. ASSUME NEW dates \in Windows, onItineraryUpdated(dates) PROVE FALSE
    BY <1>5 DEF onItineraryUpdated, pointer
<1>6. CASE toItineraryTimeline
    BY <1>6 DEF toItineraryTimeline, NoDrag
<1>7. ASSUME NEW z \in Zooms, setPxPerMinute(z) PROVE FALSE
    BY <1>7 DEF setPxPerMinute, pointer
<1>8. ASSUME NEW d \in days \cup {0}, handleDragOver(d) PROVE FALSE
    BY <1>8 DEF handleDragOver
<1>9. ASSUME NEW y \in Pointers, onMove(y) PROVE FALSE
    BY <1>9 DEF onMove
<1> QED
    BY <1>1, <1>2, <1>3, <1>4, <1>5, <1>6, <1>7, <1>8, <1>9 DEF Next

\* What is picked up is a card of the service.
LEMMA StartsWithACard ==
    ASSUME NEW c \in Cards, handleDragStart(c)
    PROVE  c \in There /\ slot = Nowhere /\ drag' = [NoDrag EXCEPT !.card = c] /\ UNCHANGED <<node, page, zoom, slot, days, mishaps>>
<1>1. c \in There
    <2>1. CASE CollectionCard(c)
        BY <2>1 DEF CollectionCard
    <2>2. CASE CardWrap(c)
        <3>1. PICK i \in items : i.id = c
            BY <2>2 DEF CardWrap, HorizontalCanvas
        <3>2. \A g \in ghostNode : g.id = Ghost
            BY DEF ghostNode
        <3>3. i \in cardItems
            BY <3>1, <3>2, ItemsOf, CardLength
        <3> QED
            BY <3>1, <3>3 DEF cardItems
    <2> QED
        BY <2>1, <2>2 DEF handleDragStart
<1> QED
    BY <1>1 DEF handleDragStart, Idle, Still, service

\* The pointer moves and the card with it; the board stands.
LEMMA Moves ==
    ASSUME DragType, NEW y, onMove(y)
    PROVE  /\ UNCHANGED <<node, page, zoom, slot, days, mishaps>> /\ drag'.card = drag.card /\ drag'.day = drag.day
           /\ drag'.quarter = mapYToQuarter(y) /\ drag'.was = drag.quarter /\ drag'.y = y /\ drag'.moves = drag.moves + 1
           /\ DOMAIN drag' = DOMAIN drag
           /\ drag' = [drag EXCEPT !.quarter = drag'.quarter, !.was = drag.quarter, !.y = y, !.moves = drag.moves + 1]
<1> DEFINE quarter == mapYToQuarter(y)
<1>1. drag' = [drag EXCEPT !.quarter = quarter, !.was = drag.quarter, !.y = y, !.moves = @ + 1]
    BY DEF onMove
<1>2. UNCHANGED <<node, page, zoom, slot, days, mishaps>>
    BY DEF onMove, Still, service
<1> HIDE DEF quarter
<1>3. /\ drag'.card = drag.card /\ drag'.day = drag.day /\ drag'.quarter = quarter /\ drag'.was = drag.quarter
      /\ drag'.y = y /\ drag'.moves = drag.moves + 1 /\ DOMAIN drag' = DOMAIN drag
    BY <1>1 DEF DragType, Hands
<1>4. drag' = [drag EXCEPT !.quarter = drag'.quarter, !.was = drag.quarter, !.y = y, !.moves = drag.moves + 1]
    BY <1>1, <1>3 DEF DragType, Hands
<1> QED
    BY <1>2, <1>3, <1>4 DEF quarter

LEMMA Overs ==
    ASSUME DragType, NEW d, handleDragOver(d)
    PROVE  /\ UNCHANGED <<node, page, zoom, slot, days, mishaps>> /\ d \in days \cup {0}
           /\ drag' = [drag EXCEPT !.day = d, !.moves = drag.moves + 1]
           /\ drag'.card = drag.card /\ drag'.quarter = drag.quarter /\ drag'.was = drag.was /\ drag'.y = drag.y
BY DEF handleDragOver, Still, service, DayColumns, DragType, Hands

LEMMA HandHolds == BoardInv /\ AxisType /\ DragHolds /\ [Next]_vars => DragHolds'
<1> SUFFICES ASSUME BoardInv, AxisType, DragHolds, [Next]_vars, drag'.card # 0 PROVE drag'.card \in There' /\ slot' = Nowhere
    BY DEF DragHolds
<1>1. CASE UNCHANGED vars
    BY <1>1 DEF vars, DragHolds, There
<1>2. CASE Next /\ drag.card = 0
    <2>1. PICK c \in Cards : handleDragStart(c)
        BY <1>2, OnlyStart
    <2>2. c \in There /\ slot = Nowhere /\ drag' = [NoDrag EXCEPT !.card = c] /\ UNCHANGED <<node, slot>>
        BY <2>1, StartsWithACard
    <2> QED
        BY <2>2 DEF NoDrag, There, Cards
<1>3. CASE Next /\ drag.card # 0
    <2>1. (\E d \in days \cup {0} : handleDragOver(d)) \/ (\E y \in Pointers : onMove(y))
        BY <1>3, OnlyDrags
    <2>2. UNCHANGED <<node, slot>> /\ drag'.card = drag.card
        BY <2>1, Moves, Overs DEF AxisType
    <2> QED
        BY <1>3, <2>2 DEF DragHolds, There, Cards
<1> QED
    BY <1>1, <1>2, <1>3

-----------------------------------------------------------------------------
LEMMA TypeStands == ASSUME AxisType, UNCHANGED <<node, page, drag, zoom, slot>> PROVE AxisType'
BY DEF AxisType, AllTimed, RowsTimed, There, DragType, Hands, Cards

LEMMA NoDragTyped == NoDrag \in Hands
BY DEF NoDrag, Hands

LEMMA HandMoved ==
    ASSUME NEW g \in Hands, NEW d \in Int, NEW q \in Int, NEW w \in Int, NEW y \in Int, NEW m \in Int
    PROVE  [g EXCEPT !.day = d, !.moves = m] \in Hands
           /\ [g EXCEPT !.quarter = q, !.was = w, !.y = y, !.moves = m] \in Hands
BY DEF Hands

LEMMA DragTimed ==
    ASSUME BoardInv, AxisType,
           \/ \E c \in Cards : handleDragStart(c)
           \/ \E d \in days \cup {0} : handleDragOver(d)
           \/ \E y \in Pointers : onMove(y)
           \/ \E target \in {"day", "collection", "none"} : handleDragEnd(target)
    PROVE  AxisType'
<1>0. Cards' = Cards /\ AllTimed /\ DragType /\ zoom \in Int /\ slot[2] \in Int
    BY DEF Cards, AxisType
<1>1. ASSUME NEW c \in Cards, handleDragStart(c) PROVE AxisType'
    <2>1. drag' = [NoDrag EXCEPT !.card = c] /\ UNCHANGED <<node, page, zoom, slot>>
        BY <1>1, StartsWithACard
    <2>2. DragType'
        BY <1>0, <2>1 DEF DragType, Hands, NoDrag
    <2> QED
        BY <1>0, <2>1, <2>2, TimedStands DEF AxisType
<1>2. ASSUME NEW d \in days \cup {0}, handleDragOver(d) PROVE AxisType'
    <2>1. UNCHANGED <<node, page, zoom, slot>> /\ drag' = [drag EXCEPT !.day = d, !.moves = drag.moves + 1]
        BY <1>0, <1>2, Overs
    <2>2. d \in Int
        <3>1. days \subseteq Int
            BY DEF BoardInv, BoardType
        <3> QED
            BY <1>2, <3>1
    <2>3. DragType'
        <3>1. drag \in Hands /\ drag.moves + 1 \in Int
            BY <1>0 DEF DragType, Hands
        <3>2. drag' \in Hands
            BY <2>1, <2>2, <3>1, HandMoved
        <3> QED
            BY <1>0, <3>2 DEF DragType, Hands
    <2> QED
        BY <1>0, <2>1, <2>3, TimedStands DEF AxisType
<1>3. ASSUME NEW y \in Pointers, onMove(y) PROVE AxisType'
    <2>1. /\ UNCHANGED <<node, page, zoom, slot>> /\ drag'.quarter = mapYToQuarter(y)
          /\ drag' = [drag EXCEPT !.quarter = drag'.quarter, !.was = drag.quarter, !.y = y, !.moves = drag.moves + 1]
        BY <1>0, <1>3, Moves
    <2>2. y \in Int /\ drag'.quarter \in Int
        BY <2>1, ElidedBands, PixelsAssumption
    <2> DEFINE q == drag'.quarter
    <2> HIDE DEF q
    <2>3. q \in Int /\ drag' = [drag EXCEPT !.quarter = q, !.was = drag.quarter, !.y = y, !.moves = drag.moves + 1]
        BY <2>1, <2>2 DEF q
    <2>4. DragType'
        <3>1. drag \in Hands /\ drag.moves + 1 \in Int /\ drag.quarter \in Int
            BY <1>0 DEF DragType, Hands
        <3>2. drag' \in Hands
            BY <2>2, <2>3, <3>1, HandMoved
        <3> QED
            BY <1>0, <3>2 DEF DragType, Hands
    <2> QED
        BY <1>0, <2>1, <2>4, TimedStands DEF AxisType
<1>4. ASSUME NEW target \in {"day", "collection", "none"}, handleDragEnd(target) PROVE AxisType'
    <2>1. drag.card # 0 /\ drag' = NoDrag /\ slot' = slot
        BY <1>4 DEF handleDragEnd
    <2>2. drag.card \in Cards /\ drag.day \in days \cup {0} /\ drag.quarter \in Int
        BY <1>0, <2>1 DEF BoardInv, AimsAtDays, DragType, Hands
    <2>3. AllTimed' /\ zoom' = zoom
        <3>1. CASE drag.day # 0 /\ moveNode(drag.card, drag.day, drag.quarter)
            BY <1>0, <2>2, <3>1, MoveTimed
        <3>2. CASE unscheduleNode(drag.card)
            BY <1>0, <2>2, <3>2, UnscheduleTimed
        <3>3. CASE Still
            BY <1>0, <3>3, TimedStands DEF Still, service
        <3> QED
            BY <1>4, <3>1, <3>2, <3>3 DEF handleDragEnd
    <2>4. DragType'
        BY <1>0, <2>1, NoDragTyped DEF DragType, Hands
    <2> QED
        BY <1>0, <2>1, <2>3, <2>4 DEF AxisType
<1> QED
    BY <1>1, <1>2, <1>3, <1>4

LEMMA PlaceTimed ==
    ASSUME BoardInv, AxisType,
           \/ \E c \in Cards : holdItem(c)
           \/ \E d \in days, y \in Pointers : handlePlaceTap(d, y) \/ handleCreateTap(d, y)
           \/ clearHeldItem \/ undoPlacement \/ clearLastPlacement
    PROVE  AxisType'
<1>0. AllTimed /\ DragType /\ zoom \in Int /\ slot[2] \in Int /\ \A y \in Pointers : mapYToQuarter(y) \in Int
    BY ElidedBands, PixelsAssumption DEF AxisType
<1>1. CASE (\E c \in Cards : holdItem(c)) \/ clearHeldItem \/ clearLastPlacement
    <2>1. UNCHANGED <<node, page, drag, zoom, slot>>
        BY <1>1 DEF holdItem, clearHeldItem, clearLastPlacement, Still, service
    <2> QED
        BY <2>1, TypeStands
<1>2. ASSUME NEW d \in days, NEW y \in Pointers, handlePlaceTap(d, y) PROVE AxisType'
    <2> DEFINE quarter == mapYToQuarter(y)
    <2>1. /\ held # 0 /\ moveNode(held, d, quarter) /\ UNCHANGED <<drag, slot>>
        BY <1>2 DEF handlePlaceTap, placeHeldItem, PlaceTargets, PlaceModeLayer
    <2>2. held \in Cards /\ quarter \in Int
        BY <1>0, <2>1 DEF BoardInv, AimsAtDays
    <2> HIDE DEF quarter
    <2>3. AllTimed' /\ zoom' = zoom
        BY <1>0, <2>1, <2>2, MoveTimed
    <2> QED
        BY <1>0, <2>1, <2>3 DEF AxisType, DragType, Hands, Cards
<1>3. ASSUME NEW d \in days, NEW y \in Pointers, handleCreateTap(d, y) PROVE AxisType'
    <2> DEFINE quarter == mapYToQuarter(y)
    <2>1. UNCHANGED <<node, page, drag, zoom>> /\ slot' = <<d, quarter>> /\ quarter \in Int
        BY <1>0, <1>3 DEF handleCreateTap, Still, service
    <2> HIDE DEF quarter
    <2> QED
        BY <1>0, <2>1, TimedStands DEF AxisType, DragType, Hands, Cards
<1>4. CASE undoPlacement
    <2>1. last # 0 /\ unscheduleNode(last) /\ UNCHANGED <<drag, slot>>
        BY <1>4 DEF undoPlacement
    <2>2. last \in Cards
        BY <2>1 DEF BoardInv, AimsAtDays
    <2>3. AllTimed' /\ zoom' = zoom
        BY <1>0, <2>1, <2>2, UnscheduleTimed
    <2> QED
        BY <1>0, <2>1, <2>3 DEF AxisType, DragType, Hands, Cards
<1> QED
    BY <1>1, <1>2, <1>3, <1>4

LEMMA CardTimed ==
    ASSUME BoardInv, AxisType, NEW c \in Cards, authorNode(c) \/ updateCardDetails(c) \/ updateCardCost(c)
    PROVE  AxisType'
<1>0. AllTimed /\ DragType /\ zoom \in Int /\ slot[2] \in Int /\ Nowhere[2] \in Int
    BY DEF AxisType, Nowhere
<1>1. CASE authorNode(c)
    <2>1. slot' = Nowhere /\ UNCHANGED <<drag, zoom>>
        BY <1>1 DEF authorNode
    <2>2. AllTimed'
        <3>1. CASE update_node(c, slot, FALSE) /\ page' = [page EXCEPT ![c] = [start |-> slot, synth |-> FALSE]]
            BY <1>0, <3>1, RowTimed, PageTimed DEF AllTimed, RowsTimed, Cards
        <3>2. CASE UNCHANGED <<node, page>>
            BY <1>0, <3>2, TimedStands
        <3> QED
            BY <1>1, <3>1, <3>2 DEF authorNode
    <2> QED
        BY <1>0, <2>1, <2>2 DEF AxisType, DragType, Hands, Cards
<1>2. CASE updateCardDetails(c)
    <2>1. UNCHANGED <<drag, zoom, slot, page>>
        BY <1>2 DEF updateCardDetails, pointer
    <2>2. page[c].start[2] \in Int
        BY <1>0 DEF AllTimed, RowsTimed
    <2>3. AllTimed'
        <3>1. CASE update_node(c, page[c].start, page[c].synth)
            BY <1>0, <2>1, <2>2, <3>1, RowTimed DEF AllTimed, RowsTimed, Cards
        <3>2. CASE UNCHANGED <<node, page>>
            BY <1>0, <3>2, TimedStands
        <3> QED
            BY <1>2, <3>1, <3>2 DEF updateCardDetails
    <2> QED
        BY <1>0, <2>1, <2>3 DEF AxisType, DragType, Hands, Cards
<1>3. CASE updateCardCost(c)
    <2> DEFINE start == node[c].start
               synth == node[c].synth
    <2>1. c \in There /\ UNCHANGED <<drag, zoom, slot, node>> /\ page' = [page EXCEPT ![c] = [start |-> start, synth |-> synth]]
        BY <1>3 DEF updateCardCost, pointer, service
    <2>2. start[2] \in Int
        BY <1>0, <2>1 DEF AllTimed, RowsTimed
    <2> HIDE DEF start, synth
    <2>3. \A o \in Cards : page'[o].start[2] \in Int
        BY <1>0, <2>1, <2>2, PageTimed
    <2>4. AllTimed'
        BY <1>0, <2>1, <2>3 DEF AllTimed, RowsTimed, There, Cards
    <2> QED
        BY <1>0, <2>1, <2>4 DEF AxisType, DragType, Hands, Cards
<1> QED
    BY <1>1, <1>2, <1>3

LEMMA OpenTimed ==
    ASSUME BoardInv, AxisType,
           toItineraryTimeline \/ (\E dates \in Windows : onItineraryUpdated(dates)) \/ (\E z \in Zooms : setPxPerMinute(z))
    PROVE  AxisType'
<1>0. AllTimed /\ DragType /\ zoom \in Int /\ slot[2] \in Int /\ Nowhere[2] \in Int
    BY DEF AxisType, Nowhere
<1>1. CASE toItineraryTimeline
    <2>1. page' = resolvedNodes /\ drag' = NoDrag /\ slot' = Nowhere /\ UNCHANGED <<node, zoom>>
        BY <1>1 DEF toItineraryTimeline, service
    <2>2. \A c \in Cards : page'[c].start[2] \in Int
        BY <1>0, <2>1, ResolvedTimed DEF resolvedNodes, AllTimed
    <2>3. AllTimed'
        BY <1>0, <2>1, <2>2 DEF AllTimed, RowsTimed, There, Cards
    <2>4. DragType'
        BY <2>1, NoDragTyped DEF DragType, Hands, Cards
    <2> QED
        BY <1>0, <2>1, <2>3, <2>4 DEF AxisType
<1>2. CASE \E dates \in Windows : onItineraryUpdated(dates)
    <2>1. UNCHANGED <<node, page, drag, zoom, slot>>
        BY <1>2 DEF onItineraryUpdated, pointer
    <2> QED
        BY <2>1, TypeStands
<1>3. ASSUME NEW z \in Zooms, setPxPerMinute(z) PROVE AxisType'
    <2>1. UNCHANGED <<node, page, drag, slot>> /\ zoom' = z
        BY <1>3 DEF setPxPerMinute, pointer, service
    <2>2. z \in Int
        BY PixelsAssumption
    <2> QED
        BY <1>0, <2>1, <2>2, TimedStands DEF AxisType, DragType, Hands, Cards
<1> QED
    BY <1>1, <1>2, <1>3

LEMMA StepKeepsAxisType == BoardInv /\ AxisType /\ [Next]_vars => AxisType'
<1> SUFFICES ASSUME BoardInv, AxisType, [Next]_vars PROVE AxisType'
    OBVIOUS
<1>1. CASE UNCHANGED vars
    BY <1>1, TypeStands DEF vars
<1> QED
    BY <1>1, DragTimed, PlaceTimed, CardTimed, OpenTimed DEF Next

-----------------------------------------------------------------------------
\* An item of the daytime, and one where another already is, leave the night's runs as they are.
LEMMA DayItem ==
    ASSUME NEW its, LaidOut(its), NEW g, g.q \in Int, g.len \in Nat, 29 <= g.q
    PROVE  RunsOf(its \cup {g}, 0, 28) = RunsOf(its, 0, 28)
<1> DEFINE more == its \cup {g}
           starts(s) == {0} \cup {i.q + i.len + 1 : i \in s}
           ends(s) == {28} \cup {i.q - 1 : i \in s}
           Apart(s, run) == \A i \in s : run[2] <= i.q - 1 \/ i.q + i.len + 1 <= run[1]
<1>1. \A s, run : run \in RunsOf(s, 0, 28) <=> /\ run \in starts(s) \X ends(s)
                                              /\ 0 <= run[1] /\ run[1] + 6 < run[2] /\ run[2] <= 28 /\ Apart(s, run)
    BY DEF RunsOf
<1>2. starts(more) = starts(its) \cup {g.q + g.len + 1} /\ ends(more) = ends(its) \cup {g.q - 1}
    OBVIOUS
<1>3. starts(its) \subseteq Int /\ ends(its) \subseteq Int /\ 28 \in ends(its)
    BY DEF LaidOut
<1> HIDE DEF starts, ends, more
<1>4. ASSUME NEW run \in starts(more) \X ends(more), run[1] + 6 < run[2], run[2] <= 28
      PROVE  run \in starts(its) \X ends(its)
    <2>1. run[1] \in starts(more) /\ run[2] \in ends(more) /\ run = <<run[1], run[2]>>
        OBVIOUS
    <2>2. run[1] \in Int /\ run[2] \in Int
        BY <1>2, <1>3, <2>1
    <2>3. run[1] \in starts(its)
        BY <1>2, <1>4, <2>1, <2>2
    <2>4. run[2] \in ends(its)
        BY <1>2, <1>3, <1>4, <2>1, <2>2
    <2> QED
        BY <2>1, <2>3, <2>4
<1>5. ASSUME NEW run \in starts(its) \X ends(its), run[2] <= 28 PROVE Apart(more, run) <=> Apart(its, run)
    <2>1. run[2] \in Int
        BY <1>3
    <2>2. run[2] <= g.q - 1
        BY <1>5, <2>1
    <2> QED
        BY <2>2 DEF more
<1>6. starts(its) \subseteq starts(more) /\ ends(its) \subseteq ends(more)
    BY <1>2
<1> HIDE DEF Apart
<1>7. \A run : run \in RunsOf(more, 0, 28) <=> run \in RunsOf(its, 0, 28)
    <2> TAKE run
    <2>1. ASSUME run \in RunsOf(more, 0, 28) PROVE run \in RunsOf(its, 0, 28)
        BY <1>1, <1>4, <1>5, <2>1
    <2>2. ASSUME run \in RunsOf(its, 0, 28) PROVE run \in RunsOf(more, 0, 28)
        <3>1. run \in starts(its) \X ends(its) /\ run[2] <= 28 /\ 0 <= run[1] /\ run[1] + 6 < run[2] /\ Apart(its, run)
            BY <1>1, <2>2
        <3>2. run \in starts(more) \X ends(more)
            BY <1>6, <3>1
        <3>3. Apart(more, run)
            BY <1>5, <3>1
        <3> QED
            BY <1>1, <3>1, <3>2, <3>3
    <2> QED
        BY <2>1, <2>2
<1>8. \A r : r \in RunsOf(more, 0, 28) => r \in RunsOf(its, 0, 28)
    BY <1>7
<1> QED
    BY <1>7 DEF more

LEMMA TwinItem ==
    ASSUME NEW its, NEW g, NEW i \in its, g.q = i.q, g.len = i.len
    PROVE  RunsOf(its \cup {g}, 0, 28) = RunsOf(its, 0, 28)
<1>1. {o.q + o.len + 1 : o \in its \cup {g}} = {o.q + o.len + 1 : o \in its}
    OBVIOUS
<1>2. {o.q - 1 : o \in its \cup {g}} = {o.q - 1 : o \in its}
    OBVIOUS
<1>3. \A run : (\A o \in its \cup {g} : run[2] <= o.q - 1 \/ o.q + o.len + 1 <= run[1])
               <=> (\A o \in its : run[2] <= o.q - 1 \/ o.q + o.len + 1 <= run[1])
    OBVIOUS
<1> DEFINE S == {o.q + o.len + 1 : o \in its}
           E == {o.q - 1 : o \in its}
           P(s, run) == \A o \in s : run[2] <= o.q - 1 \/ o.q + o.len + 1 <= run[1]
<1>4. RunsOf(its \cup {g}, 0, 28) = {run \in ({0} \cup S) \X ({28} \cup E) :
          /\ 0 <= run[1] /\ run[1] + 6 < run[2] /\ run[2] <= 28 /\ P(its \cup {g}, run)}
    BY <1>1, <1>2 DEF RunsOf
<1>5. RunsOf(its, 0, 28) = {run \in ({0} \cup S) \X ({28} \cup E) :
          /\ 0 <= run[1] /\ run[1] + 6 < run[2] /\ run[2] <= 28 /\ P(its, run)}
    BY DEF RunsOf
<1>6. \A run : P(its \cup {g}, run) <=> P(its, run)
    BY <1>3
<1> HIDE DEF S, E, P
<1> QED
    BY <1>4, <1>5, <1>6

\* The night as the cards leave it; a ghost of the daytime does not change it.
Night == RunsOf(cardItems, 0, 28)

LEMMA NightOfCards ==
    ASSUME BoardInv, AxisType, DragHolds, mishaps \subseteq {"failed"}, drag.card # 0, Daytime(drag.quarter)
    PROVE  RunsOf(items, 0, 28) = Night
<1> DEFINE q == IF drag.quarter = 97 THEN page[drag.card].start[2] ELSE drag.quarter
           g == [id |-> Ghost, day |-> drag.day, q |-> q, len |-> Quarters[drag.card]]
<1>1. ghostNode = {} \/ (ghostNode = {g} /\ isNodeScheduled(drag.card))
    BY DEF ghostNode
<1>2. LaidOut(cardItems)
    BY AllLaidOut
<1>3. drag.card \in There /\ drag.card \in Cards /\ Quarters[drag.card] \in Nat /\ drag.quarter \in Int
    BY CardLength DEF DragHolds, There, AxisType, DragType, Hands
<1>4. CASE ghostNode = {}
    <2>1. items = cardItems
        BY <1>4, ItemsOf
    <2> QED
        BY <2>1 DEF Night
<1>5. CASE ghostNode = {g} /\ isNodeScheduled(drag.card)
    <2>1. items = cardItems \cup {g}
        BY <1>5, ItemsOf
    <2>2. CASE drag.quarter = 97
        <3> DEFINE i == [id |-> drag.card, day |-> page[drag.card].start[1], q |-> page[drag.card].start[2],
                         len |-> Quarters[drag.card]]
        <3>1. page[drag.card].start[1] \in days
            BY <1>3, <1>5 DEF BoardInv, TimesDrawn
        <3>2. i \in cardItems
            BY <1>3, <1>5, <3>1 DEF cardItems
        <3>3. g.q = i.q /\ g.len = i.len
            BY <2>2
        <3> HIDE DEF g, i
        <3> QED
            BY <2>1, <3>2, <3>3, TwinItem DEF Night
    <2>3. CASE drag.quarter \in 29..83
        <3>1. g.q \in Int /\ g.len \in Nat /\ 29 <= g.q
            BY <1>3, <2>3
        <3> HIDE DEF g
        <3> QED
            BY <1>2, <2>1, <3>1, DayItem DEF Night
    <2> QED
        BY <2>2, <2>3 DEF Daytime
<1> QED
    BY <1>1, <1>4, <1>5

\* The quarter in the hand was read over the night's runs, with some of the evening's.
Reading ==
    mishaps \subseteq {"failed"} /\ drag.card # 0 /\ drag.quarter # 97 /\ Daytime(drag.was)
    => \E B : Shoulders(Night, B) /\ drag.quarter = AxisAt(Night \cup B, quarterHeight, drag.y)

GhostInv == BoardInv /\ AxisType /\ DragHolds /\ Reading

LEMMA NightStands == ASSUME UNCHANGED <<node, page, days>> PROVE Night' = Night
<1>1. There' = There /\ \A c : isNodeScheduled(c)' = isNodeScheduled(c)
    BY DEF There, isNodeScheduled, Cards
<1>2. cardItems' = cardItems
    BY <1>1 DEF cardItems
<1> QED
    BY <1>2 DEF Night, RunsOf

\* What the pointer reads while the ghost is in the daytime.
LEMMA ReadsNow ==
    ASSUME BoardInv, AxisType, DragHolds, mishaps \subseteq {"failed"}, drag.card # 0, Daytime(drag.quarter)
    PROVE  \E B : Shoulders(Night, B) /\ \A y : mapYToQuarter(y) = AxisAt(Night \cup B, quarterHeight, y)
<1> DEFINE B == RunsOf(items, 84, 96)
<1>1. elided = Night \cup B
    BY ElidedBands, NightOfCards
<1>2. Shoulders(Night, B)
    BY AllLaidOut, ElidedShoulders DEF Night
<1> HIDE DEF B
<1>3. \A y : mapYToQuarter(y) = AxisAt(Night \cup B, quarterHeight, y)
    BY <1>1, AxisOfPage
<1> QED
    BY <1>2, <1>3

LEMMA StepKeepsReading == GhostInv /\ [Next]_vars => Reading'
<1> SUFFICES ASSUME GhostInv, [Next]_vars, (mishaps \subseteq {"failed"})', drag'.card # 0, drag'.quarter # 97,
                    Daytime(drag'.was)
             PROVE  \E B : Shoulders(Night', B) /\ drag'.quarter = AxisAt(Night' \cup B, quarterHeight', drag'.y)
    BY DEF Reading, Daytime
<1>0. BoardInv /\ AxisType /\ DragType /\ DragHolds /\ Reading
    BY DEF GhostInv, AxisType
<1>1. ASSUME UNCHANGED <<node, page, days, zoom, mishaps>>, drag'.card = drag.card, drag'.quarter = drag.quarter,
             drag'.was = drag.was, drag'.y = drag.y
      PROVE  \E B : Shoulders(Night', B) /\ drag'.quarter = AxisAt(Night' \cup B, quarterHeight', drag'.y)
    <2>1. Night' = Night /\ quarterHeight' = quarterHeight
        BY <1>1, NightStands DEF quarterHeight
    <2>2. \E B : Shoulders(Night, B) /\ drag.quarter = AxisAt(Night \cup B, quarterHeight, drag.y)
        BY <1>0, <1>1 DEF Reading
    <2> QED
        BY <1>1, <2>1, <2>2
<1>2. CASE UNCHANGED vars
    BY <1>1, <1>2 DEF vars
<1>3. CASE Next /\ drag.card = 0
    <2>1. PICK c \in Cards : handleDragStart(c)
        BY <1>3, OnlyStart
    <2>2. drag' = [NoDrag EXCEPT !.card = c]
        BY <2>1, StartsWithACard
    <2>3. drag'.quarter = 97
        BY <2>2 DEF NoDrag
    <2> QED
        BY <2>3
<1>4. CASE Next /\ drag.card # 0
    <2>1. ASSUME NEW d \in days \cup {0}, handleDragOver(d)
          PROVE  \E B : Shoulders(Night', B) /\ drag'.quarter = AxisAt(Night' \cup B, quarterHeight', drag'.y)
        BY <1>0, <1>1, <2>1, Overs
    <2>2. ASSUME NEW y \in Pointers, onMove(y)
          PROVE  \E B : Shoulders(Night', B) /\ drag'.quarter = AxisAt(Night' \cup B, quarterHeight', drag'.y)
        <3>1. /\ UNCHANGED <<node, page, zoom, days, mishaps>> /\ drag'.quarter = mapYToQuarter(y)
              /\ drag'.was = drag.quarter /\ drag'.y = y
            BY <1>0, <2>2, Moves
        <3>2. mishaps \subseteq {"failed"} /\ Daytime(drag.quarter)
            BY <3>1
        <3>3. PICK B : Shoulders(Night, B) /\ \A z : mapYToQuarter(z) = AxisAt(Night \cup B, quarterHeight, z)
            BY <1>0, <1>4, <3>2, ReadsNow
        <3>4. Night' = Night /\ quarterHeight' = quarterHeight
            BY <3>1, NightStands DEF quarterHeight
        <3> QED
            BY <3>1, <3>3, <3>4
    <2> QED
        BY <1>0, <1>4, <2>1, <2>2, OnlyDrags
<1> QED
    BY <1>2, <1>3, <1>4

\* The step itself.
GhostStays ==
    mishaps \subseteq {"failed"} /\ drag.card # 0 /\ drag'.card = drag.card /\ drag'.y = drag.y /\ drag.quarter # 97
      /\ Daytime(drag.was) /\ Daytime(drag.quarter) => drag'.quarter = drag.quarter

LEMMA StepKeepsGhost == GhostInv /\ [Next]_vars => GhostStays
<1> SUFFICES ASSUME GhostInv, [Next]_vars, mishaps \subseteq {"failed"}, drag.card # 0, drag'.card = drag.card,
                    drag'.y = drag.y, drag.quarter # 97, Daytime(drag.was), Daytime(drag.quarter)
             PROVE  drag'.quarter = drag.quarter
    BY DEF GhostStays
<1>0. BoardInv /\ AxisType /\ DragType /\ DragHolds /\ Reading
    BY DEF GhostInv, AxisType
<1>1. CASE UNCHANGED vars
    BY <1>1 DEF vars
<1>2. ASSUME NEW d \in days \cup {0}, handleDragOver(d) PROVE drag'.quarter = drag.quarter
    BY <1>0, <1>2, Overs
<1>3. ASSUME NEW y \in Pointers, onMove(y) PROVE drag'.quarter = drag.quarter
    <2>1. drag'.quarter = mapYToQuarter(drag.y)
        BY <1>0, <1>3, Moves
    <2>2. PICK B : Shoulders(Night, B) /\ drag.quarter = AxisAt(Night \cup B, quarterHeight, drag.y)
        BY <1>0 DEF Reading
    <2>3. PICK C : Shoulders(Night, C) /\ \A z : mapYToQuarter(z) = AxisAt(Night \cup C, quarterHeight, z)
        BY <1>0, ReadsNow
    <2>4. drag.y \in Int /\ drag.quarter \in Int
        BY <1>0 DEF DragType, Hands
    <2>5. AxisAt(Night \cup B, quarterHeight, drag.y) < 84
        BY <2>2, <2>4 DEF Daytime
    <2>6. AxisAt(Night \cup C, quarterHeight, drag.y) = AxisAt(Night \cup B, quarterHeight, drag.y)
        BY <1>0, <2>2, <2>3, <2>4, <2>5, QuarterHeight, DaytimeSteady
    <2> QED
        BY <2>1, <2>2, <2>3, <2>6
<1> QED
    BY <1>0, <1>1, <1>2, <1>3, OnlyDrags DEF DragHolds

-----------------------------------------------------------------------------
\* A board without a card has nothing to drag.
AxisInv == (Cards # {} => GhostInv) /\ (Cards = {} => drag.card = 0)

LEMMA InitAxisInv == Init => AxisInv
<1> SUFFICES ASSUME Init PROVE AxisInv
    OBVIOUS
<1>1. page = resolvedNodes /\ drag = NoDrag /\ slot = Nowhere /\ zoom \in Zooms
    BY DEF Init
<1>2. ASSUME Cards # {} PROVE GhostInv
    <2>1. BoardInv
        BY <1>2, InitBoardInv
    <2>2. PICK first \in Starts, other \in Others :
              node = [c \in Cards |-> IF c = 1 THEN Node(first) ELSE IF c = Ghost - 1 THEN Absent ELSE Node(other)]
        BY DEF Init
    <2>3. first[2] \in Int /\ other[2] \in Int
        BY StartsAssumption
    <2>4. RowsTimed
        <3>1. \A c \in There : node[c] \in {Node(first), Node(other)}
            BY <2>2 DEF There, Absent
        <3> QED
            BY <2>3, <3>1 DEF Node, RowsTimed
    <2>5. \A c \in There : resolvedStart(c)[2] \in Int
        BY <2>1, <2>4, ResolvedTimed
    <2>6. \A c \in Cards : page[c].start[2] \in Int
        BY <1>1, <2>5 DEF resolvedNodes, Nowhere
    <2>7. AllTimed
        BY <2>4, <2>6 DEF AllTimed
    <2>8. AxisType
        BY <1>1, <2>7, NoDragTyped, PixelsAssumption DEF AxisType, DragType, Nowhere
    <2>9. DragHolds /\ Reading
        BY <1>1 DEF DragHolds, Reading, NoDrag
    <2> QED
        BY <2>1, <2>8, <2>9 DEF GhostInv
<1> QED
    BY <1>1, <1>2 DEF AxisInv, NoDrag

LEMMA StepKeepsAxisInv == AxisInv /\ [Next]_vars => AxisInv' /\ GhostStays
<1> SUFFICES ASSUME AxisInv, [Next]_vars PROVE AxisInv' /\ GhostStays
    OBVIOUS
<1>0. Cards' = Cards
    BY DEF Cards
<1>1. CASE Cards # {}
    <2>1. GhostInv
        BY <1>1 DEF AxisInv
    <2>2. BoardInv' /\ AxisType' /\ DragHolds' /\ Reading' /\ GhostStays
        BY <2>1, BoardKeeps, StepKeepsAxisType, HandHolds, StepKeepsReading, StepKeepsGhost DEF GhostInv
    <2> QED
        BY <1>0, <1>1, <2>2 DEF AxisInv, GhostInv
<1>2. CASE Cards = {}
    <2>1. drag.card = 0
        BY <1>2 DEF AxisInv
    <2>2. drag'.card = 0
        BY <1>2, <2>1, OnlyStart DEF vars
    <2> QED
        BY <1>0, <1>2, <2>1, <2>2 DEF AxisInv, GhostStays
<1> QED
    BY <1>1, <1>2

-----------------------------------------------------------------------------
(* The lanes of a day.  They are a recursive function on its items, picked with CHOOSE, which exists since    *)
(* every set of items that holds what comes before its members has one and so the next larger set has.       *)

Lined(its) ==
    LaidOut(its) /\ \A i, o \in its : i.id \in Int /\ (i.id = o.id => i = o)

\* The order is total.
LEMMA InOrder ==
    ASSUME NEW its, Lined(its)
    PROVE  /\ \A i, o \in its : i # o => before(i, o) \/ before(o, i)
           /\ \A i, o \in its : ~(before(i, o) /\ before(o, i))
           /\ \A i, o, p \in its : before(i, o) /\ before(o, p) => before(i, p)
BY DEF Lined, LaidOut, before

LEMMA LastItem ==
    ASSUME NEW its, Lined(its), NEW m \in SUBSET its, m # {}
    PROVE  \E x \in m : \A o \in m \ {x} : before(o, x)
<1> DEFINE Up(x) == {o \in m : before(x, o)}
           T == {Up(x) : x \in m}
<1>1. IsFiniteSet(m)
    BY FS_Subset DEF Lined, LaidOut
<1>2. \E u \in T : \A t \in T : t \subseteq u => t = u
    <2>1. T \subseteq SUBSET m /\ T # {}
        OBVIOUS
    <2> HIDE DEF T
    <2> QED
        BY <1>1, <2>1, LeastSet
<1>3. PICK x \in m : \A t \in T : t \subseteq Up(x) => t = Up(x)
    BY <1>2
<1>4. ASSUME NEW y \in m, before(x, y) PROVE FALSE
    <2>1. Up(y) \subseteq Up(x)
        BY <1>4, InOrder
    <2>2. Up(y) = Up(x)
        BY <1>3, <2>1
    <2>3. y \in Up(y)
        BY <1>4, <2>2
    <2> QED
        BY <2>3, InOrder
<1> QED
    BY <1>4, InOrder

\* The lane an item takes, given those of the ones before it.
Lane(its, lane, i) ==
    Min({l \in 0..Cardinality(its) : \A o \in its : before(o, i) /\ lane[o] = l => o.q + o.len <= i.q})

\* Lanes for the items of S; those of all of them.
Laned(its, S, lane) == lane = [i \in S |-> Lane(its, lane, i)]
Lanes(its) == CHOOSE lane : Laned(its, its, lane)

Early(its, S) == S \subseteq its /\ \A i \in S, o \in its : before(o, i) => o \in S

LEMMA LanesExist == ASSUME NEW its, Lined(its) PROVE Laned(its, its, Lanes(its))
<1> DEFINE Bad == {S \in SUBSET its : Early(its, S) /\ ~\E lane : Laned(its, S, lane)}
<1>1. ASSUME Bad # {} PROVE FALSE
    <2>1. PICK m \in Bad : \A t \in Bad : t \subseteq m => t = m
        <3>1. Bad \subseteq SUBSET its
            OBVIOUS
        <3> HIDE DEF Bad
        <3> QED
            BY <1>1, <3>1, LeastSet DEF Lined, LaidOut
    <2>2. Early(its, m) /\ ~\E lane : Laned(its, m, lane)
        BY <2>1
    <2>3. m # {}
        <3>1. Laned(its, {}, [i \in {} |-> 0])
            BY DEF Laned
        <3> QED
            BY <2>2, <3>1
    <2>4. PICK x \in m : \A o \in m \ {x} : before(o, x)
        BY <2>1, <2>3, LastItem
    <2> DEFINE rest == m \ {x}
    <2>5. Early(its, rest)
        BY <2>1, <2>2, <2>4, InOrder DEF Early
    <2>6. PICK g : Laned(its, rest, g)
        BY <2>1, <2>5
    <2> DEFINE lane == [i \in m |-> IF i = x THEN Lane(its, g, x) ELSE g[i]]
    <2>7. \A i \in m : \A o \in its : before(o, i) => o \in rest /\ lane[o] = g[o]
        BY <2>1, <2>2, <2>4, InOrder DEF Early
    <2>8. \A i \in m : Lane(its, lane, i) = Lane(its, g, i)
        <3> SUFFICES ASSUME NEW i \in m PROVE Lane(its, lane, i) = Lane(its, g, i)
            OBVIOUS
        <3> HIDE DEF lane
        <3>1. \A o \in its : before(o, i) => lane[o] = g[o]
            BY <2>7
        <3>2. {l \in 0..Cardinality(its) : \A o \in its : before(o, i) /\ lane[o] = l => o.q + o.len <= i.q}
              = {l \in 0..Cardinality(its) : \A o \in its : before(o, i) /\ g[o] = l => o.q + o.len <= i.q}
            BY <3>1
        <3> QED
            BY <3>2 DEF Lane
    <2>9. \A i \in rest : g[i] = Lane(its, g, i)
        <3> DEFINE F(i) == Lane(its, g, i)
        <3>1. g = [i \in rest |-> F(i)]
            BY <2>6 DEF Laned
        <3> HIDE DEF F, rest
        <3>2. \A i \in rest : g[i] = F(i)
            BY <3>1
        <3> QED
            BY <3>2 DEF F
    <2>10. \A i \in m : lane[i] = Lane(its, lane, i)
        <3> SUFFICES ASSUME NEW i \in m PROVE lane[i] = Lane(its, g, i)
            BY <2>8
        <3> QED
            BY <2>9
    <2>11. Laned(its, m, lane)
        <3>1. lane = [i \in m |-> lane[i]]
            OBVIOUS
        <3> HIDE DEF lane
        <3> QED
            BY <2>10, <3>1 DEF Laned
    <2> QED
        BY <2>2, <2>11
<1>2. Early(its, its)
    BY DEF Early
<1>3. \E lane : Laned(its, its, lane)
    BY <1>1, <1>2
<1> QED
    BY <1>3 DEF Lanes

\* There is always a lane nothing before an item is in, so that its lane is free when it starts.
LEMMA LaneFree ==
    ASSUME NEW its, Lined(its), NEW i \in its, NEW o \in its, before(o, i), Lanes(its)[o] = Lanes(its)[i]
    PROVE  o.q + o.len <= i.q
<1> DEFINE lane == Lanes(its)
           n == Cardinality(its)
           free == {l \in 0..n : \A p \in its : before(p, i) /\ lane[p] = l => p.q + p.len <= i.q}
           earlier == {p \in its : before(p, i)}
           taken == {lane[p] : p \in earlier}
<1>1. lane[i] = Min(free)
    <2> DEFINE F(p) == Lane(its, Lanes(its), p)
    <2>1. Lanes(its) = [p \in its |-> F(p)]
        BY LanesExist DEF Laned
    <2> HIDE DEF F
    <2>2. Lanes(its)[i] = F(i)
        BY <2>1
    <2> QED
        BY <2>2 DEF F, Lane
<1>2. IsFiniteSet(its) /\ n \in Nat
    BY FS_CardinalityType DEF Lined, LaidOut
<1>3. IsFiniteSet(taken) /\ Cardinality(taken) <= n /\ Cardinality(taken) \in Nat
    <2> DEFINE f == [p \in earlier |-> lane[p]]
    <2>1. f \in Surjection(earlier, taken)
        BY DEF Surjection
    <2>2. earlier \in SUBSET its
        OBVIOUS
    <2> HIDE DEF earlier, taken, f
    <2>3. IsFiniteSet(earlier) /\ Cardinality(earlier) <= n
        BY <1>2, <2>2, FS_Subset
    <2>4. IsFiniteSet(taken) /\ Cardinality(taken) <= Cardinality(earlier)
        BY <2>1, <2>3, FS_Surjection
    <2>5. Cardinality(taken) \in Nat /\ Cardinality(earlier) \in Nat
        BY <2>3, <2>4, FS_CardinalityType
    <2> HIDE DEF n
    <2> QED
        BY <1>2, <2>3, <2>4, <2>5
<1>4. \E l \in 0..n : l \notin taken
    <2> SUFFICES ASSUME 0..n \subseteq taken PROVE FALSE
        OBVIOUS
    <2>1. Cardinality(0..n) = n + 1
        <3> HIDE DEF n
        <3>1. Cardinality(0..n) = IF 0 > n THEN 0 ELSE n - 0 + 1
            BY <1>2, FS_Interval
        <3> QED
            BY <1>2, <3>1
    <2> HIDE DEF n, taken
    <2>2. Cardinality(0..n) <= Cardinality(taken)
        BY <1>3, FS_Subset
    <2> QED
        BY <1>2, <1>3, <2>1, <2>2
<1>5. free # {}
    BY <1>4
<1>6. IsFiniteSet(free) /\ free \subseteq Int
    <2>1. free \in SUBSET (0..n)
        OBVIOUS
    <2> HIDE DEF n, free
    <2>2. IsFiniteSet(0..n)
        BY <1>2, FS_Interval
    <2>3. 0..n \subseteq Int
        OBVIOUS
    <2> QED
        BY <2>1, <2>2, <2>3, FS_Subset
<1>7. lane[i] \in free
    <2> HIDE DEF lane, free
    <2> QED
        BY <1>1, <1>5, <1>6, LeastDay DEF Min
<1> QED
    BY <1>7

-----------------------------------------------------------------------------
\* The items have their own names, and the dead runs keep away from them.
LEMMA ItemsLined == AxisType => Lined(items)
<1> SUFFICES ASSUME AxisType PROVE Lined(items)
    OBVIOUS
<1>1. LaidOut(items)
    BY AllLaidOut
<1>2. \A i \in cardItems : i.id \in Cards /\ i = [id |-> i.id, day |-> page[i.id].start[1], q |-> page[i.id].start[2],
                                                 len |-> Quarters[i.id]]
    BY DEF cardItems, There
<1>3. \A i, o \in cardItems : i.id = o.id => i = o
    BY <1>2
<1>4. \A i, o \in ghostNode : i = o /\ i.id = Ghost
    BY DEF ghostNode
<1>5. \A i \in cardItems : i.id \in Int /\ i.id # Ghost
    BY <1>2, CardLength
<1>6. Ghost \in Int
    BY CardsFinite, FS_CardinalityType DEF Ghost
<1> HIDE DEF cardItems, ghostNode
<1> QED
    BY <1>1, <1>3, <1>4, <1>5, <1>6, ItemsOf DEF Lined

LEMMA LinedPart == ASSUME NEW its, Lined(its), NEW S \in SUBSET its PROVE Lined(S)
BY FS_Subset DEF Lined, LaidOut

LEMMA RunsKeepAway ==
    ASSUME AxisType, NEW run \in elided, NEW i \in items
    PROVE  run[2] <= i.q - 1 \/ i.q + i.len + 1 <= run[1]
BY ElidedBands DEF RunsOf

\* From a card to one that starts when it has ended the axis goes on by the quarters between, unless a band takes
\* the place of some of them, and then there is room for a glance card beside and under the band.
LEMMA AxisBetween ==
    ASSUME AxisType, NEW i \in items, NEW o \in items, i.q + i.len <= o.q
    PROVE  /\ top(i) \in Int /\ top(o) \in Int
           /\ top(o) = top(i) + (o.q - i.q) * quarterHeight \/ top(i) + 188 <= top(o)
<1> DEFINE h == quarterHeight
           mid == {r \in elided : i.q < r[2] /\ r[2] <= o.q}
           n == o.q - i.q - collapsed(mid)
<1>1. /\ h \in Nat /\ 44 <= h /\ Bands(elided)
      /\ i.q \in Int /\ o.q \in Int /\ i.len \in Nat \ {0} /\ o.len \in Nat \ {0}
    BY QuarterHeight, ElidedBands, AllLaidOut DEF LaidOut
<1>2. top(i) = AxisY(elided, h, i.q) /\ top(o) = AxisY(elided, h, o.q)
    BY AxisOfPage DEF top
<1>3. \A r \in elided : /\ r[1] \in Int /\ r[2] \in Int /\ r[1] < r[2]
                        /\ r[2] <= i.q - 1 \/ i.q + i.len + 1 <= r[1]
                        /\ r[2] <= o.q - 1 \/ o.q + o.len + 1 <= r[1]
    BY <1>1, RunsKeepAway DEF Bands
<1> HIDE DEF h
<1>4. Clear(elided, i.q) /\ i.q <= o.q
    BY <1>1, <1>3 DEF Clear
<1>5. /\ collapsed(mid) \in 0..(o.q - i.q) /\ Cardinality(mid) \in Nat
      /\ AxisY(elided, h, o.q) = AxisY(elided, h, i.q) + n * h + 56 * Cardinality(mid)
    <2>1. mid = {r \in elided : i.q < r[2] /\ r[2] <= o.q}
        OBVIOUS
    <2> DEFINE a == i.q
               b == o.q
    <2>2. a \in Int /\ b \in Int /\ a <= b /\ Clear(elided, a)
          /\ mid = {r \in elided : a < r[2] /\ r[2] <= b}
        BY <1>1, <1>4, <2>1
    <2> HIDE DEF mid, a, b
    <2>3. /\ collapsed(mid) \in 0..(b - a) /\ Cardinality(mid) \in Nat
          /\ AxisY(elided, h, b) = AxisY(elided, h, a) + (b - a - collapsed(mid)) * h + 56 * Cardinality(mid)
        BY <1>1, <2>2, AxisRises
    <2> QED
        BY <2>3 DEF a, b
<1>6. AxisY(elided, h, i.q) \in Int /\ AxisY(elided, h, o.q) \in Int
    BY <1>1, AxisInt
<1>7. CASE mid = {}
    <2>1. collapsed(mid) = 0 /\ Cardinality(mid) = 0
        BY <1>7, SumEmpty, FS_EmptySet
    <2>2. n = o.q - i.q
        BY <1>1, <2>1
    <2> HIDE DEF mid, n
    <2>3. n * h \in Int
        BY <1>1, <2>2
    <2>4. AxisY(elided, h, o.q) = AxisY(elided, h, i.q) + n * h
        BY <1>5, <1>6, <2>1, <2>3
    <2> QED
        BY <1>2, <1>6, <2>2, <2>4 DEF h
<1>8. CASE mid # {}
    <2> DEFINE lo == i.q + i.len + 1
               hi == o.q - 1
    <2>1. \A r \in mid : lo <= r[1] /\ r[2] <= hi /\ r[1] < r[2] /\ r[1] \in Int /\ r[2] \in Int
        BY <1>1, <1>3
    <2>2. lo \in Int /\ hi \in Int
        BY <1>1
    <2>3. lo <= hi /\ Within(mid, lo, hi)
        <3> HIDE DEF mid, lo, hi
        <3>1. PICK r \in mid : TRUE
            BY <1>8
        <3>2. lo <= hi
            BY <2>1, <2>2, <3>1
        <3> QED
            BY <2>1, <3>2 DEF Within
    <2>4. Bands(mid)
        <3>1. mid \in SUBSET elided
            OBVIOUS
        <3> HIDE DEF mid
        <3> QED
            BY <1>1, <3>1, BandsPart
    <2> DEFINE c == collapsed(mid)
    <2>5. c <= hi - lo
        <3> HIDE DEF mid, lo, hi
        <3> QED
            BY <2>2, <2>3, <2>4, BandsSum
    <2>6. c \in Int /\ n = o.q - i.q - c
        BY <1>5
    <2> HIDE DEF c, n, mid
    <2>7. n \in Int /\ 3 <= n
        BY <1>1, <2>5, <2>6
    <2>8. 3 * h <= n * h /\ n * h \in Int
        BY <1>1, <2>7, ProductRises
    <2>9. 132 <= n * h
        BY <1>1, <2>8
    <2>10. 1 <= Cardinality(mid)
        <3>1. IsFiniteSet(mid)
            BY <2>4 DEF Bands
        <3> QED
            BY <1>5, <1>8, <3>1, FS_EmptySet
    <2>11. AxisY(elided, h, i.q) + 188 <= AxisY(elided, h, o.q)
        BY <1>5, <1>6, <2>8, <2>9, <2>10
    <2> QED
        BY <1>2, <1>6, <2>11
<1> QED
    BY <1>7, <1>8

\* There is room for a card as high as the layout counts on for its form.
LEMMA FitsBefore ==
    ASSUME AxisType, NEW inLane \in SUBSET items, NEW i \in inLane, NEW o \in inLane, before(i, o), i.q + i.len <= o.q,
           NEW high \in Int, high <= countsOn(i, inLane)
    PROVE  top(i) + high <= top(o)
<1> DEFINE h == quarterHeight
           after == {p \in inLane : before(i, p)}
           starts == {p.q : p \in after}
           room == (Min(starts) - i.q) * h
<1>1. h \in Nat /\ 44 <= h /\ i.q \in Int /\ o.q \in Int /\ i.len \in Nat \ {0}
    BY QuarterHeight, AllLaidOut DEF LaidOut
<1>2. /\ top(i) \in Int /\ top(o) \in Int
      /\ top(o) = top(i) + (o.q - i.q) * h \/ top(i) + 188 <= top(o)
    BY AxisBetween
<1>3. o \in after
    OBVIOUS
<1>4. Min(starts) \in Int /\ Min(starts) <= o.q
    <2> DEFINE f == [p \in after |-> p.q]
    <2>1. f \in Surjection(after, starts)
        BY DEF Surjection
    <2>2. after \in SUBSET items /\ o.q \in starts
        OBVIOUS
    <2>3. \A p \in items : p.q \in Int
        BY AllLaidOut DEF LaidOut
    <2>4. starts \subseteq Int
        BY <2>2, <2>3
    <2> HIDE DEF after, starts, f
    <2>5. IsFiniteSet(after)
        BY <2>2, AllLaidOut, FS_Subset DEF LaidOut
    <2>6. IsFiniteSet(starts)
        BY <2>1, <2>5, FS_Surjection
    <2>7. Min(starts) \in starts /\ \A x \in starts : Min(starts) <= x
        BY <2>2, <2>4, <2>6, LeastDay DEF Min
    <2> QED
        BY <2>2, <2>4, <2>7
<1>5. countsOn(i, inLane) = IF room < 180 THEN 44 ELSE 180
    <2>1. countsOn(i, inLane) = IF after # {} /\ room < 180 THEN 44 ELSE 180
        BY DEF countsOn, isCompact, compactFallbackH, GLANCE_MIN_HEIGHT_PX
    <2> HIDE DEF after, starts, h
    <2> QED
        BY <1>3, <2>1
<1> DEFINE s == Min(starts)
<1> HIDE DEF h, starts
<1>6. room \in Int /\ room <= (o.q - i.q) * h /\ (o.q - i.q) * h \in Int
    <2>1. s - i.q \in Int /\ o.q - i.q \in Int /\ s - i.q <= o.q - i.q
        BY <1>1, <1>4
    <2> HIDE DEF s
    <2>2. (s - i.q) * h <= (o.q - i.q) * h /\ (s - i.q) * h \in Int /\ (o.q - i.q) * h \in Int
        BY <1>1, <2>1, ProductRises
    <2> QED
        BY <2>2 DEF s
<1>7. 44 <= (o.q - i.q) * h
    <2>1. 1 <= o.q - i.q /\ o.q - i.q \in Int
        BY <1>1
    <2>2. 1 * h <= (o.q - i.q) * h
        BY <1>1, <2>1, ProductRises
    <2> QED
        BY <1>1, <1>6, <2>2
<1> HIDE DEF room
<1> QED
    BY <1>2, <1>5, <1>6, <1>7

LEMMA HeightInt ==
    ASSUME AxisType, NEW i \in items, NEW inLane
    PROVE  cardHeight(i, inLane) \in Int
<1> DEFINE c == IF i.id = Ghost THEN drag.card ELSE i.id
<1>1. c \in Cards
    <2>1. CASE i \in cardItems
        BY <2>1, CardLength DEF cardItems, There
    <2>2. CASE i \in ghostNode
        BY <2>2 DEF AxisType, DragType, Hands, ghostNode
    <2> QED
        BY <2>1, <2>2, ItemsOf
<1>2. Heights[c].glance \in Nat /\ Heights[c].compact \in Nat
    BY <1>1, HeightsAssumption DEF Cards
<1> HIDE DEF c
<1> QED
    BY <1>2 DEF cardHeight, compactFallbackH, c

LEMMA BoardNeverCovers == AxisType => NeverCovered
<1> SUFFICES ASSUME AxisType, NEW d \in days,
                    NEW i \in DOMAIN lanes(d), NEW o \in DOMAIN lanes(d), drag.card \notin {i.id, o.id},
                    lanes(d)[i] = lanes(d)[o], before(i, o),
                    ~(cardHeight(i, laneMates(i, lanes(d))) > countsOn(i, laneMates(i, lanes(d))))
             PROVE  foot(i, lanes(d)) <= top(o)
    BY DEF NeverCovered
<1> DEFINE its == {p \in items : p.day = d /\ p.id # drag.card}
           on == {p \in items : p.day = d}
           lane == lanes(d)
<1>1. lane = [p \in on |-> IF p.id = drag.card THEN 0 ELSE Lanes(its)[p]]
    BY DEF lanes, Lanes, Laned, Lane
<1> HIDE DEF lane
<1>2. i \in its /\ o \in its /\ Lanes(its)[i] = Lanes(its)[o]
    BY <1>1 DEF lane
<1>3. Lined(its)
    <2>1. its \in SUBSET items
        OBVIOUS
    <2> HIDE DEF its
    <2> QED
        BY <2>1, ItemsLined, LinedPart
<1>4. i.q + i.len <= o.q
    BY <1>2, <1>3, LaneFree
<1> DEFINE inLane == laneMates(i, lane)
<1>5. inLane \in SUBSET items /\ i \in inLane /\ o \in inLane
    BY <1>1 DEF lane, laneMates
<1>6. foot(i, lane) = top(i) + cardHeight(i, inLane)
    BY DEF foot
<1>7. ~(cardHeight(i, inLane) > countsOn(i, inLane))
    BY DEF lane
<1> HIDE DEF inLane
<1>8. cardHeight(i, inLane) \in Int /\ countsOn(i, inLane) \in Int
    BY <1>2, HeightInt DEF countsOn, compactFallbackH, GLANCE_MIN_HEIGHT_PX
<1>9. cardHeight(i, inLane) <= countsOn(i, inLane)
    BY <1>7, <1>8
<1>10. top(i) + cardHeight(i, inLane) <= top(o)
    BY <1>4, <1>5, <1>8, <1>9, FitsBefore
<1> QED
    BY <1>6, <1>10 DEF lane

\* A board without a card has nothing in a lane.
LEMMA AxisCovers == AxisInv => NeverCovered
<1> SUFFICES ASSUME AxisInv PROVE NeverCovered
    OBVIOUS
<1>1. CASE Cards # {}
    BY <1>1, BoardNeverCovers DEF AxisInv, GhostInv
<1>2. CASE Cards = {}
    <2>1. drag.card = 0
        BY <1>2 DEF AxisInv
    <2>2. items = {}
        BY <1>2, <2>1 DEF items, ghostNode, There
    <2>3. \A d \in days : DOMAIN lanes(d) = {}
        BY <2>2 DEF lanes
    <2> QED
        BY <2>3 DEF NeverCovered
<1> QED
    BY <1>1, <1>2

LEMMA PagesStepsBoard == [PagesNext]_all => [Next]_vars
BY DEF PagesNext, BoardStep, HouseholdStep, MoneyStep, RosterStep, IntakeStep, all

\* Over any cards with any measured heights, at any zoom and whatever was dragged, placed, edited or reopened
\* before, a card ends, as high as it is drawn, above the next of its lane: but for the dragged card, and for a
\* card drawn higher than the layout counts on for its form.
THEOREM PagesNeverCovered == PagesSpec => []NeverCovered
<1>1. PagesInit => AxisInv
    BY InitAxisInv DEF PagesInit
<1>2. AxisInv /\ [PagesNext]_all => AxisInv'
    BY PagesStepsBoard, StepKeepsAxisInv
<1> QED
    BY <1>1, <1>2, AxisCovers, PTL DEF PagesSpec

\* The ghost keeps still on the board: over any cards, at any zoom and whatever was dragged, placed or authored
\* before, a pointer that is held still over the daytime goes on meaning the same quarter, although the layout it
\* is read against makes room for the ghost.
THEOREM PagesGhostSteady == PagesSpec => GhostSteady
<1>1. PagesInit => AxisInv
    BY InitAxisInv DEF PagesInit
<1>2. AxisInv /\ [PagesNext]_all => AxisInv'
    BY PagesStepsBoard, StepKeepsAxisInv
<1>3. AxisInv /\ [PagesNext]_all => [GhostStays]_vars
    BY PagesStepsBoard, StepKeepsAxisInv
<1> QED
    BY <1>1, <1>2, <1>3, PTL DEF PagesSpec, GhostSteady, GhostStays

=============================================================================
