------------------------------ MODULE MCPages ------------------------------
(***************************************************************************)
(* Five pages that share no state, on small instances: a behaviour opens   *)
(* one of them, the board, the household's records, the money glances, the *)
(* advisors' rosters or a trip's intake, and the others stay as they are.  *)
(***************************************************************************)
EXTENDS Board

CONSTANTS MaxRows, MaxClicks, Priced, PerPerson, MaxOps, MaxReads,
          Desks, Emails, Devices, MaxRequests, Viewers, Dates, MaxSaves

ASSUME BoundsAssumption == MaxRows \in Nat \ {0} /\ MaxClicks \in Nat

VARIABLES
  open,                                              \* the page that is open
  rows, stored, trip, shown, forms, queue, uploads,  \* Household
  panel, asks, clicks, troubles,
  status, party, invoices, ops, glances, reads, asked,  \* MoneyGlances
  clients, invited, linked, account, emailed, visits, homes, crossed,   \* Clients
  roster, requests, made,
  brief, view, calls, raced, writer, saves                  \* Intake

household == <<rows, stored, trip, shown, forms, queue, uploads, panel, asks, clicks, troubles>>
money == <<status, party, invoices, ops, glances, reads, asked>>
rosters == <<clients, invited, linked, account, emailed, visits, homes, crossed, roster, requests, made>>
intake == <<brief, view, calls, raced, writer, saves>>
all == <<open, vars, household, money, rosters, intake>>

H == INSTANCE Household WITH mishaps <- troubles
M == INSTANCE MoneyGlances WITH Cards <- Priced
R == INSTANCE Clients WITH Advisors <- Desks
I == INSTANCE Intake WITH trip <- brief

CardLengths == <<6, 2, 4>>
\* A proposal with its buttons beneath, tall in either form, a plain card, and one not measured yet.
CardHeights == <<[glance |-> 230, compact |-> 72], [glance |-> 166, compact |-> 44], [glance |-> 0, compact |-> 0]>>
CardFacts == <<[type |-> "flight", cost |-> 6000, cell |-> 1],
               [type |-> "note", cost |-> NoCost, cell |-> 0], [type |-> "meal", cost |-> 0, cell |-> 1]>>
FirstStarts == {Nowhere, <<1, 20>>, <<2, 40>>}
OtherStarts == {Nowhere, <<2, 88>>}
TripDates == {{}, {2, 3}}

PagesInit ==
  /\ open \in {"board", "household", "money", "rosters", "intake"}
  /\ H!Init /\ M!Init /\ R!Init /\ I!Init /\ Init
  \* A page that stays closed starts in one way.
  /\ open # "board" => /\ node[1] = Node(<<1, 20>>) /\ node[2] = Node(Nowhere)
                       /\ window = {} /\ zoom = 9 /\ mayWrite
  /\ open # "household" => H!Kind = "contact"
  /\ open # "money" => status = [c \in Priced |-> "approved"] /\ Len(invoices) = 1
  /\ open # "intake" => ~brief.brief

BoardStep == open = "board" /\ Next /\ UNCHANGED <<open, household, money, rosters, intake>>
HouseholdStep == open = "household" /\ H!Next /\ UNCHANGED <<open, vars, money, rosters, intake>>
MoneyStep == open = "money" /\ M!Next /\ UNCHANGED <<open, vars, household, rosters, intake>>
RosterStep == open = "rosters" /\ R!Next /\ UNCHANGED <<open, vars, household, money, intake>>
IntakeStep == open = "intake" /\ I!Next /\ UNCHANGED <<open, vars, household, money, rosters>>

PagesNext == BoardStep \/ HouseholdStep \/ MoneyStep \/ RosterStep \/ IntakeStep

PagesSpec == PagesInit /\ [][PagesNext]_all

\* The household's properties, named by what they say in Household.
UploadedHasBytes == H!UploadedHasBytes
QuietHouseholdAgrees == H!QuietHouseholdAgrees
PrimaryMovesOnPurpose == H!PrimaryMovesOnPurpose

\* The glances' properties, named by what they say in MoneyGlances.
MoneyPagesAgree == M!MoneyPagesAgree
GlancesMoveOn == M!GlancesMoveOn

\* The rosters' and the intake's, named by what they say in Clients and Intake.
InvitesLandOnce == R!InvitesLandOnce
TimingFollowsMode == I!TimingFollowsMode
=============================================================================
