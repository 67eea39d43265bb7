------------------------------- MODULE Intake -------------------------------
(***************************************************************************)
(* The brief of a trip and when it is: the intake that stands before a     *)
(* trip without a brief, and again behind the dashboard's edit, on the     *)
(* advisor's page and on the traveler's; and the concierge, whose tool     *)
(* sets the dates too.  A save is a partial update of a row that another   *)
(* save may be writing: the service reads the row, checks the range the    *)
(* fields would make, and writes the columns that differ from what it has  *)
(* read.                                                                   *)
(***************************************************************************)
EXTENDS Naturals, FiniteSets

CONSTANTS
  Viewers,   \* those with the trip's page open
  Dates,     \* the dates one may give, 0 for none
  MaxSaves   \* bound: the saves

Nights == 7   \* a number of nights; 0 for none
Concierge == "concierge"
Writers == Viewers \cup {Concierge}

VARIABLES
  trip,    \* brief, timing_kind, date_start, date_end, duration_nights
  view,    \* per viewer: "away", "intake", "shell" or "edit"
  calls,   \* per viewer, and for the concierge: the saves under way
  raced,   \* history: a save wrote over a row that had changed since it read it
  writer,  \* history: who wrote the row last
  saves    \* history: how many saves were asked for

vars == <<trip, view, calls, raced, writer, saves>>

Idle(v) == calls[v] = <<>>

-----------------------------------------------------------------------------
(* The page.                                                               *)

\* A trip without a brief begins with the intake.
ItineraryShell(v) ==
  /\ Idle(v)
  /\ view' = [view EXCEPT ![v] = IF trip.brief THEN "shell" ELSE "intake"]
  /\ UNCHANGED <<trip, calls, raced, writer, saves>>

onEdit(v) ==
  /\ view[v] = "shell"
  /\ view' = [view EXCEPT ![v] = "edit"]
  /\ UNCHANGED <<trip, calls, raced, writer, saves>>

onSkip(v) ==
  /\ view[v] \in {"intake", "edit"} /\ Idle(v)
  /\ view' = [view EXCEPT ![v] = "shell"]
  /\ UNCHANGED <<trip, calls, raced, writer, saves>>

\* Slip: only what the mode asks for is sent.
BodyOfMode(mode, from, to, nights) ==
  CASE mode = "flexible" -> [brief |-> TRUE, timing_kind |-> mode]
    [] mode = "exact" -> [brief |-> TRUE, timing_kind |-> mode, date_start |-> from, date_end |-> to]
    [] OTHER -> [brief |-> TRUE, timing_kind |-> mode, date_start |-> from, date_end |-> to, duration_nights |-> nights]

\* What a save sends: all of it, with nothing where the mode has nothing to say.
Body(mode, from, to, nights) ==
  [brief |-> TRUE, timing_kind |-> mode,
   date_start |-> IF mode = "flexible" THEN 0 ELSE from,
   date_end |-> IF mode = "flexible" THEN 0 ELSE to,
   duration_nights |-> IF mode = "window" THEN nights ELSE 0]

InOrder(from, to) == from = 0 \/ to = 0 \/ from <= to

\* The form is filled in anyhow, its dates in order unless the mode has none.
save(v, mode, from, to, nights) ==
  /\ view[v] \in {"intake", "edit"} /\ Idle(v) /\ saves < MaxSaves
  /\ mode = "flexible" \/ InOrder(from, to)
  /\ saves' = saves + 1
  /\ calls' = [calls EXCEPT ![v] = <<"sent", Body(mode, from, to, nights)>>]
  /\ UNCHANGED <<trip, view, raced, writer>>

\* The page goes on to the shell, as it was rendered before; behind the dashboard's edit it is rendered anew.
onSaved(v) ==
  /\ calls[v] = <<"ok">>
  /\ calls' = [calls EXCEPT ![v] = <<>>]
  /\ view' = [view EXCEPT ![v] = "shell"]
  /\ UNCHANGED <<trip, raced, writer, saves>>

\* Refused or lost on its way there or back: the form stays, with its words.
Fails(v) ==
  /\ ~Idle(v)
  /\ calls' = [calls EXCEPT ![v] = <<>>]
  /\ UNCHANGED <<trip, view, raced, writer, saves>>

-----------------------------------------------------------------------------
(* The concierge.                                                          *)

\* The tool clears everything for a flexible trip; dates it must have, in whatever order, and the number
\* of nights it sends when it is told one.
ToolBody(kind, from, to, nights) ==
  IF kind = "flexible" THEN [timing_kind |-> kind, date_start |-> 0, date_end |-> 0, duration_nights |-> 0]
  ELSE IF nights = 0 THEN [timing_kind |-> kind, date_start |-> from, date_end |-> to]
  ELSE [timing_kind |-> kind, date_start |-> from, date_end |-> to, duration_nights |-> nights]

update_trip_timing(kind, from, to, nights) ==
  /\ Idle(Concierge) /\ saves < MaxSaves
  /\ kind = "flexible" \/ (from # 0 /\ to # 0)
  /\ saves' = saves + 1
  /\ calls' = [calls EXCEPT ![Concierge] = <<"sent", ToolBody(kind, from, to, nights)>>]
  /\ UNCHANGED <<trip, view, raced, writer>>

\* The tool's answer.
Answered ==
  /\ calls[Concierge] = <<"ok">>
  /\ calls' = [calls EXCEPT ![Concierge] = <<>>]
  /\ UNCHANGED <<trip, view, raced, writer, saves>>

-----------------------------------------------------------------------------
(* The service.                                                            *)

\* A row with some of its columns replaced.
Over(fields, row) == [k \in DOMAIN row |-> IF k \in DOMAIN fields THEN fields[k] ELSE row[k]]

\* The row is read, and the range it would have is checked.
Loads(v) ==
  LET fields == calls[v][2]
      after == Over(fields, trip) IN
  /\ ~Idle(v) /\ calls[v][1] = "sent"
  /\ calls' = [calls EXCEPT ![v] = IF InOrder(after.date_start, after.date_end) THEN <<"read", fields, trip>> ELSE <<>>]
  /\ UNCHANGED <<trip, view, raced, writer, saves>>

\* The columns that differ from what was read are written; the table refuses a range that ends before it starts.
update_itinerary_details(v) ==
  LET fields == calls[v][2]
      seen == calls[v][3]
      changed == {k \in DOMAIN fields : fields[k] # seen[k]}
      after == Over([k \in changed |-> fields[k]], trip) IN
  /\ ~Idle(v) /\ calls[v][1] = "read"
  /\ IF InOrder(after.date_start, after.date_end)
     THEN /\ trip' = after
          /\ raced' = (raced \/ seen # trip)
          /\ writer' = v
          /\ calls' = [calls EXCEPT ![v] = <<"ok">>]
     ELSE calls' = [calls EXCEPT ![v] = <<>>] /\ UNCHANGED <<trip, raced, writer>>
  /\ UNCHANGED <<view, saves>>

-----------------------------------------------------------------------------

Init ==
  \* The caller who makes the trip may give it its dates, or a window.
  /\ trip \in {[brief |-> FALSE, timing_kind |-> "none", date_start |-> 0, date_end |-> 0, duration_nights |-> 0],
              [brief |-> TRUE, timing_kind |-> "window", date_start |-> 1, date_end |-> 2, duration_nights |-> Nights]}
  /\ view = [v \in Viewers |-> "away"]
  /\ calls = [v \in Writers |-> <<>>] /\ raced = FALSE /\ saves = 0
  /\ writer = "nobody"

Kinds == {"exact", "window", "flexible"}

Next ==
  \/ \E v \in Viewers :
       \/ ItineraryShell(v) \/ onEdit(v) \/ onSkip(v) \/ onSaved(v)
       \/ \E mode \in Kinds, from, to \in Dates, nights \in {0, Nights} : save(v, mode, from, to, nights)
  \/ \E kind \in Kinds, from, to \in Dates, nights \in {0, Nights} : update_trip_timing(kind, from, to, nights)
  \/ Answered
  \/ \E v \in Writers : Fails(v) \/ Loads(v) \/ update_itinerary_details(v)

Spec == Init /\ [][Next]_vars

-----------------------------------------------------------------------------
(* Properties.                                                             *)

\* The trip's dates are in order always; and unless a save wrote over another it had not read, a flexible
\* trip has neither dates nor a number of nights, and only a window has a number of nights, but for exact
\* dates from the concierge, which keeps the nights it is not told and takes those it is.
TimingFollowsMode ==
  /\ InOrder(trip.date_start, trip.date_end)
  /\ raced \/ /\ trip.timing_kind = "flexible" => trip.date_start = 0 /\ trip.date_end = 0
              /\ trip.duration_nights # 0 =>
                   trip.timing_kind = "window" \/ (trip.timing_kind = "exact" /\ writer = Concierge)

=============================================================================
