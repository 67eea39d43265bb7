----------------------------- MODULE MCBooking -----------------------------
(* Small instances of Booking for TLC. *)
EXTENDS Booking, TLC

CONSTANTS hotel, flight

MCCost == [n \in Nodes |-> 4]

Line(id, i, n, kind, amount) == [id |-> id, inv |-> i, node |-> n, kind |-> kind, amount |-> amount]

\* Every invoice pays for one node in full; the hotel can be billed again after a refund.
OneCharge == {Line(1, 1, hotel, "charge", 4), Line(2, 2, hotel, "charge", 4)}

\* The hotel in a deposit and a balance, the flight, corrections of both afterwards, and the hotel's
\* balance again when a cancellation reversed it.
HotelAndFlight == {Line(1, 1, hotel, "charge", 3),
                   Line(2, 2, hotel, "charge", 1), Line(3, 2, flight, "charge", 4),
                   Line(4, 3, hotel, "correction", -1), Line(5, 3, flight, "correction", 2),
                   Line(6, 4, hotel, "charge", 1)}

Symmetry == Permutations(Workers) \cup Permutations(Attempts)
=============================================================================
