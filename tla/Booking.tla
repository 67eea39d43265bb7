------------------------------ MODULE Booking ------------------------------
(***************************************************************************)
(* The money gate and the life of a booking: services/bookings.py, the     *)
(* part of update_node that moves a node's status, and the two outside     *)
(* parties a booking talks to, the supplier that holds a slot and the card *)
(* processor that gives money back.                                        *)
(*                                                                         *)
(* A request loads rows and decides, calls the outside parties one after   *)
(* the other, and writes at its end, on what it loaded at its beginning:   *)
(* no row is locked in between.  Invoices appear here as whole sets of     *)
(* lines that are billed and paid in one step: module Billing has their    *)
(* detail.  A node may be charged in parts, and corrected (a discount, a   *)
(* fee, an adjustment that names it) on any invoice, before it is booked   *)
(* or after.                                                               *)
(***************************************************************************)
EXTENDS Integers, FiniteSets, FiniteSetsExt

CONSTANTS
    Workers,      \* requests being served at once
    Nodes,        \* bookable nodes of the itinerary
    Flights,      \* the nodes booked at their latest quote
    Supplied,     \* the nodes whose source is a supplier that can book
    Cost,         \* effective_node_cost of each node
    Quotes,       \* amounts a re-priced offer may come back with
    Invoices,     \* invoices that may be billed, numbered in the order they are
    Lines,        \* their lines, numbered in creation order: [id, inv, node, kind, amount]
    Attempts,     \* bounds the bookings tried: a booking row and a supplier order each
    None

ASSUME BookingAssumption ==
    /\ Flights \subseteq Nodes /\ Supplied \subseteq Nodes
    /\ None \notin Nodes \cup Attempts \cup Workers \cup Int
    /\ Cost \in [Nodes -> Nat \ {0}] /\ Quotes \subseteq Nat \ {0}
    /\ Invoices \subseteq Nat
    /\ Lines \subseteq [id : Nat \ {0}, inv : Invoices, node : Nodes,
                       kind : {"charge", "correction"}, amount : Int \ {0}]
    /\ IsFiniteSet(Lines) /\ \A l, m \in Lines : l.id = m.id => l = m

VARIABLES
    node,       \* nodes.status ("proposed" stands for every status before approved)
    quote,      \* amount of the latest offer, None when there is none or it expired
    invoice,    \* invoices.status
    reversed,   \* ids of the lines that have a reversal line
    waived,     \* history: discounts on a node paid for since it last passed the gate
    txn,        \* the processor's transaction behind a paid invoice
    bookings,   \* rows of bookings
    refunds,    \* per booking: rows of payments with status refunded
    returned,   \* per booking: how often the processor gave money back for it
    unheard,    \* history: attempts for which an outside answer never arrived
    orders,     \* the supplier's side of each attempt
    req         \* per worker: the request it is serving

vars == <<node, quote, invoice, reversed, waived, txn, bookings, refunds, returned, unheard, orders, req>>
ledger == <<invoice, reversed, waived, txn>>
money  == <<refunds, returned>>

NodeStatuses  == {"proposed", "approved", "booked", "confirmed"}
BookedStatus  == {"booked", "confirmed"}
OrderStatuses == {"none", "held", "confirmed", "released"}

NoTxn == [state |-> "none", charged |-> 0, returned |-> 0]
NoReq == [pc |-> "idle", id |-> None, node |-> None, line |-> 0, amount |-> 0,
          unpaid |-> "no", reverse |-> "no", back |-> "none"]

Free(w) == req[w] = NoReq
End(w)  == req' = [req EXCEPT ![w] = NoReq]
Go(w, pc) == req' = [req EXCEPT ![w].pc = pc]

-----------------------------------------------------------------------------
(* Reads. *)

Live(n) == {b \in bookings : b.node = n /\ b.state = "live"}

Amount(n) == IF n \in Flights THEN quote[n] ELSE Cost[n]

LinesOn(n, statuses) == {l \in Lines : l.node = n /\ invoice[l.inv] \in statuses}

Sum(ls) == MapThenSumSet(LAMBDA l : l.amount, ls)

Counted(ls) == {l \in ls : l.id \notin reversed}

\* Signed sum of the node's lines: corrections count, a line and its reversal cancel out.
Coverage(n, statuses) == Sum(Counted(LinesOn(n, statuses)))

ChargesOn(n, statuses) == {l \in LinesOn(n, statuses) : l.kind = "charge"}

\* What overbilling is measured against: charges only.
ChargedTotal(n) == Sum(Counted(ChargesOn(n, {"issued", "paid"})))

\* Slip: a partial payment is enough.
CoversAny(n, statuses) == Coverage(n, statuses) > 0

Covers(n, statuses) == Coverage(n, statuses) >= Amount(n)

\* The latest charge of the node, reversed or not; 0 when corrections alone cover it.
CoveringLine(n, statuses) == Max({0} \cup {l.id : l \in ChargesOn(n, statuses)})

InvoiceOf(id) == (CHOOSE l \in Lines : l.id = id).inv

FreshAttempts == Attempts \ ({b.id : b \in bookings} \cup {req[w].id : w \in Workers}
                             \cup {a \in Attempts : orders[a] # "none"})

-----------------------------------------------------------------------------
(* The advisor prepares: status changes, quotes, invoices. *)

\* update_node: booked and confirmed are refused as targets, leaving them is not.
SetStatus(n, s) ==
    /\ s \in {"proposed", "approved"} /\ s # node[n]
    /\ node' = [node EXCEPT ![n] = s]
    /\ UNCHANGED <<quote, ledger, bookings, money, unheard, orders, req>>

RefreshOffer(n, q) ==
    /\ n \in Flights /\ q # quote[n]
    /\ quote' = [quote EXCEPT ![n] = q]
    /\ UNCHANGED <<node, ledger, bookings, money, unheard, orders, req>>

OfferExpires(n) ==
    /\ quote[n] # None
    /\ quote' = [quote EXCEPT ![n] = None]
    /\ UNCHANGED <<node, ledger, bookings, money, unheard, orders, req>>

LinesOf(i) == {l \in Lines : l.inv = i}

\* Create, assemble and issue an invoice, its charges within the cost of each of its nodes.
Bill(i) ==
    /\ invoice[i] = "none"
    /\ \A j \in Invoices : j < i => invoice[j] # "none"
    /\ \A n \in Nodes :
          LET new == {l \in LinesOf(i) : l.node = n /\ l.kind = "charge"}
          IN  new # {} => ChargedTotal(n) + Sum(new) <= Cost[n]
    /\ invoice' = [invoice EXCEPT ![i] = "issued"]
    /\ UNCHANGED <<node, quote, reversed, waived, txn, bookings, money, unheard, orders, req>>

Discounts(n, i) == {l \in Counted(LinesOf(i)) : l.node = n /\ l.amount < 0}

Pay(i) ==
    LET total == Sum(Counted(LinesOf(i)))
    IN  /\ invoice[i] = "issued"
        /\ total > 0
        /\ invoice' = [invoice EXCEPT ![i] = "paid"]
        /\ txn' = [txn EXCEPT ![i] = [state |-> "unsettled", charged |-> total, returned |-> 0]]
        /\ waived' = [n \in Nodes |-> waived[n] - Sum(Discounts(n, i))]
        /\ UNCHANGED <<node, quote, reversed, bookings, money, unheard, orders, req>>

\* The processor settles its transactions, overnight.
Settle(i) ==
    /\ txn[i].state = "unsettled"
    /\ txn' = [txn EXCEPT ![i].state = "settled"]
    /\ UNCHANGED <<node, quote, invoice, reversed, waived, bookings, money, unheard, orders, req>>

-----------------------------------------------------------------------------
(* book_node *)

BookRequest(w, a, n, statuses, unpaid) ==
    req' = [req EXCEPT ![w] = [pc |-> IF n \in Supplied THEN "reserve" ELSE "book",
                               id |-> a, node |-> n, line |-> CoveringLine(n, statuses),
                               amount |-> Amount(n), unpaid |-> unpaid, reverse |-> "no",
                               back |-> "none"]]

Bookable(n) == Live(n) = {} /\ node[n] = "approved" /\ Amount(n) # None

\* The money gate; with override_unpaid an issued invoice is enough.
BookLoad(w, a, n, override) ==
    /\ Free(w) /\ a \in FreshAttempts
    /\ Bookable(n)
    /\ \/ Covers(n, {"paid"}) /\ BookRequest(w, a, n, {"paid"}, "no")
       \/ /\ ~Covers(n, {"paid"})
          /\ override
          /\ Covers(n, {"paid", "issued"})
          /\ BookRequest(w, a, n, {"paid", "issued"}, "yes")
    /\ waived' = [waived EXCEPT ![n] = 0]
    /\ UNCHANGED <<node, quote, invoice, reversed, txn, bookings, money, unheard, orders>>

\* Hold the slot.  A failure ends the request, though the hold may exist upstream.
Reserve(w) ==
    /\ req[w].pc = "reserve"
    /\ \/ orders' = [orders EXCEPT ![req[w].id] = "held"] /\ Go(w, "confirm")
       \/ orders' \in {orders, [orders EXCEPT ![req[w].id] = "held"]} /\ End(w)
    /\ UNCHANGED <<node, quote, ledger, bookings, money, unheard>>

HoldExpires(a) ==
    /\ orders[a] = "held"
    /\ orders' = [orders EXCEPT ![a] = "released"]
    /\ UNCHANGED <<node, quote, ledger, bookings, money, unheard, req>>

Confirmed(w) == orders[req[w].id] = "held" /\ orders' = [orders EXCEPT ![req[w].id] = "confirmed"]

\* Confirm the slot held; without a good answer, abort.
Confirm(w) ==
    /\ req[w].pc = "confirm"
    /\ \/ Confirmed(w) /\ Go(w, "book") /\ UNCHANGED unheard
       \/ Confirmed(w) /\ Go(w, "abort") /\ unheard' = unheard \cup {req[w].id}
       \/ Go(w, "abort") /\ UNCHANGED <<orders, unheard>>
    /\ UNCHANGED <<node, quote, ledger, bookings, money>>

\* abort releases a hold, not a confirmed order, and its own failure is only logged.
Abort(w) ==
    /\ req[w].pc = "abort"
    /\ \/ orders[req[w].id] = "held" /\ orders' = [orders EXCEPT ![req[w].id] = "released"]
       \/ UNCHANGED orders
    /\ End(w)
    /\ UNCHANGED <<node, quote, ledger, bookings, money, unheard>>

\* bookings_one_per_node
NoOtherLive(n) == Live(n) = {}

Book(w) ==
    /\ req[w].pc = "book"
    /\ IF NoOtherLive(req[w].node)
       THEN /\ bookings' = bookings \cup
                  {[id |-> req[w].id, node |-> req[w].node, line |-> req[w].line,
                    amount |-> req[w].amount, unpaid |-> req[w].unpaid, state |-> "live",
                    back |-> "none"]}
            /\ node' = [node EXCEPT ![req[w].node] =
                           IF req[w].node \in Supplied THEN "confirmed" ELSE "booked"]
       ELSE UNCHANGED <<bookings, node>>
    /\ End(w)
    /\ UNCHANGED <<quote, ledger, money, unheard, orders>>

-----------------------------------------------------------------------------
(* record_confirmation *)

RequestOn(w, b, pc) ==
    req' = [req EXCEPT ![w] = [pc |-> pc, id |-> b.id, node |-> b.node, line |-> b.line,
                               amount |-> b.amount, unpaid |-> b.unpaid, reverse |-> "no",
                               back |-> "none"]]

ConfirmationLoad(w, n) ==
    /\ Free(w)
    /\ node[n] = "booked"
    /\ \E b \in Live(n) : RequestOn(w, b, "advance")
    /\ UNCHANGED <<node, quote, ledger, bookings, money, unheard, orders>>

RecordConfirmation(w) ==
    /\ req[w].pc = "advance"
    /\ node' = [node EXCEPT ![req[w].node] = "confirmed"]
    /\ End(w)
    /\ UNCHANGED <<quote, ledger, bookings, money, unheard, orders>>

-----------------------------------------------------------------------------
(* cancel_booking *)

CancelLoad(w, n) ==
    /\ Free(w)
    /\ node[n] \in BookedStatus
    /\ \E b \in Live(n) : RequestOn(w, b, IF n \in Supplied THEN "unsupply" ELSE "refund")
    /\ UNCHANGED <<node, quote, ledger, bookings, money, unheard, orders>>

Released(w) == orders' = [orders EXCEPT ![req[w].id] = "released"]

\* Slip: a supplier failure does not stop the cancellation.
CancelOrderAnyway(w) ==
    /\ req[w].pc = "unsupply"
    /\ Released(w) \/ UNCHANGED orders
    /\ Go(w, "refund")
    /\ UNCHANGED <<node, quote, ledger, bookings, money, unheard>>

\* The supplier first.  An error ends the request, though the order may be gone.
CancelOrder(w) ==
    /\ req[w].pc = "unsupply"
    /\ \/ Released(w) /\ Go(w, "refund")
       \/ (Released(w) \/ UNCHANGED orders) /\ End(w)
    /\ UNCHANGED <<node, quote, ledger, bookings, money, unheard>>

\* On to the writes, having looked whether the covering line is reversed already.
ToCancel(w, back) ==
    req' = [req EXCEPT ![w] = [pc |-> "cancel", id |-> @.id, node |-> @.node, line |-> @.line,
                               amount |-> @.amount, unpaid |-> @.unpaid,
                               reverse |-> IF @.line \in reversed \cup {0} THEN "no" ELSE "yes",
                               back |-> back]]

\* There is a succeeded payment to give back, and the booking was not an override.
Owes(w) ==
    /\ req[w].unpaid = "no"
    /\ req[w].line # 0
    /\ txn[InvoiceOf(req[w].line)].state # "none"

NothingToRefund(w) ==
    /\ req[w].pc = "refund"
    /\ ~Owes(w)
    /\ ToCancel(w, "none")
    /\ UNCHANGED <<node, quote, ledger, bookings, money, unheard, orders>>

\* gateway.refund: part of a settled transaction, or the whole of an unsettled one.
GiveBack(w, back) ==
    LET i == InvoiceOf(req[w].line)
    IN  /\ returned' = [returned EXCEPT ![req[w].id] = @ + 1]
        /\ \/ /\ back = "refunded" /\ txn[i].state = "settled"
              /\ txn[i].returned + req[w].amount <= txn[i].charged
              /\ txn' = [txn EXCEPT ![i].returned = @ + req[w].amount]
           \/ /\ back = "voided" /\ txn[i].state = "unsettled"
              /\ txn' = [txn EXCEPT ![i].state = "voided", ![i].returned = txn[i].charged]

Refund(w, back) ==
    /\ req[w].pc = "refund" /\ Owes(w)
    /\ GiveBack(w, back)
    /\ ToCancel(w, back)
    /\ UNCHANGED <<node, quote, invoice, reversed, waived, bookings, refunds, unheard, orders>>

\* The processor gave the money back and PaymentGatewayError hides it: all is rolled back.
RefundUnanswered(w, back) ==
    /\ req[w].pc = "refund" /\ Owes(w)
    /\ GiveBack(w, back)
    /\ unheard' = unheard \cup {req[w].id}
    /\ End(w)
    /\ UNCHANGED <<node, quote, invoice, reversed, waived, bookings, refunds, orders>>

\* Declined, unreachable or not configured: nothing is written.
RefundRefused(w) ==
    /\ req[w].pc = "refund" /\ Owes(w)
    /\ End(w)
    /\ UNCHANGED <<node, quote, ledger, bookings, money, unheard, orders>>

Cancelled(w) ==
    {IF b.id = req[w].id THEN [id |-> b.id, node |-> b.node, line |-> b.line,
                               amount |-> b.amount, unpaid |-> b.unpaid,
                               state |-> "cancelled", back |-> req[w].back]
                         ELSE b : b \in bookings}

\* The unique index on reversals: another request reversed the line since.
ReversalTaken(w) == req[w].reverse = "yes" /\ req[w].line \in reversed

Cancel(w) ==
    /\ req[w].pc = "cancel"
    /\ IF ReversalTaken(w)
       THEN UNCHANGED <<bookings, reversed, refunds, node>>
       ELSE /\ bookings' = Cancelled(w)
            /\ reversed' = IF req[w].reverse = "yes" THEN reversed \cup {req[w].line}
                                                      ELSE reversed
            /\ refunds' = IF req[w].back = "none" THEN refunds
                          ELSE [refunds EXCEPT ![req[w].id] = @ + 1]
            /\ node' = [node EXCEPT ![req[w].node] = "approved"]
    /\ End(w)
    /\ UNCHANGED <<quote, invoice, waived, txn, returned, unheard, orders>>

-----------------------------------------------------------------------------
Init ==
    /\ node = [n \in Nodes |-> "proposed"]
    /\ quote = [n \in Nodes |-> None]
    /\ invoice = [i \in Invoices |-> "none"]
    /\ reversed = {}
    /\ waived = [n \in Nodes |-> 0]
    /\ txn = [i \in Invoices |-> NoTxn]
    /\ bookings = {}
    /\ refunds = [a \in Attempts |-> 0]
    /\ returned = [a \in Attempts |-> 0]
    /\ unheard = {}
    /\ orders = [a \in Attempts |-> "none"]
    /\ req = [w \in Workers |-> NoReq]

Surroundings ==
    \/ \E n \in Nodes, s \in NodeStatuses : SetStatus(n, s)
    \/ \E n \in Nodes, q \in Quotes : RefreshOffer(n, q)
    \/ \E n \in Nodes : OfferExpires(n)
    \/ \E i \in Invoices : Bill(i) \/ Pay(i) \/ Settle(i)
    \/ \E a \in Attempts : HoldExpires(a)

BookStep(w) ==
    \/ \E a \in Attempts, n \in Nodes, o \in BOOLEAN : BookLoad(w, a, n, o)
    \/ Reserve(w) \/ Confirm(w) \/ Abort(w) \/ Book(w)

CancelStep(w) ==
    \/ \E n \in Nodes : CancelLoad(w, n)
    \/ CancelOrder(w)
    \/ NothingToRefund(w)
    \/ \E back \in {"refunded", "voided"} : Refund(w, back) \/ RefundUnanswered(w, back)
    \/ RefundRefused(w)
    \/ Cancel(w)

Next ==
    \/ Surroundings
    \/ \E w \in Workers :
          \/ BookStep(w)
          \/ \E n \in Nodes : ConfirmationLoad(w, n)
          \/ RecordConfirmation(w)
          \/ CancelStep(w)

Spec == Init /\ [][Next]_vars

-----------------------------------------------------------------------------
(* Properties. *)

\* "we never return the traveler's money while the operator still holds the booking".
OperatorLetsGoFirst ==
    \A a \in Attempts : returned[a] > 0 => orders[a] \notin {"held", "confirmed"}

\* "Pay before book": a booking made without override is covered by paid lines for as long as it
\* lives, but for the discounts on its node that were paid for after its gate: nothing else, no
\* cancellation, refund, reversal or new quote, takes the cover away under it.
MoneyGate ==
    \A b \in bookings : (b.state = "live" /\ b.unpaid = "no") =>
        Coverage(b.node, {"paid"}) + waived[b.node] >= b.amount

\* An order the supplier confirmed is a live booking here, or about to become one,
\* unless its confirmation was never heard.
OrdersAccounted ==
    \A a \in Attempts : orders[a] = "confirmed" =>
        \/ a \in unheard
        \/ \E b \in bookings : b.id = a /\ b.state = "live"
        \/ \E w \in Workers : req[w].pc = "book" /\ req[w].id = a

=============================================================================
